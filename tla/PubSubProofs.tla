----------------------------- MODULE PubSubProofs -----------------------------
(* Theorems about the two halves of the Pub/Sub service, with their proofs.*)
(* First PubSubService, for every set of calls and targets: the invariant  *)
(* of PubSubInvariant is shown inductive part by part; the safety          *)
(* properties and the refinement follow from it.  Then PubSubDelivery, the *)
(* messages and the handlers, over the names of PubSubListeners.           *)
EXTENDS
  PubSubInvariant, PubSubRefinement, PubSubListeners, FiniteSetTheorems, NaturalsInduction,
  WellFoundedInduction, TLAPS

(* What Tail keeps of a sequence.                                          *)
LEMMA TailFacts ==
  ASSUME NEW S, NEW s \in Seq(S), s # <<>>
  PROVE  /\ Tail(s) \in Seq(S)
         /\ DOMAIN s = 1 .. Len(s) /\ Len(s) \in Nat /\ Len(s) >= 1
         /\ DOMAIN Tail(s) = 1 .. (Len(s) - 1)
         /\ \A i \in DOMAIN Tail(s) : i + 1 \in DOMAIN s /\ Tail(s)[i] = s[i + 1]
         /\ \A i \in DOMAIN s : i # 1 => i - 1 \in DOMAIN Tail(s) /\ Tail(s)[i - 1] = s[i]
         /\ 1 \in DOMAIN s /\ Head(s) = s[1] /\ Head(s) \in S
OBVIOUS

(* What Append adds to a sequence.                                         *)
LEMMA AppendFacts ==
  ASSUME NEW S, NEW s \in Seq(S), NEW e \in S
  PROVE  /\ Append(s, e) \in Seq(S)
         /\ DOMAIN s = 1 .. Len(s) /\ Len(s) \in Nat
         /\ DOMAIN Append(s, e) = 1 .. (Len(s) + 1)
         /\ \A i \in DOMAIN s : i \in DOMAIN Append(s, e) /\ Append(s, e)[i] = s[i]
         /\ \A i \in DOMAIN Append(s, e) : i = Len(s) + 1 \/ i \in DOMAIN s
         /\ Len(s) + 1 \in DOMAIN Append(s, e)
         /\ Append(s, e)[Len(s) + 1] = e
OBVIOUS

LEMMA AppendHead ==
  ASSUME NEW S, NEW s \in Seq(S), NEW e \in S, s # <<>>
  PROVE  Append(s, e) # <<>> /\ Head(Append(s, e)) = Head(s)
OBVIOUS

LEMMA CommandTypes ==
  ASSUME NEW c \in Calls
  PROVE  /\ Command("subscribe", c) \in Commands
         /\ Command("unsubscribe", c) \in Commands
         /\ Quit \in Commands
         /\ Command("subscribe", c).op = "subscribe"
         /\ Command("unsubscribe", c).op = "unsubscribe"
         /\ Quit.op = "quit"
         /\ Command("subscribe", c).call = c
         /\ Command("unsubscribe", c).call = c
BY DEF Command, Commands, Quit

LEMMA QuitType == Quit \in Commands /\ Quit.op = "quit" /\ Quit.call = NoRef
BY DEF Command, Commands, Quit

(* Every step preserves the types, given the rest of the invariant.        *)
LEMMA TypeStep == IInv /\ [Next]_vars => TypeOK'
<1> SUFFICES ASSUME IInv, [Next]_vars PROVE TypeOK'
  OBVIOUS
<1> USE CallsAssumption DEF entries, callers, hooks, wire
<1>a. TypeOK /\ EntryInv /\ ReactionInv /\ CountInv /\ CommandInv
  BY DEF IInv
<1>1. ASSUME NEW c \in Calls, SubscribeRefused(c) PROVE TypeOK'
  BY <1>1, <1>a DEF SubscribeRefused, TypeOK, Phases
<1>2. ASSUME NEW c \in Calls, SubscribeFirst(c) PROVE TypeOK'
  <2>1. <<Cleanup, c>> \in Seq(Calls \union {Cleanup})
    OBVIOUS
  <2>2. queue' \in Seq(Commands)
    <3>1. queue \in Seq(Commands) /\ Command("subscribe", c) \in Commands
      BY <1>a, CommandTypes DEF TypeOK
    <3>2. Append(queue, Command("subscribe", c)) \in Seq(Commands)
      BY <3>1, AppendFacts
    <3>3. QED
      BY <1>2, <3>1, <3>2 DEF SubscribeFirst
  <2>3. QED
    BY <1>2, <1>a, <2>1, <2>2 DEF SubscribeFirst, EnsureSubscriber, TypeOK, Phases
<1>3. ASSUME NEW c \in Calls, SubscribeJoin(c) PROVE TypeOK'
  <2> DEFINE r == refs[TargetOf[c]]
  <2>1. r \in Calls
    BY <1>3, <1>a DEF SubscribeJoin, TypeOK
  <2>2. Append(reactions[r], c) \in Seq(Calls \union {Cleanup})
    BY <2>1, <1>a DEF TypeOK
  <2>3. QED
    <3>1. subscriber' \in BOOLEAN /\ link' \in {"none", "down", "up", "end"}
      BY <1>3, <1>a DEF SubscribeJoin, EnsureSubscriber, TypeOK
    <3>2. reactions' \in [Calls -> Seq(Calls \union {Cleanup})]
      BY <1>3, <1>a, <2>1, <2>2 DEF SubscribeJoin, TypeOK
    <3>3. count' \in [Calls -> Nat] /\ phase' \in [Calls -> Phases]
      BY <1>3, <1>a, <2>1 DEF SubscribeJoin, TypeOK, Phases
    <3>4. held' \in [Calls -> Calls \union {NoRef}]
      BY <1>3, <1>a, <2>1 DEF SubscribeJoin, TypeOK
    <3>5. QED
      BY <1>3, <1>a, <3>1, <3>2, <3>3, <3>4 DEF SubscribeJoin, TypeOK
<1>4. ASSUME NEW c \in Calls, RunReaction(c) PROVE TypeOK'
  <2>1. reactions[c] \in Seq(Calls \union {Cleanup})
    BY <1>a DEF TypeOK
  <2>2. /\ Tail(reactions[c]) \in Seq(Calls \union {Cleanup})
        /\ Head(reactions[c]) \in Calls \union {Cleanup}
    BY <1>4, <2>1, TailFacts DEF RunReaction
  <2>3. QED
    BY <1>4, <1>a, <2>2 DEF RunReaction, TypeOK, Phases
<1>5. ASSUME NEW c \in Calls, UnsubscribeShared(c) PROVE TypeOK'
  <2>1. held[c] \in Calls /\ c \in Holders(held[c])
    <3>1. phase[c] = "subscribed" /\ held[c] \in Calls \union {NoRef}
      BY <1>5, <1>a DEF UnsubscribeShared, TypeOK
    <3>2. held[c] # NoRef
      BY <3>1, <1>a DEF EntryInv, JoinInv
    <3>3. QED
      BY <3>1, <3>2 DEF Holders
  <2>2. count[held[c]] # 0
    BY <2>1, <1>a, FS_EmptySet DEF CountInv
  <2>3. count[held[c]] - 1 \in Nat
    BY <2>1, <2>2, <1>a DEF TypeOK
  <2>4. QED
    BY <1>5, <1>a, <2>1, <2>3 DEF UnsubscribeShared, TypeOK, Phases
<1>6. ASSUME NEW c \in Calls, UnsubscribeLast(c) PROVE TypeOK'
  <2>1. queue' \in Seq(Commands)
    <3>1. queue \in Seq(Commands) /\ Command("unsubscribe", c) \in Commands
      BY <1>a, CommandTypes DEF TypeOK
    <3>2. Append(queue, Command("unsubscribe", c)) \in Seq(Commands)
      BY <3>1, AppendFacts
    <3>3. QED
      BY <1>6, <3>1, <3>2 DEF UnsubscribeLast
  <2>2. QED
    BY <1>6, <1>a, <2>1 DEF UnsubscribeLast, TypeOK, Phases
<1>7. ASSUME NEW c \in Calls, TimeoutSubscribe(c) PROVE TypeOK'
  BY <1>7, <1>a DEF TimeoutSubscribe, TypeOK
<1>8. ASSUME NEW c \in Calls, TimeoutUnsubscribe(c) PROVE TypeOK'
  BY <1>8, <1>a DEF TimeoutUnsubscribe, TypeOK, Phases
<1>9. ASSUME ServerAnswers PROVE TypeOK'
  <2>0. queue \in Seq(Commands) /\ queue # <<>> /\ Head(queue).op # "quit"
    <3>1. queue \in Seq(Commands)
      BY <1>a DEF TypeOK
    <3>2. QED
      BY <1>9, <3>1 DEF ServerAnswers
  <2>1. Tail(queue) \in Seq(Commands) /\ Head(queue).call \in Calls
    BY <2>0, <1>a, TailFacts DEF CommandInv
  <2>2. QED
    BY <1>9, <1>a, <2>1, ZenonT(40)
    DEF ServerAnswers, AnswerSubscribe, AnswerUnsubscribe, TypeOK, Phases
<1>10. ASSUME ServerQuits PROVE TypeOK'
  BY <1>10, <1>a DEF ServerQuits, EndLink, RejectQueued, TypeOK, Phases
<1>11. ASSUME LinkDrops PROVE TypeOK'
  <2>1. CASE Closing
    BY <1>11, <1>a, <2>1 DEF LinkDrops, EndLink, RejectQueued, RejectQuit, TypeOK, Phases
  <2>2. CASE ~Closing
    BY <1>11, <1>a, <2>2 DEF LinkDrops, TypeOK
  <2>3. QED
    BY <2>1, <2>2
<1>12. ASSUME LinkUp PROVE TypeOK'
  BY <1>12, <1>a DEF LinkUp, TypeOK
<1>13. ASSUME FlushQueue PROVE TypeOK'
  BY <1>13, <1>a DEF FlushQueue, RejectQueued, RejectQuit, TypeOK, Phases
<1>14. ASSUME LinkGivesUp PROVE TypeOK'
  BY <1>14, <1>a DEF LinkGivesUp, EndLink, RejectQueued, RejectQuit, TypeOK, Phases
<1>15. ASSUME ManagerShutsDown PROVE TypeOK'
  BY <1>15, <1>a DEF ManagerShutsDown, TypeOK
<1>16. ASSUME ShutdownUnused PROVE TypeOK'
  BY <1>16, <1>a DEF ShutdownUnused, TypeOK
<1>17. ASSUME ShutdownOffline PROVE TypeOK'
  <2>1. ready' \in [Calls -> {"unused", "pending", "resolved", "rejected"}]
    BY <1>17, <1>a DEF ShutdownOffline, EndLink, RejectQueued, TypeOK
  <2>2. phase' \in [Calls -> Phases]
    BY <1>17, <1>a DEF ShutdownOffline, EndLink, RejectQueued, TypeOK, Phases
  <2>3. queue' \in Seq(Commands)
    BY <1>17 DEF ShutdownOffline, EndLink, RejectQueued
  <2>4. QED
    BY <1>17, <1>a, <2>1, <2>2, <2>3 DEF ShutdownOffline, EndLink, TypeOK
<1>18. ASSUME ShutdownQuits PROVE TypeOK'
  <2>1. queue \in Seq(Commands) /\ Append(queue, Quit) \in Seq(Commands)
    BY <1>a, QuitType, AppendFacts DEF TypeOK
  <2>2. QED
    BY <1>18, <1>a, <2>1 DEF ShutdownQuits, TypeOK
<1>19. ASSUME TimeoutQuit PROVE TypeOK'
  BY <1>19, <1>a DEF TimeoutQuit, TypeOK
<1>20. ASSUME ForceDisconnect PROVE TypeOK'
  BY <1>20, <1>a DEF ForceDisconnect, EndLink, RejectQueued, TypeOK, Phases
<1>21. ASSUME UNCHANGED vars PROVE TypeOK'
  BY <1>21, <1>a DEF vars, TypeOK
<1>22. QED
  BY <1>1, <1>2, <1>3, <1>4, <1>5, <1>6, <1>7, <1>8, <1>9, <1>10, <1>11, <1>12,
     <1>13, <1>14, <1>15, <1>16, <1>17, <1>18, <1>19, <1>20, <1>21
  DEF Next, CallStep, ConnectionStep, ShutdownStep

-----------------------------------------------------------------------------
(* The steps of the connection, the timers and the shutdown only settle    *)
(* pending promises: they touch no entry, no count and no reaction.        *)
Settles ==
  /\ UNCHANGED <<refs, count, reactions, held>>
  /\ \A r \in Calls :
       \/ ready'[r] = ready[r]
       \/ ready[r] = "pending" /\ ready'[r] \in {"resolved", "rejected"}
  /\ \A c \in Calls :
       \/ phase'[c] = phase[c]
       \/ phase[c] = "leaving" /\ phase'[c] \in {"left", "unreleased"}

LEMMA RejectSettles ==
  ASSUME RejectQueued, UNCHANGED <<refs, count, reactions, held>>
  PROVE  Settles
BY DEF RejectQueued, Settles

LEMMA SettlingSteps ==
  ASSUME TypeOK, CommandInv,
         \/ \E c \in Calls : TimeoutSubscribe(c) \/ TimeoutUnsubscribe(c)
         \/ ConnectionStep
         \/ ShutdownStep
         \/ UNCHANGED vars
  PROVE  Settles
<1> USE DEF entries, callers, hooks, wire
<1>1. ASSUME NEW c \in Calls, TimeoutSubscribe(c) PROVE Settles
  BY <1>1, TypeOK DEF TimeoutSubscribe, Settles, TypeOK
<1>2. ASSUME NEW c \in Calls, TimeoutUnsubscribe(c) PROVE Settles
  BY <1>2, TypeOK DEF TimeoutUnsubscribe, Settles, TypeOK
<1>3. ASSUME ServerAnswers PROVE Settles
  <2>1. Head(queue).call \in Calls
    BY <1>3, TailFacts DEF ServerAnswers, TypeOK, CommandInv
  <2>2. UNCHANGED <<refs, count, reactions, held>>
    BY <1>3 DEF ServerAnswers
  <2>3. ASSUME NEW accepted \in BOOLEAN, AnswerSubscribe(Head(queue).call, accepted)
        PROVE  Settles
    BY <2>1, <2>2, <2>3 DEF AnswerSubscribe, Settles, TypeOK
  <2>4. ASSUME NEW accepted \in BOOLEAN, AnswerUnsubscribe(Head(queue).call, accepted)
        PROVE  Settles
    BY <2>1, <2>2, <2>4 DEF AnswerUnsubscribe, Settles, TypeOK
  <2>5. QED
    BY <1>3, <2>3, <2>4 DEF ServerAnswers
<1>4. ASSUME ServerQuits PROVE Settles
  BY <1>4, RejectSettles DEF ServerQuits, EndLink
<1>5. ASSUME LinkDrops PROVE Settles
  <2>1. CASE Closing
    BY <1>5, <2>1, RejectSettles DEF LinkDrops, EndLink
  <2>2. CASE ~Closing
    BY <1>5, <2>2 DEF LinkDrops, Settles
  <2>3. QED
    BY <2>1, <2>2
<1>6. ASSUME LinkUp PROVE Settles
  BY <1>6 DEF LinkUp, Settles
<1>7. ASSUME FlushQueue PROVE Settles
  BY <1>7, RejectSettles DEF FlushQueue
<1>8. ASSUME LinkGivesUp PROVE Settles
  BY <1>8, RejectSettles DEF LinkGivesUp, EndLink
<1>9. ASSUME ManagerShutsDown \/ ShutdownUnused \/ ShutdownQuits \/ TimeoutQuit
      PROVE  Settles
  BY <1>9 DEF ManagerShutsDown, ShutdownUnused, ShutdownQuits, TimeoutQuit, Settles
<1>10. ASSUME ShutdownOffline PROVE Settles
  BY <1>10, RejectSettles DEF ShutdownOffline, EndLink
<1>11. ASSUME ForceDisconnect PROVE Settles
  BY <1>11, RejectSettles DEF ForceDisconnect, EndLink
<1>12. ASSUME UNCHANGED vars PROVE Settles
  BY <1>12 DEF vars, Settles
<1>13. QED
  BY <1>1, <1>2, <1>3, <1>4, <1>5, <1>6, <1>7, <1>8, <1>9, <1>10, <1>11, <1>12
  DEF ConnectionStep, ShutdownStep

(* Every other step is a step of one call.                                 *)
LEMMA StepKinds ==
  ASSUME [Next]_vars, TypeOK, CommandInv
  PROVE  \/ Settles
         \/ \E c \in Calls : \/ SubscribeRefused(c)
                            \/ SubscribeFirst(c)
                            \/ SubscribeJoin(c)
                            \/ RunReaction(c)
                            \/ UnsubscribeShared(c)
                            \/ UnsubscribeLast(c)
BY SettlingSteps DEF Next, CallStep

(* The types the steps below rely on, without the sequences.               *)
FunctionTypes ==
  /\ refs \in [Targets -> Calls \union {NoRef}]
  /\ count \in [Calls -> Nat]
  /\ ready \in [Calls -> {"unused", "pending", "resolved", "rejected"}]
  /\ phase \in [Calls -> Phases]
  /\ held \in [Calls -> Calls \union {NoRef}]

LEMMA TypeFacts ==
  ASSUME TypeOK
  PROVE  /\ FunctionTypes
         /\ queue \in Seq(Commands)
         /\ \A r \in Calls : reactions[r] \in Seq(Calls \union {Cleanup})
BY DEF TypeOK, FunctionTypes

(* The effect of each step of a call, entry by entry and call by call.     *)
LEMMA RefusedEffect ==
  ASSUME TypeOK, NEW c \in Calls, SubscribeRefused(c)
  PROVE  /\ UNCHANGED <<refs, count, ready, reactions, held, link, queue, recorded>>
         /\ phase[c] = "idle" /\ phase'[c] = "refused"
         /\ \A d \in Calls : d # c => phase'[d] = phase[d]
BY DEF SubscribeRefused, TypeOK, entries, wire

LEMMA FirstEffect ==
  ASSUME TypeOK, JoinInv, CreatorInv, NEW c \in Calls, SubscribeFirst(c)
  PROVE  /\ phase[c] = "idle" /\ held[c] = NoRef /\ ready[c] = "unused"
         /\ refs[TargetOf[c]] = NoRef /\ refs'[TargetOf[c]] = c
         /\ \A t \in Targets : t # TargetOf[c] => refs'[t] = refs[t]
         /\ phase'[c] = "waiting" /\ held'[c] = c /\ count'[c] = 1
         /\ ready'[c] = IF link = "end" THEN "rejected" ELSE "pending"
         /\ reactions'[c] = <<Cleanup, c>>
         /\ \A d \in Calls : d # c =>
              /\ phase'[d] = phase[d] /\ held'[d] = held[d] /\ count'[d] = count[d]
              /\ ready'[d] = ready[d] /\ reactions'[d] = reactions[d]
         /\ queue' = IF link = "end" THEN queue ELSE Append(queue, Command("subscribe", c))
         /\ UNCHANGED recorded
<1> USE CallsAssumption
<1>1. phase[c] = "idle" /\ held[c] = NoRef /\ c # NoRef
  BY DEF SubscribeFirst, JoinInv
<1>2. ready[c] = "unused"
  BY <1>1 DEF CreatorInv
<1>3. QED
  BY <1>1, <1>2, TypeFacts DEF SubscribeFirst, TypeOK

LEMMA JoinEffect ==
  ASSUME TypeOK, JoinInv, CreatorInv, MapInv, NEW c \in Calls, SubscribeJoin(c)
  PROVE  LET r == refs[TargetOf[c]] IN
         /\ r \in Calls /\ r # c /\ ready[r] # "unused" /\ TargetOf[r] = TargetOf[c]
         /\ phase[c] = "idle" /\ held[c] = NoRef /\ ready[c] = "unused"
         /\ phase'[c] = "waiting" /\ held'[c] = r
         /\ count'[r] = count[r] + 1 /\ reactions'[r] = Append(reactions[r], c)
         /\ \A d \in Calls : d # c => phase'[d] = phase[d] /\ held'[d] = held[d]
         /\ \A d \in Calls : d # r => count'[d] = count[d] /\ reactions'[d] = reactions[d]
         /\ UNCHANGED <<refs, ready, queue, recorded>>
<1> DEFINE r == refs[TargetOf[c]]
<1> USE CallsAssumption
<1>1. phase[c] = "idle" /\ held[c] = NoRef /\ c # NoRef
  BY DEF SubscribeJoin, JoinInv
<1>2. ready[c] = "unused"
  BY <1>1 DEF CreatorInv
<1>3. r \in Calls
  BY DEF SubscribeJoin, TypeOK
<1>4. ready[r] # "unused" /\ TargetOf[r] = TargetOf[c]
  BY <1>3 DEF MapInv
<1>5. QED
  BY <1>1, <1>2, <1>3, <1>4 DEF SubscribeJoin, TypeOK

LEMMA CleanupEffect ==
  ASSUME TypeOK, NEW c \in Calls, RunReaction(c), Head(reactions[c]) = Cleanup
  PROVE  /\ ready[c] \in {"resolved", "rejected"} /\ reactions[c] # <<>>
         /\ reactions[c] \in Seq(Calls \union {Cleanup})
         /\ reactions'[c] = Tail(reactions[c])
         /\ \A d \in Calls : d # c => reactions'[d] = reactions[d]
         /\ ready[c] = "rejected" => refs'[TargetOf[c]] = NoRef
         /\ ready[c] = "resolved" => refs' = refs
         /\ \A t \in Targets : t # TargetOf[c] => refs'[t] = refs[t]
         /\ UNCHANGED <<count, ready, phase, held, link, queue, recorded>>
<1>1. Head(reactions[c]) \in Calls => Head(reactions[c]) # Cleanup
  BY CallsAssumption
<1>2. QED
  BY <1>1, CallsAssumption, ZenonT(40) DEF RunReaction, TypeOK, wire

LEMMA ResumeEffect ==
  ASSUME TypeOK, ReactionInv, NEW c \in Calls, RunReaction(c), Head(reactions[c]) # Cleanup
  PROVE  LET d == Head(reactions[c]) IN
         /\ ready[c] \in {"resolved", "rejected"} /\ reactions[c] # <<>>
         /\ reactions[c] \in Seq(Calls \union {Cleanup})
         /\ reactions'[c] = Tail(reactions[c])
         /\ \A e \in Calls : e # c => reactions'[e] = reactions[e]
         /\ d \in Calls /\ phase[d] = "waiting" /\ held[d] = c
         /\ phase'[d] = IF ready[c] = "resolved" THEN "subscribed" ELSE "failed"
         /\ \A e \in Calls : e # d => phase'[e] = phase[e]
         /\ UNCHANGED <<refs, count, ready, held, link, queue, recorded>>
<1> DEFINE d == Head(reactions[c])
<1>1. reactions[c] \in Seq(Calls \union {Cleanup}) /\ reactions[c] # <<>>
  BY TypeFacts DEF RunReaction
<1>2. d \in Calls /\ d = reactions[c][1] /\ 1 \in DOMAIN reactions[c]
  BY <1>1, TailFacts
<1>3. phase[d] = "waiting" /\ held[d] = c
  BY <1>2 DEF ReactionInv
<1>4. QED
  BY <1>1, <1>2, <1>3 DEF RunReaction, TypeOK, wire

LEMMA SharedEffect ==
  ASSUME TypeOK, JoinInv, NEW c \in Calls, UnsubscribeShared(c)
  PROVE  /\ held[c] \in Calls /\ phase[c] = "subscribed" /\ phase'[c] = "left"
         /\ count[held[c]] # 1 /\ count'[held[c]] = count[held[c]] - 1
         /\ \A d \in Calls : d # c => phase'[d] = phase[d]
         /\ \A r \in Calls : r # held[c] => count'[r] = count[r]
         /\ UNCHANGED <<refs, ready, reactions, held, link, queue, recorded>>
<1>1. phase[c] = "subscribed" /\ held[c] \in Calls
  BY DEF UnsubscribeShared, JoinInv, TypeOK
<1>2. QED
  BY <1>1 DEF UnsubscribeShared, TypeOK, wire

LEMMA LastEffect ==
  ASSUME TypeOK, JoinInv, NEW c \in Calls, UnsubscribeLast(c)
  PROVE  /\ held[c] \in Calls /\ phase[c] = "subscribed"
         /\ phase'[c] = IF link = "end" THEN "unreleased" ELSE "leaving"
         /\ count[held[c]] = 1 /\ count'[held[c]] = 0
         /\ refs'[TargetOf[c]] = NoRef
         /\ \A t \in Targets : t # TargetOf[c] => refs'[t] = refs[t]
         /\ \A d \in Calls : d # c => phase'[d] = phase[d]
         /\ \A r \in Calls : r # held[c] => count'[r] = count[r]
         /\ queue' = IF link = "end" THEN queue ELSE Append(queue, Command("unsubscribe", c))
         /\ UNCHANGED <<ready, reactions, held, link, recorded>>
<1>1. phase[c] = "subscribed" /\ held[c] \in Calls
  BY DEF UnsubscribeLast, JoinInv, TypeOK
<1>2. QED
  BY <1>1, CallsAssumption DEF UnsubscribeLast, TypeOK

LEMMA Parts ==
  ASSUME IInv
  PROVE  /\ TypeOK /\ FunctionTypes
         /\ MapInv /\ CreatorInv /\ JoinInv /\ OutcomeInv
         /\ ReactionInv /\ RegistrationInv /\ CountInv
         /\ CommandInv /\ WireInv /\ ReleasedOnServer /\ HookInv
BY TypeFacts DEF IInv, EntryInv

-----------------------------------------------------------------------------
(* Entries stay those of the calls that created and joined them.           *)

LEMMA MapStep == IInv /\ [Next]_vars => MapInv'
<1> SUFFICES ASSUME IInv, [Next]_vars PROVE MapInv'
  OBVIOUS
<1>a. TypeOK /\ FunctionTypes /\ MapInv /\ JoinInv /\ CreatorInv /\ ReactionInv /\ CommandInv
  BY Parts
<1> USE CallsAssumption
<1>1. ASSUME Settles PROVE MapInv'
  BY <1>1, <1>a DEF Settles, MapInv, FunctionTypes
<1>2. ASSUME NEW c \in Calls, SubscribeRefused(c) PROVE MapInv'
  BY <1>2, <1>a, RefusedEffect DEF MapInv
<1>3. ASSUME NEW c \in Calls, SubscribeFirst(c) PROVE MapInv'
  BY <1>3, <1>a, FirstEffect DEF MapInv, FunctionTypes
<1>4. ASSUME NEW c \in Calls, SubscribeJoin(c) PROVE MapInv'
  BY <1>4, <1>a, JoinEffect DEF MapInv
<1>5. ASSUME NEW c \in Calls, RunReaction(c) PROVE MapInv'
  BY <1>5, <1>a, CleanupEffect, ResumeEffect DEF MapInv, FunctionTypes
<1>6. ASSUME NEW c \in Calls, UnsubscribeShared(c) PROVE MapInv'
  BY <1>6, <1>a, SharedEffect DEF MapInv
<1>7. ASSUME NEW c \in Calls, UnsubscribeLast(c) PROVE MapInv'
  BY <1>7, <1>a, LastEffect DEF MapInv, FunctionTypes
<1>8. QED
  BY <1>1, <1>2, <1>3, <1>4, <1>5, <1>6, <1>7, <1>a, StepKinds

LEMMA CreatorStep == IInv /\ [Next]_vars => CreatorInv'
<1> SUFFICES ASSUME IInv, [Next]_vars PROVE CreatorInv'
  OBVIOUS
<1>a. TypeOK /\ FunctionTypes /\ MapInv /\ JoinInv /\ CreatorInv /\ ReactionInv /\ CommandInv
  BY Parts
<1> USE CallsAssumption
<1>1. ASSUME Settles PROVE CreatorInv'
  BY <1>1, <1>a DEF Settles, CreatorInv, FunctionTypes
<1>2. ASSUME NEW c \in Calls, SubscribeRefused(c) PROVE CreatorInv'
  BY <1>2, <1>a, RefusedEffect DEF CreatorInv
<1>3. ASSUME NEW c \in Calls, SubscribeFirst(c) PROVE CreatorInv'
  BY <1>3, <1>a, FirstEffect DEF CreatorInv
<1>4. ASSUME NEW c \in Calls, SubscribeJoin(c) PROVE CreatorInv'
  BY <1>4, <1>a, JoinEffect DEF CreatorInv
<1>5. ASSUME NEW c \in Calls, RunReaction(c) PROVE CreatorInv'
  BY <1>5, <1>a, CleanupEffect, ResumeEffect DEF CreatorInv
<1>6. ASSUME NEW c \in Calls, UnsubscribeShared(c) PROVE CreatorInv'
  BY <1>6, <1>a, SharedEffect DEF CreatorInv
<1>7. ASSUME NEW c \in Calls, UnsubscribeLast(c) PROVE CreatorInv'
  BY <1>7, <1>a, LastEffect DEF CreatorInv
<1>8. QED
  BY <1>1, <1>2, <1>3, <1>4, <1>5, <1>6, <1>7, <1>a, StepKinds

LEMMA JoinStep == IInv /\ [Next]_vars => JoinInv' /\ OutcomeInv'
<1> SUFFICES ASSUME IInv, [Next]_vars PROVE JoinInv' /\ OutcomeInv'
  OBVIOUS
<1>a. /\ TypeOK /\ FunctionTypes /\ MapInv /\ JoinInv /\ CreatorInv
      /\ OutcomeInv /\ ReactionInv /\ CommandInv
  BY Parts
<1> USE CallsAssumption
<1>1. ASSUME Settles PROVE JoinInv' /\ OutcomeInv'
  BY <1>1, <1>a DEF Settles, JoinInv, OutcomeInv, FunctionTypes
<1>2. ASSUME NEW c \in Calls, SubscribeRefused(c) PROVE JoinInv' /\ OutcomeInv'
  BY <1>2, <1>a, RefusedEffect DEF JoinInv, OutcomeInv
<1>3. ASSUME NEW c \in Calls, SubscribeFirst(c) PROVE JoinInv' /\ OutcomeInv'
  <2>1. /\ phase'[c] = "waiting" /\ held'[c] = c /\ ready'[c] # "unused"
        /\ c \in Calls /\ c # NoRef
    BY <1>3, <1>a, FirstEffect
  <2>2. \A d \in Calls : d # c => phase'[d] = phase[d] /\ held'[d] = held[d]
    BY <1>3, <1>a, FirstEffect
  <2>3. \A r \in Calls : ready[r] # "unused" => ready'[r] = ready[r]
    BY <1>3, <1>a, FirstEffect
  <2>4. ASSUME NEW d \in Calls, d # c, held[d] \in Calls PROVE
          ready[held[d]] # "unused" => ready'[held[d]] = ready[held[d]]
    BY <2>3, <2>4
  <2>5. JoinInv'
    BY <2>1, <2>2, <2>4, <1>a DEF JoinInv, FunctionTypes
  <2>6. OutcomeInv'
    BY <2>1, <2>2, <2>4, <1>a DEF OutcomeInv, JoinInv, FunctionTypes
  <2>7. QED
    BY <2>5, <2>6
<1>4. ASSUME NEW c \in Calls, SubscribeJoin(c) PROVE JoinInv' /\ OutcomeInv'
  <2> DEFINE r == refs[TargetOf[c]]
  <2>1. /\ r \in Calls /\ r # NoRef /\ ready[r] # "unused" /\ TargetOf[r] = TargetOf[c]
        /\ phase'[c] = "waiting" /\ held'[c] = r /\ ready' = ready
    BY <1>4, <1>a, JoinEffect
  <2>2. \A d \in Calls : d # c => phase'[d] = phase[d] /\ held'[d] = held[d]
    BY <1>4, <1>a, JoinEffect
  <2> HIDE DEF r
  <2>3. JoinInv'
    BY <2>1, <2>2, <1>a DEF JoinInv
  <2>4. OutcomeInv'
    BY <2>1, <2>2, <1>a DEF OutcomeInv
  <2>5. QED
    BY <2>3, <2>4
<1>5. ASSUME NEW c \in Calls, RunReaction(c) PROVE JoinInv' /\ OutcomeInv'
  BY <1>5, <1>a, CleanupEffect, ResumeEffect DEF JoinInv, OutcomeInv
<1>6. ASSUME NEW c \in Calls, UnsubscribeShared(c) PROVE JoinInv' /\ OutcomeInv'
  BY <1>6, <1>a, SharedEffect DEF JoinInv, OutcomeInv
<1>7. ASSUME NEW c \in Calls, UnsubscribeLast(c) PROVE JoinInv' /\ OutcomeInv'
  BY <1>7, <1>a, LastEffect DEF JoinInv, OutcomeInv
<1>8. QED
  BY <1>1, <1>2, <1>3, <1>4, <1>5, <1>6, <1>7, <1>a, StepKinds

-----------------------------------------------------------------------------
(* The reactions of an entry are its cleanup and then each caller that     *)
(* waits for it, once.                                                     *)
LEMMA ReactionStep == IInv /\ [Next]_vars => ReactionInv'
<1> SUFFICES ASSUME IInv, [Next]_vars PROVE ReactionInv'
  OBVIOUS
<1>a. /\ TypeOK /\ FunctionTypes /\ MapInv /\ JoinInv /\ CreatorInv
      /\ ReactionInv /\ CommandInv
  BY Parts
<1>b. \A r \in Calls : reactions[r] \in Seq(Calls \union {Cleanup})
  BY <1>a, TypeFacts
<1> USE CallsAssumption
<1>1. ASSUME Settles PROVE ReactionInv'
  <2>1. ASSUME NEW d \in Calls, phase[d] = "waiting" PROVE phase'[d] = "waiting"
    BY <1>1, <2>1 DEF Settles
  <2>2. ASSUME NEW r \in Calls, ready'[r] = "pending" PROVE ready[r] = "pending"
    BY <1>1, <2>2 DEF Settles
  <2>3. reactions' = reactions /\ held' = held
    BY <1>1 DEF Settles
  <2>4. \A r \in Calls : \A i \in DOMAIN reactions[r] :
          reactions[r][i] # Cleanup => reactions[r][i] \in Calls
    BY <1>b
  <2>5. QED
    BY <2>1, <2>2, <2>3, <2>4, <1>a DEF ReactionInv, CleanupPending
<1>2. ASSUME NEW c \in Calls, SubscribeRefused(c) PROVE ReactionInv'
  <2>1. ASSUME NEW d \in Calls, phase[d] = "waiting" PROVE phase'[d] = "waiting"
    BY <1>2, <2>1, <1>a, RefusedEffect
  <2>2. UNCHANGED <<ready, reactions, held>>
    BY <1>2, <1>a, RefusedEffect
  <2>3. \A r \in Calls : \A i \in DOMAIN reactions[r] :
          reactions[r][i] # Cleanup => reactions[r][i] \in Calls
    BY <1>b
  <2>4. QED
    BY <2>1, <2>2, <2>3, <1>a DEF ReactionInv, CleanupPending
<1>3. ASSUME NEW c \in Calls, SubscribeFirst(c) PROVE ReactionInv'
  <2>1. /\ phase[c] = "idle" /\ phase'[c] = "waiting" /\ held'[c] = c
        /\ reactions'[c] = <<Cleanup, c>>
        /\ \A d \in Calls : d # c => /\ phase'[d] = phase[d] /\ held'[d] = held[d]
                                    /\ ready'[d] = ready[d]
                                    /\ reactions'[d] = reactions[d]
    BY <1>3, <1>a, FirstEffect
  <2>2. ASSUME NEW r \in Calls, r # c, NEW i \in DOMAIN reactions[r],
               reactions[r][i] # Cleanup
        PROVE  /\ phase'[reactions[r][i]] = "waiting"
               /\ held'[reactions[r][i]] = r
    <3>1. reactions[r][i] \in Calls
      BY <1>b, <2>2
    <3>2. phase[reactions[r][i]] = "waiting" /\ held[reactions[r][i]] = r
      BY <2>2, <1>a DEF ReactionInv
    <3>3. QED
      BY <3>1, <3>2, <2>1
  <2>3. ASSUME NEW r \in Calls, r # c
        PROVE  /\ \A i \in DOMAIN reactions[r] : reactions[r][i] = Cleanup => i = 1
               /\ \A i, j \in DOMAIN reactions[r] : reactions[r][i] = reactions[r][j] => i = j
               /\ ready[r] = "pending" => CleanupPending(r)
               /\ CleanupPending(r)' = CleanupPending(r)
    BY <2>1, <2>3, <1>a DEF ReactionInv, CleanupPending
  <2>4. ASSUME NEW r \in Calls, r = c
        PROVE  /\ DOMAIN reactions'[r] = 1 .. 2
               /\ reactions'[r][1] = Cleanup /\ reactions'[r][2] = c /\ c # Cleanup
               /\ CleanupPending(r)'
    BY <2>1, <2>4 DEF CleanupPending
  <2>5. QED
    BY <2>1, <2>2, <2>3, <2>4 DEF ReactionInv
<1>4. ASSUME NEW c \in Calls, SubscribeJoin(c) PROVE ReactionInv'
  <2>0. PICK r \in Calls : r = refs[TargetOf[c]]
    BY <1>4, <1>a, JoinEffect
  <2>1. /\ r \in Calls /\ phase[c] = "idle"
        /\ phase'[c] = "waiting" /\ held'[c] = r /\ ready' = ready
        /\ reactions'[r] = Append(reactions[r], c)
        /\ \A d \in Calls : d # c => phase'[d] = phase[d] /\ held'[d] = held[d]
        /\ \A d \in Calls : d # r => reactions'[d] = reactions[d]
    BY <1>4, <1>a, <2>0, JoinEffect
  <2>2. ASSUME NEW q \in Calls, NEW i \in DOMAIN reactions[q], reactions[q][i] # Cleanup
        PROVE  /\ reactions[q][i] \in Calls /\ reactions[q][i] # c
               /\ phase'[reactions[q][i]] = "waiting"
               /\ held'[reactions[q][i]] = q
    <3>1. reactions[q][i] \in Calls
      BY <1>b, <2>2
    <3>2. phase[reactions[q][i]] = "waiting" /\ held[reactions[q][i]] = q
      BY <2>2, <1>a DEF ReactionInv
    <3>3. QED
      BY <3>1, <3>2, <2>1
  <2>3. /\ reactions[r] \in Seq(Calls \union {Cleanup})
        /\ c \in Calls \union {Cleanup} /\ c # Cleanup
    BY <2>1, <1>b
  <2>4. /\ DOMAIN reactions[r] = 1 .. Len(reactions[r]) /\ Len(reactions[r]) \in Nat
        /\ DOMAIN reactions'[r] = 1 .. (Len(reactions[r]) + 1)
        /\ \A i \in DOMAIN reactions[r] : reactions'[r][i] = reactions[r][i]
        /\ \A i \in DOMAIN reactions'[r] : i = Len(reactions[r]) + 1 \/ i \in DOMAIN reactions[r]
        /\ reactions'[r][Len(reactions[r]) + 1] = c
    BY <2>1, <2>3, AppendFacts
  <2>5. ASSUME NEW q \in Calls PROVE
          /\ \A i \in DOMAIN reactions[q] : reactions[q][i] = Cleanup => i = 1
          /\ \A i, j \in DOMAIN reactions[q] : reactions[q][i] = reactions[q][j] => i = j
          /\ ready[q] = "pending" => CleanupPending(q)
    BY <1>a DEF ReactionInv
  <2>6. \A i \in DOMAIN reactions[r] : reactions[r][i] # c
    BY <2>1, <2>2, <2>3
  <2>7. \A i, j \in DOMAIN reactions'[r] : reactions'[r][i] = reactions'[r][j] => i = j
    BY <2>1, <2>4, <2>5, <2>6
  <2>8. CleanupPending(r) => CleanupPending(r)'
    BY <2>1, <2>3, AppendHead DEF CleanupPending
  <2>9. ASSUME NEW i \in DOMAIN reactions'[r]
        PROVE  /\ reactions'[r][i] = Cleanup => i = 1
               /\ reactions'[r][i] # Cleanup =>
                    phase'[reactions'[r][i]] = "waiting" /\ held'[reactions'[r][i]] = r
    BY <2>1, <2>2, <2>3, <2>4, <2>5
  <2>10. ASSUME NEW q \in Calls, q # r
         PROVE  reactions'[q] = reactions[q] /\ (CleanupPending(q)' <=> CleanupPending(q))
    BY <2>1, <2>10 DEF CleanupPending
  <2>11. QED
    <3> SUFFICES ASSUME NEW q \in Calls
        PROVE  /\ \A i \in DOMAIN reactions'[q] : reactions'[q][i] = Cleanup => i = 1
               /\ \A i \in DOMAIN reactions'[q] : reactions'[q][i] # Cleanup =>
                    /\ phase'[reactions'[q][i]] = "waiting"
                    /\ held'[reactions'[q][i]] = q
               /\ \A i, j \in DOMAIN reactions'[q] :
                    reactions'[q][i] = reactions'[q][j] => i = j
               /\ ready'[q] = "pending" => CleanupPending(q)'
      BY DEF ReactionInv
    <3>1. CASE q = r
      BY <3>1, <2>1, <2>5, <2>7, <2>8, <2>9
    <3>2. CASE q # r
      BY <3>2, <2>1, <2>2, <2>5, <2>10
    <3>3. QED
      BY <3>1, <3>2
<1>5. ASSUME NEW c \in Calls, RunReaction(c) PROVE ReactionInv'
  <2>1. /\ reactions[c] \in Seq(Calls \union {Cleanup}) /\ reactions[c] # <<>>
        /\ reactions'[c] = Tail(reactions[c])
        /\ \A d \in Calls : d # c => reactions'[d] = reactions[d]
        /\ UNCHANGED <<ready, held>> /\ ready[c] # "pending"
    BY <1>5, <1>a, CleanupEffect, ResumeEffect
  <2>2. /\ DOMAIN reactions[c] = 1 .. Len(reactions[c]) /\ Len(reactions[c]) \in Nat
        /\ DOMAIN reactions'[c] = 1 .. (Len(reactions[c]) - 1)
        /\ \A i \in DOMAIN reactions'[c] :
             i + 1 \in DOMAIN reactions[c] /\ reactions'[c][i] = reactions[c][i + 1]
        /\ 1 \in DOMAIN reactions[c] /\ Head(reactions[c]) = reactions[c][1]
    BY <2>1, TailFacts
  <2>3. ASSUME NEW q \in Calls PROVE
          /\ \A i \in DOMAIN reactions[q] : reactions[q][i] = Cleanup => i = 1
          /\ \A i \in DOMAIN reactions[q] : reactions[q][i] # Cleanup =>
               /\ reactions[q][i] \in Calls
               /\ phase[reactions[q][i]] = "waiting"
               /\ held[reactions[q][i]] = q
          /\ \A i, j \in DOMAIN reactions[q] : reactions[q][i] = reactions[q][j] => i = j
          /\ ready[q] = "pending" => CleanupPending(q)
    BY <1>a, <1>b DEF ReactionInv
  <2>4. ASSUME NEW d \in Calls, phase[d] = "waiting", d # Head(reactions[c])
        PROVE  phase'[d] = "waiting"
    BY <1>5, <2>4, <1>a, CleanupEffect, ResumeEffect
  <2>5. Head(reactions[c]) \in Calls => held[Head(reactions[c])] = c
    BY <2>2, <2>3
  <2>6. ASSUME NEW q \in Calls, q # c, NEW i \in DOMAIN reactions[q], reactions[q][i] # Cleanup
        PROVE  phase'[reactions[q][i]] = "waiting" /\ held'[reactions[q][i]] = q
    BY <2>1, <2>3, <2>4, <2>5, <2>6
  <2>7. ASSUME NEW i \in DOMAIN reactions'[c]
        PROVE  /\ reactions'[c][i] # Cleanup
               /\ phase'[reactions'[c][i]] = "waiting" /\ held'[reactions'[c][i]] = c
    <3>1. i + 1 \in DOMAIN reactions[c] /\ reactions'[c][i] = reactions[c][i + 1] /\ i + 1 # 1
      BY <2>2
    <3>2. reactions[c][i + 1] # Cleanup /\ reactions[c][i + 1] # Head(reactions[c])
      BY <3>1, <2>2, <2>3
    <3>3. QED
      <4>1. /\ reactions[c][i + 1] \in Calls
            /\ phase[reactions[c][i + 1]] = "waiting"
            /\ held[reactions[c][i + 1]] = c
        BY <3>1, <3>2, <2>3
      <4>2. phase'[reactions[c][i + 1]] = "waiting"
        BY <4>1, <3>2, <2>4
      <4>3. QED
        BY <4>1, <4>2, <3>1, <3>2, <2>1
  <2>8. ASSUME NEW i \in DOMAIN reactions'[c], NEW j \in DOMAIN reactions'[c],
               reactions'[c][i] = reactions'[c][j]
        PROVE  i = j
    <3>1. /\ i \in Nat /\ i + 1 \in DOMAIN reactions[c] /\ reactions'[c][i] = reactions[c][i + 1]
          /\ j \in Nat /\ j + 1 \in DOMAIN reactions[c] /\ reactions'[c][j] = reactions[c][j + 1]
      BY <2>2
    <3>2. i + 1 = j + 1
      BY <3>1, <2>3, <2>8, ZenonT(40)
    <3>3. QED
      BY <3>1, <3>2
  <2>9. ASSUME NEW q \in Calls, q # c
        PROVE  reactions'[q] = reactions[q] /\ (CleanupPending(q)' <=> CleanupPending(q))
    BY <2>1, <2>9 DEF CleanupPending
  <2>10. QED
    <3> SUFFICES ASSUME NEW q \in Calls
        PROVE  /\ \A i \in DOMAIN reactions'[q] : reactions'[q][i] = Cleanup => i = 1
               /\ \A i \in DOMAIN reactions'[q] : reactions'[q][i] # Cleanup =>
                    /\ phase'[reactions'[q][i]] = "waiting"
                    /\ held'[reactions'[q][i]] = q
               /\ \A i, j \in DOMAIN reactions'[q] :
                    reactions'[q][i] = reactions'[q][j] => i = j
               /\ ready'[q] = "pending" => CleanupPending(q)'
      BY DEF ReactionInv
    <3>1. CASE q = c
      BY <3>1, <2>1, <2>7, <2>8
    <3>2. CASE q # c
      BY <3>2, <2>1, <2>3, <2>6, <2>9
    <3>3. QED
      BY <3>1, <3>2
<1>6. ASSUME NEW c \in Calls, UnsubscribeShared(c) \/ UnsubscribeLast(c) PROVE ReactionInv'
  <2>1. ASSUME NEW d \in Calls, phase[d] = "waiting" PROVE phase'[d] = "waiting"
    BY <1>6, <2>1, <1>a, SharedEffect, LastEffect
  <2>2. UNCHANGED <<ready, reactions, held>>
    BY <1>6, <1>a, SharedEffect, LastEffect
  <2>3. \A r \in Calls : \A i \in DOMAIN reactions[r] :
          reactions[r][i] # Cleanup => reactions[r][i] \in Calls
    BY <1>b
  <2>4. QED
    BY <2>1, <2>2, <2>3, <1>a DEF ReactionInv, CleanupPending
<1>7. QED
  BY <1>1, <1>2, <1>3, <1>4, <1>5, <1>6, <1>a, StepKinds

-----------------------------------------------------------------------------
(* What the map holds for a target: the two deletions by target never      *)
(* remove an entry that is not their own.                                  *)
LEMMA RegistrationStep == IInv /\ [Next]_vars => RegistrationInv'
<1> SUFFICES ASSUME IInv, [Next]_vars PROVE RegistrationInv'
  OBVIOUS
<1>a. /\ TypeOK /\ FunctionTypes /\ MapInv /\ JoinInv /\ CreatorInv
      /\ OutcomeInv /\ ReactionInv /\ CommandInv
  BY Parts
<1>p. ASSUME NEW r \in Calls
      PROVE  /\ ready[r] = "pending" => refs[TargetOf[r]] = r /\ CleanupPending(r)
             /\ ready[r] = "rejected" => (refs[TargetOf[r]] = r <=> CleanupPending(r))
  BY Parts, <1>a DEF RegistrationInv, ReactionInv
<1>q. ASSUME NEW c \in Calls
      PROVE  /\ phase[c] = "failed" => ~CleanupPending(held[c])
             /\ phase[c] = "subscribed" => refs[TargetOf[c]] = held[c]
             /\ phase[c] = "waiting" /\ ready[held[c]] # "rejected" => refs[TargetOf[c]] = held[c]
  BY Parts DEF RegistrationInv, RegisteredWhileHeld
<1>t. \A c \in Calls : TargetOf[c] \in Targets
  BY CallsAssumption
<1> DEFINE EntryPart(r) ==
             /\ ready[r] = "pending" => refs[TargetOf[r]] = r
             /\ ready[r] = "rejected" => (refs[TargetOf[r]] = r <=> CleanupPending(r))
           CallPart(c) ==
             /\ phase[c] = "failed" => ~CleanupPending(held[c])
             /\ phase[c] = "subscribed" => refs[TargetOf[c]] = held[c]
             /\ phase[c] = "waiting" /\ ready[held[c]] # "rejected" => refs[TargetOf[c]] = held[c]
<1>s. SUFFICES ASSUME NEW d \in Calls PROVE EntryPart(d)' /\ CallPart(d)'
  BY DEF RegistrationInv, RegisteredWhileHeld
<1>0. /\ phase[d] \notin {"idle", "refused"} =>
           held[d] \in Calls /\ ready[held[d]] # "unused" /\ TargetOf[held[d]] = TargetOf[d]
      /\ phase[d] = "subscribed" => ready[held[d]] = "resolved"
      /\ phase[d] = "failed" => ready[held[d]] = "rejected"
  BY <1>a DEF JoinInv, OutcomeInv, FunctionTypes
<1> USE CallsAssumption
<1>1. ASSUME Settles PROVE EntryPart(d)' /\ CallPart(d)'
  <2>1. UNCHANGED <<refs, reactions, held>>
    BY <1>1 DEF Settles
  <2>2. \A r \in Calls : CleanupPending(r)' <=> CleanupPending(r)
    BY <2>1 DEF CleanupPending
  <2>3. /\ ready'[d] = "pending" => ready[d] = "pending"
        /\ ready'[d] = "rejected" => ready[d] \in {"pending", "rejected"}
    BY <1>1 DEF Settles
  <2>4. /\ phase'[d] = "failed" => phase[d] = "failed"
        /\ phase'[d] = "subscribed" => phase[d] = "subscribed"
        /\ phase'[d] = "waiting" => phase[d] = "waiting"
    BY <1>1 DEF Settles
  <2>5. held[d] \in Calls /\ ready[held[d]] = "rejected" => ready'[held[d]] = "rejected"
    BY <1>1 DEF Settles
  <2>6. EntryPart(d)'
    BY <2>1, <2>2, <2>3, <1>p
  <2>7. CallPart(d)'
    BY <2>1, <2>2, <2>4, <2>5, <1>q, <1>0
  <2>8. QED
    BY <2>6, <2>7
<1>2. ASSUME NEW c \in Calls, SubscribeRefused(c) PROVE EntryPart(d)' /\ CallPart(d)'
  <2>1. /\ UNCHANGED <<refs, ready, reactions, held>>
        /\ phase'[d] = phase[d] \/ phase'[d] = "refused"
    BY <1>2, <1>a, RefusedEffect
  <2>2. \A r \in Calls : CleanupPending(r)' <=> CleanupPending(r)
    BY <2>1 DEF CleanupPending
  <2>3. QED
    BY <2>1, <2>2, <1>p, <1>q, <1>0
<1>3. ASSUME NEW c \in Calls, SubscribeFirst(c) PROVE EntryPart(d)' /\ CallPart(d)'
  <2>1. /\ ready[c] = "unused" /\ refs[TargetOf[c]] = NoRef /\ refs'[TargetOf[c]] = c
        /\ \A t \in Targets : t # TargetOf[c] => refs'[t] = refs[t]
        /\ phase'[c] = "waiting" /\ held'[c] = c /\ c # NoRef
        /\ ready'[c] \in {"pending", "rejected"}
        /\ reactions'[c] = <<Cleanup, c>>
        /\ \A e \in Calls : e # c =>
             /\ phase'[e] = phase[e] /\ held'[e] = held[e]
             /\ ready'[e] = ready[e] /\ reactions'[e] = reactions[e]
    BY <1>3, <1>a, FirstEffect
  <2>2. CleanupPending(c)' /\ \A r \in Calls : r # c => (CleanupPending(r)' <=> CleanupPending(r))
    BY <2>1 DEF CleanupPending
  <2>3. CASE d = c
    BY <2>1, <2>2, <2>3
  <2>4. CASE d # c
    <3>1. EntryPart(d)'
      BY <2>1, <2>2, <2>4, <1>p, <1>t
    <3>2. phase[d] \notin {"idle", "refused"} => held[d] # c
      BY <2>1, <1>0
    <3>3. phase[d] \notin {"idle", "refused"} => ready'[held[d]] = ready[held[d]]
      BY <3>2, <2>1, <1>0
    <3>4. refs[TargetOf[d]] \in Calls => TargetOf[d] # TargetOf[c]
      BY <2>1
    <3>5. CallPart(d)'
      BY <2>1, <2>2, <2>4, <3>2, <3>3, <3>4, <1>0, <1>q, <1>t
    <3>6. QED
      BY <3>1, <3>5
  <2>5. QED
    BY <2>3, <2>4
<1>4. ASSUME NEW c \in Calls, SubscribeJoin(c) PROVE EntryPart(d)' /\ CallPart(d)'
  <2>0. PICK r \in Calls : r = refs[TargetOf[c]]
    BY <1>4, <1>a, JoinEffect
  <2>1. /\ r \in Calls /\ TargetOf[r] = TargetOf[c]
        /\ phase'[c] = "waiting" /\ held'[c] = r /\ UNCHANGED <<refs, ready>>
        /\ reactions'[r] = Append(reactions[r], c)
        /\ \A e \in Calls : e # c => phase'[e] = phase[e] /\ held'[e] = held[e]
        /\ \A e \in Calls : e # r => reactions'[e] = reactions[e]
    BY <1>4, <1>a, <2>0, JoinEffect
  <2>2. reactions[r] \in Seq(Calls \union {Cleanup}) /\ c \in Calls \union {Cleanup} /\ c # Cleanup
    BY <2>1, <1>a, TypeFacts
  <2>3. CleanupPending(r)' <=> CleanupPending(r)
    <3>1. CASE reactions[r] = <<>>
      <4>1. reactions'[r] = <<c>>
        BY <3>1, <2>1
      <4>2. QED
        BY <3>1, <4>1, <2>2 DEF CleanupPending
    <3>2. CASE reactions[r] # <<>>
      BY <3>2, <2>1, <2>2, AppendHead DEF CleanupPending
    <3>3. QED
      BY <3>1, <3>2
  <2>4. \A e \in Calls : CleanupPending(e)' <=> CleanupPending(e)
    BY <2>1, <2>3 DEF CleanupPending
  <2>5. refs[TargetOf[c]] = r
    BY <2>0
  <2>6. CASE d = c
    BY <2>1, <2>4, <2>5, <2>6, <1>p
  <2>7. CASE d # c
    BY <2>1, <2>4, <2>7, <1>p, <1>q, <1>0
  <2>8. QED
    BY <2>6, <2>7
<1>5. ASSUME NEW c \in Calls, RunReaction(c), Head(reactions[c]) = Cleanup
      PROVE  EntryPart(d)' /\ CallPart(d)'
  <2>1. /\ ready[c] \in {"resolved", "rejected"} /\ reactions[c] # <<>>
        /\ reactions[c] \in Seq(Calls \union {Cleanup})
        /\ reactions'[c] = Tail(reactions[c])
        /\ \A e \in Calls : e # c => reactions'[e] = reactions[e]
        /\ ready[c] = "rejected" => refs'[TargetOf[c]] = NoRef
        /\ ready[c] = "resolved" => refs' = refs
        /\ \A t \in Targets : t # TargetOf[c] => refs'[t] = refs[t]
        /\ UNCHANGED <<ready, phase, held>>
    BY <1>5, <1>a, CleanupEffect
  <2>2. ~CleanupPending(c)'
    <3>1. ASSUME reactions'[c] # <<>> PROVE Head(reactions'[c]) = reactions[c][2] /\ 2 \in DOMAIN reactions[c]
      BY <2>1, <3>1
    <3>2. 2 \in DOMAIN reactions[c] => reactions[c][2] # Cleanup
      BY <1>a DEF ReactionInv
    <3>3. QED
      BY <3>1, <3>2 DEF CleanupPending
  <2>3. CleanupPending(c) /\ \A e \in Calls : e # c => (CleanupPending(e)' <=> CleanupPending(e))
    BY <2>1, <1>5 DEF CleanupPending
  <2>4. ready[c] = "rejected" => refs[TargetOf[c]] = c
    BY <2>3, <1>p
  <2>5. c # NoRef
    OBVIOUS
  <2>6. EntryPart(d)'
    <3>1. CASE d = c
      BY <3>1, <2>1, <2>2, <2>5
    <3>2. CASE d # c
      <4>1. ready[c] = "rejected" /\ TargetOf[d] = TargetOf[c] =>
              refs'[TargetOf[d]] = NoRef /\ refs[TargetOf[d]] # d
        BY <3>2, <2>1, <2>4
      <4>2. ready[c] # "rejected" \/ TargetOf[d] # TargetOf[c] =>
              refs'[TargetOf[d]] = refs[TargetOf[d]]
        BY <2>1, <1>t
      <4>3. QED
        BY <3>2, <4>1, <4>2, <2>1, <2>3, <1>p
    <3>3. QED
      BY <3>1, <3>2
  <2>7. CallPart(d)'
    <3>1. phase[d] = "failed" => ~CleanupPending(held[d])'
      BY <2>1, <2>2, <2>3, <1>q, <1>0
    <3>2. ASSUME phase[d] = "subscribed" \/ (phase[d] = "waiting" /\ ready[held[d]] # "rejected")
          PROVE  refs'[TargetOf[d]] = held[d]
      <4>1. refs[TargetOf[d]] = held[d] /\ ready[held[d]] # "rejected"
        BY <3>2, <1>q, <1>0
      <4>2. refs'[TargetOf[d]] = refs[TargetOf[d]]
        BY <4>1, <2>1, <2>4, <1>t
      <4>3. QED
        BY <4>1, <4>2
    <3>3. QED
      BY <3>1, <3>2, <2>1
  <2>8. QED
    BY <2>6, <2>7
<1>6. ASSUME NEW c \in Calls, RunReaction(c), Head(reactions[c]) # Cleanup
      PROVE  EntryPart(d)' /\ CallPart(d)'
  <2> DEFINE e == Head(reactions[c])
  <2>1. /\ ready[c] \in {"resolved", "rejected"} /\ reactions[c] # <<>>
        /\ reactions[c] \in Seq(Calls \union {Cleanup})
        /\ reactions'[c] = Tail(reactions[c])
        /\ \A f \in Calls : f # c => reactions'[f] = reactions[f]
        /\ e \in Calls /\ phase[e] = "waiting" /\ held[e] = c
        /\ phase'[e] = IF ready[c] = "resolved" THEN "subscribed" ELSE "failed"
        /\ \A f \in Calls : f # e => phase'[f] = phase[f]
        /\ UNCHANGED <<refs, ready, held>>
    BY <1>6, <1>a, ResumeEffect
  <2>2. ~CleanupPending(c)'
    <3>1. ASSUME reactions'[c] # <<>> PROVE Head(reactions'[c]) = reactions[c][2] /\ 2 \in DOMAIN reactions[c]
      BY <2>1, <3>1
    <3>2. 2 \in DOMAIN reactions[c] => reactions[c][2] # Cleanup
      BY <1>a DEF ReactionInv
    <3>3. QED
      BY <3>1, <3>2 DEF CleanupPending
  <2>3. ~CleanupPending(c) /\ \A f \in Calls : f # c => (CleanupPending(f)' <=> CleanupPending(f))
    BY <2>1, <1>6 DEF CleanupPending
  <2>4. \A f \in Calls : CleanupPending(f)' <=> CleanupPending(f)
    BY <2>2, <2>3
  <2> HIDE DEF e
  <2>5. EntryPart(d)'
    BY <2>1, <2>4, <1>p
  <2>6. CASE d = e
    <3>1. phase'[d] = "failed" => ~CleanupPending(held[d])'
      BY <2>1, <2>2, <2>6
    <3>2. phase'[d] = "subscribed" => refs'[TargetOf[d]] = held'[d]
      BY <2>1, <2>6, <1>q
    <3>3. QED
      BY <3>1, <3>2, <2>1, <2>5, <2>6
  <2>7. CASE d # e
    BY <2>1, <2>4, <2>5, <2>7, <1>q, <1>0
  <2>8. QED
    BY <2>6, <2>7
<1>7. ASSUME NEW c \in Calls, UnsubscribeShared(c) PROVE EntryPart(d)' /\ CallPart(d)'
  <2>1. /\ UNCHANGED <<refs, ready, reactions, held>>
        /\ phase'[d] = phase[d] \/ phase'[d] = "left"
    BY <1>7, <1>a, SharedEffect
  <2>2. \A r \in Calls : CleanupPending(r)' <=> CleanupPending(r)
    BY <2>1 DEF CleanupPending
  <2>3. QED
    BY <2>1, <2>2, <1>p, <1>q, <1>0
<1>8. ASSUME NEW c \in Calls, UnsubscribeLast(c) PROVE EntryPart(d)' /\ CallPart(d)'
  <2>0. PICK r \in Calls : r = held[c]
    BY <1>8, <1>a, LastEffect
  <2>1. /\ r = held[c] /\ phase[c] = "subscribed" /\ count[r] = 1
        /\ phase'[c] \in {"unreleased", "leaving"}
        /\ refs'[TargetOf[c]] = NoRef
        /\ \A t \in Targets : t # TargetOf[c] => refs'[t] = refs[t]
        /\ \A e \in Calls : e # c => phase'[e] = phase[e]
        /\ UNCHANGED <<ready, reactions, held>>
    BY <1>8, <1>a, <2>0, LastEffect
  <2>2. /\ refs[TargetOf[c]] = r /\ ready[r] = "resolved" /\ r # NoRef
        /\ TargetOf[r] = TargetOf[c]
    BY <2>1, <1>q, <1>a DEF OutcomeInv, JoinInv
  <2>3. c \in Holders(r)
    BY <2>1 DEF Holders
  <2>4. Holders(r) = {c}
    <3>1. IsFiniteSet(Holders(r)) /\ Cardinality(Holders(r)) = 1
      BY <2>1, Parts DEF CountInv
    <3>2. QED
      BY <3>1, <2>3, FS_Singleton
  <2>5. \A e \in Calls : CleanupPending(e)' <=> CleanupPending(e)
    BY <2>1 DEF CleanupPending
  <2>6. EntryPart(d)'
    <3>1. CASE TargetOf[d] = TargetOf[c]
      <4>1. ready[d] # "pending" /\ (ready[d] = "rejected" => refs[TargetOf[d]] # d)
        BY <3>1, <2>2, <1>p
      <4>2. QED
        BY <3>1, <4>1, <2>1, <2>5, <1>p
    <3>2. CASE TargetOf[d] # TargetOf[c]
      BY <3>2, <2>1, <2>5, <1>p, <1>t
    <3>3. QED
      BY <3>1, <3>2
  <2>7. CallPart(d)'
    <3>1. CASE d = c
      BY <3>1, <2>1
    <3>2. CASE d # c
      <4>1. phase'[d] = phase[d]
        BY <3>2, <2>1
      <4>2. phase[d] = "failed" => ~CleanupPending(held[d])'
        BY <2>1, <2>5, <1>q, <1>0
      <4>3. ASSUME phase[d] = "subscribed" \/ (phase[d] = "waiting" /\ ready[held[d]] # "rejected")
            PROVE  refs'[TargetOf[d]] = held[d]
        <5>1. refs[TargetOf[d]] = held[d]
          BY <4>3, <1>q
        <5>2. TargetOf[d] # TargetOf[c]
          <6> SUFFICES ASSUME TargetOf[d] = TargetOf[c] PROVE FALSE
            OBVIOUS
          <6>1. held[d] = r
            BY <5>1, <2>2
          <6>2. d \in Holders(r)
            BY <6>1, <4>3 DEF Holders
          <6>3. QED
            BY <6>2, <2>4, <3>2
        <5>3. QED
          BY <5>1, <5>2, <2>1, <1>t
      <4>4. QED
        BY <4>1, <4>2, <4>3, <2>1
    <3>3. QED
      BY <3>1, <3>2
  <2>8. QED
    BY <2>6, <2>7
<1>9. QED
  BY <1>1, <1>2, <1>3, <1>4, <1>5, <1>6, <1>7, <1>8, <1>a, StepKinds

-----------------------------------------------------------------------------
(* The reference count is the number of holders.                           *)
LEMMA CountStep == IInv /\ [Next]_vars => CountInv'
<1> SUFFICES ASSUME IInv, [Next]_vars PROVE CountInv'
  OBVIOUS
<1>a. /\ TypeOK /\ FunctionTypes /\ MapInv /\ JoinInv /\ CreatorInv
      /\ ReactionInv /\ CommandInv /\ CountInv
  BY Parts
<1> DEFINE Counted(r) == IsFiniteSet(Holders(r)) /\ count[r] = Cardinality(Holders(r))
<1>b. \A r \in Calls : Counted(r)
  BY <1>a DEF CountInv
<1>s. SUFFICES ASSUME NEW q \in Calls PROVE Counted(q)'
  BY DEF CountInv
<1>c. ASSUME count'[q] = count[q], held' = held,
             \A d \in Calls : held[d] = q =>
               (phase'[d] \in {"waiting", "subscribed", "failed"}
                  <=> phase[d] \in {"waiting", "subscribed", "failed"})
      PROVE  Counted(q)'
  <2>1. Holders(q)' = Holders(q)
    BY <1>c DEF Holders
  <2>2. QED
    BY <2>1, <1>b, <1>c
<1> USE CallsAssumption
<1>1. ASSUME Settles PROVE Counted(q)'
  <2>1. held' = held /\ count' = count
    BY <1>1 DEF Settles
  <2>2. \A d \in Calls : phase'[d] \in {"waiting", "subscribed", "failed"}
                          <=> phase[d] \in {"waiting", "subscribed", "failed"}
    BY <1>1 DEF Settles
  <2>3. QED
    BY <2>1, <2>2, <1>c
<1>2. ASSUME NEW c \in Calls, SubscribeRefused(c) PROVE Counted(q)'
  BY <1>2, <1>a, <1>c, RefusedEffect
<1>3. ASSUME NEW c \in Calls, SubscribeFirst(c) PROVE Counted(q)'
  <2>1. /\ ready[c] = "unused" /\ held[c] = NoRef /\ count'[c] = 1
        /\ phase'[c] = "waiting" /\ held'[c] = c
        /\ \A d \in Calls : d # c => /\ phase'[d] = phase[d] /\ held'[d] = held[d]
                                    /\ count'[d] = count[d]
    BY <1>3, <1>a, FirstEffect
  <2>2. \A d \in Calls : held[d] # c
    BY <2>1, <1>a DEF JoinInv
  <2>3. CASE q = c
    <3>1. Holders(q)' = {c}
      BY <2>1, <2>2, <2>3 DEF Holders
    <3>2. IsFiniteSet({c}) /\ Cardinality({c}) = 1
      BY FS_Singleton
    <3>3. QED
      BY <3>1, <3>2, <2>1, <2>3
  <2>4. CASE q # c
    <3>1. Holders(q)' = Holders(q)
      BY <2>1, <2>4 DEF Holders
    <3>2. QED
      BY <3>1, <2>1, <2>4, <1>b
  <2>5. QED
    BY <2>3, <2>4
<1>4. ASSUME NEW c \in Calls, SubscribeJoin(c) PROVE Counted(q)'
  <2>0. PICK r \in Calls : r = refs[TargetOf[c]]
    BY <1>4, <1>a, JoinEffect
  <2>1. /\ held[c] = NoRef /\ count'[r] = count[r] + 1
        /\ phase'[c] = "waiting" /\ held'[c] = r
        /\ \A d \in Calls : d # c => phase'[d] = phase[d] /\ held'[d] = held[d]
        /\ \A d \in Calls : d # r => count'[d] = count[d]
    BY <1>4, <1>a, <2>0, JoinEffect
  <2>2. CASE q = r
    <3>1. Holders(q)' = Holders(q) \union {c} /\ c \notin Holders(q)
      BY <2>1, <2>2 DEF Holders
    <3>2. IsFiniteSet(Holders(q)) /\ count[q] = Cardinality(Holders(q))
      BY <1>b
    <3>3. IsFiniteSet(Holders(q)') /\ Cardinality(Holders(q)') = Cardinality(Holders(q)) + 1
      BY <3>1, <3>2, FS_AddElement
    <3>4. QED
      BY <3>2, <3>3, <2>1, <2>2
  <2>3. CASE q # r
    <3>1. Holders(q)' = Holders(q)
      BY <2>1, <2>3 DEF Holders
    <3>2. QED
      BY <3>1, <2>1, <2>3, <1>b
  <2>4. QED
    BY <2>2, <2>3
<1>5. ASSUME NEW c \in Calls, RunReaction(c) PROVE Counted(q)'
  BY <1>5, <1>a, <1>c, CleanupEffect, ResumeEffect
<1>6. ASSUME NEW c \in Calls, UnsubscribeShared(c) \/ UnsubscribeLast(c) PROVE Counted(q)'
  <2>0. PICK r \in Calls : r = held[c]
    BY <1>6, <1>a, SharedEffect, LastEffect
  <2>1. /\ phase[c] = "subscribed" /\ count'[r] = count[r] - 1
        /\ phase'[c] \in {"left", "unreleased", "leaving"}
        /\ \A d \in Calls : d # c => phase'[d] = phase[d]
        /\ \A s \in Calls : s # r => count'[s] = count[s]
        /\ held' = held
    BY <1>6, <1>a, <2>0, SharedEffect, LastEffect
  <2>2. CASE q = r
    <3>1. Holders(q)' = Holders(q) \ {c} /\ c \in Holders(q)
      BY <2>0, <2>1, <2>2 DEF Holders
    <3>2. IsFiniteSet(Holders(q)) /\ count[q] = Cardinality(Holders(q))
      BY <1>b
    <3>3. IsFiniteSet(Holders(q)') /\ Cardinality(Holders(q)') = Cardinality(Holders(q)) - 1
      BY <3>1, <3>2, FS_RemoveElement
    <3>4. QED
      BY <3>2, <3>3, <2>1, <2>2
  <2>3. CASE q # r
    <3>1. Holders(q)' = Holders(q)
      BY <2>0, <2>1, <2>3 DEF Holders
    <3>2. QED
      BY <3>1, <2>1, <2>3, <1>b
  <2>4. QED
    BY <2>2, <2>3
<1>7. QED
  BY <1>1, <1>2, <1>3, <1>4, <1>5, <1>6, <1>a, StepKinds

-----------------------------------------------------------------------------
(* What a step does to the commands on their way.                          *)

(* The queue is kept; nothing is resolved and no entry is added, except    *)
(* one that is rejected at once.                                           *)
KeepsQueue ==
  /\ UNCHANGED <<queue, recorded>>
  /\ \A r \in Calls : ready'[r] = ready[r] \/ ready'[r] = "rejected"
  /\ \A r \in Calls : ready[r] = "rejected" => ready'[r] = "rejected"
  /\ \A c \in Calls :
       phase[c] \in {"leaving", "unreleased"} => phase'[c] \in {"leaving", "unreleased"}
  /\ \A c \in Calls : phase[c] = "unreleased" => phase'[c] = "unreleased"
  /\ \A r \in Calls :
       refs'[TargetOf[r]] = r => refs[TargetOf[r]] = r \/ ready'[r] = "rejected"
  /\ link' # "end" => link # "end"
  /\ \A t \in Targets :
       refs'[t] = NoRef /\ link' # "end" =>
         \/ refs[t] = NoRef
         \/ \E r \in Calls : TargetOf[r] = t /\ ready[r] = "rejected"

(* The queue is emptied and every command in it rejected.                  *)
EmptiesQueue ==
  /\ RejectQueued
  /\ UNCHANGED <<refs, recorded>>
  /\ link' = "end" \/ link' = link

LEMMA WireKinds ==
  ASSUME [Next]_vars, TypeOK, FunctionTypes, MapInv, JoinInv, CreatorInv, ReactionInv,
         HookInv
  PROVE  \/ KeepsQueue
         \/ EmptiesQueue
         \/ ServerAnswers
         \/ ShutdownQuits /\ link # "end"
         \/ \E c \in Calls : (SubscribeFirst(c) \/ UnsubscribeLast(c)) /\ link # "end"
<1> USE CallsAssumption DEF entries, callers, hooks, wire
<1>t. \A c \in Calls : TargetOf[c] \in Targets
  OBVIOUS
<1>1. ASSUME NEW c \in Calls, SubscribeRefused(c) PROVE KeepsQueue
  BY <1>1, RefusedEffect DEF KeepsQueue
<1>2. ASSUME NEW c \in Calls, SubscribeFirst(c), link = "end" PROVE KeepsQueue
  <2>1. link' = "end"
    BY <1>2 DEF SubscribeFirst, EnsureSubscriber, HookInv
  <2>2. QED
    BY <1>2, <2>1, <1>t, FirstEffect DEF KeepsQueue, FunctionTypes
<1>3. ASSUME NEW c \in Calls, SubscribeJoin(c) PROVE KeepsQueue
  <2>1. link' # "end" => link # "end"
    BY <1>3 DEF SubscribeJoin, EnsureSubscriber, HookInv
  <2>2. QED
    BY <1>3, <2>1, JoinEffect DEF KeepsQueue
<1>4. ASSUME NEW c \in Calls, RunReaction(c) PROVE KeepsQueue
  <2>1. CASE Head(reactions[c]) = Cleanup
    <3>1. /\ UNCHANGED <<ready, phase, link, queue, recorded>>
          /\ ready[c] = "rejected" => refs'[TargetOf[c]] = NoRef
          /\ ready[c] # "rejected" => refs' = refs
          /\ \A t \in Targets : t # TargetOf[c] => refs'[t] = refs[t]
      BY <1>4, <2>1, CleanupEffect
    <3>2. \A r \in Calls : refs'[TargetOf[r]] = r => refs[TargetOf[r]] = r
      BY <3>1, <1>t
    <3>3. \A t \in Targets : refs'[t] # refs[t] => TargetOf[c] = t /\ ready[c] = "rejected"
      BY <3>1
    <3>4. QED
      BY <3>1, <3>2, <3>3 DEF KeepsQueue
  <2>2. CASE Head(reactions[c]) # Cleanup
    BY <1>4, <2>2, ResumeEffect DEF KeepsQueue
  <2>3. QED
    BY <2>1, <2>2
<1>5. ASSUME NEW c \in Calls, UnsubscribeShared(c) PROVE KeepsQueue
  BY <1>5, SharedEffect DEF KeepsQueue
<1>6. ASSUME NEW c \in Calls, UnsubscribeLast(c), link = "end" PROVE KeepsQueue
  BY <1>6, <1>t, LastEffect DEF KeepsQueue
<1>7. ASSUME NEW c \in Calls, TimeoutSubscribe(c) PROVE KeepsQueue
  BY <1>7 DEF TimeoutSubscribe, KeepsQueue, FunctionTypes
<1>8. ASSUME NEW c \in Calls, TimeoutUnsubscribe(c) PROVE KeepsQueue
  BY <1>8 DEF TimeoutUnsubscribe, KeepsQueue, FunctionTypes
<1>9. ASSUME ServerQuits PROVE EmptiesQueue
  BY <1>9 DEF ServerQuits, EndLink, EmptiesQueue
<1>10. ASSUME LinkDrops PROVE EmptiesQueue \/ KeepsQueue
  <2>1. CASE Closing
    BY <1>10, <2>1 DEF LinkDrops, EndLink, EmptiesQueue
  <2>2. CASE ~Closing
    BY <1>10, <2>2 DEF LinkDrops, KeepsQueue
  <2>3. QED
    BY <2>1, <2>2
<1>11. ASSUME LinkUp PROVE KeepsQueue
  BY <1>11 DEF LinkUp, KeepsQueue
<1>12. ASSUME FlushQueue PROVE EmptiesQueue
  BY <1>12 DEF FlushQueue, EmptiesQueue
<1>13. ASSUME LinkGivesUp PROVE EmptiesQueue
  BY <1>13 DEF LinkGivesUp, EndLink, EmptiesQueue
<1>14. ASSUME ManagerShutsDown \/ ShutdownUnused \/ TimeoutQuit PROVE KeepsQueue
  BY <1>14 DEF ManagerShutsDown, ShutdownUnused, TimeoutQuit, KeepsQueue
<1>15. ASSUME ShutdownOffline PROVE EmptiesQueue
  BY <1>15 DEF ShutdownOffline, EndLink, EmptiesQueue
<1>16. ASSUME ShutdownQuits, link = "end" PROVE KeepsQueue
  BY <1>16 DEF ShutdownQuits, KeepsQueue
<1>17. ASSUME ForceDisconnect PROVE EmptiesQueue
  BY <1>17 DEF ForceDisconnect, EndLink, EmptiesQueue
<1>18. ASSUME UNCHANGED vars PROVE KeepsQueue
  BY <1>18 DEF vars, KeepsQueue
<1>19. QED
  BY <1>1, <1>2, <1>3, <1>4, <1>5, <1>6, <1>7, <1>8, <1>9, <1>10, <1>11, <1>12,
     <1>13, <1>14, <1>15, <1>16, <1>17, <1>18
  DEF Next, CallStep, ConnectionStep, ShutdownStep

(* The oldest command and its answer.                                      *)
LEMMA AnswerEffect ==
  ASSUME ServerAnswers, TypeOK, FunctionTypes, CommandInv
  PROVE  /\ queue \in Seq(Commands) /\ queue # <<>> /\ queue' = Tail(queue)
         /\ link' = link /\ refs' = refs
         /\ queue[1].call \in Calls
         /\ \/ /\ queue[1].op = "subscribe"
               /\ phase' = phase
               /\ \A r \in Calls : r # queue[1].call => ready'[r] = ready[r]
               /\ ready[queue[1].call] # "pending" =>
                    ready'[queue[1].call] = ready[queue[1].call]
               /\ \/ /\ recorded' = recorded \union {TargetOf[queue[1].call]}
                     /\ ready[queue[1].call] = "pending" => ready'[queue[1].call] = "resolved"
                  \/ /\ recorded' = recorded
                     /\ ready[queue[1].call] = "pending" => ready'[queue[1].call] = "rejected"
            \/ /\ queue[1].op = "unsubscribe"
               /\ ready' = ready
               /\ \A c \in Calls : c # queue[1].call => phase'[c] = phase[c]
               /\ phase[queue[1].call] # "leaving" =>
                    phase'[queue[1].call] = phase[queue[1].call]
               /\ \/ /\ recorded' = recorded \ {TargetOf[queue[1].call]}
                     /\ phase[queue[1].call] = "leaving" => phase'[queue[1].call] = "left"
                  \/ /\ recorded' = recorded
                     /\ phase[queue[1].call] = "leaving" => phase'[queue[1].call] = "unreleased"
<1>1. queue \in Seq(Commands) /\ queue # <<>> /\ Head(queue).op # "quit"
  BY TypeFacts DEF ServerAnswers
<1>2. Head(queue) = queue[1] /\ 1 \in DOMAIN queue
  BY <1>1, TailFacts
<1>3. queue[1].call \in Calls
  BY <1>1, <1>2 DEF CommandInv
<1>4. queue' = Tail(queue) /\ link' = link /\ refs' = refs
  BY DEF ServerAnswers
<1>5. PICK accepted \in BOOLEAN :
        \/ queue[1].op = "subscribe" /\ AnswerSubscribe(queue[1].call, accepted)
        \/ queue[1].op = "unsubscribe" /\ AnswerUnsubscribe(queue[1].call, accepted)
  BY <1>2 DEF ServerAnswers
<1>6. CASE queue[1].op = "subscribe" /\ AnswerSubscribe(queue[1].call, accepted)
  BY <1>1, <1>3, <1>4, <1>6 DEF AnswerSubscribe, FunctionTypes
<1>7. CASE queue[1].op = "unsubscribe" /\ AnswerUnsubscribe(queue[1].call, accepted)
  BY <1>1, <1>3, <1>4, <1>7 DEF AnswerUnsubscribe, FunctionTypes
<1>8. QED
  BY <1>5, <1>6, <1>7

LEMMA CommandStep == IInv /\ [Next]_vars => CommandInv'
<1> SUFFICES ASSUME IInv, [Next]_vars PROVE CommandInv'
  OBVIOUS
<1>a. /\ TypeOK /\ FunctionTypes /\ MapInv /\ JoinInv /\ CreatorInv
      /\ ReactionInv /\ CommandInv /\ HookInv
  BY Parts
<1>b. queue \in Seq(Commands)
  BY <1>a, TypeFacts
<1>c. ASSUME NEW i \in DOMAIN queue
      PROVE  /\ queue[i].op # "quit" => queue[i].call \in Calls
             /\ queue[i].op = "quit" => queue[i].call = NoRef
             /\ queue[i].op = "subscribe" => ready[queue[i].call] \in {"pending", "rejected"}
             /\ queue[i].op = "unsubscribe" => phase[queue[i].call] \in {"leaving", "unreleased"}
             /\ \A j \in DOMAIN queue :
                  /\ queue[i].op # "quit"
                  /\ queue[i].op = queue[j].op
                  /\ queue[i].call = queue[j].call
                  => i = j
  BY <1>a DEF CommandInv
<1> USE CallsAssumption
<1>1. ASSUME KeepsQueue PROVE CommandInv'
  <2>1. queue' = queue
    BY <1>1 DEF KeepsQueue
  <2>2. ASSUME NEW i \in DOMAIN queue, queue[i].op = "subscribe"
        PROVE  ready'[queue[i].call] \in {"pending", "rejected"}
    BY <1>1, <1>c, <2>2 DEF KeepsQueue
  <2>3. ASSUME NEW i \in DOMAIN queue, queue[i].op = "unsubscribe"
        PROVE  phase'[queue[i].call] \in {"leaving", "unreleased"}
    BY <1>1, <1>c, <2>3 DEF KeepsQueue
  <2>4. QED
    BY <2>1, <2>2, <2>3, <1>c DEF CommandInv
<1>2. ASSUME EmptiesQueue PROVE CommandInv'
  BY <1>2 DEF EmptiesQueue, RejectQueued, CommandInv
<1>3. ASSUME ServerAnswers PROVE CommandInv'
  <2>1. /\ queue # <<>> /\ queue' = Tail(queue) /\ queue[1].call \in Calls
        /\ \A r \in Calls :
             r # queue[1].call \/ queue[1].op # "subscribe" => ready'[r] = ready[r]
        /\ \A c \in Calls :
             c # queue[1].call \/ queue[1].op # "unsubscribe" => phase'[c] = phase[c]
    BY <1>3, <1>a, AnswerEffect
  <2>2. /\ 1 \in DOMAIN queue
        /\ \A i \in DOMAIN queue' : /\ i + 1 \in DOMAIN queue /\ queue'[i] = queue[i + 1]
                                   /\ i \in Nat /\ i + 1 # 1
    BY <2>1, <1>b, TailFacts
  <2>3. ASSUME NEW i \in DOMAIN queue'
        PROVE  /\ queue'[i].op # "quit" => queue'[i].call \in Calls
               /\ queue'[i].op = "quit" => queue'[i].call = NoRef
               /\ queue'[i].op = "subscribe" => ready'[queue'[i].call] \in {"pending", "rejected"}
               /\ queue'[i].op = "unsubscribe" => phase'[queue'[i].call] \in {"leaving", "unreleased"}
    <3>1. i + 1 \in DOMAIN queue /\ queue'[i] = queue[i + 1] /\ i + 1 # 1
      BY <2>2
    <3>2. queue[i + 1].op # "quit" /\ queue[i + 1].op = queue[1].op =>
            queue[i + 1].call # queue[1].call
      BY <3>1, <2>2, <1>c
    <3>3. QED
      BY <3>1, <3>2, <2>1, <1>c
  <2>4. ASSUME NEW i \in DOMAIN queue', NEW j \in DOMAIN queue',
               queue'[i].op # "quit", queue'[i].op = queue'[j].op,
               queue'[i].call = queue'[j].call
        PROVE  i = j
    <3>1. i + 1 = j + 1
      BY <2>2, <2>4, <1>c
    <3>2. QED
      BY <3>1, <2>2
  <2>5. QED
    BY <2>3, <2>4 DEF CommandInv
<1>4. ASSUME NEW cmd \in Commands, queue' = Append(queue, cmd),
             \A r \in Calls : ready[r] # "unused" => ready'[r] = ready[r],
             \A c \in Calls : phase[c] \in {"leaving", "unreleased"} => phase'[c] = phase[c],
             cmd.op # "quit" => cmd.call \in Calls,
             cmd.op = "quit" => cmd.call = NoRef,
             cmd.op = "subscribe" =>
               ready[cmd.call] = "unused" /\ ready'[cmd.call] = "pending",
             cmd.op = "unsubscribe" =>
               phase[cmd.call] = "subscribed" /\ phase'[cmd.call] = "leaving"
      PROVE  CommandInv'
  <2> DEFINE n == Len(queue) + 1
  <2>1. /\ \A i \in DOMAIN queue' : i = n \/ i \in DOMAIN queue
        /\ \A i \in DOMAIN queue : queue'[i] = queue[i]
        /\ queue'[n] = cmd
    BY <1>4, <1>b, AppendFacts
  <2> HIDE DEF n
  <2>2. ASSUME NEW i \in DOMAIN queue, cmd.op # "quit", queue[i].op = cmd.op
        PROVE  queue[i].call # cmd.call
    <3>1. cmd.op \in {"subscribe", "unsubscribe"}
      BY <2>2 DEF Commands
    <3>2. QED
      BY <3>1, <2>2, <1>4, <1>c
  <2>3. ASSUME NEW i \in DOMAIN queue'
        PROVE  /\ queue'[i].op # "quit" => queue'[i].call \in Calls
               /\ queue'[i].op = "quit" => queue'[i].call = NoRef
               /\ queue'[i].op = "subscribe" => ready'[queue'[i].call] \in {"pending", "rejected"}
               /\ queue'[i].op = "unsubscribe" => phase'[queue'[i].call] \in {"leaving", "unreleased"}
    <3>1. CASE i = n
      BY <3>1, <2>1, <1>4
    <3>2. CASE i \in DOMAIN queue
      BY <3>2, <2>1, <1>4, <1>c
    <3>3. QED
      BY <3>1, <3>2, <2>1
  <2>4. ASSUME NEW i \in DOMAIN queue', NEW j \in DOMAIN queue',
               queue'[i].op # "quit", queue'[i].op = queue'[j].op,
               queue'[i].call = queue'[j].call
        PROVE  i = j
    BY <2>1, <2>2, <2>4, <1>c
  <2>5. QED
    BY <2>3, <2>4 DEF CommandInv
<1>5. ASSUME ShutdownQuits, link # "end" PROVE CommandInv'
  <2>1. queue' = Append(queue, Quit) /\ ready' = ready /\ phase' = phase
    BY <1>5 DEF ShutdownQuits, entries, callers
  <2>2. QED
    BY <2>1, <1>4, QuitType
<1>6. ASSUME NEW c \in Calls, SubscribeFirst(c), link # "end" PROVE CommandInv'
  <2>1. /\ queue' = Append(queue, Command("subscribe", c))
        /\ ready[c] = "unused" /\ ready'[c] = "pending" /\ phase[c] = "idle"
        /\ \A d \in Calls : d # c => ready'[d] = ready[d] /\ phase'[d] = phase[d]
    BY <1>6, <1>a, FirstEffect
  <2>2. QED
    BY <2>1, <1>4, CommandTypes
<1>7. ASSUME NEW c \in Calls, UnsubscribeLast(c), link # "end" PROVE CommandInv'
  <2>1. /\ queue' = Append(queue, Command("unsubscribe", c))
        /\ ready' = ready /\ phase[c] = "subscribed" /\ phase'[c] = "leaving"
        /\ \A d \in Calls : d # c => phase'[d] = phase[d]
    BY <1>7, <1>a, LastEffect
  <2>2. QED
    BY <2>1, <1>4, CommandTypes
<1>8. QED
  BY <1>1, <1>2, <1>3, <1>5, <1>6, <1>7, <1>a, WireKinds

-----------------------------------------------------------------------------
(* Commands and what they leave subscribed agree with the entries.         *)

LEMMA WireStep == IInv /\ [Next]_vars => WireInv'
<1> SUFFICES ASSUME IInv, [Next]_vars PROVE WireInv'
  OBVIOUS
<1>a. /\ TypeOK /\ FunctionTypes /\ MapInv /\ JoinInv /\ CreatorInv
      /\ OutcomeInv /\ ReactionInv /\ CommandInv /\ HookInv
  BY Parts
<1>b. queue \in Seq(Commands) /\ queue' \in Seq(Commands)
  BY <1>a, TypeStep, TypeFacts DEF TypeOK
<1>c. /\ \A r \in Calls : ready[r] = "pending" => refs[TargetOf[r]] = r
      /\ \A c \in Calls : phase[c] = "subscribed" => refs[TargetOf[c]] = held[c]
  BY Parts DEF RegistrationInv, RegisteredWhileHeld
<1>o. \A i \in DOMAIN queue : queue[i].op # "quit" => queue[i].call \in Calls
  BY <1>a DEF CommandInv
<1>t. \A c \in Calls : TargetOf[c] \in Targets
  BY CallsAssumption
<1>w1. ASSUME NEW r \in Calls, ready[r] = "pending"
       PROVE  \E i \in DOMAIN queue : queue[i] = Command("subscribe", r)
  BY <1>w1, Parts DEF WireInv, Queued
<1>w2. ASSUME NEW i \in DOMAIN queue, NEW j \in DOMAIN queue,
              queue[i].op = "subscribe", ready[queue[i].call] = "pending",
              queue[j].op = "unsubscribe",
              TargetOf[queue[i].call] = TargetOf[queue[j].call]
       PROVE  j < i
  BY <1>w2, Parts DEF WireInv
<1>w3. ASSUME NEW r \in Calls, ready[r] = "resolved", refs[TargetOf[r]] = r, link # "end"
       PROVE  /\ TargetOf[r] \in recorded
              /\ \A j \in DOMAIN queue : queue[j].op = "unsubscribe" =>
                   TargetOf[queue[j].call] # TargetOf[r]
  BY <1>w3, Parts DEF WireInv
<1> USE CallsAssumption
<1>1. ASSUME KeepsQueue PROVE WireInv'
  <2>1. queue' = queue /\ recorded' = recorded
    BY <1>1 DEF KeepsQueue
  <2>2. \A r \in Calls : ready'[r] # "rejected" => ready'[r] = ready[r]
    BY <1>1 DEF KeepsQueue
  <2>3. \A r \in Calls : refs'[TargetOf[r]] = r /\ ready'[r] # "rejected" => refs[TargetOf[r]] = r
    BY <1>1 DEF KeepsQueue
  <2>4. link' # "end" => link # "end"
    BY <1>1 DEF KeepsQueue
  <2>5. \A r \in Calls : ready'[r] = "pending" => Queued(Command("subscribe", r))'
    BY <2>1, <2>2, <1>w1 DEF Queued
  <2>6. ASSUME NEW i \in DOMAIN queue', NEW j \in DOMAIN queue',
               queue'[i].op = "subscribe", ready'[queue'[i].call] = "pending",
               queue'[j].op = "unsubscribe",
               TargetOf[queue'[i].call] = TargetOf[queue'[j].call]
        PROVE  j < i
    BY <2>1, <2>2, <2>6, <1>o, <1>w2
  <2>7. ASSUME NEW r \in Calls, ready'[r] = "resolved", refs'[TargetOf[r]] = r, link' # "end"
        PROVE  /\ TargetOf[r] \in recorded'
               /\ \A j \in DOMAIN queue' : queue'[j].op = "unsubscribe" =>
                    TargetOf[queue'[j].call] # TargetOf[r]
    BY <2>1, <2>2, <2>3, <2>4, <2>7, <1>w3
  <2>8. QED
    BY <2>5, <2>6, <2>7 DEF WireInv
<1>2. ASSUME EmptiesQueue PROVE WireInv'
  <2>1. /\ queue' = <<>> /\ UNCHANGED <<refs, recorded>>
        /\ link' # "end" => link # "end"
    BY <1>2 DEF EmptiesQueue, RejectQueued
  <2>2. ASSUME NEW r \in Calls PROVE ready'[r] # "pending" /\ (ready'[r] = "resolved" => ready[r] = "resolved")
    BY <1>2, <1>w1 DEF EmptiesQueue, RejectQueued, Queued
  <2>3. QED
    BY <2>1, <2>2, <1>w3 DEF WireInv
<1>3. ASSUME ServerAnswers PROVE WireInv'
  <2>1. /\ queue # <<>> /\ queue' = Tail(queue) /\ queue[1].call \in Calls
        /\ refs' = refs /\ link' = link
    BY <1>3, <1>a, AnswerEffect
  <2>2. /\ 1 \in DOMAIN queue
        /\ \A i \in DOMAIN queue : i # 1 => i - 1 \in DOMAIN queue' /\ queue'[i - 1] = queue[i]
        /\ \A i \in DOMAIN queue' : /\ i + 1 \in DOMAIN queue /\ queue'[i] = queue[i + 1]
                                   /\ i \in Nat /\ i >= 1
        /\ \A i \in DOMAIN queue : i \in Nat
    BY <2>1, <1>b, TailFacts
  <2>3. ASSUME NEW r \in Calls, ready'[r] = "pending"
        PROVE  /\ ready[r] = "pending"
               /\ queue[1].op = "subscribe" => queue[1].call # r
    BY <2>3, <1>3, <1>a, AnswerEffect
  <2>4. ASSUME NEW r \in Calls, ready'[r] = "pending"
        PROVE  Queued(Command("subscribe", r))'
    <3>1. PICK i \in DOMAIN queue : queue[i] = Command("subscribe", r)
      BY <2>3, <2>4, <1>w1
    <3>2. i # 1
      BY <3>1, <2>3, <2>4, CommandTypes
    <3>3. QED
      BY <3>1, <3>2, <2>2 DEF Queued, Command
  <2>5. ASSUME NEW i \in DOMAIN queue', NEW j \in DOMAIN queue',
               queue'[i].op = "subscribe", ready'[queue'[i].call] = "pending",
               queue'[j].op = "unsubscribe",
               TargetOf[queue'[i].call] = TargetOf[queue'[j].call]
        PROVE  j < i
    <3>1. /\ i + 1 \in DOMAIN queue /\ queue'[i] = queue[i + 1]
          /\ j + 1 \in DOMAIN queue /\ queue'[j] = queue[j + 1]
      BY <2>2
    <3>2. ready[queue[i + 1].call] = "pending"
      BY <3>1, <2>3, <2>5, <1>o
    <3>3. j + 1 < i + 1
      BY <3>1, <3>2, <2>5, <1>w2
    <3>4. QED
      BY <3>3, <2>2
  <2>6. ASSUME NEW r \in Calls, ready'[r] = "resolved", refs'[TargetOf[r]] = r, link' # "end"
        PROVE  /\ TargetOf[r] \in recorded'
               /\ \A j \in DOMAIN queue' : queue'[j].op = "unsubscribe" =>
                    TargetOf[queue'[j].call] # TargetOf[r]
    <3>1. CASE ready[r] = "resolved"
      <4>1. /\ TargetOf[r] \in recorded
            /\ \A j \in DOMAIN queue : queue[j].op = "unsubscribe" =>
                 TargetOf[queue[j].call] # TargetOf[r]
        BY <3>1, <2>1, <2>6, <1>w3
      <4>2. queue[1].op = "unsubscribe" => TargetOf[queue[1].call] # TargetOf[r]
        BY <4>1, <2>2
      <4>3. TargetOf[r] \in recorded'
        BY <4>1, <4>2, <1>3, <1>a, AnswerEffect
      <4>4. QED
        BY <4>1, <4>3, <2>2
    <3>2. CASE ready[r] # "resolved"
      <4>1. /\ queue[1].op = "subscribe" /\ queue[1].call = r /\ ready[r] = "pending"
            /\ recorded' = recorded \union {TargetOf[r]}
        BY <3>2, <2>6, <1>3, <1>a, AnswerEffect
      <4>2. ASSUME NEW j \in DOMAIN queue', queue'[j].op = "unsubscribe",
                   TargetOf[queue'[j].call] = TargetOf[r]
            PROVE  FALSE
        <5>1. j + 1 \in DOMAIN queue /\ queue'[j] = queue[j + 1] /\ j \in Nat /\ j >= 1
          BY <2>2
        <5>2. j + 1 < 1
          BY <5>1, <4>1, <4>2, <2>2, <1>w2
        <5>3. QED
          BY <5>1, <5>2
      <4>3. QED
        BY <4>1, <4>2
    <3>3. QED
      BY <3>1, <3>2
  <2>7. QED
    BY <2>4, <2>5, <2>6 DEF WireInv
<1>4. ASSUME NEW cmd \in Commands, queue' = Append(queue, cmd), link # "end",
             recorded' = recorded,
             \A r \in Calls : ready'[r] = ready[r] \/ cmd = Command("subscribe", r),
             cmd.op = "subscribe" =>
               /\ cmd.call \in Calls
               /\ ready[cmd.call] = "unused" /\ ready'[cmd.call] = "pending",
             \A r \in Calls :
               refs'[TargetOf[r]] = r => refs[TargetOf[r]] = r \/ ready'[r] = "pending",
             cmd.op = "unsubscribe" =>
               /\ cmd.call \in Calls
               /\ refs'[TargetOf[cmd.call]] = NoRef
               /\ \A r \in Calls : ready[r] = "pending" => TargetOf[r] # TargetOf[cmd.call]
      PROVE  WireInv'
  <2> DEFINE n == Len(queue) + 1
  <2>1. /\ n \in DOMAIN queue' /\ queue'[n] = cmd
        /\ \A i \in DOMAIN queue' : i = n \/ i \in DOMAIN queue
        /\ \A i \in DOMAIN queue : i \in DOMAIN queue' /\ queue'[i] = queue[i]
        /\ \A i \in DOMAIN queue : i \in Nat /\ i < n
        /\ n \in Nat
    BY <1>4, <1>b, AppendFacts
  <2> HIDE DEF n
  <2>2. ASSUME NEW r \in Calls, ready'[r] = "pending" PROVE Queued(Command("subscribe", r))'
    <3>1. CASE cmd = Command("subscribe", r)
      BY <3>1, <2>1 DEF Queued, Command
    <3>2. CASE cmd # Command("subscribe", r)
      <4>1. PICK i \in DOMAIN queue : queue[i] = Command("subscribe", r)
        BY <3>2, <2>2, <1>4, <1>w1
      <4>2. QED
        BY <4>1, <2>1 DEF Queued, Command
    <3>3. QED
      BY <3>1, <3>2
  <2>3. ASSUME NEW i \in DOMAIN queue', NEW j \in DOMAIN queue',
               queue'[i].op = "subscribe", ready'[queue'[i].call] = "pending",
               queue'[j].op = "unsubscribe",
               TargetOf[queue'[i].call] = TargetOf[queue'[j].call]
        PROVE  j < i
    <3>1. CASE i = n
      <4>1. j # n
        BY <3>1, <2>3
      <4>2. QED
        BY <3>1, <4>1, <2>1
    <3>2. CASE i # n
      <4>1. i \in DOMAIN queue /\ queue'[i] = queue[i] /\ queue[i].call \in Calls
        BY <3>2, <2>1, <2>3, <1>o
      <4>2. cmd # Command("subscribe", queue[i].call) => ready[queue[i].call] = "pending"
        BY <4>1, <2>3, <1>4
      <4>3. CASE j = n
        <5>1. cmd.op = "unsubscribe"
          BY <4>3, <2>1, <2>3
        <5>2. cmd # Command("subscribe", queue[i].call)
          BY <5>1, <4>1, CommandTypes
        <5>3. QED
          BY <5>1, <5>2, <4>1, <4>2, <4>3, <2>1, <2>3, <1>4
      <4>4. CASE j # n /\ ready[queue[i].call] = "pending"
        BY <4>1, <4>4, <2>1, <2>3, <1>w2
      <4>5. CASE j # n /\ ready[queue[i].call] # "pending"
        <5>1. ready[queue[i].call] \in {"pending", "rejected"}
          BY <4>1, <2>3, <1>a DEF CommandInv
        <5>2. ready[queue[i].call] = "rejected" /\ cmd = Command("subscribe", queue[i].call)
          BY <5>1, <4>5, <4>2
        <5>3. QED
          BY <5>2, <4>1, <1>4, CommandTypes
      <4>6. QED
        BY <4>3, <4>4, <4>5
    <3>3. QED
      BY <3>1, <3>2
  <2>4. ASSUME NEW r \in Calls, ready'[r] = "resolved", refs'[TargetOf[r]] = r, link' # "end"
        PROVE  /\ TargetOf[r] \in recorded'
               /\ \A j \in DOMAIN queue' : queue'[j].op = "unsubscribe" =>
                    TargetOf[queue'[j].call] # TargetOf[r]
    <3>1. cmd # Command("subscribe", r)
      BY <2>4, <1>4, CommandTypes
    <3>2. ready[r] = "resolved" /\ refs[TargetOf[r]] = r
      BY <3>1, <2>4, <1>4
    <3>3. cmd.op = "unsubscribe" => TargetOf[cmd.call] # TargetOf[r]
      BY <2>4, <1>4
    <3>4. QED
      BY <3>2, <3>3, <2>1, <1>4, <1>w3
  <2>5. QED
    BY <2>2, <2>3, <2>4 DEF WireInv
<1>5. ASSUME ShutdownQuits, link # "end" PROVE WireInv'
  <2>1. /\ queue' = Append(queue, Quit) /\ ready' = ready /\ refs' = refs
        /\ recorded' = recorded
    BY <1>5 DEF ShutdownQuits, entries
  <2>2. QED
    BY <2>1, <1>4, <1>5, QuitType
<1>6. ASSUME NEW c \in Calls, SubscribeFirst(c), link # "end" PROVE WireInv'
  <2>1. /\ queue' = Append(queue, Command("subscribe", c))
        /\ ready[c] = "unused" /\ ready'[c] = "pending" /\ recorded' = recorded
        /\ \A d \in Calls : d # c => ready'[d] = ready[d]
        /\ refs'[TargetOf[c]] = c
        /\ \A t \in Targets : t # TargetOf[c] => refs'[t] = refs[t]
    BY <1>6, <1>a, FirstEffect
  <2>2. \A r \in Calls : refs'[TargetOf[r]] = r => refs[TargetOf[r]] = r \/ ready'[r] = "pending"
    BY <2>1, <1>t
  <2>3. QED
    BY <2>1, <2>2, <1>4, <1>6, CommandTypes
<1>7. ASSUME NEW c \in Calls, UnsubscribeLast(c), link # "end" PROVE WireInv'
  <2>1. /\ queue' = Append(queue, Command("unsubscribe", c)) /\ held[c] \in Calls
        /\ ready' = ready /\ phase[c] = "subscribed" /\ recorded' = recorded
        /\ refs'[TargetOf[c]] = NoRef
        /\ \A t \in Targets : t # TargetOf[c] => refs'[t] = refs[t]
    BY <1>7, <1>a, LastEffect
  <2>2. \A r \in Calls : refs'[TargetOf[r]] = r => refs[TargetOf[r]] = r
    BY <2>1, <1>t
  <2>3. ready[held[c]] = "resolved" /\ refs[TargetOf[c]] = held[c]
    BY <2>1, <1>a, <1>c DEF OutcomeInv
  <2>4. \A r \in Calls : ready[r] = "pending" => TargetOf[r] # TargetOf[c]
    BY <2>3, <1>c
  <2>5. QED
    BY <2>1, <2>2, <2>4, <1>4, <1>7, CommandTypes
<1>8. QED
  BY <1>1, <1>2, <1>3, <1>5, <1>6, <1>7, <1>a, WireKinds

LEMMA ReleasedStep == IInv /\ [Next]_vars => ReleasedOnServer'
<1> SUFFICES ASSUME IInv, [Next]_vars PROVE ReleasedOnServer'
  OBVIOUS
<1>a. /\ TypeOK /\ FunctionTypes /\ MapInv /\ JoinInv /\ CreatorInv
      /\ OutcomeInv /\ ReactionInv /\ CommandInv /\ HookInv
  BY Parts
<1>b. queue \in Seq(Commands)
  BY <1>a, TypeFacts
<1>c. \A r \in Calls : ready[r] = "pending" => refs[TargetOf[r]] = r
  BY Parts DEF RegistrationInv
<1>d. /\ \A i \in DOMAIN queue : queue[i].op = "unsubscribe" =>
           phase[queue[i].call] \in {"leaving", "unreleased"}
      /\ \A i \in DOMAIN queue : queue[i].op = "subscribe" =>
           ready[queue[i].call] \in {"pending", "rejected"}
      /\ \A i \in DOMAIN queue : queue[i].op # "quit" => queue[i].call \in Calls
  BY <1>a DEF CommandInv
<1>t. \A c \in Calls : TargetOf[c] \in Targets
  BY CallsAssumption
<1> DEFINE Excused(t) == \E c \in Calls :
             /\ TargetOf[c] = t
             /\ \/ Queued(Command("unsubscribe", c))
                \/ ready[c] = "rejected"
                \/ phase[c] = "unreleased"
<1>r. ASSUME NEW t \in Targets, t \in recorded, refs[t] = NoRef, link # "end"
      PROVE  Excused(t)
  BY <1>r, Parts DEF ReleasedOnServer
<1>s. SUFFICES ASSUME NEW t \in Targets, t \in recorded', refs'[t] = NoRef, link' # "end"
               PROVE  Excused(t)'
  <2>1. recorded' \subseteq Targets
    BY TypeStep DEF TypeOK
  <2>2. QED
    BY <1>s, <2>1 DEF ReleasedOnServer
<1> USE CallsAssumption
<1>e. ASSUME Excused(t), \A c \in Calls : TargetOf[c] = t =>
               /\ Queued(Command("unsubscribe", c)) =>
                    Queued(Command("unsubscribe", c))' \/ phase'[c] = "unreleased"
               /\ ready[c] = "rejected" => ready'[c] = "rejected"
               /\ phase[c] = "unreleased" => phase'[c] = "unreleased"
      PROVE  Excused(t)'
  BY <1>e
<1>1. ASSUME KeepsQueue PROVE Excused(t)'
  <2>1. CASE refs[t] = NoRef
    <3>1. Excused(t)
      BY <1>1, <2>1, <1>s, <1>r DEF KeepsQueue
    <3>2. QED
      BY <1>1, <3>1, <1>e DEF KeepsQueue, Queued
  <2>2. CASE refs[t] # NoRef
    <3>1. PICK r \in Calls : TargetOf[r] = t /\ ready[r] = "rejected"
      BY <1>1, <2>2, <1>s DEF KeepsQueue
    <3>2. ready'[r] = "rejected"
      BY <1>1, <3>1 DEF KeepsQueue
    <3>3. QED
      BY <3>1, <3>2
  <2>3. QED
    BY <2>1, <2>2
<1>2. ASSUME EmptiesQueue PROVE Excused(t)'
  <2>1. refs[t] = NoRef /\ t \in recorded /\ link # "end"
    BY <1>2, <1>s DEF EmptiesQueue
  <2>2. Excused(t)
    BY <2>1, <1>r
  <2>3. ASSUME NEW c \in Calls
        PROVE  /\ Queued(Command("unsubscribe", c)) => phase'[c] = "unreleased"
               /\ ready[c] = "rejected" => ready'[c] = "rejected"
               /\ phase[c] = "unreleased" => phase'[c] = "unreleased"
    <3>1. Queued(Command("unsubscribe", c)) => phase[c] \in {"leaving", "unreleased"}
      BY <1>d, CommandTypes DEF Queued
    <3>2. QED
      BY <1>2, <3>1 DEF EmptiesQueue, RejectQueued
  <2>4. QED
    BY <2>2, <2>3, <1>e
<1>3. ASSUME ServerAnswers PROVE Excused(t)'
  <2> DEFINE h == queue[1].call
  <2>1. /\ queue # <<>> /\ queue' = Tail(queue) /\ h \in Calls
        /\ refs' = refs /\ link' = link
        /\ \A c \in Calls : /\ ready[c] = "rejected" => ready'[c] = "rejected"
                            /\ phase[c] = "unreleased" => phase'[c] = "unreleased"
    BY <1>3, <1>a, AnswerEffect
  <2>2. /\ 1 \in DOMAIN queue
        /\ \A i \in DOMAIN queue : i # 1 => i - 1 \in DOMAIN queue' /\ queue'[i - 1] = queue[i]
    BY <2>1, <1>b, TailFacts
  <2>3. CASE t \in recorded
    <3>1. Excused(t)
      BY <2>1, <2>3, <1>s, <1>r
    <3>2. ASSUME NEW c \in Calls, TargetOf[c] = t, Queued(Command("unsubscribe", c))
          PROVE  Queued(Command("unsubscribe", c))' \/ phase'[c] = "unreleased"
      <4>1. PICK i \in DOMAIN queue : queue[i] = Command("unsubscribe", c)
        BY <3>2 DEF Queued
      <4>2. CASE i # 1
        BY <4>1, <4>2, <2>2 DEF Queued, Command
      <4>3. CASE i = 1
        <5>1. queue[1].op = "unsubscribe" /\ queue[1].call = c
          BY <4>1, <4>3, CommandTypes
        <5>2. recorded' = recorded
          BY <5>1, <3>2, <1>s, <1>3, <1>a, AnswerEffect
        <5>3. phase[c] \in {"leaving", "unreleased"}
          BY <5>1, <2>2, <1>d
        <5>4. QED
          BY <5>1, <5>2, <5>3, <3>2, <1>s, <1>3, <1>a, AnswerEffect
      <4>4. QED
        BY <4>2, <4>3
    <3>3. QED
      BY <3>1, <3>2, <2>1, <1>e
  <2>4. CASE t \notin recorded
    <3>1. queue[1].op = "subscribe" /\ TargetOf[queue[1].call] = t
      BY <2>4, <1>s, <1>3, <1>a, AnswerEffect
    <3>2. ready[queue[1].call] # "pending"
      BY <3>1, <2>1, <1>s, <1>c
    <3>3. ready[queue[1].call] = "rejected"
      BY <3>1, <3>2, <2>2, <1>d
    <3>4. QED
      BY <3>1, <3>3, <2>1
  <2>5. QED
    BY <2>3, <2>4
<1>4. ASSUME NEW cmd \in Commands, queue' = Append(queue, cmd)
      PROVE  \A c \in Calls : Queued(Command("unsubscribe", c)) => Queued(Command("unsubscribe", c))'
  BY <1>4, <1>b, AppendFacts DEF Queued, Command
<1>5. ASSUME ShutdownQuits, link # "end" PROVE Excused(t)'
  <2>1. /\ queue' = Append(queue, Quit) /\ ready' = ready /\ refs' = refs
        /\ recorded' = recorded /\ phase' = phase
    BY <1>5 DEF ShutdownQuits, entries, callers
  <2>2. Excused(t)
    BY <2>1, <1>5, <1>s, <1>r
  <2>3. QED
    BY <2>1, <2>2, <1>4, <1>e, QuitType
<1>6. ASSUME NEW c \in Calls, SubscribeFirst(c), link # "end" PROVE Excused(t)'
  <2>1. /\ queue' = Append(queue, Command("subscribe", c)) /\ recorded' = recorded
        /\ ready[c] = "unused" /\ phase[c] = "idle"
        /\ \A d \in Calls : d # c => ready'[d] = ready[d] /\ phase'[d] = phase[d]
        /\ refs'[TargetOf[c]] = c /\ c # NoRef
        /\ \A s \in Targets : s # TargetOf[c] => refs'[s] = refs[s]
    BY <1>6, <1>a, FirstEffect
  <2>2. Excused(t)
    BY <2>1, <1>6, <1>s, <1>r
  <2>3. \A d \in Calls : Queued(Command("unsubscribe", d)) => Queued(Command("unsubscribe", d))'
    BY <2>1, <1>4, CommandTypes
  <2>4. QED
    BY <2>1, <2>2, <2>3, <1>e
<1>7. ASSUME NEW c \in Calls, UnsubscribeLast(c), link # "end" PROVE Excused(t)'
  <2>1. /\ queue' = Append(queue, Command("unsubscribe", c)) /\ recorded' = recorded
        /\ ready' = ready /\ phase[c] = "subscribed"
        /\ \A d \in Calls : d # c => phase'[d] = phase[d]
        /\ \A s \in Targets : s # TargetOf[c] => refs'[s] = refs[s]
    BY <1>7, <1>a, LastEffect
  <2>2. CASE t = TargetOf[c]
    <3>1. Queued(Command("unsubscribe", c))'
      BY <2>1, <1>b, CommandTypes, AppendFacts DEF Queued, Command
    <3>2. QED
      BY <2>2, <3>1
  <2>3. CASE t # TargetOf[c]
    <3>1. Excused(t)
      BY <2>1, <2>3, <1>7, <1>s, <1>r
    <3>2. \A d \in Calls : Queued(Command("unsubscribe", d)) => Queued(Command("unsubscribe", d))'
      BY <2>1, <1>4, CommandTypes
    <3>3. QED
      BY <2>1, <3>1, <3>2, <1>e
  <2>4. QED
    BY <2>2, <2>3
<1>8. QED
  BY <1>1, <1>2, <1>3, <1>5, <1>6, <1>7, <1>a, WireKinds

LEMMA HookStep == IInv /\ [Next]_vars => HookInv'
<1> SUFFICES ASSUME IInv, [Next]_vars PROVE HookInv'
  OBVIOUS
<1> USE DEF entries, callers, hooks, wire, HookInv, NoSubscriberLeft
<1>a. HookInv /\ TypeOK
  BY Parts
<1>1. ASSUME NEW c \in Calls, CallStep(c) PROVE HookInv'
  BY <1>1, <1>a
  DEF CallStep, SubscribeRefused, SubscribeFirst, SubscribeJoin, EnsureSubscriber, RunReaction,
      UnsubscribeShared, UnsubscribeLast, TimeoutSubscribe, TimeoutUnsubscribe
<1>2. ASSUME ConnectionStep PROVE HookInv'
  BY <1>2, <1>a
  DEF ConnectionStep, ServerAnswers, ServerQuits, LinkDrops, LinkUp, FlushQueue, LinkGivesUp,
      EndLink, RejectQuit, TypeOK
<1>3. ASSUME ShutdownStep PROVE HookInv'
  BY <1>3, <1>a
  DEF ShutdownStep, ManagerShutsDown, ShutdownUnused, ShutdownOffline, ShutdownQuits,
      TimeoutQuit, ForceDisconnect, EndLink
<1>4. ASSUME UNCHANGED vars PROVE HookInv'
  BY <1>4, <1>a DEF vars
<1>5. QED
  BY <1>1, <1>2, <1>3, <1>4 DEF Next

-----------------------------------------------------------------------------
(* The theorems.                                                           *)

LEMMA InitInv == Init => IInv
<1> SUFFICES ASSUME Init PROVE IInv
  OBVIOUS
<1> USE CallsAssumption DEF Init
<1>1. TypeOK
  <2>1. /\ reactions \in [Calls -> Seq(Calls \union {Cleanup})]
        /\ queue \in Seq(Commands)
    OBVIOUS
  <2>2. /\ refs \in [Targets -> Calls \union {NoRef}]
        /\ count \in [Calls -> Nat]
        /\ ready \in [Calls -> {"unused", "pending", "resolved", "rejected"}]
        /\ phase \in [Calls -> Phases]
        /\ held \in [Calls -> Calls \union {NoRef}]
    BY DEF Phases
  <2>3. QED
    BY <2>1, <2>2 DEF TypeOK
<1>2. EntryInv
  BY DEF EntryInv, MapInv, CreatorInv, JoinInv, OutcomeInv
<1>3. ReactionInv
  BY DEF ReactionInv, CleanupPending
<1>4. RegistrationInv
  BY DEF RegistrationInv, RegisteredWhileHeld
<1>5. CountInv
  <2>1. \A r \in Calls : Holders(r) = {}
    BY DEF Holders
  <2>2. QED
    BY <2>1, FS_EmptySet DEF CountInv
<1>6. CommandInv /\ WireInv
  BY DEF CommandInv, WireInv, Queued
<1>7. ReleasedOnServer /\ HookInv
  BY DEF ReleasedOnServer, HookInv, NoSubscriberLeft
<1>8. QED
  BY <1>1, <1>2, <1>3, <1>4, <1>5, <1>6, <1>7 DEF IInv

LEMMA NextInv == IInv /\ [Next]_vars => IInv'
BY TypeStep, MapStep, CreatorStep, JoinStep, ReactionStep, RegistrationStep, CountStep,
   CommandStep, WireStep, ReleasedStep, HookStep
DEF IInv, EntryInv

LEMMA Inductive == Spec => []IInv
BY InitInv, NextInv, PTL DEF Spec

(* Every variable of the service keeps its type.                           *)
THEOREM TypeCorrect == Spec => []TypeOK
<1>1. IInv => TypeOK
  BY DEF IInv
<1>2. QED
  BY <1>1, Inductive, PTL

(* For any number of calls, the reference count of an entry is the number  *)
(* of calls that joined it and have not left.                              *)
THEOREM CountCorrect == Spec => []CountIsHolders
<1>1. IInv => CountIsHolders
  BY DEF IInv, CountInv, CountIsHolders
<1>2. QED
  BY <1>1, Inductive, PTL

(* For any number of calls, the entry of a live call is the one registered *)
(* for its target.                                                         *)
THEOREM Registered == Spec => []RegisteredWhileHeld
<1>1. IInv => RegisteredWhileHeld
  BY DEF IInv, RegistrationInv
<1>2. QED
  BY <1>1, Inductive, PTL

(* For any number of calls, a call that was told it is subscribed is       *)
(* served until it unsubscribes or the connection ends for good.           *)
THEOREM Served == Spec => []ServedWhileHeld
<1>1. IInv => ServedWhileHeld
  <2> SUFFICES ASSUME IInv, NEW c \in Calls, phase[c] = "subscribed", link # "end"
               PROVE  /\ TargetOf[c] \in recorded
                      /\ \A d \in Calls : TargetOf[d] = TargetOf[c] =>
                           ~Queued(Command("unsubscribe", d))
    BY DEF ServedWhileHeld
  <2>1. /\ refs[TargetOf[c]] = held[c] /\ ready[held[c]] = "resolved"
        /\ held[c] \in Calls /\ TargetOf[held[c]] = TargetOf[c]
    BY Parts DEF RegistrationInv, RegisteredWhileHeld, OutcomeInv, JoinInv, FunctionTypes
  <2>2. /\ TargetOf[c] \in recorded
        /\ \A j \in DOMAIN queue : queue[j].op = "unsubscribe" =>
             TargetOf[queue[j].call] # TargetOf[c]
    BY <2>1, Parts DEF WireInv
  <2>3. QED
    BY <2>2, CommandTypes DEF Queued
<1>2. QED
  BY <1>1, Inductive, PTL

(* A failed entry is gone when its callers reject.                         *)
THEOREM FailureForgotten == Spec => []FailedEntryGone
<1>1. IInv => FailedEntryGone
  <2> SUFFICES ASSUME IInv, NEW c \in Calls, phase[c] = "failed"
               PROVE  refs[TargetOf[c]] # held[c]
    BY DEF FailedEntryGone
  <2>1. /\ held[c] \in Calls /\ TargetOf[held[c]] = TargetOf[c]
        /\ ready[held[c]] = "rejected" /\ ~CleanupPending(held[c])
    BY Parts DEF RegistrationInv, OutcomeInv, JoinInv, FunctionTypes
  <2>2. QED
    BY <2>1, Parts DEF RegistrationInv
<1>2. QED
  BY <1>1, Inductive, PTL

(* One subscription command in flight per target.                          *)
THEOREM Shared == Spec => []OneSubscribeInFlight
<1>1. IInv => OneSubscribeInFlight
  BY DEF IInv, RegistrationInv, OneSubscribeInFlight
<1>2. QED
  BY <1>1, Inductive, PTL

(* A target stays on the server without a listener only after a failure    *)
(* some caller was told of.                                                *)
THEOREM Released == Spec => []ReleasedOnServer
<1>1. IInv => ReleasedOnServer
  BY DEF IInv
<1>2. QED
  BY <1>1, Inductive, PTL

(* No subscriber connection outlives the shutdown hook.                    *)
THEOREM Closed == Spec => []NoSubscriberLeft
<1>1. IInv => NoSubscriberLeft
  BY DEF IInv, HookInv
<1>2. QED
  BY <1>1, Inductive, PTL

-----------------------------------------------------------------------------
(* Refinement: every step is a step of the contract or changes nothing its *)
(* callers can see.                                                        *)

LEMMA ViewOf ==
  ASSUME NEW c \in Calls
  PROVE  /\ phase[c] = "idle" => CallerView[c] = "idle"
         /\ phase[c] = "waiting" => CallerView[c] = "asking"
         /\ phase[c] = "subscribed" => CallerView[c] = "held"
         /\ phase[c] \notin {"idle", "waiting", "subscribed"} => CallerView[c] = "ended"
         /\ CallerView[c] = "held" => phase[c] = "subscribed"
BY DEF CallerView

LEMMA ViewOfNext ==
  ASSUME NEW c \in Calls
  PROVE  /\ phase'[c] = "waiting" => CallerView'[c] = "asking"
         /\ phase'[c] = "subscribed" => CallerView'[c] = "held"
         /\ phase'[c] \notin {"idle", "waiting", "subscribed"} => CallerView'[c] = "ended"
BY DEF CallerView

(* A step that moves one call moves that call in the contract.             *)
LEMMA ViewChange ==
  ASSUME NEW c \in Calls, \A d \in Calls : d # c => phase'[d] = phase[d]
  PROVE  CallerView' = [CallerView EXCEPT ![c] = CallerView'[c]]
BY DEF CallerView

LEMMA ViewKept ==
  ASSUME \A d \in Calls :
           \/ phase'[d] = phase[d]
           \/ /\ phase[d] \notin {"idle", "waiting", "subscribed"}
              /\ phase'[d] \notin {"idle", "waiting", "subscribed"}
  PROVE  CallerView' = CallerView
BY DEF CallerView

LEMMA RefinementStep == IInv /\ [Next]_vars => [Contract!Next]_Contract!vars
<1> SUFFICES ASSUME IInv, [Next]_vars PROVE [Contract!Next]_Contract!vars
  OBVIOUS
<1> USE DEF entries, callers, hooks, wire
<1>a. /\ TypeOK /\ FunctionTypes /\ MapInv /\ JoinInv /\ CreatorInv
      /\ OutcomeInv /\ ReactionInv /\ CommandInv /\ HookInv
  BY Parts
<1>b. \A c \in Calls : TargetOf[c] \in Targets
  BY CallsAssumption
<1>k. ASSUME CallerView' = CallerView, recorded' = recorded,
             link' = link \/ (link # "end" <=> link' # "end") \/ link' = "end"
      PROVE  [Contract!Next]_Contract!vars
  <2>1. CASE (link # "end" <=> link' # "end")
    BY <1>k, <2>1 DEF Contract!vars
  <2>2. CASE link # "end" /\ link' = "end"
    BY <1>k, <2>2 DEF Contract!Next, Contract!Close
  <2>3. QED
    BY <1>k, <2>1, <2>2
<1>1. ASSUME Settles, recorded' = recorded, link' = link \/ link' = "end" \/ link # "end"
      PROVE  [Contract!Next]_Contract!vars
  <2>1. CallerView' = CallerView
    BY <1>1, ViewKept DEF Settles
  <2>2. QED
    BY <1>1, <2>1, <1>k
<1>2. ASSUME NEW c \in Calls, SubscribeRefused(c) PROVE [Contract!Next]_Contract!vars
  <2>1. /\ CallerView[c] = "idle" /\ CallerView'[c] = "ended"
        /\ CallerView' = [CallerView EXCEPT ![c] = CallerView'[c]]
        /\ recorded' = recorded /\ link' = link
    BY <1>2, <1>a, RefusedEffect, ViewOf, ViewOfNext, ViewChange
  <2>2. Contract!Deny(c)
    BY <2>1 DEF Contract!Deny
  <2>3. QED
    BY <2>2 DEF Contract!Next
<1>3. ASSUME NEW c \in Calls, SubscribeFirst(c) \/ SubscribeJoin(c)
      PROVE  [Contract!Next]_Contract!vars
  <2>1. /\ phase[c] = "idle" /\ phase'[c] = "waiting" /\ recorded' = recorded
        /\ \A d \in Calls : d # c => phase'[d] = phase[d]
    BY <1>3, <1>a, FirstEffect, JoinEffect
  <2>2. /\ CallerView[c] = "idle" /\ CallerView'[c] = "asking"
        /\ CallerView' = [CallerView EXCEPT ![c] = CallerView'[c]]
    BY <2>1, ViewOf, ViewOfNext, ViewChange
  <2>3. (link' # "end") <=> (link # "end")
    BY <1>3, <1>a DEF SubscribeFirst, SubscribeJoin, EnsureSubscriber, HookInv
  <2>4. Contract!Ask(c)
    BY <2>1, <2>2, <2>3 DEF Contract!Ask
  <2>5. QED
    BY <2>4 DEF Contract!Next
<1>4. ASSUME NEW c \in Calls, RunReaction(c) PROVE [Contract!Next]_Contract!vars
  <2>1. CASE Head(reactions[c]) = Cleanup
    <3>1. phase' = phase /\ recorded' = recorded /\ link' = link
      BY <1>4, <2>1, <1>a, CleanupEffect
    <3>2. QED
      BY <3>1, ViewKept, <1>k
  <2>2. CASE Head(reactions[c]) # Cleanup
    <3>0. PICK d \in Calls : d = Head(reactions[c])
      BY <1>4, <2>2, <1>a, ResumeEffect
    <3>1. /\ phase[d] = "waiting" /\ held[d] = c
          /\ ready[c] \in {"resolved", "rejected"}
          /\ phase'[d] = IF ready[c] = "resolved" THEN "subscribed" ELSE "failed"
          /\ \A e \in Calls : e # d => phase'[e] = phase[e]
          /\ recorded' = recorded /\ link' = link
      BY <1>4, <2>2, <1>a, <3>0, ResumeEffect
    <3>2. /\ CallerView[d] = "asking"
          /\ CallerView' = [CallerView EXCEPT ![d] = CallerView'[d]]
      BY <3>1, ViewOf, ViewChange
    <3>3. CASE ready[c] = "resolved"
      <4>1. CallerView'[d] = "held"
        BY <3>1, <3>3, ViewOfNext
      <4>2. refs[TargetOf[d]] = c /\ TargetOf[c] = TargetOf[d]
        BY <3>1, <3>3, <1>a, Parts DEF RegistrationInv, RegisteredWhileHeld, JoinInv
      <4>3. link # "end" => TargetOf[d] \in recorded
        BY <4>2, <3>3, Parts DEF WireInv
      <4>4. Contract!Grant(d)
        BY <3>1, <3>2, <4>1, <4>3 DEF Contract!Grant
      <4>5. QED
        BY <4>4 DEF Contract!Next
    <3>4. CASE ready[c] = "rejected"
      <4>1. CallerView'[d] = "ended"
        BY <3>1, <3>4, ViewOfNext
      <4>2. Contract!Deny(d)
        BY <3>1, <3>2, <4>1 DEF Contract!Deny
      <4>3. QED
        BY <4>2 DEF Contract!Next
    <3>5. QED
      BY <3>1, <3>3, <3>4
  <2>3. QED
    BY <2>1, <2>2
<1>5. ASSUME NEW c \in Calls, UnsubscribeShared(c) \/ UnsubscribeLast(c)
      PROVE  [Contract!Next]_Contract!vars
  <2>1. /\ phase[c] = "subscribed" /\ phase'[c] \notin {"idle", "waiting", "subscribed"}
        /\ \A d \in Calls : d # c => phase'[d] = phase[d]
        /\ recorded' = recorded /\ link' = link
    BY <1>5, <1>a, SharedEffect, LastEffect
  <2>2. /\ CallerView[c] = "held" /\ CallerView'[c] = "ended"
        /\ CallerView' = [CallerView EXCEPT ![c] = CallerView'[c]]
    BY <2>1, ViewOf, ViewOfNext, ViewChange
  <2>3. Contract!Release(c)
    BY <2>1, <2>2 DEF Contract!Release
  <2>4. QED
    BY <2>3 DEF Contract!Next
<1>6. ASSUME ServerAnswers PROVE [Contract!Next]_Contract!vars
  <2>0. ConnectionStep
    BY <1>6 DEF ConnectionStep
  <2>1. CallerView' = CallerView
    BY <2>0, <1>a, SettlingSteps, ViewKept DEF Settles
  <2>2. /\ link = "up" /\ link' = link /\ queue[1].call \in Calls /\ 1 \in DOMAIN queue
        /\ \/ recorded' = recorded
           \/ recorded' = recorded \union {TargetOf[queue[1].call]}
           \/ /\ queue[1].op = "unsubscribe"
              /\ recorded' = recorded \ {TargetOf[queue[1].call]}
    BY <1>6, <1>a, AnswerEffect, TailFacts DEF ServerAnswers
  <2>3. CASE recorded' = recorded
    BY <2>1, <2>2, <2>3, <1>k
  <2>4. CASE recorded' = recorded \union {TargetOf[queue[1].call]}
    <3>1. Contract!Serve(TargetOf[queue[1].call])
      BY <2>1, <2>2, <2>4 DEF Contract!Serve
    <3>2. QED
      BY <3>1, <2>2, <1>b DEF Contract!Next
  <2>5. CASE /\ queue[1].op = "unsubscribe"
             /\ recorded' = recorded \ {TargetOf[queue[1].call]}
    <3>1. ASSUME NEW c \in Calls, TargetOf[c] = TargetOf[queue[1].call]
          PROVE  CallerView[c] # "held"
      <4> SUFFICES ASSUME phase[c] = "subscribed" PROVE FALSE
        BY ViewOf
      <4>1. /\ refs[TargetOf[c]] = held[c] /\ ready[held[c]] = "resolved"
            /\ held[c] \in Calls /\ TargetOf[held[c]] = TargetOf[c]
        BY Parts DEF RegistrationInv, RegisteredWhileHeld, OutcomeInv, JoinInv, FunctionTypes
      <4>2. TargetOf[queue[1].call] # TargetOf[c]
        BY <4>1, <2>2, <2>5, Parts DEF WireInv
      <4>3. QED
        BY <4>2, <3>1
    <3>2. Contract!GiveUp(TargetOf[queue[1].call])
      BY <2>1, <2>2, <2>5, <3>1 DEF Contract!GiveUp
    <3>3. QED
      BY <3>2, <2>2, <1>b DEF Contract!Next
  <2>6. QED
    BY <2>2, <2>3, <2>4, <2>5
<1>7. ASSUME NEW c \in Calls, TimeoutSubscribe(c) \/ TimeoutUnsubscribe(c)
      PROVE  [Contract!Next]_Contract!vars
  <2>1. recorded' = recorded /\ link' = link
    BY <1>7 DEF TimeoutSubscribe, TimeoutUnsubscribe
  <2>2. QED
    BY <1>7, <2>1, <1>a, <1>1, SettlingSteps
<1>8. ASSUME ConnectionStep, ~ServerAnswers PROVE [Contract!Next]_Contract!vars
  <2>1. recorded' = recorded /\ (link # "end" \/ link' = link)
    BY <1>8
    DEF ConnectionStep, ServerQuits, LinkDrops, LinkUp, FlushQueue, LinkGivesUp
  <2>2. QED
    BY <1>8, <2>1, <1>a, <1>1, SettlingSteps
<1>9. ASSUME ShutdownStep PROVE [Contract!Next]_Contract!vars
  <2>1. recorded' = recorded /\ (link' = "end" \/ link' = link)
    BY <1>9
    DEF ShutdownStep, ManagerShutsDown, ShutdownUnused, ShutdownOffline, ShutdownQuits,
        TimeoutQuit, ForceDisconnect, EndLink
  <2>2. QED
    BY <1>9, <2>1, <1>a, <1>1, SettlingSteps
<1>10. ASSUME UNCHANGED vars PROVE [Contract!Next]_Contract!vars
  <2>1. phase' = phase /\ recorded' = recorded /\ link' = link
    BY <1>10 DEF vars
  <2>2. QED
    BY <2>1, ViewKept, <1>k
<1>11. QED
  BY <1>2, <1>3, <1>4, <1>5, <1>6, <1>7, <1>8, <1>9, <1>10 DEF Next, CallStep

(* For any number of calls, the service implements what it promises its    *)
(* callers.                                                                *)
THEOREM Implements == Spec => ImplementsContract
<1>1. Init => Contract!Init
  BY DEF Init, Contract!Init, CallerView
<1>2. QED
  BY <1>1, RefinementStep, Inductive, PTL DEF Spec, ImplementsContract, Contract!Spec

-----------------------------------------------------------------------------
(* Sequences put together.                                                 *)

(* A set of natural numbers has a least element.                           *)
LEMMA LeastExists ==
  ASSUME NEW T, T \subseteq Nat, T # {}
  PROVE  \E m \in T : \A k \in T : m <= k
<1>1. PICK m \in T : \A k \in T : <<k, m>> \notin OpToRel(<, Nat)
  BY WFMin, NatLessThanWellFounded, Zenon
<1>2. \A k \in T : ~(k < m)
  BY <1>1, Zenon DEF OpToRel
<1> QED BY <1>2

(* whole[n] is the first n of the parts, one after another.                *)
Joined(parts, whole, n) ==
  whole = [i \in 1 .. n |-> IF i = 1 THEN parts[i] ELSE whole[i - 1] \o parts[i]]

LEMMA JoinedExists ==
  ASSUME NEW parts, NEW n \in Nat
  PROVE  \E whole : Joined(parts, whole, n)
<1> DEFINE missing == {m \in Nat : ~\E whole : Joined(parts, whole, m)}
<1>1. ASSUME missing # {} PROVE FALSE
  <2>1. PICK m \in missing : \A k \in missing : m <= k
    <3>1. missing \subseteq Nat
      OBVIOUS
    <3> HIDE DEF missing
    <3> QED BY <1>1, <3>1, LeastExists
  <2>2. CASE m = 0
    <3> DEFINE f == [i \in 1 .. m |-> parts[i]]
    <3>1. 1 .. m = {}
      BY <2>2
    <3>2. Joined(parts, f, m)
      BY <3>1 DEF Joined
    <3> QED BY <3>2
  <2>3. CASE m # 0
    <3>1. m - 1 \in Nat /\ ~(m <= m - 1)
      BY <2>3
    <3>2. m - 1 \notin missing
      <4> HIDE DEF missing
      <4> QED BY <2>1, <3>1
    <3>3. PICK f : Joined(parts, f, m - 1)
      BY <3>1, <3>2
    <3> DEFINE g == [i \in 1 .. m |-> IF i = 1 THEN parts[i] ELSE f[i - 1] \o parts[i]]
    <3>4. \A i \in 1 .. m - 1 : f[i] = IF i = 1 THEN parts[i] ELSE f[i - 1] \o parts[i]
      BY <3>3, Zenon DEF Joined
    <3>5. \A i \in 1 .. m - 1 : g[i] = f[i]
      BY <3>4
    <3>6. \A i \in 1 .. m : g[i] = IF i = 1 THEN parts[i] ELSE f[i - 1] \o parts[i]
      OBVIOUS
    <3>7. g = [i \in 1 .. m |-> g[i]]
      OBVIOUS
    <3> HIDE DEF g
    <3>9. \A i \in 1 .. m : g[i] = IF i = 1 THEN parts[i] ELSE g[i - 1] \o parts[i]
      <4> TAKE i \in 1 .. m
      <4>1. CASE i = 1
        BY <4>1, <3>6
      <4>2. CASE i # 1
        <5>1. i - 1 \in 1 .. m - 1
          BY <4>2, <3>1
        <5>2. g[i - 1] = f[i - 1] /\ g[i] = f[i - 1] \o parts[i]
          BY <5>1, <4>2, <3>5, <3>6
        <5> QED BY <5>2, <4>2, Zenon
      <4> QED BY <4>1, <4>2
    <3>8. Joined(parts, g, m)
      BY <3>7, <3>9, Zenon DEF Joined
    <3> QED BY <3>8
  <2> QED BY <2>2, <2>3
<1> QED BY <1>1

(* Each element of r comes from a place of one of the first n parts, in    *)
(* order, and none is missing.                                             *)
Origin(parts, n, r, part, place) ==
  /\ \A k \in DOMAIN r : /\ part[k] \in 1 .. n /\ place[k] \in DOMAIN parts[part[k]]
                         /\ r[k] = parts[part[k]][place[k]]
  /\ \A k, h \in DOMAIN r : k < h => part[k] < part[h] \/ (part[k] = part[h] /\ place[k] < place[h])
  /\ \A i \in 1 .. n : \A j \in DOMAIN parts[i] : \E k \in DOMAIN r : part[k] = i /\ place[k] = j

LEMMA JoinOne ==
  ASSUME NEW T, NEW parts, NEW n \in Nat, parts[n + 1] \in Seq(T),
         NEW r \in Seq(T), NEW part, NEW place, Origin(parts, n, r, part, place)
  PROVE  /\ r \o parts[n + 1] \in Seq(T)
         /\ \E g, h : Origin(parts, n + 1, r \o parts[n + 1], g, h)
<1> DEFINE s == parts[n + 1]
           q == r \o s
           g == [k \in 1 .. Len(q) |-> IF k <= Len(r) THEN part[k] ELSE n + 1]
           h == [k \in 1 .. Len(q) |-> IF k <= Len(r) THEN place[k] ELSE k - Len(r)]
<1>1. /\ Len(r) \in Nat /\ Len(s) \in Nat /\ Len(q) = Len(r) + Len(s) /\ q \in Seq(T)
      /\ DOMAIN r = 1 .. Len(r) /\ DOMAIN s = 1 .. Len(s) /\ DOMAIN q = 1 .. Len(q)
  OBVIOUS
<1>2. /\ \A k \in DOMAIN r : q[k] = r[k]
      /\ \A k \in DOMAIN s : q[k + Len(r)] = s[k]
  OBVIOUS
<1> HIDE DEF q
<1>3. \A k \in DOMAIN q : \/ k \in DOMAIN r /\ g[k] = part[k] /\ h[k] = place[k] /\ q[k] = r[k]
                          \/ k \notin DOMAIN r /\ g[k] = n + 1 /\ h[k] = k - Len(r) /\ h[k] \in DOMAIN s
                               /\ k > Len(r) /\ q[k] = s[h[k]]
  <2> TAKE k \in DOMAIN q
  <2>1. k \in 1 .. Len(q) /\ k \in Nat
    BY <1>1
  <2>2. CASE k <= Len(r)
    BY <2>1, <2>2, <1>1, <1>2
  <2>3. CASE ~(k <= Len(r))
    <3>1. k - Len(r) \in DOMAIN s /\ k - Len(r) + Len(r) = k /\ k > Len(r)
      BY <2>1, <2>3, <1>1
    <3>2. q[k] = s[k - Len(r)]
      BY <3>1, <1>2
    <3>3. g[k] = n + 1 /\ h[k] = k - Len(r)
      BY <2>1, <2>3
    <3>4. k \notin DOMAIN r
      BY <2>3, <1>1
    <3> HIDE DEF g, h, s
    <3> QED BY <3>1, <3>2, <3>3, <3>4
  <2> QED BY <2>2, <2>3
<1>4. \A k \in DOMAIN r : k \in DOMAIN q /\ g[k] = part[k] /\ h[k] = place[k] /\ part[k] \in 1 .. n
  BY <1>1 DEF Origin
<1>5. \A j \in DOMAIN s : j + Len(r) \in DOMAIN q /\ g[j + Len(r)] = n + 1 /\ h[j + Len(r)] = j
  BY <1>1
<1> HIDE DEF g, h
<1>6. \A k \in DOMAIN q : /\ g[k] \in 1 .. n + 1 /\ h[k] \in DOMAIN parts[g[k]]
                          /\ q[k] = parts[g[k]][h[k]]
  <2> TAKE k \in DOMAIN q
  <2>1. CASE k \in DOMAIN r
    BY <2>1, <1>3, <1>4 DEF Origin
  <2>2. CASE k \notin DOMAIN r
    BY <2>2, <1>3
  <2> QED BY <2>1, <2>2
<1>7. \A k, l \in DOMAIN q : k < l => g[k] < g[l] \/ (g[k] = g[l] /\ h[k] < h[l])
  <2> SUFFICES ASSUME NEW k \in DOMAIN q, NEW l \in DOMAIN q, k < l
               PROVE  g[k] < g[l] \/ (g[k] = g[l] /\ h[k] < h[l])
    OBVIOUS
  <2>1. CASE l \in DOMAIN r
    <3>1. k \in DOMAIN r
      BY <2>1, <1>1
    <3> QED BY <3>1, <2>1, <1>4 DEF Origin
  <2>2. CASE l \notin DOMAIN r /\ k \in DOMAIN r
    BY <2>2, <1>3, <1>4
  <2>3. CASE l \notin DOMAIN r /\ k \notin DOMAIN r
    BY <2>3, <1>1, <1>3
  <2> QED BY <2>1, <2>2, <2>3
<1>8. \A i \in 1 .. n + 1 : \A j \in DOMAIN parts[i] : \E k \in DOMAIN q : g[k] = i /\ h[k] = j
  <2> SUFFICES ASSUME NEW i \in 1 .. n + 1, NEW j \in DOMAIN parts[i]
               PROVE  \E k \in DOMAIN q : g[k] = i /\ h[k] = j
    OBVIOUS
  <2>1. CASE i = n + 1
    BY <2>1, <1>5
  <2>2. CASE i # n + 1
    <3>1. i \in 1 .. n
      BY <2>2
    <3>2. PICK k \in DOMAIN r : part[k] = i /\ place[k] = j
      BY <3>1 DEF Origin
    <3> QED BY <3>2, <1>4
  <2> QED BY <2>1, <2>2
<1>9. Origin(parts, n + 1, q, g, h)
  BY <1>6, <1>7, <1>8 DEF Origin
<1> QED BY <1>1, <1>9 DEF q

(* FlattenSeq puts the parts together.                                     *)
LEMMA FlattenJoins ==
  ASSUME NEW T, NEW parts \in Seq(Seq(T))
  PROVE  /\ Bus!FlattenSeq(parts) \in Seq(T)
         /\ \E part, place : Origin(parts, Len(parts), Bus!FlattenSeq(parts), part, place)
<1> DEFINE n == Len(parts)
           whole == CHOOSE f : Joined(parts, f, n)
           Good(i) == whole[i] \in Seq(T) /\ \E part, place : Origin(parts, i, whole[i], part, place)
<1>1. n \in Nat /\ DOMAIN parts = 1 .. n /\ \A i \in 1 .. n : parts[i] \in Seq(T)
  OBVIOUS
<1>2. CASE n = 0
  <2>1. Bus!FlattenSeq(parts) = parts /\ parts \in Seq(T) /\ DOMAIN parts = {}
    BY <1>1, <1>2 DEF Bus!FlattenSeq
  <2>2. Origin(parts, n, parts, parts, parts)
    BY <2>1, <1>1, <1>2 DEF Origin
  <2> QED BY <2>1, <2>2
<1>3. CASE n # 0
  <2>1. Joined(parts, whole, n)
    BY <1>1, JoinedExists
  <2>2. Bus!FlattenSeq(parts) = whole[n]
    BY <1>3, <2>1 DEF Bus!FlattenSeq, Joined
  <2> HIDE DEF whole
  <2>3. \A i \in 1 .. n : whole[i] = IF i = 1 THEN parts[i] ELSE whole[i - 1] \o parts[i]
    BY <2>1, Zenon DEF Joined
  <2>4. Good(1)
    <3>1. 1 \in 1 .. n
      BY <1>1, <1>3
    <3>2. whole[1] = parts[1] /\ parts[1] \in Seq(T)
      BY <1>1, <2>3, <3>1
    <3> DEFINE g == [k \in DOMAIN parts[1] |-> 1]
               h == [k \in DOMAIN parts[1] |-> k]
    <3>3. \A i \in 1 .. 1 : i = 1
      OBVIOUS
    <3>4. Origin(parts, 1, parts[1], g, h)
      BY <3>3, <3>2 DEF Origin
    <3> QED BY <3>2, <3>4
  <2>5. ASSUME NEW i \in 1 .. n, i # 1, Good(i - 1) PROVE Good(i)
    <3>1. i - 1 \in Nat /\ i - 1 + 1 = i /\ parts[i] \in Seq(T) /\ whole[i] = whole[i - 1] \o parts[i]
      <4>1. whole[i] = whole[i - 1] \o parts[i]
        BY <2>3, <2>5, Zenon
      <4>2. parts[i] \in Seq(T)
        BY <1>1
      <4>3. i \in Nat /\ i >= 1
        BY <1>1
      <4> QED BY <4>1, <4>2, <4>3, <2>5
    <3>2. PICK part, place : Origin(parts, i - 1, whole[i - 1], part, place)
      BY <2>5
    <3>3. whole[i - 1] \in Seq(T)
      BY <2>5
    <3> DEFINE m == i - 1
    <3>4. /\ whole[m] \o parts[m + 1] \in Seq(T)
          /\ \E g, h : Origin(parts, m + 1, whole[m] \o parts[m + 1], g, h)
      <4>1. m \in Nat /\ parts[m + 1] \in Seq(T) /\ whole[m] \in Seq(T) /\ Origin(parts, m, whole[m], part, place)
        BY <3>1, <3>2, <3>3
      <4> HIDE DEF m
      <4> QED BY <4>1, JoinOne
    <3> QED BY <3>1, <3>4
  <2> DEFINE bad == {i \in 1 .. n : ~Good(i)}
  <2>6. ASSUME bad # {} PROVE FALSE
    <3>1. bad \subseteq Nat
      BY <1>1
    <3>2. PICK m \in bad : \A k \in bad : m <= k
      <4> HIDE DEF bad
      <4> QED BY <2>6, <3>1, LeastExists
    <3>3. m \in 1 .. n /\ m # 1
      <4> HIDE DEF Good
      <4> QED BY <2>4
    <3>4. m - 1 \in 1 .. n /\ ~(m <= m - 1)
      BY <3>3
    <3> HIDE DEF Good
    <3>5. Good(m - 1)
      BY <3>2, <3>4
    <3> QED BY <3>3, <3>5, <2>5
  <2>7. Good(n)
    <3>1. n \in 1 .. n
      BY <1>1, <1>3
    <3> HIDE DEF Good
    <3> QED BY <3>1, <2>6
  <2> QED BY <2>2, <2>7
<1> QED BY <1>2, <1>3

(* What stands where in two sequences put together.                        *)
LEMMA ConcatFacts ==
  ASSUME NEW S, NEW a \in Seq(S), NEW b \in Seq(S)
  PROVE  /\ a \o b \in Seq(S) /\ Len(a) \in Nat /\ Len(b) \in Nat
         /\ DOMAIN a = 1 .. Len(a) /\ DOMAIN b = 1 .. Len(b) /\ DOMAIN (a \o b) = 1 .. (Len(a) + Len(b))
         /\ \A k \in 1 .. (Len(a) + Len(b)) : (a \o b)[k] = IF k <= Len(a) THEN a[k] ELSE b[k - Len(a)]
OBVIOUS

(* Cardinality, seen through the instance.                                 *)
LEMMA SameCardinality ==
  ASSUME NEW S
  PROVE  Bus!Cardinality(S) = Cardinality(S)
BY DEF Bus!Cardinality, Cardinality

(* SetToSeq lists the elements of a finite set, each once.                 *)
LEMMA Listed ==
  ASSUME NEW S, IsFiniteSet(S)
  PROVE  /\ Bus!SetToSeq(S) \in Seq(S)
         /\ \A i, j \in DOMAIN Bus!SetToSeq(S) : Bus!SetToSeq(S)[i] = Bus!SetToSeq(S)[j] => i = j
         /\ \A x \in S : \E i \in DOMAIN Bus!SetToSeq(S) : Bus!SetToSeq(S)[i] = x
<1> DEFINE n == Cardinality(S)
           s == Bus!SetToSeq(S)
<1>1. n \in Nat /\ \E f : f \in Bijection(1 .. n, S)
  BY FS_CardinalityType DEF ExistsBijection
<1>2. \E f : f \in [1 .. n -> S] /\ Bus!IsInjective(f)
  BY <1>1 DEF Bijection, Injection, IsInjective, Bus!IsInjective
<1>3. s \in [1 .. n -> S] /\ Bus!IsInjective(s)
  <2>1. s = CHOOSE f \in [1 .. n -> S] : Bus!IsInjective(f)
    BY SameCardinality, Zenon DEF Bus!SetToSeq
  <2> HIDE DEF s
  <2> QED BY <1>2, <2>1, Zenon
<1> HIDE DEF s
<1>4. s \in Injection(1 .. n, S)
  BY <1>3 DEF Injection, IsInjective, Bus!IsInjective
<1>5. Cardinality(1 .. n) = Cardinality(S)
  BY <1>1, FS_Interval
<1>6. s \in Surjection(1 .. n, S)
  BY <1>4, <1>5, FS_Injection
<1>7. s \in Seq(S) /\ DOMAIN s = 1 .. n
  BY <1>1, <1>3
<1>8. \A x \in S : \E i \in DOMAIN s : s[i] = x
  BY <1>6, <1>7 DEF Surjection
<1>9. \A i, j \in DOMAIN s : s[i] = s[j] => i = j
  BY <1>3 DEF Bus!IsInjective
<1> QED BY <1>7, <1>8, <1>9 DEF s

(* RemoveAt keeps the others, in order.                                    *)
LEMMA Removed ==
  ASSUME NEW S, NEW s \in Seq(S), NEW i \in DOMAIN s
  PROVE  /\ Bus!RemoveAt(s, i) \in Seq(S)
         /\ \A k \in DOMAIN Bus!RemoveAt(s, i) :
              /\ k < i  => k \in DOMAIN s /\ Bus!RemoveAt(s, i)[k] = s[k]
              /\ k >= i => k + 1 \in DOMAIN s /\ Bus!RemoveAt(s, i)[k] = s[k + 1]
<1> DEFINE a == SubSeq(s, 1, i - 1)
           b == SubSeq(s, i + 1, Len(s))
<1>1. Len(s) \in Nat /\ DOMAIN s = 1 .. Len(s) /\ i \in 1 .. Len(s)
  OBVIOUS
<1>2. /\ a \in Seq(S) /\ Len(a) = i - 1 /\ DOMAIN a = 1 .. i - 1
      /\ \A k \in 1 .. i - 1 : a[k] = s[k]
  BY <1>1
<1>3. /\ b \in Seq(S) /\ Len(b) = Len(s) - i /\ DOMAIN b = 1 .. Len(s) - i
      /\ \A k \in 1 .. Len(s) - i : b[k] = s[k + i]
  BY <1>1
<1> HIDE DEF a, b
<1>6. Len(a) \in Nat /\ Len(b) \in Nat /\ Len(a) + Len(b) = Len(s) - 1 /\ Len(s) - 1 \in Nat
  BY <1>1, <1>2, <1>3
<1>4. /\ a \o b \in Seq(S) /\ DOMAIN (a \o b) = 1 .. Len(s) - 1
      /\ \A k \in 1 .. Len(s) - 1 : (a \o b)[k] = IF k <= Len(a) THEN a[k] ELSE b[k - Len(a)]
  <2>1. a \in Seq(S) /\ b \in Seq(S)
    BY <1>2, <1>3
  <2> QED BY <2>1, <1>6, ConcatFacts
<1>5. ASSUME NEW k \in DOMAIN (a \o b)
      PROVE  /\ k < i  => k \in DOMAIN s /\ (a \o b)[k] = s[k]
             /\ k >= i => k + 1 \in DOMAIN s /\ (a \o b)[k] = s[k + 1]
  <2>1. k \in 1 .. Len(s) - 1
    BY <1>4
  <2>4. k \in Nat /\ k >= 1 /\ k <= Len(s) - 1 /\ i \in Nat /\ i >= 1 /\ Len(a) = i - 1
    BY <2>1, <1>1, <1>2
  <2>2. CASE k < i
    <3>1. k \in 1 .. i - 1 /\ k <= Len(a) /\ k \in DOMAIN s
      BY <2>2, <2>4, <1>1
    <3> QED BY <3>1, <2>1, <2>2, <2>4, <1>2, <1>4
  <2>3. CASE k >= i
    <3>1. k - Len(a) \in 1 .. Len(s) - i /\ ~(k <= Len(a)) /\ k - Len(a) + i = k + 1 /\ k + 1 \in DOMAIN s
      BY <2>3, <2>4, <1>1
    <3>2. (a \o b)[k] = b[k - Len(a)] /\ b[k - Len(a)] = s[k - Len(a) + i]
      BY <3>1, <2>1, <1>3, <1>4
    <3> QED BY <3>1, <3>2, <2>3, <2>4
  <2> QED BY <2>2, <2>3, <2>4
<1> QED BY <1>4, <1>5 DEF a, b, Bus!RemoveAt

-----------------------------------------------------------------------------
(* What becomes of a message.  The messages that a handler was started     *)
(* for, those of its tasks and those that arrive for its target are, in    *)
(* this order, increasing: none is behind a later one, or there twice.     *)

(* What the task queue holds, what the connection carries, and the runs    *)
(* of handlers.                                                            *)
Tasks      == [kind : {"start", "report"}, listener : Listeners, message : Nat]
Deliveries == [target : Topics, message : Nat]
RunsOf     == [listener : Listeners, message : Nat]

(* Types, and the bounds of the indices.                                   *)
BusTypes ==
  /\ sent \in Seq(Channels) /\ served \subseteq Topics /\ IsFiniteSet(served)
  /\ arriving \in Seq(Deliveries) /\ tasks \in Seq(Tasks) /\ attached \in Seq(Listeners)
  /\ since \in [Listeners -> Nat] /\ started \in [Listeners -> Seq(Nat)]
  /\ running \subseteq RunsOf /\ failed \subseteq RunsOf
  /\ reports \in [Listeners -> [1 .. MaxMessages -> Nat]]
  /\ Len(sent) <= MaxMessages

(* A listener is attached once, to a target that the server serves.        *)
AttachedOnce ==
  /\ \A i, j \in DOMAIN attached : attached[i] = attached[j] => i = j
  /\ \A i \in DOMAIN attached : TopicOf[attached[i]] \in served /\ since[attached[i]] <= Len(sent)

(* A message that its target matches.                                      *)
For(t, m) == m \in 1 .. Len(sent) /\ t \in Matches[sent[m]]

(* What arrives was published, and increases for each target.              *)
WireOrdered ==
  /\ \A i \in DOMAIN arriving : For(arriving[i].target, arriving[i].message)
  /\ \A i, j \in DOMAIN arriving : i < j /\ arriving[i].target = arriving[j].target => arriving[i].message < arriving[j].message

(* The task starts a handler of the listener.                              *)
Starts(k, l) == tasks[k].kind = "start" /\ tasks[k].listener = l

(* The starts of a listener increase, ahead of what still arrives.         *)
TasksOrdered ==
  \A l \in Listeners, k \in DOMAIN tasks : Starts(k, l) =>
    /\ For(TopicOf[l], tasks[k].message)
    /\ \A h \in DOMAIN tasks : k < h /\ Starts(h, l) => tasks[k].message < tasks[h].message
    /\ \A i \in DOMAIN arriving : arriving[i].target = TopicOf[l] => tasks[k].message < arriving[i].message

(* What a listener was started for increases, ahead of both.               *)
StartedOrdered ==
  \A l \in Listeners : \A j \in DOMAIN started[l] :
    /\ For(TopicOf[l], started[l][j])
    /\ \A i \in DOMAIN started[l] : j < i => started[l][j] < started[l][i]
    /\ \A k \in DOMAIN tasks : Starts(k, l) => started[l][j] < tasks[k].message
    /\ \A i \in DOMAIN arriving : arriving[i].target = TopicOf[l] => started[l][j] < arriving[i].message

(* A message is behind a listener, or on its way to it.                    *)
WasStarted(l, m) == \E j \in DOMAIN started[l] : started[l][j] = m
IsComing(l, m) ==
  \/ \E i \in DOMAIN arriving : arriving[i] = Bus!Delivery(TopicOf[l], m)
  \/ \E k \in DOMAIN tasks : tasks[k] = Bus!Start(l, m)

(* An attached listener misses only what a lost connection took.           *)
Reached ==
  \A i \in DOMAIN attached : \A m \in (since[attached[i]] + 1) .. Len(sent) :
    For(TopicOf[attached[i]], m) /\ Bus!Delivery(TopicOf[attached[i]], m) \notin lost =>
      WasStarted(attached[i], m) \/ IsComing(attached[i], m)

(* A handler that runs or failed was started, and does one of the two.     *)
RunsStarted ==
  /\ \A r \in running \union failed : WasStarted(r.listener, r.message)
  /\ running \cap failed = {}

(* The task reports that failure.                                          *)
IsReport(k, l, m) == tasks[k] = Bus!Report(l, m)

(* A failure is reported, or has one report queued; nothing else has any.  *)
ReportedIs(l, m) ==
  /\ \A k, h \in DOMAIN tasks : IsReport(k, l, m) /\ IsReport(h, l, m) => k = h
  /\ (\E k \in DOMAIN tasks : IsReport(k, l, m)) => Bus!Runs(l, m) \in failed /\ reports[l][m] = 0
  /\ Bus!Runs(l, m) \in failed /\ ~(\E k \in DOMAIN tasks : IsReport(k, l, m)) => reports[l][m] = 1
  /\ Bus!Runs(l, m) \notin failed => reports[l][m] = 0

(* So it is for every listener and message.                                *)
ReportedOnce == \A l \in Listeners, m \in 1 .. MaxMessages : ReportedIs(l, m)

(* The inductive invariant of the delivery.                                *)
BusInv == BusTypes /\ AttachedOnce /\ WireOrdered /\ TasksOrdered /\ StartedOrdered /\ Reached /\ RunsStarted /\ ReportedOnce

(* The tasks that a delivery makes: one for each listener of its target.   *)
LEMMA HeardOnce ==
  ASSUME BusTypes, AttachedOnce, NEW d \in Deliveries
  PROVE  /\ Bus!Heard(d) \in Seq(Tasks)
         /\ \A k \in DOMAIN Bus!Heard(d) : \E i \in DOMAIN attached :
              TopicOf[attached[i]] = d.target /\ Bus!Heard(d)[k] = Bus!Start(attached[i], d.message)
         /\ \A k, h \in DOMAIN Bus!Heard(d) : Bus!Heard(d)[k] = Bus!Heard(d)[h] => k = h
         /\ \A i \in DOMAIN attached : TopicOf[attached[i]] = d.target =>
              \E k \in DOMAIN Bus!Heard(d) : Bus!Heard(d)[k] = Bus!Start(attached[i], d.message)
<1> DEFINE piece(i) == IF TopicOf[attached[i]] = d.target THEN <<Bus!Start(attached[i], d.message)>> ELSE <<>>
           parts == [i \in DOMAIN attached |-> piece(i)]
           r == Bus!Heard(d)
<1>1. attached \in Seq(Listeners) /\ DOMAIN attached = 1 .. Len(attached) /\ Len(attached) \in Nat /\ d.message \in Nat
  BY DEF BusTypes, Deliveries
<1>2. \A i \in DOMAIN attached : Bus!Start(attached[i], d.message) \in Tasks
  BY <1>1 DEF Bus!Start, Tasks
<1>3. \A i \in DOMAIN attached : piece(i) \in Seq(Tasks)
  BY <1>2
<1>4. parts \in Seq(Seq(Tasks)) /\ Len(parts) = Len(attached)
  BY <1>1, <1>3
<1>5. r = Bus!FlattenSeq(parts)
  BY DEF Bus!Heard
<1> HIDE DEF r
<1>6. PICK part, place : Origin(parts, Len(attached), r, part, place)
  BY <1>4, <1>5, FlattenJoins
<1>7. r \in Seq(Tasks)
  BY <1>4, <1>5, FlattenJoins
<1>8. \A i \in DOMAIN attached : \A j \in DOMAIN parts[i] :
        TopicOf[attached[i]] = d.target /\ j = 1 /\ parts[i][j] = Bus!Start(attached[i], d.message)
  BY <1>1
<1>9. \A i \in DOMAIN attached : TopicOf[attached[i]] = d.target =>
        1 \in DOMAIN parts[i] /\ parts[i][1] = Bus!Start(attached[i], d.message)
  BY <1>1
<1> HIDE DEF parts
<1>10. \A k \in DOMAIN r : /\ part[k] \in DOMAIN attached /\ place[k] = 1 /\ TopicOf[attached[part[k]]] = d.target
                           /\ r[k] = Bus!Start(attached[part[k]], d.message)
  BY <1>1, <1>6, <1>8 DEF Origin
<1>11. ASSUME NEW k \in DOMAIN r, NEW h \in DOMAIN r, r[k] = r[h] PROVE k = h
  <2>1. attached[part[k]] = attached[part[h]]
    BY <1>10, <1>11 DEF Bus!Start
  <2>2. part[k] = part[h] /\ part[k] \in Nat /\ place[k] = 1 /\ place[h] = 1
    BY <2>1, <1>1, <1>10 DEF AttachedOnce
  <2>3. ~(k < h) /\ ~(h < k) /\ k \in Nat /\ h \in Nat
    BY <2>2, <1>6, <1>7 DEF Origin
  <2> QED BY <2>3
<1>12. \A i \in DOMAIN attached : TopicOf[attached[i]] = d.target =>
         \E k \in DOMAIN r : r[k] = Bus!Start(attached[i], d.message)
  <2> SUFFICES ASSUME NEW i \in DOMAIN attached, TopicOf[attached[i]] = d.target
               PROVE  \E k \in DOMAIN r : r[k] = Bus!Start(attached[i], d.message)
    OBVIOUS
  <2>1. PICK k \in DOMAIN r : part[k] = i
    BY <1>1, <1>6, <1>9 DEF Origin
  <2> QED BY <2>1, <1>10
<1> QED BY <1>7, <1>10, <1>11, <1>12 DEF r

(* The tasks that the first n deliveries make, while none is left.         *)
LEMMA ReceivedOnce ==
  ASSUME BusTypes, AttachedOnce, WireOrdered, NEW n \in DOMAIN arriving, Bus!Receive(n)
  PROVE  /\ tasks' \in Seq(Tasks)
         /\ \A k \in DOMAIN tasks' : \E i \in 1 .. n, j \in DOMAIN attached :
              TopicOf[attached[j]] = arriving[i].target /\ tasks'[k] = Bus!Start(attached[j], arriving[i].message)
         /\ \A k, h \in DOMAIN tasks' :
              k < h /\ tasks'[k].listener = tasks'[h].listener => tasks'[k].message < tasks'[h].message
         /\ \A i \in 1 .. n, j \in DOMAIN attached : TopicOf[attached[j]] = arriving[i].target =>
              \E k \in DOMAIN tasks' : tasks'[k] = Bus!Start(attached[j], arriving[i].message)
<1> DEFINE parts == [i \in 1 .. n |-> Bus!Heard(arriving[i])]
<1>1. /\ arriving \in Seq(Deliveries) /\ DOMAIN arriving = 1 .. Len(arriving) /\ Len(arriving) \in Nat /\ n \in Nat
      /\ \A i \in 1 .. n : i \in DOMAIN arriving /\ arriving[i] \in Deliveries
  BY DEF BusTypes
<1>2. \A i \in 1 .. n : Bus!Heard(arriving[i]) \in Seq(Tasks)
  BY <1>1, HeardOnce
<1>3. parts \in Seq(Seq(Tasks)) /\ Len(parts) = n
  BY <1>1, <1>2
<1>4. tasks' = Bus!FlattenSeq(parts)
  BY DEF Bus!Receive
<1>5. tasks' \in Seq(Tasks) /\ \E part, place : Origin(parts, n, tasks', part, place)
  BY <1>3, <1>4, FlattenJoins
<1>6. PICK part, place : Origin(parts, n, tasks', part, place)
  BY <1>5
<1>7. \A i \in 1 .. n : parts[i] = Bus!Heard(arriving[i])
  OBVIOUS
<1> HIDE DEF parts
<1>8. ASSUME NEW k \in DOMAIN tasks'
      PROVE  /\ part[k] \in 1 .. n /\ part[k] \in Nat /\ place[k] \in DOMAIN Bus!Heard(arriving[part[k]])
             /\ tasks'[k] = Bus!Heard(arriving[part[k]])[place[k]]
             /\ \E j \in DOMAIN attached : TopicOf[attached[j]] = arriving[part[k]].target
                                           /\ tasks'[k] = Bus!Start(attached[j], arriving[part[k]].message)
  <2>1. /\ part[k] \in 1 .. n /\ place[k] \in DOMAIN parts[part[k]] /\ tasks'[k] = parts[part[k]][place[k]]
    BY <1>6 DEF Origin
  <2>2. /\ place[k] \in DOMAIN Bus!Heard(arriving[part[k]]) /\ tasks'[k] = Bus!Heard(arriving[part[k]])[place[k]]
    BY <2>1, <1>7
  <2>3. arriving[part[k]] \in Deliveries
    BY <2>1, <1>1
  <2>4. \E j \in DOMAIN attached :
          /\ TopicOf[attached[j]] = arriving[part[k]].target
          /\ Bus!Heard(arriving[part[k]])[place[k]] = Bus!Start(attached[j], arriving[part[k]].message)
    BY <2>2, <2>3, HeardOnce
  <2> QED BY <2>1, <2>2, <2>4, <1>1
<1>9. ASSUME NEW k \in DOMAIN tasks', NEW h \in DOMAIN tasks', k < h, tasks'[k].listener = tasks'[h].listener
      PROVE  tasks'[k].message < tasks'[h].message
  <2>1. PICK i \in DOMAIN attached : /\ TopicOf[attached[i]] = arriving[part[k]].target
                                     /\ tasks'[k] = Bus!Start(attached[i], arriving[part[k]].message)
    BY <1>8
  <2>2. PICK j \in DOMAIN attached : /\ TopicOf[attached[j]] = arriving[part[h]].target
                                     /\ tasks'[h] = Bus!Start(attached[j], arriving[part[h]].message)
    BY <1>8
  <2>3. /\ tasks'[k].listener = attached[i] /\ tasks'[k].message = arriving[part[k]].message
        /\ tasks'[h].listener = attached[j] /\ tasks'[h].message = arriving[part[h]].message
    BY <2>1, <2>2 DEF Bus!Start
  <2>4. arriving[part[k]].target = arriving[part[h]].target
    BY <2>1, <2>2, <2>3, <1>9
  <2>5. CASE part[k] < part[h]
    <3>1. part[k] \in DOMAIN arriving /\ part[h] \in DOMAIN arriving
      BY <1>1, <1>8
    <3> QED BY <3>1, <2>3, <2>4, <2>5 DEF WireOrdered
  <2>6. CASE ~(part[k] < part[h])
    <3>1. part[k] = part[h] /\ place[k] < place[h]
      BY <2>6, <1>6, <1>9 DEF Origin
    <3>2. tasks'[k] = tasks'[h]
      <4>1. attached[i] = attached[j] /\ arriving[part[k]].message = arriving[part[h]].message
        BY <2>3, <1>9, <3>1
      <4> QED BY <4>1, <2>1, <2>2, Zenon
    <3>3. arriving[part[k]] \in Deliveries
      BY <1>1, <1>8
    <3>4. \A a, b \in DOMAIN Bus!Heard(arriving[part[k]]) :
            Bus!Heard(arriving[part[k]])[a] = Bus!Heard(arriving[part[k]])[b] => a = b
      BY <3>3, HeardOnce, Zenon
    <3>5. place[k] \in DOMAIN Bus!Heard(arriving[part[k]]) /\ place[h] \in DOMAIN Bus!Heard(arriving[part[k]])
      BY <1>8, <3>1
    <3>6. Bus!Heard(arriving[part[k]])[place[k]] = Bus!Heard(arriving[part[k]])[place[h]]
      BY <1>8, <3>1, <3>2
    <3>7. place[k] = place[h]
      BY <3>4, <3>5, <3>6, Zenon
    <3>8. place[k] \in Nat
      <4>1. Bus!Heard(arriving[part[k]]) \in Seq(Tasks)
        BY <3>3, HeardOnce, Zenon
      <4> QED BY <4>1, <3>5
    <3> QED BY <3>1, <3>7, <3>8
  <2> QED BY <2>5, <2>6
<1>10. ASSUME NEW i \in 1 .. n, NEW j \in DOMAIN attached, TopicOf[attached[j]] = arriving[i].target
       PROVE  \E k \in DOMAIN tasks' : tasks'[k] = Bus!Start(attached[j], arriving[i].message)
  <2>1. arriving[i] \in Deliveries
    BY <1>1
  <2>2. PICK x \in DOMAIN Bus!Heard(arriving[i]) : Bus!Heard(arriving[i])[x] = Bus!Start(attached[j], arriving[i].message)
    BY <2>1, <1>10, HeardOnce
  <2>3. PICK k \in DOMAIN tasks' : part[k] = i /\ place[k] = x
    BY <2>2, <1>6, <1>7 DEF Origin
  <2>4. tasks'[k] = Bus!Heard(arriving[i])[x]
    BY <2>3, <1>8
  <2> QED BY <2>2, <2>4
<1> QED BY <1>5, <1>8, <1>9, <1>10

-----------------------------------------------------------------------------
(* Every step keeps the invariant.                                         *)

LEMMA BusInit ==
  ASSUME Bus!DeliveryAssumption, Bus!Init
  PROVE  BusInv
<1> USE DEF Bus!Init, Bus!DeliveryAssumption
<1>1. BusTypes
  BY FS_EmptySet DEF BusTypes
<1>2. AttachedOnce /\ WireOrdered /\ TasksOrdered /\ StartedOrdered /\ Reached
  BY DEF AttachedOnce, WireOrdered, TasksOrdered, StartedOrdered, Reached
<1>3. RunsStarted /\ ReportedOnce
  BY DEF RunsStarted, ReportedOnce, ReportedIs
<1> QED BY <1>1, <1>2, <1>3 DEF BusInv

(* A message that is published is the last; its deliveries go behind those *)
(* on the connection, one for each target.                                 *)
LEMMA Published ==
  ASSUME Bus!DeliveryAssumption, BusTypes, NEW ch \in Channels, Bus!Publish(ch), up
  PROVE  /\ arriving' \in Seq(Deliveries) /\ lost' = lost
         /\ \A i \in DOMAIN arriving : i \in DOMAIN arriving' /\ arriving'[i] = arriving[i]
         /\ \A i \in DOMAIN arriving' \ DOMAIN arriving :
              /\ arriving'[i].message = Len(sent') /\ arriving'[i].target \in Matches[ch]
              /\ \A j \in DOMAIN arriving : j < i
         /\ \A i, j \in DOMAIN arriving' \ DOMAIN arriving : arriving'[i].target = arriving'[j].target => i = j
         /\ \A t \in Matches[ch] \cap served : \E i \in DOMAIN arriving' : arriving'[i] = Bus!Delivery(t, Len(sent'))
<1> DEFINE new == {d \in {Bus!Delivery(t, Len(sent')) : t \in Matches[ch]} : d.target \in served}
           s == Bus!SetToSeq(new)
<1>1. arriving' = arriving \o s /\ lost' = lost
  BY DEF Bus!Publish
<1>2. sent \in Seq(Channels) /\ sent' = Append(sent, ch) /\ Len(sent') \in Nat /\ Matches[ch] \subseteq Topics
  BY DEF BusTypes, Bus!Publish, Bus!DeliveryAssumption
<1>3. new \subseteq Deliveries
  BY <1>2 DEF Bus!Delivery, Deliveries
<1>4. \A d \in new : d.message = Len(sent') /\ d.target \in Matches[ch]
  BY DEF Bus!Delivery
<1>5. \A d, e \in new : d.target = e.target => d = e
  BY DEF Bus!Delivery
<1>6. \A t \in Matches[ch] \cap served : Bus!Delivery(t, Len(sent')) \in new
  BY DEF Bus!Delivery
<1>7. \A d \in new : d.target \in served
  OBVIOUS
<1> HIDE DEF new
<1>8. IsFiniteSet(new)
  <2> DEFINE f == [d \in new |-> d.target]
  <2>1. f \in Injection(new, served)
    BY <1>5, <1>7 DEF Injection, IsInjective
  <2>2. IsFiniteSet(served)
    BY DEF BusTypes
  <2> QED BY <2>1, <2>2, FS_Injection
<1>9. /\ s \in Seq(new)
      /\ \A i, j \in DOMAIN s : s[i] = s[j] => i = j
      /\ \A x \in new : \E i \in DOMAIN s : s[i] = x
  BY <1>8, Listed
<1> HIDE DEF s
<1>10. arriving \in Seq(Deliveries) /\ s \in Seq(Deliveries)
  BY <1>3, <1>9 DEF BusTypes
<1>11. /\ arriving' \in Seq(Deliveries) /\ Len(arriving) \in Nat /\ Len(s) \in Nat
       /\ DOMAIN arriving = 1 .. Len(arriving) /\ DOMAIN s = 1 .. Len(s) /\ DOMAIN arriving' = 1 .. (Len(arriving) + Len(s))
       /\ \A k \in 1 .. (Len(arriving) + Len(s)) : arriving'[k] = IF k <= Len(arriving) THEN arriving[k] ELSE s[k - Len(arriving)]
  BY <1>1, <1>10, ConcatFacts
<1>12. \A i \in DOMAIN arriving' \ DOMAIN arriving :
         i - Len(arriving) \in DOMAIN s /\ arriving'[i] = s[i - Len(arriving)] /\ i \in Nat /\ i > Len(arriving)
  BY <1>11
<1>13. \A i \in DOMAIN arriving : i \in DOMAIN arriving' /\ arriving'[i] = arriving[i]
  BY <1>11
<1>14. \A i \in DOMAIN s : i + Len(arriving) \in DOMAIN arriving' /\ arriving'[i + Len(arriving)] = s[i]
  BY <1>11
<1>15. ASSUME NEW i \in DOMAIN arriving' \ DOMAIN arriving
       PROVE  arriving'[i] \in new /\ \A j \in DOMAIN arriving : j < i
  BY <1>9, <1>11, <1>12
<1>16. ASSUME NEW i \in DOMAIN arriving' \ DOMAIN arriving, NEW j \in DOMAIN arriving' \ DOMAIN arriving,
              arriving'[i].target = arriving'[j].target
       PROVE  i = j
  <2>1. arriving'[i] = arriving'[j]
    BY <1>5, <1>15, <1>16
  <2>2. i - Len(arriving) = j - Len(arriving)
    BY <2>1, <1>9, <1>12
  <2> QED BY <2>2, <1>11, <1>12
<1>17. ASSUME NEW t \in Matches[ch] \cap served
       PROVE  \E i \in DOMAIN arriving' : arriving'[i] = Bus!Delivery(t, Len(sent'))
  BY <1>6, <1>9, <1>14
<1> QED BY <1>1, <1>4, <1>11, <1>13, <1>15, <1>16, <1>17

LEMMA PublishKeeps ==
  ASSUME Bus!DeliveryAssumption, BusInv, NEW ch \in Channels, Bus!Publish(ch)
  PROVE  BusInv'
<1> USE DEF BusInv
<1>1. /\ Len(sent) \in Nat /\ sent' \in Seq(Channels) /\ Len(sent') = Len(sent) + 1 /\ Len(sent') <= MaxMessages
      /\ sent'[Len(sent) + 1] = ch /\ \A m \in 1 .. Len(sent) : sent'[m] = sent[m]
      /\ UNCHANGED <<served, attached, since, tasks, started, running, failed, reports>>
  BY DEF BusTypes, Bus!Publish, Bus!DeliveryAssumption, Bus!handlers
<1>2. \A t, m : For(t, m) => m \in 1 .. Len(sent) /\ m <= Len(sent) /\ m # Len(sent') /\ t \in Matches[sent'[m]] /\ m \in 1 .. Len(sent')
  BY <1>1 DEF For
<1>3. \A t \in Matches[ch] : Len(sent') \in 1 .. Len(sent') /\ t \in Matches[sent'[Len(sent')]]
  BY <1>1
<1>4. arriving' \in Seq(Deliveries)
  BY Published DEF BusTypes, Bus!Publish
<1>5. BusTypes'
  BY <1>1, <1>4 DEF BusTypes
<1>6. AttachedOnce'
  BY <1>1 DEF AttachedOnce, BusTypes
<1>7. /\ \A i \in DOMAIN arriving : i \in DOMAIN arriving' /\ arriving'[i] = arriving[i]
      /\ \A i \in DOMAIN arriving' \ DOMAIN arriving :
           /\ arriving'[i].message = Len(sent') /\ arriving'[i].target \in Matches[ch]
           /\ \A j \in DOMAIN arriving : j < i
      /\ \A i, j \in DOMAIN arriving' \ DOMAIN arriving : arriving'[i].target = arriving'[j].target => i = j
  BY Published DEF Bus!Publish
<1>8. \A i \in DOMAIN arriving' : For(arriving'[i].target, arriving'[i].message) \/ i \in DOMAIN arriving' \ DOMAIN arriving
  BY <1>7 DEF WireOrdered
<1>9. WireOrdered'
  <2>1. \A i \in DOMAIN arriving' : arriving'[i].message \in 1 .. Len(sent') /\ arriving'[i].target \in Matches[sent'[arriving'[i].message]]
    BY <1>2, <1>3, <1>7, <1>8
  <2>2. ASSUME NEW i \in DOMAIN arriving', NEW j \in DOMAIN arriving', i < j, arriving'[i].target = arriving'[j].target
        PROVE  arriving'[i].message < arriving'[j].message
    <3>1. i \in Nat /\ j \in Nat
      BY <1>4
    <3>2. CASE j \in DOMAIN arriving
      <4>1. i \in DOMAIN arriving
        BY <2>2, <3>1, <3>2, <1>7
      <4> QED BY <4>1, <2>2, <3>2, <1>7 DEF WireOrdered
    <3>3. CASE j \notin DOMAIN arriving /\ i \in DOMAIN arriving
      <4>1. For(arriving[i].target, arriving[i].message) /\ arriving'[j].message = Len(sent') /\ arriving'[i] = arriving[i]
        BY <3>3, <1>7 DEF WireOrdered
      <4> QED BY <4>1, <1>1 DEF For
    <3>4. CASE j \notin DOMAIN arriving /\ i \notin DOMAIN arriving
      BY <2>2, <3>1, <3>4, <1>7
    <3> QED BY <3>2, <3>3, <3>4
  <2> QED BY <2>1, <2>2 DEF WireOrdered, For
<1>10. \A t, m : For(t, m) => \A i \in DOMAIN arriving' \ DOMAIN arriving : m < arriving'[i].message
  BY <1>1, <1>7 DEF For
<1>11. TasksOrdered'
  <2> SUFFICES ASSUME NEW l \in Listeners, NEW k \in DOMAIN tasks, Starts(k, l)
               PROVE  /\ tasks[k].message \in 1 .. Len(sent') /\ TopicOf[l] \in Matches[sent'[tasks[k].message]]
                      /\ \A h \in DOMAIN tasks : k < h /\ Starts(h, l) => tasks[k].message < tasks[h].message
                      /\ \A i \in DOMAIN arriving' : arriving'[i].target = TopicOf[l] => tasks[k].message < arriving'[i].message
    BY <1>1 DEF TasksOrdered, For, Starts
  <2> QED BY <1>2, <1>7, <1>10 DEF TasksOrdered
<1>12. StartedOrdered'
  <2> SUFFICES ASSUME NEW l \in Listeners, NEW j \in DOMAIN started[l]
               PROVE  /\ started[l][j] \in 1 .. Len(sent') /\ TopicOf[l] \in Matches[sent'[started[l][j]]]
                      /\ \A i \in DOMAIN started[l] : j < i => started[l][j] < started[l][i]
                      /\ \A k \in DOMAIN tasks : Starts(k, l) => started[l][j] < tasks[k].message
                      /\ \A i \in DOMAIN arriving' : arriving'[i].target = TopicOf[l] => started[l][j] < arriving'[i].message
    BY <1>1 DEF StartedOrdered, For, Starts
  <2> QED BY <1>2, <1>7, <1>10 DEF StartedOrdered
<1>13. Reached'
  <2> SUFFICES ASSUME NEW i \in DOMAIN attached, NEW m \in (since[attached[i]] + 1) .. Len(sent'),
                      m \in 1 .. Len(sent'), TopicOf[attached[i]] \in Matches[sent'[m]],
                      Bus!Delivery(TopicOf[attached[i]], m) \notin lost'
               PROVE  \/ WasStarted(attached[i], m)
                      \/ \E k \in DOMAIN arriving' : arriving'[k] = Bus!Delivery(TopicOf[attached[i]], m)
                      \/ \E k \in DOMAIN tasks : tasks[k] = Bus!Start(attached[i], m)
    BY <1>1 DEF Reached, For, WasStarted, IsComing
  <2> DEFINE l == attached[i]
  <2>1. l \in Listeners /\ since[l] \in Nat
    BY DEF BusTypes
  <2>2. lost \subseteq lost'
    BY DEF Bus!Publish
  <2>3. CASE m \in 1 .. Len(sent)
    <3>1. m \in (since[l] + 1) .. Len(sent) /\ For(TopicOf[l], m)
      BY <2>1, <2>3, <1>1 DEF For
    <3>2. WasStarted(l, m) \/ IsComing(l, m)
      BY <3>1, <2>2 DEF Reached
    <3> QED BY <3>2, <1>7 DEF IsComing
  <2>4. CASE m \notin 1 .. Len(sent)
    <3>1. m = Len(sent')
      BY <2>4, <1>1
    <3>2. TopicOf[l] \in Matches[ch] /\ TopicOf[l] \in served
      BY <3>1, <1>1 DEF AttachedOnce
    <3>3. up
      BY <3>1, <3>2 DEF Bus!Publish
    <3>4. \E k \in DOMAIN arriving' : arriving'[k] = Bus!Delivery(TopicOf[l], Len(sent'))
      BY <3>2, <3>3, Published
    <3> QED BY <3>1, <3>4
  <2> QED BY <2>3, <2>4
<1>14. RunsStarted' /\ ReportedOnce'
  BY <1>1 DEF RunsStarted, ReportedOnce, ReportedIs, WasStarted, IsReport
<1> QED BY <1>5, <1>6, <1>9, <1>11, <1>12, <1>13, <1>14

LEMMA DropKeeps ==
  ASSUME BusInv, Bus!Drop
  PROVE  BusInv'
<1> USE DEF BusInv
<1>1. /\ arriving' = <<>> /\ lost' = lost \union Bus!ToSet(arriving)
      /\ UNCHANGED <<sent, served, attached, since, tasks, started, running, failed, reports>>
  BY DEF Bus!Drop, Bus!handlers
<1>2. BusTypes' /\ AttachedOnce' /\ WireOrdered'
  BY <1>1 DEF BusTypes, AttachedOnce, WireOrdered
<1>3. TasksOrdered' /\ StartedOrdered'
  BY <1>1 DEF TasksOrdered, StartedOrdered, For, Starts
<1>4. RunsStarted' /\ ReportedOnce'
  BY <1>1 DEF RunsStarted, ReportedOnce, ReportedIs, WasStarted, IsReport
<1>5. \A i \in DOMAIN arriving : arriving[i] \in lost'
  BY <1>1 DEF Bus!ToSet
<1>6. Reached'
  BY <1>1, <1>5 DEF Reached, For, WasStarted, IsComing
<1> QED BY <1>2, <1>3, <1>4, <1>6

LEMMA ReconnectKeeps ==
  ASSUME BusInv, Bus!Reconnect
  PROVE  BusInv'
<1> USE DEF BusInv
<1>1. UNCHANGED <<sent, served, arriving, lost, attached, since, tasks, started, running, failed, reports>>
  BY DEF Bus!Reconnect, Bus!handlers
<1>2. BusTypes' /\ AttachedOnce' /\ WireOrdered' /\ TasksOrdered' /\ StartedOrdered'
  BY <1>1 DEF BusTypes, AttachedOnce, WireOrdered, TasksOrdered, StartedOrdered, For, Starts
<1>3. Reached' /\ RunsStarted' /\ ReportedOnce'
  BY <1>1 DEF Reached, RunsStarted, ReportedOnce, ReportedIs, WasStarted, IsComing, IsReport, For
<1> QED BY <1>2, <1>3

(* A new listener is the last, and nothing was published since.            *)
LEMMA AttachKeeps ==
  ASSUME Bus!DeliveryAssumption, BusInv, NEW l \in Listeners, Bus!Attach(l)
  PROVE  BusInv'
<1> USE DEF BusInv
<1>1. /\ attached' = Append(attached, l) /\ attached \in Seq(Listeners)
      /\ served' = served \union {TopicOf[l]} /\ since' = [since EXCEPT ![l] = Len(sent)]
      /\ UNCHANGED <<sent, arriving, lost, tasks, started, running, failed, reports>>
      /\ \A i \in DOMAIN attached : attached[i] # l
      /\ TopicOf[l] \in Topics /\ Len(sent) \in Nat
  BY DEF Bus!Attach, Bus!handlers, Bus!ToSet, BusTypes, Bus!DeliveryAssumption
<1>2. /\ attached' \in Seq(Listeners)
      /\ \A i \in DOMAIN attached' : \/ i \in DOMAIN attached /\ attached'[i] = attached[i] /\ attached[i] # l
                                     \/ i = Len(attached) + 1 /\ attached'[i] = l
  BY <1>1, AppendFacts
<1>3. /\ since' \in [Listeners -> Nat] /\ since'[l] = Len(sent) /\ \A k \in Listeners \ {l} : since'[k] = since[k]
  BY <1>1 DEF BusTypes
<1>4. BusTypes'
  <2>1. IsFiniteSet(served')
    BY <1>1, FS_AddElement DEF BusTypes
  <2> QED BY <2>1, <1>1, <1>2, <1>3 DEF BusTypes
<1>5. AttachedOnce'
  <2>1. \A i, j \in DOMAIN attached' : attached'[i] = attached'[j] => i = j
    BY <1>2 DEF AttachedOnce
  <2>2. \A i \in DOMAIN attached : attached[i] \in Listeners
    BY <1>1
  <2>3. \A i \in DOMAIN attached' : TopicOf[attached'[i]] \in served' /\ since'[attached'[i]] <= Len(sent)
    BY <2>2, <1>1, <1>2, <1>3 DEF AttachedOnce
  <2> QED BY <2>1, <2>3, <1>1 DEF AttachedOnce
<1>6. Reached'
  <2> SUFFICES ASSUME NEW i \in DOMAIN attached', NEW m \in (since'[attached'[i]] + 1) .. Len(sent),
                      For(TopicOf[attached'[i]], m), Bus!Delivery(TopicOf[attached'[i]], m) \notin lost
               PROVE  WasStarted(attached'[i], m) \/ IsComing(attached'[i], m)
    <3>1. \A k, m : /\ For(k, m)' <=> For(k, m)
                    /\ WasStarted(k, m)' <=> WasStarted(k, m)
                    /\ IsComing(k, m)' <=> IsComing(k, m)
      BY <1>1 DEF For, WasStarted, IsComing
    <3>2. sent' = sent /\ lost' = lost
      BY <1>1
    <3> QED BY <3>1, <3>2, Zenon DEF Reached
  <2>1. CASE i \in DOMAIN attached /\ attached'[i] = attached[i] /\ attached[i] # l
    <3>1. since'[attached[i]] = since[attached[i]]
      BY <2>1, <1>1, <1>3
    <3> QED BY <3>1, <2>1 DEF Reached
  <2>2. CASE attached'[i] = l
    BY <2>2, <1>1, <1>3
  <2> QED BY <2>1, <2>2, <1>2
<1>7. WireOrdered' /\ TasksOrdered' /\ StartedOrdered' /\ RunsStarted' /\ ReportedOnce'
  BY <1>1 DEF WireOrdered, TasksOrdered, StartedOrdered, RunsStarted, ReportedOnce, ReportedIs, For, Starts, WasStarted, IsReport
<1> QED BY <1>4, <1>5, <1>6, <1>7

LEMMA DetachKeeps ==
  ASSUME BusInv, NEW l \in Listeners, Bus!Detach(l)
  PROVE  BusInv'
<1> USE DEF BusInv
<1>1. UNCHANGED <<sent, served, arriving, lost, since, tasks, started, running, failed, reports>>
  BY DEF Bus!Detach, Bus!redis, Bus!handlers
<1>2. PICK n \in DOMAIN attached : attached' = Bus!RemoveAt(attached, n)
  BY DEF Bus!Detach
<1>3. attached \in Seq(Listeners) /\ n \in Nat /\ \A i \in DOMAIN attached : i \in Nat
  BY SMTT(30) DEF BusTypes
<1>4. /\ attached' \in Seq(Listeners)
      /\ \A k \in DOMAIN attached' : /\ k < n  => k \in DOMAIN attached /\ attached'[k] = attached[k]
                                     /\ k >= n => k + 1 \in DOMAIN attached /\ attached'[k] = attached[k + 1]
  BY <1>2, <1>3, Removed
<1>5. \A k \in DOMAIN attached' : k \in Nat
  BY <1>4
<1>6. \A k \in DOMAIN attached' : \E i \in DOMAIN attached : attached'[k] = attached[i]
  BY <1>3, <1>4, <1>5
<1>7. ASSUME NEW j \in DOMAIN attached', NEW k \in DOMAIN attached', attached'[j] = attached'[k] PROVE j = k
  <2>1. j < n \/ j >= n
    BY <1>3, <1>5
  <2>2. k < n \/ k >= n
    BY <1>3, <1>5
  <2> QED BY <2>1, <2>2, <1>3, <1>4, <1>5, <1>7 DEF AttachedOnce
<1>8. BusTypes' /\ AttachedOnce'
  <2>1. BusTypes'
    BY <1>1, <1>4 DEF BusTypes
  <2>2. \A k \in DOMAIN attached' : TopicOf[attached'[k]] \in served /\ since[attached'[k]] <= Len(sent)
    BY <1>6 DEF AttachedOnce
  <2> QED BY <2>1, <2>2, <1>1, <1>7 DEF AttachedOnce
<1>9. Reached'
  BY <1>1, <1>6 DEF Reached, For, WasStarted, IsComing
<1>10. WireOrdered' /\ TasksOrdered' /\ StartedOrdered' /\ RunsStarted' /\ ReportedOnce'
  BY <1>1 DEF WireOrdered, TasksOrdered, StartedOrdered, RunsStarted, ReportedOnce, ReportedIs, For, Starts, WasStarted, IsReport
<1> QED BY <1>8, <1>9, <1>10

LEMMA UnserveKeeps ==
  ASSUME BusInv, NEW t \in Topics, Bus!Unserve(t)
  PROVE  BusInv'
<1> USE DEF BusInv
<1>1. /\ UNCHANGED <<sent, arriving, lost, attached, since, tasks, started, running, failed, reports>>
      /\ served' = served \ {t} /\ \A i \in DOMAIN attached : TopicOf[attached[i]] # t
  BY DEF Bus!Unserve, Bus!handlers, Bus!ToSet
<1>2. IsFiniteSet(served')
  BY <1>1, FS_RemoveElement DEF BusTypes
<1>3. BusTypes' /\ AttachedOnce'
  BY <1>1, <1>2 DEF BusTypes, AttachedOnce
<1>4. WireOrdered' /\ TasksOrdered' /\ StartedOrdered'
  BY <1>1 DEF WireOrdered, TasksOrdered, StartedOrdered, For, Starts
<1>5. Reached' /\ RunsStarted' /\ ReportedOnce'
  BY <1>1 DEF Reached, RunsStarted, ReportedOnce, ReportedIs, WasStarted, IsComing, IsReport, For
<1> QED BY <1>3, <1>4, <1>5

(* What the connection reads becomes tasks, in order and before what it    *)
(* has not read.                                                           *)
LEMMA ReceiveKeeps ==
  ASSUME BusInv, NEW n \in Nat, Bus!Receive(n)
  PROVE  BusInv'
<1> USE DEF BusInv
<1>1. /\ UNCHANGED <<sent, served, lost, attached, since, started, running, failed, reports>>
      /\ n \in DOMAIN arriving /\ tasks = <<>> /\ arriving' = SubSeq(arriving, n + 1, Len(arriving)) /\ arriving \in Seq(Deliveries)
  BY DEF Bus!Receive, Bus!handlers, BusTypes
<1>2. /\ tasks' \in Seq(Tasks)
      /\ \A k \in DOMAIN tasks' : \E i \in 1 .. n, j \in DOMAIN attached :
           TopicOf[attached[j]] = arriving[i].target /\ tasks'[k] = Bus!Start(attached[j], arriving[i].message)
      /\ \A k, h \in DOMAIN tasks' :
           k < h /\ tasks'[k].listener = tasks'[h].listener => tasks'[k].message < tasks'[h].message
      /\ \A i \in 1 .. n, j \in DOMAIN attached : TopicOf[attached[j]] = arriving[i].target =>
           \E k \in DOMAIN tasks' : tasks'[k] = Bus!Start(attached[j], arriving[i].message)
  BY <1>1, ReceivedOnce
<1>3. /\ arriving' \in Seq(Deliveries)
      /\ \A i \in DOMAIN arriving' : i \in Nat /\ i >= 1 /\ i + n \in DOMAIN arriving /\ arriving'[i] = arriving[i + n]
      /\ \A i \in DOMAIN arriving : i \in 1 .. n \/ (i - n \in DOMAIN arriving' /\ arriving'[i - n] = arriving[i])
      /\ \A i \in 1 .. n : i \in DOMAIN arriving
  <2>1. Len(arriving) \in Nat /\ DOMAIN arriving = 1 .. Len(arriving) /\ n <= Len(arriving)
    BY <1>1
  <2>2. arriving' \in Seq(Deliveries) /\ DOMAIN arriving' = 1 .. (Len(arriving) - n)
    BY <1>1, <2>1
  <2>3. \A i \in 1 .. (Len(arriving) - n) : arriving'[i] = arriving[i + n]
    BY <1>1, <2>1
  <2>4. ASSUME NEW i \in DOMAIN arriving, i \notin 1 .. n PROVE i - n \in DOMAIN arriving' /\ arriving'[i - n] = arriving[i]
    <3>1. i - n \in 1 .. (Len(arriving) - n) /\ i - n + n = i
      BY <2>1, <2>4
    <3> QED BY <3>1, <2>2, <2>3
  <2>5. \A i \in DOMAIN arriving' : i \in Nat /\ i >= 1 /\ i + n \in DOMAIN arriving /\ arriving'[i] = arriving[i + n]
    BY <2>1, <2>2, <2>3
  <2> QED BY <2>1, <2>2, <2>4, <2>5
<1>4. BusTypes' /\ AttachedOnce'
  BY <1>1, <1>2, <1>3 DEF BusTypes, AttachedOnce
<1>5. WireOrdered'
  <2>1. \A i \in DOMAIN arriving' : For(arriving'[i].target, arriving'[i].message)
    BY <1>3 DEF WireOrdered
  <2>2. ASSUME NEW i \in DOMAIN arriving', NEW j \in DOMAIN arriving', i < j, arriving'[i].target = arriving'[j].target
        PROVE  arriving'[i].message < arriving'[j].message
    <3>1. /\ i + n \in DOMAIN arriving /\ arriving'[i] = arriving[i + n]
          /\ j + n \in DOMAIN arriving /\ arriving'[j] = arriving[j + n] /\ i + n < j + n
      BY <2>2, <1>3
    <3> QED BY <3>1, <2>2 DEF WireOrdered
  <2> QED BY <2>1, <2>2, <1>1 DEF WireOrdered, For
<1>6. ASSUME NEW l \in Listeners, NEW k \in DOMAIN tasks', Starts(k, l)'
      PROVE  \E i \in 1 .. n : arriving[i].target = TopicOf[l] /\ tasks'[k].message = arriving[i].message /\ i \in DOMAIN arriving
  <2>1. PICK i \in 1 .. n, j \in DOMAIN attached :
          TopicOf[attached[j]] = arriving[i].target /\ tasks'[k] = Bus!Start(attached[j], arriving[i].message)
    BY <1>2
  <2>2. attached[j] = l /\ tasks'[k].message = arriving[i].message
    BY <2>1, <1>6 DEF Starts, Bus!Start
  <2> QED BY <2>1, <2>2, <1>3
<1>7. TasksOrdered'
  <2> SUFFICES ASSUME NEW l \in Listeners, NEW k \in DOMAIN tasks', Starts(k, l)'
               PROVE  /\ For(TopicOf[l], tasks'[k].message)
                      /\ \A h \in DOMAIN tasks' : k < h /\ Starts(h, l)' => tasks'[k].message < tasks'[h].message
                      /\ \A i \in DOMAIN arriving' : arriving'[i].target = TopicOf[l] => tasks'[k].message < arriving'[i].message
    BY <1>1 DEF TasksOrdered, For
  <2>1. PICK i \in 1 .. n : arriving[i].target = TopicOf[l] /\ tasks'[k].message = arriving[i].message /\ i \in DOMAIN arriving
    BY <1>6
  <2>2. For(TopicOf[l], tasks'[k].message)
    BY <2>1 DEF WireOrdered
  <2>3. \A h \in DOMAIN tasks' : k < h /\ Starts(h, l)' => tasks'[k].message < tasks'[h].message
    BY <1>2 DEF Starts
  <2>4. ASSUME NEW j \in DOMAIN arriving', arriving'[j].target = TopicOf[l] PROVE tasks'[k].message < arriving'[j].message
    <3>1. i < j + n /\ j + n \in DOMAIN arriving /\ arriving'[j] = arriving[j + n]
      BY <1>3
    <3> QED BY <3>1, <2>1, <2>4 DEF WireOrdered
  <2> QED BY <2>2, <2>3, <2>4
<1>8. StartedOrdered'
  <2> SUFFICES ASSUME NEW l \in Listeners, NEW j \in DOMAIN started[l]
               PROVE  /\ For(TopicOf[l], started[l][j])
                      /\ \A i \in DOMAIN started[l] : j < i => started[l][j] < started[l][i]
                      /\ \A k \in DOMAIN tasks' : Starts(k, l)' => started[l][j] < tasks'[k].message
                      /\ \A i \in DOMAIN arriving' : arriving'[i].target = TopicOf[l] => started[l][j] < arriving'[i].message
    BY <1>1 DEF StartedOrdered, For
  <2>1. For(TopicOf[l], started[l][j]) /\ \A i \in DOMAIN started[l] : j < i => started[l][j] < started[l][i]
    BY DEF StartedOrdered
  <2>2. \A i \in DOMAIN arriving : arriving[i].target = TopicOf[l] => started[l][j] < arriving[i].message
    BY DEF StartedOrdered
  <2>3. \A k \in DOMAIN tasks' : Starts(k, l)' => started[l][j] < tasks'[k].message
    BY <2>2, <1>6
  <2>4. \A i \in DOMAIN arriving' : arriving'[i].target = TopicOf[l] => started[l][j] < arriving'[i].message
    BY <2>2, <1>3
  <2> QED BY <2>1, <2>3, <2>4
<1>9. Reached'
  <2> SUFFICES ASSUME NEW j \in DOMAIN attached, NEW m \in (since[attached[j]] + 1) .. Len(sent),
                      For(TopicOf[attached[j]], m), Bus!Delivery(TopicOf[attached[j]], m) \notin lost
               PROVE  \/ WasStarted(attached[j], m)
                      \/ \E i \in DOMAIN arriving' : arriving'[i] = Bus!Delivery(TopicOf[attached[j]], m)
                      \/ \E k \in DOMAIN tasks' : tasks'[k] = Bus!Start(attached[j], m)
    BY <1>1, SMTT(30) DEF Reached, For, WasStarted, IsComing
  <2>1. WasStarted(attached[j], m) \/ \E i \in DOMAIN arriving : arriving[i] = Bus!Delivery(TopicOf[attached[j]], m)
    BY <1>1 DEF Reached, IsComing
  <2>2. ASSUME NEW i \in DOMAIN arriving, arriving[i] = Bus!Delivery(TopicOf[attached[j]], m), i \in 1 .. n
        PROVE  \E k \in DOMAIN tasks' : tasks'[k] = Bus!Start(attached[j], m)
    <3>1. arriving[i].target = TopicOf[attached[j]] /\ arriving[i].message = m
      BY <2>2 DEF Bus!Delivery
    <3> QED BY <3>1, <2>2, <1>2
  <2> QED BY <2>1, <2>2, <1>3
<1>10. RunsStarted' /\ ReportedOnce'
  <2>1. \A k \in DOMAIN tasks' : \A l, m : ~IsReport(k, l, m)'
    BY <1>2 DEF IsReport, Bus!Start, Bus!Report
  <2>2. RunsStarted'
    BY <1>1 DEF RunsStarted, WasStarted
  <2>3. \A k \in DOMAIN tasks : \A l, m : ~IsReport(k, l, m)
    BY <1>1
  <2> QED BY <2>1, <2>2, <2>3, <1>1 DEF ReportedOnce, ReportedIs
<1> QED BY <1>4, <1>5, <1>7, <1>8, <1>9, <1>10

(* The first n tasks are gone, and perhaps there is the report r behind.   *)
Moved(n, r) ==
  /\ tasks' \in Seq(Tasks) /\ tasks \in Seq(Tasks) /\ n \in {0, 1} /\ n <= Len(tasks) /\ r.kind = "report"
  /\ \A k \in DOMAIN tasks' : \/ k + n \in DOMAIN tasks /\ tasks'[k] = tasks[k + n]
                              \/ k + n = Len(tasks) + 1 /\ tasks'[k] = r
  /\ \A k \in DOMAIN tasks : k <= n \/ (k - n \in DOMAIN tasks' /\ tasks'[k - n] = tasks[k])

(* A report is a task.                                                     *)
ReportType(l, m) == Bus!Report(l, m).kind = "report" /\ Bus!Report(l, m) \in Tasks

LEMMA ReportIsTask ==
  ASSUME NEW l \in Listeners, NEW m \in Nat
  PROVE  ReportType(l, m)
BY DEF Bus!Report, Tasks, ReportType

LEMMA Dequeued ==
  ASSUME BusTypes, NEW l \in Listeners, NEW m \in Nat, tasks # <<>>, tasks' = Tail(tasks)
  PROVE  Moved(1, Bus!Report(l, m))
<1>1. tasks \in Seq(Tasks)
  BY DEF BusTypes
<1> QED BY <1>1, TailFacts, ReportIsTask DEF Moved, ReportType

LEMMA Requeued ==
  ASSUME BusTypes, NEW l \in Listeners, NEW m \in Nat, tasks # <<>>, tasks' = Append(Tail(tasks), Bus!Report(l, m))
  PROVE  /\ Moved(1, Bus!Report(l, m))
         /\ Len(tasks) \in DOMAIN tasks' /\ tasks'[Len(tasks)] = Bus!Report(l, m)
<1> DEFINE s == Tail(tasks)
<1>1. tasks \in Seq(Tasks) /\ s \in Seq(Tasks) /\ Bus!Report(l, m) \in Tasks /\ Bus!Report(l, m).kind = "report"
  BY TailFacts, ReportIsTask DEF BusTypes, ReportType
<1>2. /\ DOMAIN tasks = 1 .. Len(tasks) /\ Len(tasks) \in Nat /\ Len(tasks) >= 1
      /\ DOMAIN s = 1 .. (Len(tasks) - 1)
      /\ \A i \in DOMAIN s : i + 1 \in DOMAIN tasks /\ s[i] = tasks[i + 1]
      /\ \A i \in DOMAIN tasks : i # 1 => i - 1 \in DOMAIN s /\ s[i - 1] = tasks[i]
  BY <1>1, TailFacts
<1>5. Len(s) = Len(tasks) - 1
  BY <1>1
<1> HIDE DEF s
<1>3. /\ tasks' \in Seq(Tasks)
      /\ DOMAIN s = 1 .. Len(s) /\ Len(s) \in Nat
      /\ \A i \in DOMAIN s : i \in DOMAIN tasks' /\ tasks'[i] = s[i]
      /\ \A i \in DOMAIN tasks' : i = Len(s) + 1 \/ i \in DOMAIN s
      /\ Len(s) + 1 \in DOMAIN tasks' /\ tasks'[Len(s) + 1] = Bus!Report(l, m)
  <2>1. tasks' = Append(s, Bus!Report(l, m))
    BY DEF s
  <2> QED BY <2>1, <1>1, AppendFacts
<1>4. Len(s) + 1 = Len(tasks)
  BY <1>2, <1>5
<1> QED BY <1>1, <1>2, <1>3, <1>4 DEF Moved

LEMMA Enqueued ==
  ASSUME BusTypes, NEW l \in Listeners, NEW m \in Nat, tasks' = Append(tasks, Bus!Report(l, m))
  PROVE  /\ Moved(0, Bus!Report(l, m))
         /\ Len(tasks) + 1 \in DOMAIN tasks' /\ tasks'[Len(tasks) + 1] = Bus!Report(l, m)
<1>1. tasks \in Seq(Tasks) /\ Bus!Report(l, m) \in Tasks /\ Bus!Report(l, m).kind = "report"
  BY ReportIsTask DEF BusTypes, ReportType
<1>2. /\ tasks' \in Seq(Tasks) /\ DOMAIN tasks = 1 .. Len(tasks) /\ Len(tasks) \in Nat
      /\ \A i \in DOMAIN tasks : i \in DOMAIN tasks' /\ tasks'[i] = tasks[i]
      /\ \A i \in DOMAIN tasks' : i = Len(tasks) + 1 \/ i \in DOMAIN tasks
      /\ Len(tasks) + 1 \in DOMAIN tasks' /\ tasks'[Len(tasks) + 1] = Bus!Report(l, m)
      /\ DOMAIN tasks' = 1 .. (Len(tasks) + 1)
  BY <1>1, AppendFacts
<1> QED BY <1>1, <1>2 DEF Moved

(* The handlers that are to start were there before.                       *)
LEMMA StartsMoved ==
  ASSUME NEW n, NEW r, Moved(n, r), NEW l, NEW k \in DOMAIN tasks', Starts(k, l)'
  PROVE  k + n \in DOMAIN tasks /\ Starts(k + n, l) /\ tasks'[k].message = tasks[k + n].message
BY DEF Moved, Starts

LEMMA OrderMoved ==
  ASSUME TasksOrdered, UNCHANGED <<sent, arriving>>, NEW n, NEW r, Moved(n, r)
  PROVE  TasksOrdered'
<1> SUFFICES ASSUME NEW l \in Listeners, NEW k \in DOMAIN tasks', Starts(k, l)'
             PROVE  /\ For(TopicOf[l], tasks'[k].message)
                    /\ \A h \in DOMAIN tasks' : k < h /\ Starts(h, l)' => tasks'[k].message < tasks'[h].message
                    /\ \A i \in DOMAIN arriving : arriving[i].target = TopicOf[l] => tasks'[k].message < arriving[i].message
  BY DEF TasksOrdered, For
<1>1. k + n \in DOMAIN tasks /\ Starts(k + n, l) /\ tasks'[k].message = tasks[k + n].message
  BY StartsMoved
<1>2. ASSUME NEW h \in DOMAIN tasks', k < h, Starts(h, l)' PROVE tasks'[k].message < tasks'[h].message
  <2>1. h + n \in DOMAIN tasks /\ Starts(h + n, l) /\ tasks'[h].message = tasks[h + n].message
    BY <1>2, StartsMoved
  <2>2. k + n < h + n
    BY <1>2 DEF Moved
  <2> QED BY <2>1, <2>2, <1>1 DEF TasksOrdered
<1> QED BY <1>1, <1>2 DEF TasksOrdered

LEMMA StartedMoved ==
  ASSUME StartedOrdered, UNCHANGED <<sent, arriving, started>>, NEW n, NEW r, Moved(n, r)
  PROVE  StartedOrdered'
<1> SUFFICES ASSUME NEW l \in Listeners, NEW j \in DOMAIN started[l]
             PROVE  /\ For(TopicOf[l], started[l][j])
                    /\ \A i \in DOMAIN started[l] : j < i => started[l][j] < started[l][i]
                    /\ \A k \in DOMAIN tasks' : Starts(k, l)' => started[l][j] < tasks'[k].message
                    /\ \A i \in DOMAIN arriving : arriving[i].target = TopicOf[l] => started[l][j] < arriving[i].message
  BY DEF StartedOrdered, For
<1>1. ASSUME NEW k \in DOMAIN tasks', Starts(k, l)' PROVE started[l][j] < tasks'[k].message
  BY <1>1, StartsMoved DEF StartedOrdered
<1> QED BY <1>1 DEF StartedOrdered

(* A task that is not among the first n is still there.                    *)
LEMMA ComingMoved ==
  ASSUME NEW n, NEW r, Moved(n, r), UNCHANGED arriving, NEW l, NEW m, IsComing(l, m),
         \A k \in 1 .. n : tasks[k] # Bus!Start(l, m)
  PROVE  IsComing(l, m)'
<1>1. ASSUME NEW k \in DOMAIN tasks, tasks[k] = Bus!Start(l, m)
      PROVE  \E h \in DOMAIN tasks' : tasks'[h] = Bus!Start(l, m)
  <2>1. ~(k <= n)
    BY <1>1 DEF Moved
  <2> QED BY <2>1, <1>1 DEF Moved
<1> QED BY <1>1 DEF IsComing

(* And so is a report; a new one is r.                                     *)
LEMMA ReportsMoved ==
  ASSUME NEW n, NEW r, Moved(n, r), NEW l, NEW m, Bus!Report(l, m) # r
  PROVE  /\ \A k \in DOMAIN tasks' : IsReport(k, l, m)' => k + n \in DOMAIN tasks /\ IsReport(k + n, l, m)
         /\ \A k \in DOMAIN tasks : IsReport(k, l, m) /\ ~(k <= n) => \E h \in DOMAIN tasks' : IsReport(h, l, m)'
BY DEF Moved, IsReport

LEMMA OtherReports ==
  ASSUME NEW n, NEW r, Moved(n, r), NEW l, NEW m, ReportedIs(l, m), Bus!Report(l, m) # r,
         \A k \in 1 .. n : ~IsReport(k, l, m), reports'[l][m] = reports[l][m],
         Bus!Runs(l, m) \in failed' <=> Bus!Runs(l, m) \in failed
  PROVE  ReportedIs(l, m)'
<1>1. /\ \A k \in DOMAIN tasks' : IsReport(k, l, m)' => k + n \in DOMAIN tasks /\ IsReport(k + n, l, m)
      /\ \A k \in DOMAIN tasks : IsReport(k, l, m) => \E h \in DOMAIN tasks' : IsReport(h, l, m)'
  <2>1. \A k \in DOMAIN tasks : IsReport(k, l, m) => ~(k <= n)
    BY DEF Moved
  <2> QED BY <2>1, ReportsMoved
<1>2. \A k, h \in DOMAIN tasks' : k + n = h + n => k = h
  BY DEF Moved
<1>3. \A k, h \in DOMAIN tasks' : IsReport(k, l, m)' /\ IsReport(h, l, m)' => k = h
  BY <1>1, <1>2 DEF ReportedIs
<1> QED BY <1>1, <1>3 DEF ReportedIs

(* A failure that is new is reported by the task behind the others.        *)
LEMMA FailureQueued ==
  ASSUME BusTypes, ReportedOnce, NEW l \in Listeners, NEW m \in Nat, NEW n, Moved(n, Bus!Report(l, m)),
         \A k \in 1 .. n : tasks[k].kind = "start",
         NEW x \in DOMAIN tasks', tasks'[x] = Bus!Report(l, m),
         Bus!Runs(l, m) \notin failed, failed' = failed \union {Bus!Runs(l, m)}, reports' = reports
  PROVE  ReportedOnce'
<1> SUFFICES ASSUME NEW i \in Listeners, NEW j \in 1 .. MaxMessages PROVE ReportedIs(i, j)'
  BY DEF ReportedOnce
<1>1. ReportedIs(i, j) /\ \A k \in 1 .. n : ~IsReport(k, i, j)
  BY DEF ReportedOnce, IsReport, Bus!Report
<1>2. CASE i = l /\ j = m
  <2>1. reports[l][m] = 0 /\ \A k \in DOMAIN tasks : ~IsReport(k, l, m)
    BY <1>1, <1>2 DEF ReportedIs
  <2>2. \A k \in DOMAIN tasks' : IsReport(k, l, m)' => k + n = Len(tasks) + 1
    BY <2>1 DEF Moved, IsReport
  <2>3. \A k, h \in DOMAIN tasks' : k + n = Len(tasks) + 1 /\ h + n = Len(tasks) + 1 => k = h
    BY DEF Moved
  <2>4. IsReport(x, l, m)' /\ Bus!Runs(l, m) \in failed'
    BY DEF IsReport
  <2> QED BY <2>1, <2>2, <2>3, <2>4, <1>2 DEF ReportedIs
<1>3. CASE ~(i = l /\ j = m)
  <2>1. Bus!Report(i, j) # Bus!Report(l, m) /\ Bus!Runs(i, j) # Bus!Runs(l, m)
    BY <1>3 DEF Bus!Report, Bus!Runs
  <2> QED BY <2>1, <1>1, OtherReports
<1> QED BY <1>2, <1>3

(* A table of numbers with one of them raised.                             *)
LEMMA OneMore ==
  ASSUME NEW S, NEW f \in [S -> Nat], NEW x \in S
  PROVE  LET g == [f EXCEPT ![x] = f[x] + 1]
         IN  g \in [S -> Nat] /\ g[x] = f[x] + 1 /\ \A y \in S : y # x => g[y] = f[y]
OBVIOUS

LEMMA ReportedKeeps ==
  ASSUME Bus!DeliveryAssumption, BusInv, NEW l \in Listeners, NEW m \in 1 .. MaxMessages, Bus!Reported(l, m)
  PROVE  BusInv'
<1> USE DEF BusInv
<1>1. /\ UNCHANGED <<sent, served, arriving, lost, attached, since, started, running, failed>>
      /\ tasks # <<>> /\ Head(tasks) = Bus!Report(l, m) /\ tasks' = Tail(tasks)
      /\ reports' = [reports EXCEPT ![l][m] = @ + 1] /\ m \in Nat /\ tasks \in Seq(Tasks)
  BY DEF Bus!Reported, Bus!redis, BusTypes, Bus!DeliveryAssumption
<1>2. Moved(1, Bus!Report(l, m))
  BY <1>1, Dequeued
<1>3. /\ 1 \in DOMAIN tasks /\ tasks[1] = Bus!Report(l, m) /\ IsReport(1, l, m) /\ tasks[1].kind = "report"
      /\ \A k \in DOMAIN tasks' : k >= 1 /\ k + 1 \in DOMAIN tasks /\ tasks'[k] = tasks[k + 1]
  BY <1>1, TailFacts, ReportIsTask DEF IsReport, ReportType
<1>4. /\ reports' \in [Listeners -> [1 .. MaxMessages -> Nat]]
      /\ reports'[l][m] = reports[l][m] + 1
      /\ \A i \in Listeners, j \in 1 .. MaxMessages : ~(i = l /\ j = m) => reports'[i][j] = reports[i][j]
  <2> DEFINE row == [reports[l] EXCEPT ![m] = @ + 1]
  <2>1. reports \in [Listeners -> [1 .. MaxMessages -> Nat]] /\ reports' = [reports EXCEPT ![l] = row]
    BY <1>1 DEF BusTypes
  <2>2. reports[l] \in [1 .. MaxMessages -> Nat] /\ reports[l][m] \in Nat
    BY <2>1
  <2>3. /\ row \in [1 .. MaxMessages -> Nat] /\ row[m] = reports[l][m] + 1
        /\ \A j \in 1 .. MaxMessages : j # m => row[j] = reports[l][j]
    BY <2>2, OneMore
  <2> HIDE DEF row
  <2>4. reports'[l] = row /\ \A i \in Listeners : i # l => reports'[i] = reports[i]
    BY <2>1
  <2>5. reports' \in [Listeners -> [1 .. MaxMessages -> Nat]]
    BY <2>1, <2>3
  <2> QED BY <2>3, <2>4, <2>5
<1>5. BusTypes' /\ AttachedOnce' /\ WireOrdered'
  BY <1>1, <1>2, <1>4 DEF BusTypes, AttachedOnce, WireOrdered, For, Moved
<1>6. TasksOrdered' /\ StartedOrdered'
  BY <1>1, <1>2, OrderMoved, StartedMoved
<1>7. Reached'
  <2>1. \A k \in 1 .. 1 : k = 1
    OBVIOUS
  <2>2. ASSUME NEW i, NEW j, IsComing(i, j) PROVE IsComing(i, j)'
    <3>1. \A k \in 1 .. 1 : tasks[k] # Bus!Start(i, j)
      BY <2>1, <1>3 DEF Bus!Start
    <3>2. UNCHANGED arriving
      BY <1>1
    <3> QED BY <3>1, <3>2, <2>2, <1>2, ComingMoved
  <2> QED BY <2>2, <1>1 DEF Reached, For, WasStarted
<1>8. RunsStarted'
  BY <1>1 DEF RunsStarted, WasStarted
<1>9. ReportedOnce'
  <2> SUFFICES ASSUME NEW i \in Listeners, NEW j \in 1 .. MaxMessages PROVE ReportedIs(i, j)'
    BY DEF ReportedOnce
  <2>1. ReportedIs(i, j)
    BY DEF ReportedOnce
  <2>2. CASE i = l /\ j = m
    <3>1. Bus!Runs(l, m) \in failed /\ reports[l][m] = 0
      BY <2>1, <2>2, <1>3 DEF ReportedIs
    <3>2. ASSUME NEW k \in DOMAIN tasks' PROVE ~IsReport(k, l, m)'
      <4>1. k + 1 \in DOMAIN tasks /\ k + 1 # 1 /\ tasks'[k] = tasks[k + 1]
        BY <1>2, <1>3 DEF Moved
      <4>2. ~IsReport(k + 1, l, m)
        BY <4>1, <2>1, <2>2, <1>3 DEF ReportedIs
      <4> QED BY <4>1, <4>2 DEF IsReport
    <3> QED BY <3>1, <3>2, <2>2, <1>1, <1>4 DEF ReportedIs
  <2>3. CASE ~(i = l /\ j = m)
    <3>1. Bus!Report(i, j) # Bus!Report(l, m)
      BY <2>3 DEF Bus!Report
    <3>2. \A k \in 1 .. 1 : ~IsReport(k, i, j)
      BY <3>1, <1>3 DEF IsReport
    <3> QED BY <3>1, <3>2, <2>1, <2>3, <1>1, <1>2, <1>4, OtherReports
  <2> QED BY <2>2, <2>3
<1> QED BY <1>5, <1>6, <1>7, <1>8, <1>9

LEMMA ResolvesKeeps ==
  ASSUME BusInv, NEW r \in running, Bus!HandlerResolves(r)
  PROVE  BusInv'
<1> USE DEF BusInv
<1>1. /\ UNCHANGED <<sent, served, arriving, lost, attached, since, tasks, started, failed, reports>>
      /\ running' = running \ {r}
  BY DEF Bus!HandlerResolves, Bus!redis
<1>2. BusTypes' /\ AttachedOnce' /\ WireOrdered' /\ TasksOrdered' /\ StartedOrdered'
  BY <1>1 DEF BusTypes, AttachedOnce, WireOrdered, TasksOrdered, StartedOrdered, For, Starts
<1>3. Reached' /\ RunsStarted' /\ ReportedOnce'
  BY <1>1 DEF Reached, RunsStarted, ReportedOnce, ReportedIs, WasStarted, IsComing, IsReport, For
<1> QED BY <1>2, <1>3

LEMMA RejectsKeeps ==
  ASSUME BusInv, NEW r \in running, Bus!HandlerRejects(r)
  PROVE  BusInv'
<1> USE DEF BusInv
<1> DEFINE l == r.listener
           m == r.message
<1>1. /\ UNCHANGED <<sent, served, arriving, lost, attached, since, started, reports>>
      /\ running' = running \ {r} /\ failed' = failed \union {r}
      /\ tasks' = Append(tasks, Bus!Report(l, m)) /\ tasks \in Seq(Tasks)
  BY DEF Bus!HandlerRejects, Bus!redis, BusTypes
<1>2. l \in Listeners /\ m \in Nat /\ r = Bus!Runs(l, m) /\ r \in RunsOf
  BY DEF BusTypes, RunsOf, Bus!Runs
<1> HIDE DEF l, m
<1>3. /\ Moved(0, Bus!Report(l, m))
      /\ Len(tasks) + 1 \in DOMAIN tasks' /\ tasks'[Len(tasks) + 1] = Bus!Report(l, m)
  BY <1>1, <1>2, Enqueued
<1>4. BusTypes' /\ AttachedOnce' /\ WireOrdered'
  BY <1>1, <1>2, <1>3 DEF BusTypes, AttachedOnce, WireOrdered, For, Moved
<1>5. TasksOrdered' /\ StartedOrdered'
  BY <1>1, <1>3, OrderMoved, StartedMoved
<1>6. 1 .. 0 = {}
  OBVIOUS
<1>7. Reached'
  <2>1. \A i, j : IsComing(i, j) => IsComing(i, j)'
    BY <1>1, <1>3, <1>6, ComingMoved
  <2> QED BY <2>1, <1>1 DEF Reached, For, WasStarted
<1>8. RunsStarted'
  BY <1>1 DEF RunsStarted, WasStarted
<1>9. ReportedOnce'
  <2>1. Bus!Runs(l, m) \notin failed /\ failed' = failed \union {Bus!Runs(l, m)}
    BY <1>1, <1>2 DEF RunsStarted
  <2> QED BY <2>1, <1>1, <1>2, <1>3, <1>6, FailureQueued
<1> QED BY <1>4, <1>5, <1>7, <1>8, <1>9

(* A handler that starts was due: its message is behind those it was       *)
(* started for and before those that come.                                 *)
LEMMA HandlerStartsKeeps ==
  ASSUME Bus!DeliveryAssumption, BusInv, NEW l \in Listeners, NEW m \in 1 .. MaxMessages, Bus!HandlerStarts(l, m)
  PROVE  BusInv'
<1> USE DEF BusInv
<1>1. /\ UNCHANGED <<sent, served, arriving, lost, attached, since, reports>>
      /\ tasks # <<>> /\ Head(tasks) = Bus!Start(l, m) /\ tasks \in Seq(Tasks)
      /\ started' = [started EXCEPT ![l] = Append(@, m)] /\ m \in Nat
      /\ Bus!Runs(l, m) \in RunsOf
  BY DEF Bus!HandlerStarts, Bus!redis, BusTypes, Bus!DeliveryAssumption, Bus!Runs, RunsOf
<1>2. \/ /\ tasks' = Append(Tail(tasks), Bus!Report(l, m))
         /\ failed' = failed \union {Bus!Runs(l, m)} /\ running' = running
      \/ tasks' = Tail(tasks) /\ running' \subseteq running \union {Bus!Runs(l, m)} /\ failed' = failed
  BY DEF Bus!HandlerStarts
<1>3. Moved(1, Bus!Report(l, m))
  BY <1>1, <1>2, Dequeued, Requeued
<1>4. /\ 1 \in DOMAIN tasks /\ tasks[1] = Bus!Start(l, m)
      /\ Starts(1, l) /\ tasks[1].message = m /\ tasks[1].kind = "start" /\ tasks[1].listener = l
  BY <1>1, TailFacts DEF Starts, Bus!Start
<1>5. /\ started' \in [Listeners -> Seq(Nat)] /\ started[l] \in Seq(Nat)
      /\ started'[l] = Append(started[l], m) /\ \A i \in Listeners \ {l} : started'[i] = started[i]
  BY <1>1 DEF BusTypes
<1>6. /\ DOMAIN started'[l] = 1 .. (Len(started[l]) + 1) /\ Len(started[l]) \in Nat
      /\ \A j \in DOMAIN started[l] : j \in DOMAIN started'[l] /\ started'[l][j] = started[l][j]
      /\ \A j \in DOMAIN started'[l] : j = Len(started[l]) + 1 \/ j \in DOMAIN started[l]
      /\ DOMAIN started[l] = 1 .. Len(started[l])
      /\ Len(started[l]) + 1 \in DOMAIN started'[l] /\ started'[l][Len(started[l]) + 1] = m
  BY <1>1, <1>5, AppendFacts
<1>7. For(TopicOf[l], m) /\ \A i \in DOMAIN arriving : arriving[i].target = TopicOf[l] => m < arriving[i].message
  BY <1>4 DEF TasksOrdered
<1>8. \A j \in DOMAIN started[l] : started[l][j] < m
  BY <1>4 DEF StartedOrdered
<1>9. ASSUME NEW k \in DOMAIN tasks', Starts(k, l)' PROVE m < tasks'[k].message
  <2>1. k + 1 \in DOMAIN tasks /\ Starts(k + 1, l) /\ tasks'[k].message = tasks[k + 1].message
    BY <1>3, <1>9, StartsMoved
  <2>2. k \in Nat /\ 1 < k + 1
    BY <1>3 DEF Moved
  <2> QED BY <2>1, <2>2, <1>4 DEF TasksOrdered
<1>10. ~WasStarted(l, m) /\ \A i, j : WasStarted(i, j) /\ i \in Listeners => WasStarted(i, j)'
  <2>1. ~WasStarted(l, m)
    BY <1>7, <1>8 DEF WasStarted, For
  <2>2. ASSUME NEW i \in Listeners, NEW j, WasStarted(i, j) PROVE WasStarted(i, j)'
    BY <2>2, <1>5, <1>6 DEF WasStarted
  <2> QED BY <2>1, <2>2
<1>11. WasStarted(l, m)'
  BY <1>6 DEF WasStarted
<1>12. Bus!Runs(l, m) \notin running \union failed
  BY <1>10 DEF RunsStarted, Bus!Runs
<1>13. BusTypes' /\ AttachedOnce' /\ WireOrdered'
  BY <1>1, <1>2, <1>3, <1>5 DEF BusTypes, AttachedOnce, WireOrdered, For, Moved
<1>14. TasksOrdered'
  BY <1>1, <1>3, OrderMoved
<1>15. StartedOrdered'
  <2> SUFFICES ASSUME NEW i \in Listeners, NEW j \in DOMAIN started'[i]
               PROVE  /\ For(TopicOf[i], started'[i][j])
                      /\ \A h \in DOMAIN started'[i] : j < h => started'[i][j] < started'[i][h]
                      /\ \A k \in DOMAIN tasks' : Starts(k, i)' => started'[i][j] < tasks'[k].message
                      /\ \A h \in DOMAIN arriving : arriving[h].target = TopicOf[i] => started'[i][j] < arriving[h].message
    BY <1>1 DEF StartedOrdered, For
  <2>1. \A k \in DOMAIN tasks' : Starts(k, i)' =>
          k + 1 \in DOMAIN tasks /\ Starts(k + 1, i) /\ tasks'[k].message = tasks[k + 1].message
    BY <1>3, StartsMoved
  <2>2. CASE i # l
    BY <2>1, <2>2, <1>5 DEF StartedOrdered
  <2>3. CASE i = l /\ j \in DOMAIN started[l]
    <3>1. /\ started'[l][j] = started[l][j] /\ For(TopicOf[l], started[l][j]) /\ started[l][j] < m
          /\ \A h \in DOMAIN started[l] : j < h => started[l][j] < started[l][h]
          /\ \A k \in DOMAIN tasks : Starts(k, l) => started[l][j] < tasks[k].message
          /\ \A h \in DOMAIN arriving : arriving[h].target = TopicOf[l] => started[l][j] < arriving[h].message
      BY <2>3, <1>6, <1>8 DEF StartedOrdered
    <3>2. \A h \in DOMAIN started'[l] : j < h => started[l][j] < started'[l][h]
      BY <3>1, <1>6
    <3> QED BY <3>1, <3>2, <2>1, <2>3
  <2>4. CASE i = l /\ j = Len(started[l]) + 1
    <3>1. started'[l][j] = m /\ \A h \in DOMAIN started'[l] : ~(j < h)
      BY <2>4, <1>6
    <3> QED BY <3>1, <2>4, <1>7, <1>9
  <2> QED BY <2>2, <2>3, <2>4, <1>6
<1>16. \A k \in 1 .. 1 : k = 1
  OBVIOUS
<1>17. Reached'
  <2>1. ASSUME NEW i \in Listeners, NEW j, i # l \/ j # m, IsComing(i, j) PROVE IsComing(i, j)'
    <3>1. \A k \in 1 .. 1 : tasks[k] # Bus!Start(i, j)
      BY <2>1, <1>4, <1>16 DEF Bus!Start
    <3> QED BY <3>1, <2>1, <1>1, <1>3, ComingMoved
  <2>2. ASSUME NEW i \in Listeners, NEW j, WasStarted(i, j) \/ IsComing(i, j)
        PROVE  WasStarted(i, j)' \/ IsComing(i, j)'
    <3>1. CASE i = l /\ j = m
      BY <3>1, <1>6 DEF WasStarted
    <3>2. CASE i # l \/ j # m
      BY <3>2, <2>1, <2>2, <1>10
    <3> QED BY <3>1, <3>2
  <2>3. \A i \in DOMAIN attached : attached[i] \in Listeners
    BY DEF BusTypes
  <2> QED BY <2>2, <2>3, <1>1 DEF Reached, For, WasStarted
<1>18. RunsStarted'
  <2>1. \A r \in running \union failed : r.listener \in Listeners
    BY DEF BusTypes, RunsOf
  <2>2. \A r \in running \union failed : WasStarted(r.listener, r.message)'
    BY <2>1, <1>10 DEF RunsStarted
  <2>3. WasStarted(Bus!Runs(l, m).listener, Bus!Runs(l, m).message)'
    BY <1>11 DEF Bus!Runs
  <2>4. \A r \in running' \union failed' : WasStarted(r.listener, r.message)'
    BY <2>2, <2>3, <1>2
  <2>5. running' \cap failed' = {}
    BY <1>2, <1>12 DEF RunsStarted
  <2> QED BY <2>4, <2>5 DEF RunsStarted
<1>19. ReportedOnce'
  <2>1. \A k \in 1 .. 1 : tasks[k].kind = "start"
    BY <1>4, <1>16
  <2>2. CASE tasks' = Append(Tail(tasks), Bus!Report(l, m)) /\ failed' = failed \union {Bus!Runs(l, m)}
    <3>1. Len(tasks) \in DOMAIN tasks' /\ tasks'[Len(tasks)] = Bus!Report(l, m)
      BY <2>2, <1>1, Requeued
    <3> QED BY <3>1, <2>1, <2>2, <1>1, <1>3, <1>12, FailureQueued
  <2>3. CASE tasks' = Tail(tasks) /\ failed' = failed
    <3> SUFFICES ASSUME NEW i \in Listeners, NEW j \in 1 .. MaxMessages PROVE ReportedIs(i, j)'
      BY DEF ReportedOnce
    <3>1. ReportedIs(i, j)
      BY DEF ReportedOnce
    <3>2. \A k \in 1 .. 1 : ~IsReport(k, i, j)
      BY <2>1 DEF IsReport, Bus!Report
    <3>3. Moved(1, [kind |-> "report"])
      <4>1. /\ tasks' \in Seq(Tasks) /\ 1 <= Len(tasks)
            /\ \A k \in DOMAIN tasks' : k + 1 \in DOMAIN tasks /\ tasks'[k] = tasks[k + 1]
            /\ \A k \in DOMAIN tasks : k <= 1 \/ (k - 1 \in DOMAIN tasks' /\ tasks'[k - 1] = tasks[k])
        BY <2>3, <1>1, TailFacts
      <4> QED BY <4>1, <1>1 DEF Moved
    <3>4. Bus!Report(i, j) # [kind |-> "report"]
      BY DEF Bus!Report
    <3> QED BY <3>1, <3>2, <3>3, <3>4, <2>3, <1>1, OtherReports
  <2> QED BY <2>2, <2>3, <1>2
<1> QED BY <1>13, <1>14, <1>15, <1>17, <1>18, <1>19

LEMMA BusStep ==
  ASSUME Bus!DeliveryAssumption, BusInv, [Bus!Next]_Bus!vars
  PROVE  BusInv'
<1>1. CASE UNCHANGED Bus!vars
  <2> USE DEF BusInv
  <2>1. UNCHANGED <<sent, served, arriving, lost, attached, since, tasks, started, running, failed, reports>>
    BY <1>1 DEF Bus!vars, Bus!redis, Bus!handlers
  <2>2. BusTypes' /\ AttachedOnce' /\ WireOrdered' /\ TasksOrdered' /\ StartedOrdered'
    BY <2>1 DEF BusTypes, AttachedOnce, WireOrdered, TasksOrdered, StartedOrdered, For, Starts
  <2>3. Reached' /\ RunsStarted' /\ ReportedOnce'
    BY <2>1 DEF Reached, RunsStarted, ReportedOnce, ReportedIs, WasStarted, IsComing, IsReport, For
  <2> QED BY <2>2, <2>3
<1>2. MaxMessages \in Nat /\ 1 .. MaxMessages \subseteq Nat
  BY DEF Bus!DeliveryAssumption
<1>3. CASE \E ch \in Channels : Bus!Publish(ch)
  BY <1>3, PublishKeeps
<1>4. CASE Bus!Drop \/ Bus!Reconnect
  BY <1>4, DropKeeps, ReconnectKeeps
<1>5. CASE \E l \in Listeners : Bus!Attach(l) \/ Bus!Detach(l)
  BY <1>5, AttachKeeps, DetachKeeps
<1>6. CASE \E t \in Topics : Bus!Unserve(t)
  BY <1>6, UnserveKeeps
<1>7. CASE \E n \in 1 .. MaxMessages : Bus!Receive(n)
  BY <1>2, <1>7, ReceiveKeeps
<1>8. CASE \E l \in Listeners, m \in 1 .. MaxMessages : Bus!HandlerStarts(l, m) \/ Bus!Reported(l, m)
  BY <1>8, HandlerStartsKeeps, ReportedKeeps
<1>9. CASE \E r \in running : Bus!HandlerResolves(r) \/ Bus!HandlerRejects(r)
  BY <1>9, ResolvesKeeps, RejectsKeeps
<1> QED BY <1>1, <1>3, <1>4, <1>5, <1>6, <1>7, <1>8, <1>9 DEF Bus!Next

LEMMA BusHolds ==
  ASSUME Bus!DeliveryAssumption
  PROVE  Bus!Spec => []BusInv
<1>1. Bus!Init => BusInv
  BY BusInit
<1>2. BusInv /\ [Bus!Next]_Bus!vars => BusInv'
  BY BusStep
<1> QED BY <1>1, <1>2, PTL DEF Bus!Spec

LEMMA BusTyped ==
  ASSUME BusInv
  PROVE  Bus!TypeOK
<1> USE DEF BusInv
<1>1. /\ sent \in Seq(Channels) /\ Len(sent) <= MaxMessages /\ served \subseteq Topics
      /\ Bus!ToSet(attached) \subseteq Listeners /\ Bus!IsInjective(attached)
  BY DEF BusTypes, AttachedOnce, Bus!ToSet, Bus!IsInjective
<1>2. \A l \in Bus!ToSet(attached) : TopicOf[l] \in served /\ since[l] <= Len(sent)
  BY DEF AttachedOnce, Bus!ToSet
<1>3. \A i \in DOMAIN arriving : arriving[i].target \in Matches[sent[arriving[i].message]]
  BY DEF WireOrdered, For
<1>4. \A r \in running \union failed : r.message \in Bus!ToSet(started[r.listener])
  BY DEF RunsStarted, WasStarted, Bus!ToSet
<1> QED BY <1>1, <1>2, <1>3, <1>4 DEF Bus!TypeOK, RunsStarted

LEMMA BusOrdered ==
  ASSUME BusInv
  PROVE  Bus!StartedInOrder
<1> USE DEF BusInv
<1> SUFFICES ASSUME NEW l \in Listeners
             PROVE  /\ \A i, j \in DOMAIN started[l] : i < j => started[l][i] < started[l][j]
                    /\ \A m \in Bus!ToSet(started[l]) : TopicOf[l] \in Matches[sent[m]]
                    /\ l \in Bus!ToSet(attached) =>
                         \A m \in (since[l] + 1) .. Len(sent) :
                           TopicOf[l] \in Matches[sent[m]] /\ Bus!Delivery(TopicOf[l], m) \notin lost =>
                             m \in Bus!ToSet(started[l]) \union Bus!Coming(l)
  BY BusTyped DEF Bus!StartedInOrder
<1>1. \A i, j \in DOMAIN started[l] : i < j => started[l][i] < started[l][j]
  BY DEF StartedOrdered
<1>2. \A m \in Bus!ToSet(started[l]) : TopicOf[l] \in Matches[sent[m]]
  BY DEF StartedOrdered, For, Bus!ToSet
<1>3. ASSUME l \in Bus!ToSet(attached), NEW m \in (since[l] + 1) .. Len(sent),
             TopicOf[l] \in Matches[sent[m]], Bus!Delivery(TopicOf[l], m) \notin lost
      PROVE  m \in Bus!ToSet(started[l]) \union Bus!Coming(l)
  <2>1. PICK i \in DOMAIN attached : attached[i] = l
    BY <1>3 DEF Bus!ToSet
  <2>2. since[l] \in Nat /\ Len(sent) \in Nat
    BY DEF BusTypes
  <2>3. m \in 1 .. Len(sent) /\ For(TopicOf[l], m)
    BY <2>2, <1>3 DEF For
  <2>4. WasStarted(l, m) \/ IsComing(l, m)
    BY <2>1, <2>3, <1>3 DEF Reached
  <2> QED BY <2>3, <2>4 DEF WasStarted, IsComing, Bus!ToSet, Bus!Coming
<1> QED BY <1>1, <1>2, <1>3

LEMMA BusReports ==
  ASSUME Bus!DeliveryAssumption, BusInv
  PROVE  Bus!FailuresReported
<1> USE DEF BusInv
<1> SUFFICES ASSUME NEW l \in Listeners, NEW m \in 1 .. Len(sent)
             PROVE  reports[l][m] + Bus!Cardinality({i \in DOMAIN tasks : tasks[i] = Bus!Report(l, m)})
                      = IF Bus!Runs(l, m) \in failed THEN 1 ELSE 0
  BY DEF Bus!FailuresReported
<1> DEFINE T == {i \in DOMAIN tasks : tasks[i] = Bus!Report(l, m)}
<1>1. m \in 1 .. MaxMessages
  BY DEF BusTypes, Bus!DeliveryAssumption
<1>2. ReportedIs(l, m)
  BY <1>1 DEF ReportedOnce
<1>3. CASE \E k \in DOMAIN tasks : IsReport(k, l, m)
  <2>1. PICK k \in DOMAIN tasks : T = {k}
    BY <1>2, <1>3 DEF ReportedIs, IsReport
  <2>2. Bus!Cardinality(T) = 1
    BY <2>1, SameCardinality, FS_Singleton
  <2> QED BY <2>2, <1>2, <1>3 DEF ReportedIs
<1>4. CASE ~(\E k \in DOMAIN tasks : IsReport(k, l, m))
  <2>1. T = {}
    BY <1>4 DEF IsReport
  <2>2. Bus!Cardinality(T) = 0
    BY <2>1, SameCardinality, FS_EmptySet
  <2> QED BY <2>2, <1>2, <1>4 DEF ReportedIs
<1> QED BY <1>3, <1>4

(* For any number of listeners, messages and lost connections: a handler   *)
(* is started only for messages its target matches, each once and in the   *)
(* order of the publishes, and while it stays attached every message that  *)
(* no lost connection took was started or is on its way to it              *)
(* (pubsub.service.ts:130-144, 171-185).                                   *)
THEOREM Delivered == BusSpec => []StartedInOrder
BY ListenersAssumption, BusHolds, BusOrdered, PTL DEF BusSpec, StartedInOrder

(* For any number of them too: a handler that threw or rejected is         *)
(* reported to onHandlerError exactly once, or its report is queued        *)
(* (pubsub.service.ts:138-144, 178-184, 321-332).                          *)
THEOREM Reported == BusSpec => []FailuresReported
BY ListenersAssumption, BusHolds, BusReports, PTL DEF BusSpec, FailuresReported

===============================================================================
