----------------------- MODULE ConnectionManagerProofs -----------------------
(* Safety of ConnectionManager for every set of clients, calls and runs of *)
(* the shutdown hook, and for every option.                                *)
EXTENDS ConnectionManager, TLAPS

(* A client somebody refers to was opened.                                 *)
OpenInv == \A k \in Clients : status[k] = "unopened" =>
  /\ client # k
  /\ \A u \in Callers : got[u] # k
  /\ \A h \in Hooks : closing[h] # k

(* Without a current client none is open, and before shutdown none was.    *)
ClearedInv == client = NoClient =>
  /\ \A k \in Clients : status[k] \in {"unopened", "end"}
  /\ shutDown \/ \A k \in Clients : status[k] = "unopened"

(* What a run of the hook has achieved at each point.                      *)
HookInv == \A h \in Hooks :
  /\ hook[h] # "idle" => shutDown
  /\ hook[h] = "done" => client = NoClient
  /\ hook[h] = "quitted" => closing[h] # NoClient /\ status[closing[h]] = "end"

(* A pending call has its command on the client it was handed; a client    *)
(* that ended or was never opened has none.                                *)
QueueInv ==
  /\ \A k \in Clients : status[k] \in {"unopened", "end"} => queue[k] = <<>>
  /\ \A u \in Callers : use[u] = "pending" => Queued(got[u], u)

IInv == TypeOK /\ OneClient /\ OpenInv /\ ClearedInv /\ HookInv /\ QueueInv

-----------------------------------------------------------------------------

(* The types of everything but the queues, whose sequences are dealt with  *)
(* on their own.                                                           *)
LEMMA FunctionTypes ==
  TypeOK =>
    /\ client \in Clients \union {NoClient}
    /\ shutDown \in BOOLEAN
    /\ init \in {"idle", "waiting", "ready", "failed"}
    /\ awaited \in Clients \union {NoClient}
    /\ use \in [Callers -> {"idle", "refused", "holding", "pending", "answered", "rejected"}]
    /\ got \in [Callers -> Clients \union {NoClient}]
    /\ hook \in [Hooks -> {"idle", "racing", "quitted", "forcing", "done"}]
    /\ closing \in [Hooks -> Clients \union {NoClient}]
    /\ status \in [Clients -> {"unopened", "wait", "connecting", "ready", "end"}]
    /\ init = "waiting" => awaited # NoClient
    /\ \A u \in Callers : got[u] = NoClient <=> use[u] \in {"idle", "refused"}
    /\ \A h \in Hooks : closing[h] = NoClient => hook[h] \in {"idle", "done"}
    /\ DOMAIN queue = Clients
BY DEF TypeOK

(* What a command queue keeps when its head is answered.                   *)
LEMMA TailFacts ==
  ASSUME NEW S, NEW s \in Seq(S), s # <<>>
  PROVE  /\ Tail(s) \in Seq(S)
         /\ Head(s) = s[1] /\ Head(s) \in S
         /\ \A i \in DOMAIN s : i # 1 => i - 1 \in DOMAIN Tail(s) /\ Tail(s)[i - 1] = s[i]
OBVIOUS

(* What it holds when a command is sent.                                   *)
LEMMA AppendFacts ==
  ASSUME NEW S, NEW s \in Seq(S), NEW e \in S
  PROVE  /\ Append(s, e) \in Seq(S)
         /\ \A i \in DOMAIN s : i \in DOMAIN Append(s, e) /\ Append(s, e)[i] = s[i]
         /\ Len(s) + 1 \in DOMAIN Append(s, e)
         /\ Append(s, e)[Len(s) + 1] = e
OBVIOUS

(* The queues keep their type.                                             *)
LEMMA QueueType ==
  ASSUME TypeOK, [Next]_vars
  PROVE  queue' \in [Clients -> Seq(Callers \union Hooks)]
<1> USE DEF calls, hooks, wire, manager, boot
<1>a. queue \in [Clients -> Seq(Callers \union Hooks)]
  BY DEF TypeOK
<1>b. \A k \in Clients, x \in Callers \union Hooks :
        [queue EXCEPT ![k] = Append(queue[k], x)] \in [Clients -> Seq(Callers \union Hooks)]
  BY <1>a, AppendFacts
<1>c. \A k \in Clients :
        [queue EXCEPT ![k] = <<>>] \in [Clients -> Seq(Callers \union Hooks)]
  <2>1. <<>> \in Seq(Callers \union Hooks)
    OBVIOUS
  <2>2. QED
    BY <1>a, <2>1
<1>d. \A k \in Clients : queue[k] # <<>> =>
        [queue EXCEPT ![k] = Tail(queue[k])] \in [Clients -> Seq(Callers \union Hooks)]
  <2>1. \A k \in Clients : queue[k] # <<>> => Tail(queue[k]) \in Seq(Callers \union Hooks)
    BY <1>a
  <2>2. QED
    BY <1>a, <2>1
<1>1. CASE InitStart \/ InitRefused
  BY <1>1, <1>a DEF InitStart, InitRefused
<1>2. ASSUME NEW u \in Callers, CallerStep(u)
      PROVE  queue' \in [Clients -> Seq(Callers \union Hooks)]
  <2>1. CASE Send(u)
    <3>1. got[u] \in Clients
      BY <2>1, FunctionTypes DEF Send
    <3>2. queue' = queue \/ queue' = [queue EXCEPT ![got[u]] = Append(queue[got[u]], u)]
      BY <2>1 DEF Send
    <3>3. u \in Callers \union Hooks
      OBVIOUS
    <3>4. [queue EXCEPT ![got[u]] = Append(queue[got[u]], u)]
            \in [Clients -> Seq(Callers \union Hooks)]
      BY <1>b, <3>1, <3>3
    <3>5. QED
      BY <1>a, <3>2, <3>4
  <2>2. QED
    BY <1>2, <2>1, <1>a DEF CallerStep, GetClient, GetClientRefused, CommandTimeout
<1>3. ASSUME NEW k \in Clients, ClientStep(k)
      PROVE  queue' \in [Clients -> Seq(Callers \union Hooks)]
  <2>1. \/ queue' = queue
        \/ queue' = [queue EXCEPT ![k] = <<>>]
        \/ queue[k] # <<>> /\ queue' = [queue EXCEPT ![k] = Tail(queue[k])]
    BY <1>3
    DEF ClientStep, Ready, ConnectError, Answer, AnswerQuit, Drop, Flush, GiveUp, End,
        RejectQueued
  <2>2. QED
    BY <2>1, <1>a, <1>c, <1>d
<1>4. ASSUME NEW h \in Hooks, HookStep(h)
      PROVE  queue' \in [Clients -> Seq(Callers \union Hooks)]
  <2>1. \/ queue' = queue
        \/ client \in Clients /\ queue' = [queue EXCEPT ![client] = Append(queue[client], h)]
        \/ client \in Clients /\ queue' = [queue EXCEPT ![client] = <<>>]
        \/ closing[h] \in Clients /\ queue' = [queue EXCEPT ![closing[h]] = <<>>]
    <3>1. CASE HookForces(h)
      BY <3>1, FunctionTypes DEF HookForces, End, RejectQueued
    <3>2. CASE HookQuits(h) \/ HookQuitsOffline(h)
      BY <3>2, FunctionTypes DEF HookQuits, HookQuitsOffline, End, RejectQueued
    <3>3. QED
      BY <1>4, <3>1, <3>2
      DEF HookStep, HookUnused, HookQuitRejected, HookTimeout, HookFinishes
  <2>2. CASE client \in Clients /\ queue' = [queue EXCEPT ![client] = Append(queue[client], h)]
    <3>1. h \in Callers \union Hooks
      OBVIOUS
    <3>2. QED
      BY <2>2, <3>1, <1>b
  <2>3. QED
    BY <2>1, <2>2, <1>a, <1>c
<1>5. CASE UNCHANGED vars
  BY <1>5, <1>a DEF vars
<1>6. QED
  BY <1>1, <1>2, <1>3, <1>4, <1>5 DEF Next

(* Every step preserves the types.                                         *)
LEMMA TypeStep == TypeOK /\ [Next]_vars => TypeOK'
<1> SUFFICES ASSUME TypeOK, [Next]_vars PROVE TypeOK'
  OBVIOUS
<1> USE ManagerAssumption DEF calls, hooks, wire, manager, boot
<1>q. queue' \in [Clients -> Seq(Callers \union Hooks)]
  BY QueueType
<1> DEFINE RestOK ==
  /\ client \in Clients \union {NoClient}
  /\ shutDown \in BOOLEAN
  /\ init \in {"idle", "waiting", "ready", "failed"}
  /\ awaited \in Clients \union {NoClient}
  /\ use \in [Callers -> {"idle", "refused", "holding", "pending", "answered", "rejected"}]
  /\ got \in [Callers -> Clients \union {NoClient}]
  /\ hook \in [Hooks -> {"idle", "racing", "quitted", "forcing", "done"}]
  /\ closing \in [Hooks -> Clients \union {NoClient}]
  /\ status \in [Clients -> {"unopened", "wait", "connecting", "ready", "end"}]
  /\ init = "waiting" => awaited # NoClient
  /\ \A u \in Callers : got[u] = NoClient <=> use[u] \in {"idle", "refused"}
  /\ \A h \in Hooks : closing[h] = NoClient => hook[h] \in {"idle", "done"}
<1>a. RestOK
  BY FunctionTypes
<1>b. \A k \in Clients : \A u \in Callers :
        Queued(k, u) \in BOOLEAN
  BY DEF Queued
<1>1. ASSUME InitStart PROVE RestOK'
  BY <1>1, <1>a DEF InitStart, EnsureClient
<1>2. ASSUME InitRefused PROVE RestOK'
  BY <1>2, <1>a DEF InitRefused
<1>3. ASSUME NEW u \in Callers, CallerStep(u) PROVE RestOK'
  <2>1. CASE GetClient(u)
    BY <2>1, <1>a DEF GetClient, EnsureClient
  <2>2. CASE Send(u)
    BY <2>2, <1>a DEF Send, Woken
  <2>3. CASE GetClientRefused(u) \/ CommandTimeout(u)
    BY <2>3, <1>a DEF GetClientRefused, CommandTimeout
  <2>4. QED
    BY <1>3, <2>1, <2>2, <2>3 DEF CallerStep
<1>4. ASSUME NEW k \in Clients, ClientStep(k) PROVE RestOK'
  <2>1. CASE Ready(k) \/ ConnectError(k)
    BY <2>1, <1>a DEF Ready, ConnectError
  <2>2. CASE Answer(k)
    BY <2>2, <1>a DEF Answer
  <2>3. CASE AnswerQuit(k)
    BY <2>3, <1>a DEF AnswerQuit, End, RejectQueued, RejectQuits
  <2>4. CASE Drop(k)
    BY <2>4, <1>a DEF Drop, End, RejectQueued, RejectQuits
  <2>5. CASE Flush(k)
    BY <2>5, <1>a DEF Flush, RejectQueued, RejectQuits
  <2>6. CASE GiveUp(k)
    BY <2>6, <1>a DEF GiveUp, End, RejectQueued, RejectQuits
  <2>7. QED
    BY <1>4, <2>1, <2>2, <2>3, <2>4, <2>5, <2>6, Zenon DEF ClientStep
<1>5. ASSUME NEW h \in Hooks, HookStep(h) PROVE RestOK'
  <2>1. CASE HookUnused(h)
    BY <2>1, <1>a DEF HookUnused
  <2>2. CASE HookQuits(h) \/ HookQuitRejected(h)
    <3>1. /\ closing' = [closing EXCEPT ![h] = client]
          /\ hook' = [hook EXCEPT ![h] = "racing"] \/ hook' = [hook EXCEPT ![h] = "forcing"]
          /\ client # NoClient /\ UNCHANGED <<client, boot, calls>> /\ shutDown' = TRUE
          /\ status' = Woken(client)
      BY <2>2, Zenon DEF HookQuits, HookQuitRejected
    <3>2. status' \in [Clients -> {"unopened", "wait", "connecting", "ready", "end"}]
      BY <3>1, <1>a DEF Woken
    <3>3. QED
      BY <3>1, <3>2, <1>a
  <2>3. CASE HookQuitsOffline(h)
    BY <2>3, <1>a DEF HookQuitsOffline, End, RejectQueued, RejectQuits
  <2>4. CASE HookTimeout(h) \/ HookFinishes(h)
    BY <2>4, <1>a DEF HookTimeout, HookFinishes
  <2>5. CASE HookForces(h)
    BY <2>5, <1>a DEF HookForces, End, RejectQueued, RejectQuits
  <2>6. QED
    BY <1>5, <2>1, <2>2, <2>3, <2>4, <2>5 DEF HookStep
<1>6. ASSUME UNCHANGED vars PROVE RestOK'
  BY <1>6, <1>a DEF vars
<1>7. RestOK'
  BY <1>1, <1>2, <1>3, <1>4, <1>5, <1>6 DEF Next
<1>8. QED
  BY <1>q, <1>7 DEF TypeOK

-----------------------------------------------------------------------------

(* How a step changes the states of the clients, and the current client.   *)
ClientChange ==
  /\ \A k \in Clients : status[k] # "unopened" => status'[k] # "unopened"
  /\ \A k \in Clients : status[k] = "end" => status'[k] = "end"
  /\ \A k \in Clients : status[k] = "unopened" /\ status'[k] # "unopened" =>
       client = NoClient /\ ~shutDown /\ client' = k
  /\ shutDown => shutDown'
  /\ \/ client' = client
     \/ client' = NoClient /\ shutDown'
     \/ client' \in Clients /\ client = NoClient /\ ~shutDown

LEMMA ClientEffect == IInv /\ [Next]_vars => ClientChange
<1> SUFFICES ASSUME IInv, [Next]_vars PROVE ClientChange
  OBVIOUS
<1> USE ManagerAssumption DEF ClientChange, calls, hooks, wire, manager, boot
<1>a. TypeOK /\ OpenInv /\ HookInv
  BY DEF IInv
<1>b. \A u \in Callers : got[u] \in Clients => status[got[u]] # "unopened"
  BY <1>a DEF OpenInv
<1>c. client \in Clients => status[client] # "unopened"
  BY <1>a DEF OpenInv
<1>d. \A h \in Hooks : closing[h] \in Clients => status[closing[h]] # "unopened"
  BY <1>a DEF OpenInv
<1>1. CASE InitStart
  BY <1>1, <1>a, FunctionTypes DEF InitStart, EnsureClient
<1>2. CASE InitRefused
  BY <1>2 DEF InitRefused
<1>3. ASSUME NEW u \in Callers, CallerStep(u) PROVE ClientChange
  <2>1. CASE GetClient(u)
    BY <2>1, <1>a, FunctionTypes DEF GetClient, EnsureClient
  <2>2. CASE Send(u)
    BY <2>2, <1>a, <1>b, FunctionTypes DEF Send, Woken
  <2>3. CASE GetClientRefused(u) \/ CommandTimeout(u)
    BY <2>3 DEF GetClientRefused, CommandTimeout
  <2>4. QED
    BY <1>3, <2>1, <2>2, <2>3 DEF CallerStep
<1>4. ASSUME NEW k \in Clients, ClientStep(k) PROVE ClientChange
  <2>1. \/ status' = status
        \/ status[k] \in {"ready", "connecting"}
             /\ \E t \in {"ready", "connecting", "end"} : status' = [status EXCEPT ![k] = t]
    BY <1>4, FunctionTypes
    DEF ClientStep, Ready, ConnectError, Answer, AnswerQuit, Drop, Flush, GiveUp, End, Writable
  <2>2. client' = client /\ shutDown' = shutDown
    BY <1>4
    DEF ClientStep, Ready, ConnectError, Answer, AnswerQuit, Drop, Flush, GiveUp
  <2>3. QED
    BY <2>1, <2>2, <1>a, FunctionTypes
<1>5. ASSUME NEW h \in Hooks, HookStep(h) PROVE ClientChange
  <2>1. CASE HookUnused(h) \/ HookTimeout(h)
    BY <2>1, <1>a DEF HookUnused, HookTimeout
  <2>2. CASE HookQuits(h) \/ HookQuitRejected(h)
    BY <2>2, <1>a, <1>c, FunctionTypes DEF HookQuits, HookQuitRejected, Woken
  <2>3. CASE HookQuitsOffline(h)
    BY <2>3, <1>a, <1>c, FunctionTypes DEF HookQuitsOffline, End
  <2>4. CASE HookForces(h)
    BY <2>4, <1>a, <1>d, FunctionTypes DEF HookForces, End, HookInv
  <2>5. CASE HookFinishes(h)
    BY <2>5, <1>a DEF HookFinishes, HookInv
  <2>6. QED
    BY <1>5, <2>1, <2>2, <2>3, <2>4, <2>5 DEF HookStep
<1>6. CASE UNCHANGED vars
  BY <1>6 DEF vars
<1>7. QED
  BY <1>1, <1>2, <1>3, <1>4, <1>5, <1>6 DEF Next

(* At most one client is ever opened, and it is opened while the manager   *)
(* has none and is not shutting down.                                      *)
LEMMA OneClientStep == IInv /\ [Next]_vars => OneClient'
<1> SUFFICES ASSUME IInv, [Next]_vars,
                    NEW k \in Clients, NEW l \in Clients,
                    status'[k] # "unopened", status'[l] # "unopened"
             PROVE  k = l
  BY DEF OneClient
<1>1. ClientChange
  BY ClientEffect
<1>2. \A m \in Clients : status[m] = "unopened" /\ status'[m] # "unopened" =>
        \A n \in Clients : status[n] = "unopened"
  BY <1>1 DEF ClientChange, IInv, ClearedInv
<1>3. CASE status[k] # "unopened" /\ status[l] # "unopened"
  BY <1>3 DEF IInv, OneClient
<1>4. CASE status[k] = "unopened" \/ status[l] = "unopened"
  BY <1>1, <1>2, <1>4 DEF ClientChange
<1>5. QED
  BY <1>3, <1>4

LEMMA OpenStep == IInv /\ [Next]_vars => OpenInv'
<1> SUFFICES ASSUME IInv, [Next]_vars, NEW k \in Clients, status'[k] = "unopened"
             PROVE  /\ client' # k
                    /\ \A u \in Callers : got'[u] # k
                    /\ \A h \in Hooks : closing'[h] # k
  BY DEF OpenInv
<1> USE ManagerAssumption DEF calls, hooks, wire, manager, boot
<1>a. TypeOK /\ OpenInv
  BY DEF IInv
<1>b. ClientChange
  BY ClientEffect
<1>c. /\ status[k] = "unopened"
      /\ client # k
      /\ \A u \in Callers : got[u] # k
      /\ \A h \in Hooks : closing[h] # k
  BY <1>a, <1>b DEF ClientChange, OpenInv
<1>1. CASE InitStart
  BY <1>1, <1>a, <1>c, FunctionTypes DEF InitStart, EnsureClient
<1>2. CASE InitRefused
  BY <1>2, <1>c DEF InitRefused
<1>3. ASSUME NEW u \in Callers, CallerStep(u)
      PROVE  /\ client' # k
             /\ \A v \in Callers : got'[v] # k
             /\ closing' = closing
  <2>1. CASE GetClient(u)
    BY <2>1, <1>a, <1>c, FunctionTypes DEF GetClient, EnsureClient
  <2>2. QED
    BY <1>3, <2>1, <1>c DEF CallerStep, Send, GetClientRefused, CommandTimeout
<1>4. ASSUME NEW l \in Clients, ClientStep(l)
      PROVE  client' = client /\ got' = got /\ closing' = closing
  BY <1>4 DEF ClientStep, Ready, ConnectError, Answer, AnswerQuit, Drop, Flush, GiveUp
<1>5. ASSUME NEW h \in Hooks, HookStep(h)
      PROVE  /\ client' # k
             /\ got' = got
             /\ \A g \in Hooks : closing'[g] # k
  BY <1>5, <1>c, FunctionTypes, <1>a
  DEF HookStep, HookUnused, HookQuits, HookQuitsOffline, HookQuitRejected, HookTimeout,
      HookForces, HookFinishes
<1>6. CASE UNCHANGED vars
  BY <1>6, <1>c DEF vars
<1>7. QED
  BY <1>1, <1>2, <1>3, <1>4, <1>5, <1>6, <1>c DEF Next

(* Clearing the reference follows the end of the client, and opening one   *)
(* makes it the current one.                                               *)
LEMMA ClearedStep == IInv /\ [Next]_vars => ClearedInv'
<1> SUFFICES ASSUME IInv, [Next]_vars, client' = NoClient
             PROVE  /\ \A k \in Clients : status'[k] \in {"unopened", "end"}
                    /\ shutDown' \/ \A k \in Clients : status'[k] = "unopened"
  BY DEF ClearedInv
<1> USE ManagerAssumption DEF calls, hooks, wire, manager, boot
<1>a. TypeOK /\ OneClient /\ OpenInv /\ ClearedInv /\ HookInv
  BY DEF IInv
<1>b. ClientChange
  BY ClientEffect
<1>c. TypeOK'
  BY <1>a, TypeStep
<1>1. CASE client = NoClient
  <2>1. \A k \in Clients : status'[k] = status[k]
    <3> SUFFICES ASSUME NEW k \in Clients PROVE status'[k] = status[k]
      OBVIOUS
    <3>1. CASE status[k] = "end"
      BY <3>1, <1>b DEF ClientChange
    <3>2. CASE status[k] = "unopened"
      BY <3>2, <1>b DEF ClientChange
    <3>3. QED
      BY <3>1, <3>2, <1>1, <1>a DEF ClearedInv
  <2>2. QED
    BY <2>1, <1>1, <1>a, <1>b DEF ClearedInv, ClientChange
<1>2. CASE client # NoClient
  <2>1. PICK h \in Hooks : HookForces(h) \/ HookFinishes(h)
    <3>1. ~InitStart /\ ~InitRefused
      BY <1>2, <1>a DEF InitStart, InitRefused, EnsureClient
    <3>2. ASSUME NEW u \in Callers PROVE ~CallerStep(u)
      BY <1>2, <1>a
      DEF CallerStep, GetClient, EnsureClient, Send, GetClientRefused, CommandTimeout
    <3>3. ASSUME NEW k \in Clients PROVE ~ClientStep(k)
      BY <1>2
      DEF ClientStep, Ready, ConnectError, Answer, AnswerQuit, Drop, Flush, GiveUp
    <3>4. ASSUME NEW h \in Hooks, HookStep(h) PROVE HookForces(h) \/ HookFinishes(h)
      BY <1>2, <3>4
      DEF HookStep, HookUnused, HookQuits, HookQuitsOffline, HookQuitRejected, HookTimeout
    <3>5. ~UNCHANGED vars
      BY <1>2 DEF vars
    <3>6. QED
      BY <3>1, <3>2, <3>3, <3>4, <3>5 DEF Next
  <2>2. closing[h] \in Clients /\ shutDown
    BY <2>1, <1>a, FunctionTypes DEF HookForces, HookFinishes, HookInv
  <2>3. status'[closing[h]] = "end"
    <3>1. CASE HookForces(h)
      BY <3>1, <2>2, <1>a, FunctionTypes DEF HookForces, End
    <3>2. CASE HookFinishes(h)
      BY <3>2, <2>2, <1>a, <1>b DEF HookFinishes, HookInv, ClientChange
    <3>3. QED
      BY <2>1, <3>1, <3>2
  <2>4. status[closing[h]] # "unopened"
    BY <2>2, <1>a DEF OpenInv
  <2>5. \A k \in Clients : k # closing[h] => status[k] = "unopened"
    BY <2>2, <2>4, <1>a DEF OneClient
  <2>6. \A k \in Clients : k # closing[h] => status'[k] = "unopened"
    BY <2>5, <1>2, <1>b DEF ClientChange
  <2>7. QED
    BY <2>2, <2>3, <2>6, <1>b DEF ClientChange
<1>3. QED
  BY <1>1, <1>2

(* A run of the hook is quitted only once its client has ended, and done   *)
(* only once the reference is cleared.                                     *)
LEMMA HookInvStep == IInv /\ [Next]_vars => HookInv'
<1> SUFFICES ASSUME IInv, [Next]_vars, NEW g \in Hooks
             PROVE  /\ hook'[g] # "idle" => shutDown'
                    /\ hook'[g] = "done" => client' = NoClient
                    /\ hook'[g] = "quitted" =>
                         closing'[g] # NoClient /\ status'[closing'[g]] = "end"
  BY DEF HookInv
<1> USE ManagerAssumption DEF calls, hooks, wire, manager, boot
<1>a. TypeOK /\ OneClient /\ OpenInv /\ HookInv
  BY DEF IInv
<1>b. ClientChange
  BY ClientEffect
<1>c. /\ hook[g] # "idle" => shutDown'
      /\ hook[g] = "done" => client' = NoClient
      /\ hook[g] = "quitted" => closing[g] # NoClient /\ status'[closing[g]] = "end"
  BY <1>a, <1>b, FunctionTypes DEF HookInv, ClientChange
<1>1. CASE InitStart \/ InitRefused
  BY <1>1, <1>c DEF InitStart, InitRefused
<1>2. ASSUME NEW u \in Callers, CallerStep(u) PROVE hook' = hook /\ closing' = closing
  BY <1>2 DEF CallerStep, GetClient, Send, GetClientRefused, CommandTimeout
<1>3. ASSUME NEW k \in Clients, ClientStep(k)
      PROVE  /\ closing' = closing
             /\ \/ hook'[g] = hook[g]
                \/ hook[g] = "racing" /\ hook'[g] = "forcing"
                \/ hook[g] = "racing" /\ hook'[g] = "quitted" /\ status'[closing[g]] = "end"
  <2>1. CASE Ready(k) \/ ConnectError(k) \/ Answer(k)
    BY <2>1 DEF Ready, ConnectError, Answer
  <2>2. CASE AnswerQuit(k)
    <3>1. status[k] # "unopened" /\ status'[k] = "end" /\ Head(queue[k]) \in Hooks
      BY <2>2, <1>a, FunctionTypes DEF AnswerQuit, Writable, End
    <3>2. hook[g] = "racing" => closing[g] = k
      <4>1. hook[g] = "racing" => closing[g] \in Clients
        BY <1>a, FunctionTypes
      <4>2. QED
        BY <4>1, <3>1, <1>a DEF OpenInv, OneClient
    <3>3. QED
      BY <2>2, <3>1, <3>2, <1>a, FunctionTypes DEF AnswerQuit, RejectQuits
  <2>3. CASE Drop(k) \/ Flush(k) \/ GiveUp(k)
    BY <2>3, <1>a, FunctionTypes DEF Drop, Flush, GiveUp, RejectQuits
  <2>4. QED
    BY <1>3, <2>1, <2>2, <2>3 DEF ClientStep
<1>4. ASSUME NEW h \in Hooks, HookStep(h)
      PROVE  /\ hook'[g] # "idle" => shutDown'
             /\ hook'[g] = "done" => client' = NoClient
             /\ hook'[g] = "quitted" =>
                  closing'[g] # NoClient /\ status'[closing'[g]] = "end"
  <2>1. CASE HookUnused(h)
    BY <2>1, <1>a, <1>c, FunctionTypes DEF HookUnused
  <2>2. CASE HookQuits(h) \/ HookQuitRejected(h)
    BY <2>2, <1>a, <1>c, FunctionTypes DEF HookQuits, HookQuitRejected
  <2>3. CASE HookQuitsOffline(h)
    <3>1. client \in Clients /\ status'[client] = "end" /\ shutDown' /\ client' = client
      BY <2>3, <1>a, FunctionTypes DEF HookQuitsOffline, End
    <3>2. CASE g = h
      BY <2>3, <3>1, <3>2, <1>a, FunctionTypes DEF HookQuitsOffline, RejectQuits
    <3>3. CASE g # h
      BY <2>3, <3>1, <3>3, <1>a, <1>c, FunctionTypes DEF HookQuitsOffline, RejectQuits
    <3>4. QED
      BY <3>2, <3>3
  <2>4. CASE HookTimeout(h)
    BY <2>4, <1>a, <1>c, FunctionTypes DEF HookTimeout
  <2>5. CASE HookForces(h)
    <3>1. hook[h] # "idle" /\ shutDown'
      BY <2>5, <1>a DEF HookForces, HookInv
    <3>2. QED
      BY <2>5, <3>1, <1>a, <1>c, FunctionTypes DEF HookForces, RejectQuits
  <2>6. CASE HookFinishes(h)
    <3>1. hook[h] # "idle" /\ shutDown'
      BY <2>6, <1>a DEF HookFinishes, HookInv
    <3>2. QED
      BY <2>6, <3>1, <1>a, <1>c, FunctionTypes DEF HookFinishes
  <2>7. QED
    BY <1>4, <2>1, <2>2, <2>3, <2>4, <2>5, <2>6 DEF HookStep
<1>5. CASE UNCHANGED vars
  BY <1>5, <1>c DEF vars
<1>6. ASSUME NEW k \in Clients, ClientStep(k)
      PROVE  /\ hook'[g] # "idle" => shutDown'
             /\ hook'[g] = "done" => client' = NoClient
             /\ hook'[g] = "quitted" =>
                  closing'[g] # NoClient /\ status'[closing'[g]] = "end"
  <2>1. hook[g] = "racing" => closing[g] # NoClient
    BY <1>a, FunctionTypes
  <2>2. QED
    BY <1>3, <1>6, <2>1, <1>c
<1>7. ASSUME NEW u \in Callers, CallerStep(u)
      PROVE  /\ hook'[g] # "idle" => shutDown'
             /\ hook'[g] = "done" => client' = NoClient
             /\ hook'[g] = "quitted" =>
                  closing'[g] # NoClient /\ status'[closing'[g]] = "end"
  BY <1>2, <1>7, <1>c
<1>8. QED
  BY <1>1, <1>4, <1>5, <1>6, <1>7 DEF Next

(* A command leaves the queue of its client when it is answered or when    *)
(* its promise is rejected.                                                *)
LEMMA QueueStep == IInv /\ [Next]_vars => QueueInv'
<1> SUFFICES ASSUME IInv, [Next]_vars PROVE QueueInv'
  OBVIOUS
<1> USE ManagerAssumption DEF calls, hooks, wire, manager, boot
<1>a. TypeOK /\ OpenInv /\ QueueInv
  BY DEF IInv
<1>b. ClientChange
  BY ClientEffect
<1>q. queue \in [Clients -> Seq(Callers \union Hooks)]
  BY <1>a DEF TypeOK
<1>e. ASSUME NEW k \in Clients,
             queue' = [queue EXCEPT ![k] = <<>>],
             use' = [u \in Callers |->
               IF use[u] = "pending" /\ Queued(k, u) THEN "rejected" ELSE use[u]],
             got' = got,
             \A l \in Clients : l # k => status'[l] = status[l]
      PROVE  QueueInv'
  <2>1. ASSUME NEW l \in Clients, status'[l] \in {"unopened", "end"} PROVE queue'[l] = <<>>
    <3>1. CASE l = k
      BY <3>1, <1>e, <1>q
    <3>2. CASE l # k
      BY <2>1, <3>2, <1>e, <1>q, <1>a DEF QueueInv
    <3>3. QED
      BY <3>1, <3>2
  <2>2. ASSUME NEW u \in Callers, use'[u] = "pending" PROVE Queued(got[u], u)'
    <3>1. use[u] = "pending" /\ ~Queued(k, u)
      BY <2>2, <1>e
    <3>2. Queued(got[u], u) /\ got[u] \in Clients /\ got[u] # k
      BY <3>1, <1>a, FunctionTypes DEF QueueInv
    <3>3. queue'[got[u]] = queue[got[u]]
      BY <3>2, <1>e, <1>q
    <3>4. QED
      BY <3>2, <3>3, <1>e DEF Queued
  <2>3. QED
    BY <2>1, <2>2 DEF QueueInv
<1>f. ASSUME NEW k \in Clients, NEW x \in Callers \union Hooks,
             status[k] \notin {"unopened", "end"},
             queue' = [queue EXCEPT ![k] = Append(queue[k], x)],
             got' = got,
             \A l \in Clients : status'[l] \in {"unopened", "end"} =>
               l # k /\ status[l] = status'[l],
             \A u \in Callers : use'[u] = "pending" => use[u] = "pending" \/ (u = x /\ got[u] = k)
      PROVE  QueueInv'
  <2> DEFINE s == queue[k]
  <2>s. s \in Seq(Callers \union Hooks) /\ queue'[k] = Append(s, x)
    BY <1>f, <1>q
  <2>t. /\ \A i \in DOMAIN s : i \in DOMAIN Append(s, x) /\ Append(s, x)[i] = s[i]
        /\ \E i \in DOMAIN Append(s, x) : Append(s, x)[i] = x
    BY <2>s, AppendFacts
  <2>1. ASSUME NEW l \in Clients, status'[l] \in {"unopened", "end"} PROVE queue'[l] = <<>>
    BY <2>1, <1>f, <1>q, <1>a DEF QueueInv
  <2>2. ASSUME NEW u \in Callers, use'[u] = "pending" PROVE Queued(got[u], u)'
    <3>1. CASE use[u] = "pending"
      <4>1. Queued(got[u], u) /\ got[u] \in Clients
        BY <3>1, <1>a, FunctionTypes DEF QueueInv
      <4>2. CASE got[u] = k
        BY <4>1, <4>2, <2>s, <2>t, <1>f DEF Queued
      <4>3. CASE got[u] # k
        <5>1. queue'[got[u]] = queue[got[u]]
          BY <4>1, <4>3, <1>f, <1>q
        <5>2. QED
          BY <4>1, <5>1, <1>f DEF Queued
      <4>4. QED
        BY <4>2, <4>3
    <3>2. CASE u = x /\ got[u] = k
      BY <3>2, <2>s, <2>t, <1>f DEF Queued
    <3>3. QED
      BY <2>2, <3>1, <3>2, <1>f
  <2>3. QED
    BY <2>1, <2>2 DEF QueueInv
<1>g. ASSUME queue' = queue, got' = got,
             \A l \in Clients : status'[l] \in {"unopened", "end"} =>
               status[l] \in {"unopened", "end"},
             \A u \in Callers : use'[u] = "pending" => use[u] = "pending"
      PROVE  QueueInv'
  BY <1>g, <1>a DEF QueueInv, Queued
<1>1. CASE InitStart \/ InitRefused
  <2>1. /\ queue' = queue /\ got' = got /\ use' = use
        /\ \A l \in Clients : status'[l] = status[l] \/ status[l] = "unopened"
    BY <1>1, <1>a, FunctionTypes DEF InitStart, InitRefused, EnsureClient
  <2>2. QED
    BY <2>1, <1>g
<1>2. ASSUME NEW u \in Callers, CallerStep(u) PROVE QueueInv'
  <2>1. CASE GetClient(u)
    <3>1. /\ queue' = queue
          /\ \A l \in Clients : status'[l] = status[l] \/ status[l] = "unopened"
          /\ \A v \in Callers : use'[v] = "pending" => use[v] = "pending" /\ got'[v] = got[v]
      BY <2>1, <1>a, FunctionTypes DEF GetClient, EnsureClient
    <3>2. QED
      BY <3>1, <1>a DEF QueueInv, Queued
  <2>2. CASE Send(u)
    <3>1. got[u] \in Clients /\ status[got[u]] # "unopened"
      BY <2>2, <1>a, FunctionTypes DEF Send, OpenInv
    <3>2. /\ got' = got
          /\ \A l \in Clients : status'[l] \in {"unopened", "end"} => status[l] = status'[l]
      BY <2>2, <3>1, <1>a, FunctionTypes DEF Send, Woken
    <3>3. CASE queue' = queue
      BY <2>2, <3>2, <3>3, <1>g, <1>a, FunctionTypes DEF Send
    <3>4. CASE /\ Writable(got[u]) \/ Buffers(got[u])
               /\ queue' = [queue EXCEPT ![got[u]] = Append(queue[got[u]], u)]
      <4>1. status[got[u]] \notin {"unopened", "end"}
        BY <3>4 DEF Writable, Buffers
      <4>2. status'[got[u]] \notin {"unopened", "end"}
        BY <4>1, <3>2, <3>1
      <4>3. \A v \in Callers : use'[v] = "pending" => use[v] = "pending" \/ v = u
        BY <2>2, <1>a, FunctionTypes DEF Send
      <4>4. u \in Callers \union Hooks
        OBVIOUS
      <4>5. \A l \in Clients : status'[l] \in {"unopened", "end"} =>
              l # got[u] /\ status[l] = status'[l]
        BY <3>2, <4>2
      <4>6. \A v \in Callers : use'[v] = "pending" => use[v] = "pending" \/ (v = u /\ got[v] = got[u])
        BY <4>3
      <4>7. got' = got /\ queue' = [queue EXCEPT ![got[u]] = Append(queue[got[u]], u)]
        BY <3>2, <3>4
      <4>8. QED
        BY <3>1, <4>1, <4>4, <4>5, <4>6, <4>7, <1>f
    <3>5. \/ queue' = queue
          \/ /\ Writable(got[u]) \/ Buffers(got[u])
             /\ queue' = [queue EXCEPT ![got[u]] = Append(queue[got[u]], u)]
      BY <2>2, Zenon DEF Send
    <3>6. QED
      BY <3>3, <3>4, <3>5, Zenon
  <2>3. CASE GetClientRefused(u) \/ CommandTimeout(u)
    <3>1. /\ queue' = queue /\ got' = got /\ status' = status
          /\ \A v \in Callers : use'[v] = "pending" => use[v] = "pending"
      BY <2>3, <1>a, FunctionTypes DEF GetClientRefused, CommandTimeout
    <3>2. QED
      BY <3>1, <1>g
  <2>4. QED
    BY <1>2, <2>1, <2>2, <2>3 DEF CallerStep
<1>3. ASSUME NEW k \in Clients, ClientStep(k) PROVE QueueInv'
  <2>1. CASE Ready(k) \/ ConnectError(k)
    <3>1. /\ queue' = queue /\ got' = got /\ use' = use
          /\ \A l \in Clients : status'[l] = status[l] \/ status'[l] = "ready"
      BY <2>1, <1>a, FunctionTypes DEF Ready, ConnectError
    <3>2. QED
      BY <3>1, <1>g
  <2>2. CASE Answer(k)
    <3> DEFINE s == queue[k]
    <3>1. /\ s \in Seq(Callers \union Hooks) /\ s # <<>> /\ Head(s) \in Callers
          /\ queue' = [queue EXCEPT ![k] = Tail(s)]
          /\ status' = status /\ got' = got
      BY <2>2, <1>q DEF Answer
    <3>2. /\ Head(s) = s[1]
          /\ \A i \in DOMAIN s : i # 1 => i - 1 \in DOMAIN Tail(s) /\ Tail(s)[i - 1] = s[i]
      BY <3>1, TailFacts
    <3>3. queue'[k] = Tail(s)
      BY <3>1, <1>q
    <3>4. \A u \in Callers : use'[u] = "pending" => use[u] = "pending" /\ u # Head(s)
      BY <2>2, <1>a, FunctionTypes DEF Answer
    <3>5. ASSUME NEW l \in Clients, status'[l] \in {"unopened", "end"} PROVE queue'[l] = <<>>
      <4>1. l # k
        BY <2>2, <3>1, <3>5 DEF Answer, Writable
      <4>2. QED
        BY <4>1, <3>1, <3>5, <1>q, <1>a DEF QueueInv
    <3>6. ASSUME NEW u \in Callers, use'[u] = "pending" PROVE Queued(got[u], u)'
      <4>1. Queued(got[u], u) /\ got[u] \in Clients /\ u # Head(s)
        BY <3>4, <3>6, <1>a, FunctionTypes DEF QueueInv
      <4>2. CASE got[u] = k
        <5>1. PICK i \in DOMAIN s : s[i] = u
          BY <4>1, <4>2 DEF Queued
        <5>2. i # 1
          BY <5>1, <4>1, <3>2
        <5>3. i - 1 \in DOMAIN Tail(s) /\ Tail(s)[i - 1] = u
          BY <5>1, <5>2, <3>2
        <5>4. QED
          BY <5>3, <4>2, <3>1, <3>3 DEF Queued
      <4>3. CASE got[u] # k
        <5>1. queue'[got[u]] = queue[got[u]]
          BY <4>1, <4>3, <3>1, <1>q
        <5>2. QED
          BY <4>1, <5>1, <3>1 DEF Queued
      <4>4. QED
        BY <4>2, <4>3
    <3>7. QED
      BY <3>5, <3>6 DEF QueueInv
  <2>3. CASE AnswerQuit(k) \/ Flush(k) \/ GiveUp(k)
    <3>1. \A l \in Clients : l # k => status'[l] = status[l]
      BY <2>3, <1>a, FunctionTypes DEF AnswerQuit, Flush, GiveUp, End
    <3>2. QED
      BY <2>3, <3>1, <1>e DEF AnswerQuit, Flush, GiveUp, End, RejectQueued
  <2>4. CASE Drop(k)
    <3>1. CASE End(k)
      <4>1. \A l \in Clients : l # k => status'[l] = status[l]
        BY <3>1, <1>a, FunctionTypes DEF End
      <4>2. QED
        BY <2>4, <3>1, <4>1, <1>e DEF Drop, End, RejectQueued
    <3>2. CASE status' = [status EXCEPT ![k] = "connecting"] /\ queue' = queue /\ use' = use
      <4>1. \A l \in Clients : status'[l] = status[l] \/ status'[l] = "connecting"
        BY <3>2, <1>a, FunctionTypes
      <4>2. QED
        BY <2>4, <3>2, <4>1, <1>g DEF Drop
    <3>3. QED
      BY <2>4, <3>1, <3>2 DEF Drop
  <2>5. QED
    BY <1>3, <2>1, <2>2, <2>3, <2>4 DEF ClientStep
<1>4. ASSUME NEW h \in Hooks, HookStep(h) PROVE QueueInv'
  <2>1. CASE HookUnused(h) \/ HookTimeout(h) \/ HookFinishes(h)
    BY <2>1, <1>g DEF HookUnused, HookTimeout, HookFinishes
  <2>2. CASE HookQuits(h)
    <3>1. client \in Clients /\ status[client] \notin {"unopened", "end"}
      BY <2>2, <1>a, FunctionTypes DEF HookQuits, Writable, Buffers
    <3>2. \A l \in Clients : status'[l] \in {"unopened", "end"} =>
            l # client /\ status[l] = status'[l]
      BY <2>2, <3>1, <1>a, FunctionTypes DEF HookQuits, Woken
    <3>3. h \in Callers \union Hooks
      OBVIOUS
    <3>4. queue' = [queue EXCEPT ![client] = Append(queue[client], h)] /\ got' = got /\ use' = use
      BY <2>2 DEF HookQuits
    <3>5. QED
      BY <3>1, <3>2, <3>3, <3>4, <1>f
  <2>3. CASE HookQuitRejected(h)
    <3>1. /\ queue' = queue /\ got' = got /\ use' = use
          /\ \A l \in Clients : status'[l] = status[l] \/ status'[l] = "connecting"
      BY <2>3, <1>a, FunctionTypes DEF HookQuitRejected, Woken
    <3>2. QED
      BY <3>1, <1>g
  <2>4. CASE HookQuitsOffline(h)
    <3>1. client \in Clients
      BY <2>4, <1>a, FunctionTypes DEF HookQuitsOffline
    <3>2. \A l \in Clients : l # client => status'[l] = status[l]
      BY <2>4, <3>1, <1>a, FunctionTypes DEF HookQuitsOffline, End
    <3>3. QED
      BY <2>4, <3>1, <3>2, <1>e DEF HookQuitsOffline, End, RejectQueued
  <2>5. CASE HookForces(h)
    <3>1. closing[h] \in Clients
      BY <2>5, <1>a, FunctionTypes DEF HookForces
    <3>2. \A l \in Clients : l # closing[h] => status'[l] = status[l]
      BY <2>5, <3>1, <1>a, FunctionTypes DEF HookForces, End
    <3>3. QED
      BY <2>5, <3>1, <3>2, <1>e DEF HookForces, End, RejectQueued
  <2>6. QED
    BY <1>4, <2>1, <2>2, <2>3, <2>4, <2>5 DEF HookStep
<1>5. CASE UNCHANGED vars
  BY <1>5, <1>g DEF vars
<1>6. QED
  BY <1>1, <1>2, <1>3, <1>4, <1>5 DEF Next

-----------------------------------------------------------------------------

LEMMA Initially == Init => IInv
<1> SUFFICES ASSUME Init PROVE IInv
  OBVIOUS
<1> USE ManagerAssumption DEF Init
<1>1. TypeOK
  <2>1. <<>> \in Seq(Callers \union Hooks)
    OBVIOUS
  <2>2. QED
    BY <2>1 DEF TypeOK
<1>2. OneClient /\ OpenInv /\ ClearedInv /\ HookInv /\ QueueInv
  BY DEF OneClient, OpenInv, ClearedInv, HookInv, QueueInv
<1>3. QED
  BY <1>1, <1>2 DEF IInv

(* IInv holds in every reachable state.                                    *)
THEOREM Inductive == Spec => []IInv
<1>1. IInv /\ [Next]_vars => IInv'
  BY TypeStep, OneClientStep, OpenStep, ClearedStep, HookInvStep, QueueStep DEF IInv
<1>2. QED
  BY Initially, <1>1, PTL DEF Spec

(* For any number of clients, calls and hook runs, and whatever the        *)
(* options, the state of the manager and of its callers has its type.      *)
THEOREM TypeCorrect == Spec => []TypeOK
<1>1. IInv => TypeOK
  BY DEF IInv
<1>2. QED
  BY <1>1, Inductive, PTL

(* The manager never opens a second client.                                *)
THEOREM NeverTwoClients == Spec => []OneClient
<1>1. IInv => OneClient
  BY DEF IInv
<1>2. QED
  BY <1>1, Inductive, PTL

(* No client is open once a run of the hook has returned, nor later.       *)
THEOREM Closed == Spec => []ClosedAfterHook
<1>1. IInv => ClosedAfterHook
  BY DEF IInv, HookInv, ClearedInv, ClosedAfterHook, HookDone
<1>2. QED
  BY <1>1, Inductive, PTL

(* No command hangs once a run of the hook has returned.                   *)
THEOREM Settled == Spec => []SettledAfterHook
<1>1. ASSUME IInv, HookDone, NEW u \in Callers, use[u] = "pending" PROVE FALSE
  <2>1. \A k \in Clients : queue[k] = <<>>
    BY <1>1 DEF IInv, HookInv, ClearedInv, QueueInv, HookDone
  <2>2. got[u] \in Clients /\ Queued(got[u], u)
    BY <1>1, FunctionTypes DEF IInv, QueueInv
  <2>3. QED
    BY <2>1, <2>2 DEF Queued
<1>2. IInv => SettledAfterHook
  BY <1>1 DEF SettledAfterHook
<1>3. QED
  BY <1>2, Inductive, PTL

(* A call made after a run of the hook returned is refused.                *)
THEOREM Refuses == Spec => RefusedAfterHook
<1>1. ASSUME IInv, [Next]_vars
      PROVE  [\A u \in Callers :
                HookDone /\ use[u] = "idle" => use'[u] \in {"idle", "refused"}]_vars
  <2> SUFFICES ASSUME Next, HookDone, NEW u \in Callers, use[u] = "idle"
               PROVE  use'[u] \in {"idle", "refused"}
    BY <1>1
  <2> USE DEF calls, hooks, wire, manager, boot
  <2>a. TypeOK /\ client = NoClient /\ shutDown
    BY <1>1 DEF IInv, HookInv, HookDone
  <2>1. CASE InitStart \/ InitRefused
    BY <2>1 DEF InitStart, InitRefused
  <2>2. ASSUME NEW v \in Callers, CallerStep(v) PROVE use'[u] \in {"idle", "refused"}
    BY <2>2, <2>a, FunctionTypes, ManagerAssumption
    DEF CallerStep, GetClient, EnsureClient, GetClientRefused, Send, CommandTimeout
  <2>3. ASSUME NEW k \in Clients, ClientStep(k) PROVE use'[u] = "idle"
    BY <2>3, <2>a, FunctionTypes
    DEF ClientStep, Ready, ConnectError, Answer, AnswerQuit, Drop, Flush, GiveUp, End,
        RejectQueued
  <2>4. ASSUME NEW h \in Hooks, HookStep(h) PROVE use'[u] = "idle"
    BY <2>4, <2>a, FunctionTypes
    DEF HookStep, HookUnused, HookQuits, HookQuitsOffline, HookQuitRejected, HookTimeout,
        HookForces, HookFinishes, End, RejectQueued
  <2>5. QED
    BY <2>1, <2>2, <2>3, <2>4 DEF Next
<1>2. QED
  BY <1>1, Inductive, PTL DEF Spec, RefusedAfterHook
=============================================================================
