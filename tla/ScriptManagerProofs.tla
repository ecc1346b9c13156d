------------------------- MODULE ScriptManagerProofs -------------------------
(* Safety of ScriptManager for every set of names, entries and calls.      *)
EXTENDS ScriptManager, TLAPS

(* A command is about the entry its call captured when it started.         *)
CommandInv == \A c \in Calls :
  /\ entry[c] = NoEntry => op[c] = "none" /\ phase[c] \in {"idle", "refused"}
  /\ op[c] = "none" => answer[c] = "none" /\ ran[c] = NoSha
  /\ phase[c] = "idle" => op[c] = "none" /\ entry[c] = NoEntry /\ runs[c] = 0
  /\ op[c] = "evalsha" => asked[c] = LuaOf[entry[c]]
  /\ ran[c] # NoSha => ran[c] = LuaOf[entry[c]]

(* The command a call waits for at each point.                             *)
PhaseInv == \A c \in Calls :
  /\ phase[c] \in {"loading", "reloading"} => op[c] = "load"
  /\ phase[c] \in {"running", "retrying"} => op[c] = "evalsha"
  /\ phase[c] = "evaluating" => op[c] = "eval"
  /\ answer[c] = "loaded" => op[c] = "load"
  /\ answer[c] \in {"value", "noscript", "ownNoscript"} => op[c] # "load"
  /\ answer[c] = "noscript" => op[c] = "evalsha"
  /\ c \notin Evals => phase[c] \in {"idle", "refused", "loading", "done", "failed"}

(* In cluster mode a call of eval waits for an EVAL only.                  *)
ClusterInv == mode = "cluster" =>
  \A c \in Evals : phase[c] \in {"idle", "refused", "evaluating", "done", "failed"}

(* A call sends a command that runs its script only when it has not run,   *)
(* or when the driver sends it again; a script that fails with NOSCRIPT in *)
(* its own text is the exception, outside cluster mode.                    *)
RunsInv == mode \notin OwnNoscript \/ mode = "cluster" => \A c \in Evals :
  /\ runs[c] <= 1 + resends[c]
  /\ phase[c] \in {"idle", "loading", "reloading"} \/ answer[c] \in {"sent", "noscript"} =>
       runs[c] <= resends[c]

(* Only a script's own error has a text with NOSCRIPT that is not about a  *)
(* script the server does not have.                                        *)
OwnInv == mode \notin OwnNoscript => \A c \in Calls : answer[c] # "ownNoscript"

(* What a reload loaded stays until the next flush.                        *)
ReloadInv == \A c \in Calls :
  /\ phase[c] = "reloading" /\ answer[c] = "loaded" =>
       c \in lapsed \/ LuaOf[entry[c]] \in cached
  /\ phase[c] = "retrying" =>
       c \in lapsed \/ (LuaOf[entry[c]] \in cached /\ answer[c] # "noscript")

(* Before its start the bootstrap has no loads; after it succeeded they    *)
(* have all succeeded.                                                     *)
BootInv ==
  /\ boot = "idle" => \A b \in Boots : phase[b] = "idle"
  /\ boot = "done" => \A b \in Booting : phase[b] = "done"
  /\ \A c \in Calls : c \notin Evals /\ phase[c] = "done" =>
       entry[c] # NoEntry /\ sha[entry[c]] # NoSha

IInv ==
  /\ TypeOK
  /\ ShaOfBody
  /\ CommandInv
  /\ PhaseInv
  /\ ClusterInv
  /\ RunsInv
  /\ OwnInv
  /\ ReloadInv
  /\ SurvivesFlush
  /\ BootInv

-----------------------------------------------------------------------------

(* The steps that no call takes, and the steps of one call.                *)
LEMMA StepCases ==
  ASSUME Next
  PROVE  \/ \E n \in Names, e \in Entries : Register(n, e)
         \/ ManagerShutsDown \/ BootstrapSkipped \/ BootstrapEnds \/ ServerFlushes
         \/ BootstrapStart
         \/ \E c \in Loads : LoadStart(c)
         \/ \E c \in Evals : EvalRefused(c) \/ EvalStart(c)
         \/ \E c \in Calls : ServerStep(c) \/ Settle(c)
BY DEF Next

(* The mode is an option: no step changes it.                              *)
LEMMA ModeStays == [Next]_vars => mode' = mode
<1> SUFFICES ASSUME Next PROVE mode' = mode
  BY DEF vars, service
<1> USE DEF service
<1>1. ASSUME NEW n \in Names, NEW e \in Entries, Register(n, e) PROVE mode' = mode
  BY <1>1 DEF Register
<1>2. CASE ManagerShutsDown \/ BootstrapSkipped \/ BootstrapEnds \/ BootstrapStart \/ ServerFlushes
  BY <1>2 DEF ManagerShutsDown, BootstrapSkipped, BootstrapEnds, BootstrapStart, ServerFlushes
<1>3. ASSUME NEW c, LoadStart(c) \/ EvalRefused(c) \/ EvalStart(c) PROVE mode' = mode
  BY <1>3 DEF LoadStart, EvalRefused, EvalStart
<1>4. ASSUME NEW c, ServerStep(c) PROVE mode' = mode
  BY <1>4 DEF ServerStep, ServerLoads, ServerRunsSha, ServerRunsBody, Resend
<1>5. ASSUME NEW c, Settle(c) PROVE mode' = mode
  BY <1>5 DEF Settle, LoadReplied, ValueReplied, ErrorReplied, Reload, Retry, CommandFails
<1>6. QED
  BY <1>1, <1>2, <1>3, <1>4, <1>5, StepCases

(* The load that the bootstrap makes for a name is that name's only.       *)
LEMMA BootNames == \A b \in Boots : BootName(b) \in Names /\ BootLoad[BootName(b)] = b
<1> SUFFICES ASSUME NEW n \in Names
             PROVE  BootName(BootLoad[n]) \in Names /\ BootLoad[BootName(BootLoad[n])] = BootLoad[n]
  BY DEF Boots
<1>1. \E m \in Names : BootLoad[m] = BootLoad[n]
  OBVIOUS
<1>2. QED
  BY <1>1 DEF BootName

LEMMA BootsApart == \A b \in Boots : b \notin Evals /\ b \notin Loads /\ b \in Calls
BY ScriptAssumption DEF Boots, Calls

(* What a started load looks like.                                         *)
LEMMA LoadsStarted ==
  ASSUME NEW f, LoadsStart(f), TypeOK, CommandInv, DOMAIN f \subseteq Calls,
         \A c \in DOMAIN f : f[c] \in Entries \union {NoEntry}
  PROVE  /\ phase' \in [Calls -> {"idle", "refused", "done", "failed"} \union InFlight]
         /\ entry' \in [Calls -> Entries \union {NoEntry}]
         /\ op' \in [Calls -> {"none", "load", "evalsha", "eval"}]
         /\ answer' \in [Calls -> {"none", "sent", "loaded", "value", "error", "noscript", "ownNoscript"}]
         /\ asked' = asked /\ outcome' = outcome
         /\ \A c \in Calls : c \notin DOMAIN f =>
              /\ phase'[c] = phase[c] /\ entry'[c] = entry[c]
              /\ op'[c] = op[c] /\ answer'[c] = answer[c]
         /\ \A c \in DOMAIN f :
              /\ entry'[c] = f[c]
              /\ \/ phase'[c] \in {"done", "refused"} /\ op'[c] = op[c] /\ answer'[c] = answer[c]
                 \/ phase'[c] = "loading" /\ op'[c] = "load" /\ answer'[c] = "sent"
              /\ phase'[c] = "done" => f[c] # NoEntry /\ sha[f[c]] # NoSha
              /\ phase'[c] # "refused" => f[c] # NoEntry
<1>1. \A e \in Entries \union {NoEntry} :
        /\ LoadPhase(e) \in {"refused", "done", "loading"}
        /\ LoadPhase(e) = "done" => e # NoEntry /\ sha[e] # NoSha
        /\ LoadPhase(e) # "refused" => e # NoEntry
  BY DEF LoadPhase
<1>2. QED
  BY <1>1 DEF LoadsStart, TypeOK, InFlight

(* The calls that LoadStart and BootstrapStart start, and their entries.   *)
LEMMA LoadStartFacts ==
  ASSUME NEW c \in Loads, LoadStart(c), TypeOK
  PROVE  \E f : /\ DOMAIN f = {c} /\ f[c] = registry[NameOf[c]]
                /\ f[c] \in Entries \union {NoEntry}
                /\ LoadsStart(f)
<1>1. [d \in {c} |-> registry[NameOf[c]]][c] \in Entries \union {NoEntry}
  BY ScriptAssumption DEF TypeOK
<1>2. QED
  BY <1>1 DEF LoadStart

LEMMA BootstrapStartFacts ==
  ASSUME BootstrapStart, TypeOK
  PROVE  \E f : /\ DOMAIN f \subseteq Boots
                /\ \A b \in DOMAIN f : f[b] \in Entries \union {NoEntry}
                /\ LoadsStart(f)
<1> DEFINE S == {BootLoad[n] : n \in {m \in Names : registry[m] # NoEntry}}
           f == [b \in S |-> registry[BootName(b)]]
<1>1. S \subseteq Boots
  BY DEF Boots
<1>2. \A b \in S : registry[BootName(b)] \in Entries \union {NoEntry}
  BY <1>1, BootNames DEF TypeOK
<1>3. DOMAIN f \subseteq Boots /\ \A b \in DOMAIN f : f[b] \in Entries \union {NoEntry}
  BY <1>1, <1>2
<1>4. LoadsStart(f)
  BY DEF BootstrapStart
<1> HIDE DEF f, S
<1>5. QED
  BY <1>3, <1>4

(* Every step preserves the types.                                         *)
LEMMA TypeStep == TypeOK /\ CommandInv /\ [Next]_vars => TypeOK'
<1> SUFFICES ASSUME TypeOK, CommandInv, [Next]_vars PROVE TypeOK'
  OBVIOUS
<1> USE ScriptAssumption DEF service, caller, command, server
<1>l. ASSUME NEW f, LoadsStart(f), DOMAIN f \subseteq Calls,
             \A c \in DOMAIN f : f[c] \in Entries \union {NoEntry},
             boot' \in {"idle", "loading", "done", "failed"},
             UNCHANGED <<registry, created, sha, shutDown, server>>
      PROVE  TypeOK'
  BY <1>l, ModeStays, LoadsStarted DEF TypeOK, InFlight
<1>1. ASSUME NEW n \in Names, NEW e \in Entries, Register(n, e) PROVE TypeOK'
  BY <1>1 DEF Register, TypeOK
<1>2. CASE ManagerShutsDown \/ BootstrapSkipped \/ BootstrapEnds \/ ServerFlushes
  <2>1. CASE ManagerShutsDown \/ BootstrapSkipped
    BY <2>1 DEF ManagerShutsDown, BootstrapSkipped, TypeOK
  <2>2. CASE BootstrapEnds
    BY <2>2 DEF BootstrapEnds, TypeOK
  <2>3. CASE ServerFlushes
    BY <2>3 DEF ServerFlushes, TypeOK
  <2>4. QED
    BY <1>2, <2>1, <2>2, <2>3
<1>3. CASE BootstrapStart
  <2>1. PICK f : /\ DOMAIN f \subseteq Boots
                 /\ \A b \in DOMAIN f : f[b] \in Entries \union {NoEntry}
                 /\ LoadsStart(f)
    BY <1>3, BootstrapStartFacts
  <2>2. DOMAIN f \subseteq Calls
    BY <2>1, BootsApart
  <2>3. QED
    BY <2>1, <2>2, <1>3, <1>l DEF BootstrapStart
<1>4. ASSUME NEW c \in Loads, LoadStart(c) PROVE TypeOK'
  <2>1. PICK f : /\ DOMAIN f = {c} /\ f[c] = registry[NameOf[c]]
                 /\ f[c] \in Entries \union {NoEntry}
                 /\ LoadsStart(f)
    BY <1>4, LoadStartFacts
  <2>2. /\ DOMAIN f \subseteq Calls
        /\ \A d \in DOMAIN f : f[d] \in Entries \union {NoEntry}
    BY <2>1 DEF Calls
  <2>3. boot' \in {"idle", "loading", "done", "failed"}
    BY <1>4 DEF LoadStart, TypeOK
  <2>4. QED
    BY <2>1, <2>2, <2>3, <1>4, <1>l DEF LoadStart
<1>5. ASSUME NEW c \in Evals, EvalRefused(c) PROVE TypeOK'
  BY <1>5 DEF EvalRefused, Goes, TypeOK, Calls, InFlight
<1>6. ASSUME NEW c \in Evals, EvalStart(c) PROVE TypeOK'
  <2>1. c \in Calls /\ registry[NameOf[c]] \in Entries
    BY <1>6 DEF EvalStart, TypeOK, Calls
  <2>2. QED
    BY <1>6, <2>1 DEF EvalStart, Takes, Goes, Sends, SendsSha, TypeOK, InFlight
<1>7. ASSUME NEW c \in Calls, ServerStep(c) PROVE TypeOK'
  <2>1. op[c] # "none" => entry[c] \in Entries
    BY DEF CommandInv, TypeOK
  <2>2. CASE ServerLoads(c)
    BY <2>1, <2>2 DEF ServerLoads, Answers, TypeOK
  <2>3. CASE ServerRunsSha(c)
    BY <2>3 DEF ServerRunsSha, Runs, Answers, TypeOK
  <2>4. CASE ServerRunsBody(c)
    BY <2>1, <2>4 DEF ServerRunsBody, Runs, Answers, TypeOK
  <2>5. CASE Resend(c)
    BY <2>5 DEF Resend, Answers, TypeOK
  <2>6. QED
    BY <1>7, <2>2, <2>3, <2>4, <2>5 DEF ServerStep
<1>8. ASSUME NEW c \in Calls, Settle(c) PROVE TypeOK'
  <2>1. phase[c] \in InFlight => entry[c] \in Entries
    BY DEF TypeOK
  <2>2. CASE LoadReplied(c) \/ Retry(c)
    <3>1. entry[c] \in Entries /\ LuaOf[entry[c]] \in Bodies
      BY <2>1, <2>2 DEF LoadReplied, Retry, InFlight
    <3>2. sha' \in [Entries -> Bodies \union {NoSha}]
      BY <2>2, <3>1 DEF LoadReplied, Retry, Store, TypeOK
    <3>3. CASE Goes(c, "done") /\ Answers(c, "none") /\ UNCHANGED <<op, asked>>
      BY <2>2, <3>1, <3>2, <3>3 DEF LoadReplied, Retry, Goes, Answers, TypeOK, InFlight
    <3>4. ASSUME NEW p \in {"running", "retrying"}, Goes(c, p), SendsSha(c, LuaOf[entry[c]])
          PROVE  TypeOK'
      BY <2>2, <3>1, <3>2, <3>4 DEF LoadReplied, Retry, Goes, SendsSha, Sends, TypeOK, InFlight
    <3>5. QED
      BY <2>2, <3>3, <3>4 DEF LoadReplied, Retry
  <2>3. CASE ValueReplied(c) \/ ErrorReplied(c)
    BY <2>3 DEF ValueReplied, ErrorReplied, Goes, Answers, TypeOK, InFlight
  <2>4. CASE Reload(c)
    BY <2>4 DEF Reload, Goes, Sends, TypeOK, InFlight
  <2>5. CASE CommandFails(c)
    BY <2>5 DEF CommandFails, Goes, TypeOK, InFlight
  <2>6. QED
    BY <1>8, <2>2, <2>3, <2>4, <2>5 DEF Settle
<1>9. CASE UNCHANGED vars
  BY <1>9 DEF vars, TypeOK
<1>10. QED
  BY <1>1, <1>2, <1>3, <1>4, <1>5, <1>6, <1>7, <1>8, <1>9, StepCases

(* A step of one call leaves the others alone, and the server forgets      *)
(* nothing.                                                                *)
CallMoves(c) ==
  \/ ServerStep(c)
  \/ Settle(c)
  \/ c \in Evals /\ (EvalRefused(c) \/ EvalStart(c))

LEMMA OtherCalls ==
  ASSUME TypeOK, NEW c \in Calls, CallMoves(c)
  PROVE  /\ \A d \in Calls : d # c =>
              /\ phase'[d] = phase[d] /\ entry'[d] = entry[d] /\ outcome'[d] = outcome[d]
              /\ op'[d] = op[d] /\ asked'[d] = asked[d] /\ answer'[d] = answer[d]
              /\ ran'[d] = ran[d] /\ runs'[d] = runs[d] /\ resends'[d] = resends[d]
         /\ cached \subseteq cached' /\ lapsed' = lapsed
         /\ boot' = boot /\ shutDown' = shutDown
<1> USE DEF service, caller, command, server
<1>1. CASE ServerStep(c)
  <2>1. CASE ServerLoads(c) \/ Resend(c)
    BY <2>1 DEF ServerLoads, Resend, Answers, TypeOK
  <2>2. CASE ServerRunsSha(c)
    BY <2>2 DEF ServerRunsSha, Runs, Answers, TypeOK
  <2>3. CASE ServerRunsBody(c)
    BY <2>3 DEF ServerRunsBody, Runs, Answers, TypeOK
  <2>4. QED
    BY <1>1, <2>1, <2>2, <2>3 DEF ServerStep
<1>2. CASE Settle(c)
  <2>1. CASE LoadReplied(c)
    BY <2>1 DEF LoadReplied, Goes, Sends, SendsSha, Answers, TypeOK
  <2>2. CASE ValueReplied(c) \/ ErrorReplied(c)
    BY <2>2 DEF ValueReplied, ErrorReplied, Goes, Answers, TypeOK
  <2>3. CASE Reload(c) \/ Retry(c)
    BY <2>3 DEF Reload, Retry, Goes, Sends, SendsSha, TypeOK
  <2>4. CASE CommandFails(c)
    BY <2>4 DEF CommandFails, Goes, TypeOK
  <2>5. QED
    BY <1>2, <2>1, <2>2, <2>3, <2>4 DEF Settle
<1>3. CASE EvalRefused(c)
  BY <1>3 DEF EvalRefused, Goes, TypeOK
<1>4. CASE EvalStart(c)
  BY <1>4 DEF EvalStart, Goes, Takes, Sends, SendsSha, TypeOK
<1>5. QED
  BY <1>1, <1>2, <1>3, <1>4 DEF CallMoves

(* What a step of a call does to that call.                                *)
LEMMA EvalMoves ==
  ASSUME TypeOK, NEW c \in Evals, EvalRefused(c) \/ EvalStart(c)
  PROVE  /\ c \in Calls /\ phase[c] = "idle"
         /\ UNCHANGED <<registry, created, sha, shutDown, boot, outcome, server>>
         /\ \/ phase'[c] = "refused" /\ op'[c] = op[c] /\ answer'[c] = answer[c]
                 /\ entry'[c] = entry[c] /\ asked'[c] = asked[c]
            \/ /\ entry'[c] \in Entries /\ answer'[c] = "sent"
               /\ \/ mode = "cluster" /\ phase'[c] = "evaluating" /\ op'[c] = "eval"
                       /\ asked'[c] = asked[c]
                  \/ mode # "cluster" /\ phase'[c] = "running" /\ op'[c] = "evalsha"
                       /\ sha[entry'[c]] # NoSha /\ asked'[c] = sha[entry'[c]]
                  \/ mode # "cluster" /\ phase'[c] = "loading" /\ op'[c] = "load"
                       /\ asked'[c] = asked[c]
<1> USE DEF service, caller, command, server, Calls
<1>1. CASE EvalRefused(c)
  BY <1>1 DEF EvalRefused, Goes, TypeOK
<1>2. CASE EvalStart(c)
  <2>1. registry[NameOf[c]] \in Entries
    BY <1>2, ScriptAssumption DEF EvalStart, TypeOK
  <2>2. entry'[c] = registry[NameOf[c]]
    BY <1>2 DEF EvalStart, Takes, TypeOK
  <2>3. QED
    BY <1>2, <2>1, <2>2 DEF EvalStart, Goes, Sends, SendsSha, TypeOK
<1>3. QED
  BY <1>1, <1>2

LEMMA ServerMoves ==
  ASSUME TypeOK, NEW c \in Calls, ServerStep(c)
  PROVE  /\ UNCHANGED <<service, caller, op, asked, lapsed>>
         /\ \/ /\ answer[c] = "sent" /\ op[c] = "load"
               /\ ran'[c] = ran[c] /\ runs'[c] = runs[c] /\ resends'[c] = resends[c]
               /\ \/ answer'[c] = "loaded" /\ LuaOf[entry[c]] \in cached'
                  \/ answer'[c] = "error"
            \/ /\ answer[c] = "sent" /\ resends'[c] = resends[c] /\ runs'[c] = runs[c] + 1
               /\ answer'[c] \in {"value", "error", "ownNoscript"}
               /\ answer'[c] = "ownNoscript" => mode \in OwnNoscript
               /\ \/ op[c] = "eval" /\ ran'[c] = LuaOf[entry[c]]
                  \/ op[c] = "evalsha" /\ ran'[c] = asked[c] /\ asked[c] \in cached
            \/ /\ answer[c] = "sent" /\ op[c] = "evalsha" /\ asked[c] \notin cached
               /\ answer'[c] = "noscript"
               /\ ran'[c] = ran[c] /\ runs'[c] = runs[c] /\ resends'[c] = resends[c]
               /\ cached' = cached
            \/ /\ answer[c] \notin {"none", "sent"} /\ answer'[c] = "sent"
               /\ ran'[c] = ran[c] /\ runs'[c] = runs[c] /\ resends'[c] = resends[c] + 1
               /\ cached' = cached
<1> USE DEF service, caller
<1>1. CASE ServerLoads(c)
  BY <1>1 DEF ServerLoads, Answers, TypeOK
<1>2. CASE ServerRunsSha(c)
  BY <1>2 DEF ServerRunsSha, Runs, Answers, TypeOK
<1>3. CASE ServerRunsBody(c)
  BY <1>3 DEF ServerRunsBody, Runs, Answers, TypeOK
<1>4. CASE Resend(c)
  BY <1>4 DEF Resend, Answers, TypeOK
<1>5. QED
  BY <1>1, <1>2, <1>3, <1>4 DEF ServerStep

LEMMA SettleMoves ==
  ASSUME TypeOK, NEW c \in Calls, Settle(c)
  PROVE  /\ UNCHANGED <<registry, created, shutDown, boot, entry, server>>
         /\ phase[c] \in InFlight /\ entry[c] \in Entries
         /\ \/ /\ phase[c] \in {"loading", "reloading"} /\ answer[c] = "loaded"
               /\ sha' = [sha EXCEPT ![entry[c]] = LuaOf[entry[c]]]
               /\ outcome' = outcome
               /\ \/ c \in Evals /\ phase[c] = "loading" /\ phase'[c] = "running"
                       /\ op'[c] = "evalsha" /\ asked'[c] = LuaOf[entry[c]] /\ answer'[c] = "sent"
                  \/ c \notin Evals /\ phase[c] = "loading" /\ phase'[c] = "done"
                       /\ op'[c] = op[c] /\ asked'[c] = asked[c] /\ answer'[c] = "none"
                  \/ phase[c] = "reloading" /\ phase'[c] = "retrying"
                       /\ op'[c] = "evalsha" /\ asked'[c] = LuaOf[entry[c]] /\ answer'[c] = "sent"
            \/ /\ sha' = sha /\ op'[c] = op[c] /\ asked'[c] = asked[c]
               /\ \/ phase[c] \in {"running", "retrying", "evaluating"} /\ phase'[c] = "done"
                       /\ answer'[c] = "none" /\ outcome'[c] = "value"
                  \/ phase'[c] = "failed" /\ answer'[c] = "none" /\ outcome'[c] = answer[c]
                       /\ (answer[c] = "noscript" => phase[c] \in {"retrying", "evaluating"})
                  \/ phase'[c] = "failed" /\ answer'[c] = answer[c] /\ outcome'[c] = "connection"
            \/ /\ phase[c] = "running" /\ answer[c] \in {"noscript", "ownNoscript"}
               /\ sha' = sha /\ outcome' = outcome /\ asked'[c] = asked[c]
               /\ phase'[c] = "reloading" /\ op'[c] = "load" /\ answer'[c] = "sent"
<1> USE DEF service, caller, command
<1>1. phase[c] \in InFlight /\ entry[c] \in Entries
  <2>1. phase[c] \in InFlight
    BY DEF Settle, LoadReplied, ValueReplied, ErrorReplied, Reload, Retry, CommandFails, InFlight
  <2>2. QED
    BY <2>1 DEF TypeOK
<1>2. CASE LoadReplied(c)
  BY <1>1, <1>2 DEF LoadReplied, Store, Goes, Sends, SendsSha, Answers, TypeOK
<1>3. CASE ValueReplied(c)
  BY <1>1, <1>3 DEF ValueReplied, Goes, Answers, TypeOK
<1>4. CASE ErrorReplied(c)
  BY <1>1, <1>4 DEF ErrorReplied, Goes, Answers, TypeOK
<1>5. CASE Reload(c)
  BY <1>1, <1>5 DEF Reload, Goes, Sends, TypeOK
<1>6. CASE Retry(c)
  BY <1>1, <1>6 DEF Retry, Store, Goes, Sends, SendsSha, TypeOK
<1>7. CASE CommandFails(c)
  BY <1>1, <1>7 DEF CommandFails, Goes, TypeOK
<1>8. QED
  BY <1>1, <1>2, <1>3, <1>4, <1>5, <1>6, <1>7 DEF Settle

(* The kinds of steps the invariant has to survive.                        *)
Starts(f) ==
  /\ LoadsStart(f)
  /\ DOMAIN f \subseteq Calls
  /\ \A c \in DOMAIN f : c \notin Evals /\ phase[c] = "idle" /\ f[c] \in Entries \union {NoEntry}
  /\ UNCHANGED <<sha, server>>

LEMMA Kinds ==
  ASSUME IInv, [Next]_vars
  PROVE  \/ UNCHANGED <<sha, caller, command, server>>
         \/ ServerFlushes
         \/ \E f : Starts(f)
         \/ \E c \in Calls : CallMoves(c)
<1> USE DEF service
<1>1. CASE (\E n \in Names, e \in Entries : Register(n, e))
             \/ ManagerShutsDown \/ BootstrapSkipped \/ BootstrapEnds
  BY <1>1 DEF Register, ManagerShutsDown, BootstrapSkipped, BootstrapEnds
<1>2. CASE BootstrapStart
  <2>1. PICK f : /\ DOMAIN f \subseteq Boots
                 /\ \A b \in DOMAIN f : f[b] \in Entries \union {NoEntry}
                 /\ LoadsStart(f)
    BY <1>2, BootstrapStartFacts DEF IInv
  <2>2. \A b \in DOMAIN f : b \in Calls /\ b \notin Evals
    BY <2>1, BootsApart
  <2>3. \A b \in DOMAIN f : phase[b] = "idle"
    BY <2>1, <1>2 DEF BootstrapStart, IInv, BootInv
  <2>4. UNCHANGED <<sha, server>>
    BY <1>2 DEF BootstrapStart
  <2>5. Starts(f)
    BY <2>1, <2>2, <2>3, <2>4 DEF Starts
  <2>6. QED
    BY <2>5
<1>3. ASSUME NEW c \in Loads, LoadStart(c) PROVE \E f : Starts(f)
  <2>1. PICK f : /\ DOMAIN f = {c} /\ f[c] = registry[NameOf[c]]
                 /\ f[c] \in Entries \union {NoEntry}
                 /\ LoadsStart(f)
    BY <1>3, LoadStartFacts DEF IInv
  <2>2. c \in Calls /\ c \notin Evals
    BY ScriptAssumption DEF Calls
  <2>3. phase[c] = "idle" /\ UNCHANGED <<sha, server>>
    BY <1>3 DEF LoadStart
  <2>4. Starts(f)
    BY <2>1, <2>2, <2>3 DEF Starts
  <2>5. QED
    BY <2>4
<1>4. ASSUME NEW c \in Evals, EvalRefused(c) \/ EvalStart(c) PROVE c \in Calls /\ CallMoves(c)
  BY <1>4 DEF CallMoves, Calls
<1>5. ASSUME NEW c \in Calls, ServerStep(c) \/ Settle(c) PROVE CallMoves(c)
  BY <1>5 DEF CallMoves
<1>6. CASE UNCHANGED vars
  BY <1>6 DEF vars, service
<1>7. QED
  BY <1>1, <1>2, <1>3, <1>4, <1>5, <1>6, StepCases

(* Started loads, given the invariant.                                     *)
LEMMA StartsFacts ==
  ASSUME IInv, NEW f, Starts(f)
  PROVE  /\ UNCHANGED <<sha, asked, outcome, cached, ran, runs, resends, lapsed>>
         /\ \A c \in Calls : c \notin DOMAIN f =>
              /\ phase'[c] = phase[c] /\ entry'[c] = entry[c]
              /\ op'[c] = op[c] /\ answer'[c] = answer[c]
         /\ \A c \in DOMAIN f :
              /\ c \in Calls /\ c \notin Evals /\ phase[c] = "idle"
              /\ entry'[c] = f[c] /\ f[c] \in Entries \union {NoEntry}
              /\ \/ phase'[c] \in {"done", "refused"} /\ op'[c] = op[c] /\ answer'[c] = answer[c]
                 \/ phase'[c] = "loading" /\ op'[c] = "load" /\ answer'[c] = "sent"
              /\ phase'[c] = "done" => f[c] # NoEntry /\ sha[f[c]] # NoSha
              /\ phase'[c] # "refused" => f[c] # NoEntry
<1>1. LoadsStart(f) /\ DOMAIN f \subseteq Calls
        /\ \A c \in DOMAIN f : f[c] \in Entries \union {NoEntry}
  BY DEF Starts
<1>2. TypeOK /\ CommandInv
  BY DEF IInv
<1>3. QED
  BY <1>1, <1>2, LoadsStarted DEF Starts, server

(* Only the reply of SCRIPT LOAD sets a sha, and it sets the right one.    *)
LEMMA ShaStep == IInv /\ [Next]_vars => ShaOfBody'
<1> SUFFICES ASSUME IInv, [Next]_vars PROVE ShaOfBody'
  OBVIOUS
<1>a. TypeOK /\ ShaOfBody
  BY DEF IInv
<1>1. CASE sha' = sha
  BY <1>1, <1>a DEF ShaOfBody
<1>2. ASSUME NEW c \in Calls, CallMoves(c) PROVE ShaOfBody'
  <2>1. CASE ServerStep(c)
    BY <2>1, <1>1, <1>a, ServerMoves DEF service
  <2>2. CASE c \in Evals /\ (EvalRefused(c) \/ EvalStart(c))
    BY <2>2, <1>1, <1>a, EvalMoves
  <2>3. CASE Settle(c)
    <3>1. sha' = sha \/ sha' = [sha EXCEPT ![entry[c]] = LuaOf[entry[c]]]
      BY <2>3, <1>a, SettleMoves
    <3>2. QED
      BY <3>1, <1>a DEF ShaOfBody, TypeOK
  <2>4. QED
    BY <1>2, <2>1, <2>2, <2>3 DEF CallMoves
<1>3. CASE ServerFlushes
  BY <1>3, <1>1 DEF ServerFlushes, service
<1>4. QED
  BY <1>1, <1>2, <1>3, Kinds, StartsFacts

(* What holds of every call still does when a step leaves it alone.        *)
LEMMA CommandStep == IInv /\ [Next]_vars => CommandInv'
<1> DEFINE Good(c) ==
  /\ entry[c] = NoEntry => op[c] = "none" /\ phase[c] \in {"idle", "refused"}
  /\ op[c] = "none" => answer[c] = "none" /\ ran[c] = NoSha
  /\ phase[c] = "idle" => op[c] = "none" /\ entry[c] = NoEntry /\ runs[c] = 0
  /\ op[c] = "evalsha" => asked[c] = LuaOf[entry[c]]
  /\ ran[c] # NoSha => ran[c] = LuaOf[entry[c]]
<1> SUFFICES ASSUME IInv, [Next]_vars, NEW d \in Calls PROVE Good(d)'
  BY DEF CommandInv
<1> USE ScriptAssumption DEF service, caller, command, server
<1>a. TypeOK /\ ShaOfBody /\ CommandInv /\ PhaseInv
  BY DEF IInv
<1>b. Good(d)
  BY <1>a DEF CommandInv
<1>1. CASE UNCHANGED <<sha, caller, command, server>>
  BY <1>1, <1>b
<1>2. CASE ServerFlushes
  BY <1>2, <1>b DEF ServerFlushes
<1>3. ASSUME NEW f, Starts(f) PROVE Good(d)'
  <2>1. CASE d \in DOMAIN f
    BY <2>1, <1>3, <1>b, StartsFacts
  <2>2. CASE d \notin DOMAIN f
    BY <2>2, <1>3, <1>b, StartsFacts
  <2>3. QED
    BY <2>1, <2>2
<1>4. ASSUME NEW c \in Calls, CallMoves(c), c # d PROVE Good(d)'
  BY <1>4, <1>a, <1>b, OtherCalls
<1>5. CASE ServerStep(d)
  BY <1>5, <1>a, <1>b, ServerMoves DEF TypeOK
<1>6. CASE Settle(d)
  BY <1>6, <1>a, <1>b, SettleMoves DEF InFlight
<1>7. CASE d \in Evals /\ (EvalRefused(d) \/ EvalStart(d))
  <2>1. phase'[d] # "refused" => entry'[d] \in Entries
          /\ (sha[entry'[d]] # NoSha => sha[entry'[d]] = LuaOf[entry'[d]])
    BY <1>7, <1>a, EvalMoves DEF ShaOfBody
  <2>2. QED
    BY <1>7, <2>1, <1>a, <1>b, EvalMoves
<1>8. QED
  BY <1>1, <1>2, <1>3, <1>4, <1>5, <1>6, <1>7, Kinds DEF CallMoves

LEMMA PhaseStep == IInv /\ [Next]_vars => PhaseInv'
<1> DEFINE Good(c) ==
  /\ phase[c] \in {"loading", "reloading"} => op[c] = "load"
  /\ phase[c] \in {"running", "retrying"} => op[c] = "evalsha"
  /\ phase[c] = "evaluating" => op[c] = "eval"
  /\ answer[c] = "loaded" => op[c] = "load"
  /\ answer[c] \in {"value", "noscript", "ownNoscript"} => op[c] # "load"
  /\ answer[c] = "noscript" => op[c] = "evalsha"
  /\ c \notin Evals => phase[c] \in {"idle", "refused", "loading", "done", "failed"}
<1> SUFFICES ASSUME IInv, [Next]_vars, NEW d \in Calls PROVE Good(d)'
  BY DEF PhaseInv
<1> USE DEF service, caller, command, server
<1>a. TypeOK /\ CommandInv /\ PhaseInv
  BY DEF IInv
<1>b. Good(d)
  BY <1>a DEF PhaseInv
<1>c. phase[d] = "idle" => op[d] = "none" /\ answer[d] = "none"
  BY <1>a DEF CommandInv
<1>1. CASE UNCHANGED <<sha, caller, command, server>>
  BY <1>1, <1>b
<1>2. CASE ServerFlushes
  BY <1>2, <1>b DEF ServerFlushes
<1>3. ASSUME NEW f, Starts(f) PROVE Good(d)'
  <2>1. CASE d \in DOMAIN f
    BY <2>1, <1>3, <1>b, <1>c, StartsFacts
  <2>2. CASE d \notin DOMAIN f
    BY <2>2, <1>3, <1>b, StartsFacts
  <2>3. QED
    BY <2>1, <2>2
<1>4. ASSUME NEW c \in Calls, CallMoves(c), c # d PROVE Good(d)'
  BY <1>4, <1>a, <1>b, OtherCalls
<1>5. CASE ServerStep(d)
  BY <1>5, <1>a, <1>b, ServerMoves
<1>6. CASE Settle(d)
  BY <1>6, <1>a, <1>b, SettleMoves
<1>7. CASE d \in Evals /\ (EvalRefused(d) \/ EvalStart(d))
  BY <1>7, <1>a, <1>b, <1>c, EvalMoves
<1>8. QED
  BY <1>1, <1>2, <1>3, <1>4, <1>5, <1>6, <1>7, Kinds DEF CallMoves

LEMMA ClusterStep == IInv /\ [Next]_vars => ClusterInv'
<1> SUFFICES ASSUME IInv, [Next]_vars, mode = "cluster", NEW d \in Evals
             PROVE  phase'[d] \in {"idle", "refused", "evaluating", "done", "failed"}
  BY ModeStays DEF ClusterInv
<1> USE DEF service, caller, command, server
<1>a. TypeOK /\ d \in Calls
  BY DEF IInv, Calls
<1>b. phase[d] \in {"idle", "refused", "evaluating", "done", "failed"}
  BY DEF IInv, ClusterInv
<1>1. CASE UNCHANGED <<sha, caller, command, server>>
  BY <1>1, <1>b
<1>2. CASE ServerFlushes
  BY <1>2, <1>b DEF ServerFlushes
<1>3. ASSUME NEW f, Starts(f) PROVE phase'[d] = phase[d]
  BY <1>3, <1>a, StartsFacts
<1>4. ASSUME NEW c \in Calls, CallMoves(c), c # d PROVE phase'[d] = phase[d]
  BY <1>4, <1>a, OtherCalls
<1>5. CASE ServerStep(d)
  BY <1>5, <1>a, <1>b, ServerMoves
<1>6. CASE Settle(d)
  BY <1>6, <1>a, <1>b, SettleMoves
<1>7. CASE EvalRefused(d) \/ EvalStart(d)
  BY <1>7, <1>a, EvalMoves
<1>8. QED
  BY <1>1, <1>2, <1>3, <1>4, <1>5, <1>6, <1>7, <1>b, Kinds DEF CallMoves

(* A command that runs the script is sent once, or sent again by the       *)
(* driver.                                                                 *)
LEMMA RunsStep == IInv /\ [Next]_vars => RunsInv'
<1> DEFINE Good(c) ==
  /\ runs[c] <= 1 + resends[c]
  /\ phase[c] \in {"idle", "loading", "reloading"} \/ answer[c] \in {"sent", "noscript"} =>
       runs[c] <= resends[c]
<1> SUFFICES ASSUME IInv, [Next]_vars, mode \notin OwnNoscript \/ mode = "cluster", NEW d \in Evals
             PROVE  Good(d)'
  BY ModeStays DEF RunsInv
<1> USE DEF service, caller, command, server
<1>a. TypeOK /\ CommandInv /\ PhaseInv /\ ClusterInv /\ OwnInv /\ d \in Calls
  BY DEF IInv, Calls
<1>b. Good(d) /\ runs[d] \in Nat /\ resends[d] \in Nat
  BY <1>a DEF IInv, RunsInv, TypeOK
<1>c. phase[d] = "idle" => runs[d] = 0
  BY <1>a DEF CommandInv
<1>d. answer[d] = "ownNoscript" => phase[d] # "running"
  BY <1>a DEF OwnInv, ClusterInv
<1>1. CASE UNCHANGED <<sha, caller, command, server>>
  BY <1>1, <1>b
<1>2. CASE ServerFlushes
  BY <1>2, <1>b DEF ServerFlushes
<1>3. ASSUME NEW f, Starts(f) PROVE Good(d)'
  BY <1>3, <1>a, <1>b, StartsFacts
<1>4. ASSUME NEW c \in Calls, CallMoves(c), c # d PROVE Good(d)'
  BY <1>4, <1>a, <1>b, OtherCalls
<1>5. CASE ServerStep(d)
  <2>1. /\ phase'[d] = phase[d]
        /\ phase[d] \in {"idle", "loading", "reloading"} => op[d] \in {"none", "load"}
        /\ op[d] = "none" => answer[d] = "none"
    BY <1>5, <1>a, ServerMoves DEF PhaseInv, CommandInv
  <2>2. QED
    BY <1>5, <2>1, <1>a, <1>b, ServerMoves
<1>6. CASE Settle(d)
  BY <1>6, <1>a, <1>b, <1>d, SettleMoves
<1>7. CASE EvalRefused(d) \/ EvalStart(d)
  BY <1>7, <1>a, <1>b, <1>c, EvalMoves
<1>8. QED
  BY <1>1, <1>2, <1>3, <1>4, <1>5, <1>6, <1>7, Kinds DEF CallMoves

LEMMA OwnStep == IInv /\ [Next]_vars => OwnInv'
<1> SUFFICES ASSUME IInv, [Next]_vars, mode \notin OwnNoscript, NEW d \in Calls
             PROVE  answer'[d] # "ownNoscript"
  BY ModeStays DEF OwnInv
<1> USE DEF service, caller, command, server
<1>a. TypeOK /\ answer[d] # "ownNoscript"
  BY DEF IInv, OwnInv
<1>1. CASE UNCHANGED <<sha, caller, command, server>>
  BY <1>1, <1>a
<1>2. CASE ServerFlushes
  BY <1>2, <1>a DEF ServerFlushes
<1>3. ASSUME NEW f, Starts(f) PROVE answer'[d] # "ownNoscript"
  BY <1>3, <1>a, StartsFacts
<1>4. ASSUME NEW c \in Calls, CallMoves(c), c # d PROVE answer'[d] = answer[d]
  BY <1>4, <1>a, OtherCalls
<1>5. CASE ServerStep(d)
  BY <1>5, <1>a, ServerMoves
<1>6. CASE Settle(d)
  BY <1>6, <1>a, SettleMoves
<1>7. CASE d \in Evals /\ (EvalRefused(d) \/ EvalStart(d))
  BY <1>7, <1>a, EvalMoves
<1>8. QED
  BY <1>1, <1>2, <1>3, <1>4, <1>5, <1>6, <1>7, <1>a, Kinds DEF CallMoves

(* Only a flush takes back what a reload loaded, and a flush is remembered.*)
LEMMA ReloadStep == IInv /\ [Next]_vars => ReloadInv'
<1> DEFINE Good(c) ==
  /\ phase[c] = "reloading" /\ answer[c] = "loaded" =>
       c \in lapsed \/ LuaOf[entry[c]] \in cached
  /\ phase[c] = "retrying" =>
       c \in lapsed \/ (LuaOf[entry[c]] \in cached /\ answer[c] # "noscript")
<1> SUFFICES ASSUME IInv, [Next]_vars, NEW d \in Calls PROVE Good(d)'
  BY DEF ReloadInv
<1> USE DEF service, caller, command, server
<1>a. TypeOK /\ CommandInv /\ PhaseInv
  BY DEF IInv
<1>b. Good(d)
  BY DEF IInv, ReloadInv
<1>1. CASE UNCHANGED <<sha, caller, command, server>>
  BY <1>1, <1>b
<1>2. CASE ServerFlushes
  BY <1>2, <1>b DEF ServerFlushes
<1>3. ASSUME NEW f, Starts(f) PROVE Good(d)'
  BY <1>3, <1>a, <1>b, StartsFacts
<1>4. ASSUME NEW c \in Calls, CallMoves(c), c # d PROVE Good(d)'
  <2>1. /\ phase'[d] = phase[d] /\ entry'[d] = entry[d] /\ answer'[d] = answer[d]
        /\ cached \subseteq cached' /\ lapsed' = lapsed
    BY <1>4, <1>a, OtherCalls
  <2>2. QED
    BY <2>1, <1>b
<1>5. CASE ServerStep(d)
  <2>1. phase'[d] = phase[d] /\ entry'[d] = entry[d] /\ lapsed' = lapsed
    BY <1>5, <1>a, ServerMoves
  <2>2. cached \subseteq cached'
    BY <1>5, <1>a, OtherCalls DEF CallMoves
  <2>3. phase[d] = "reloading" => op[d] = "load"
    BY <1>a DEF PhaseInv
  <2>4. phase[d] = "retrying" => op[d] = "evalsha" /\ asked[d] = LuaOf[entry[d]]
    BY <1>a DEF PhaseInv, CommandInv
  <2>5. CASE phase[d] = "reloading"
    BY <1>5, <2>1, <2>2, <2>3, <2>5, <1>a, <1>b, ServerMoves
  <2>6. CASE phase[d] = "retrying"
    BY <1>5, <2>1, <2>2, <2>4, <2>6, <1>a, <1>b, ServerMoves
  <2>7. QED
    BY <2>1, <2>5, <2>6
<1>6. CASE Settle(d)
  BY <1>6, <1>a, <1>b, SettleMoves
<1>7. CASE d \in Evals /\ (EvalRefused(d) \/ EvalStart(d))
  BY <1>7, <1>a, <1>b, EvalMoves
<1>8. QED
  BY <1>1, <1>2, <1>3, <1>4, <1>5, <1>6, <1>7, Kinds DEF CallMoves

LEMMA SurvivesStep == IInv /\ [Next]_vars => SurvivesFlush'
<1> SUFFICES ASSUME IInv, [Next]_vars, NEW d \in Evals, outcome'[d] = "noscript"
             PROVE  d \in lapsed'
  BY DEF SurvivesFlush
<1> USE DEF service, caller, command, server
<1>a. TypeOK /\ PhaseInv /\ d \in Calls
  BY DEF IInv, Calls
<1>b. outcome[d] = "noscript" => d \in lapsed
  BY DEF IInv, SurvivesFlush
<1>1. CASE UNCHANGED <<sha, caller, command, server>>
  BY <1>1, <1>b
<1>2. CASE ServerFlushes
  BY <1>2, <1>b DEF ServerFlushes
<1>3. ASSUME NEW f, Starts(f) PROVE d \in lapsed'
  BY <1>3, <1>b, StartsFacts
<1>4. ASSUME NEW c \in Calls, CallMoves(c), c # d PROVE d \in lapsed'
  BY <1>4, <1>a, <1>b, OtherCalls
<1>5. CASE ServerStep(d)
  BY <1>5, <1>a, <1>b, ServerMoves
<1>6. CASE Settle(d)
  <2>1. phase[d] = "evaluating" => answer[d] # "noscript"
    BY <1>a DEF PhaseInv
  <2>2. phase[d] = "retrying" /\ answer[d] = "noscript" => d \in lapsed
    BY <1>a DEF IInv, ReloadInv
  <2>3. QED
    BY <1>6, <2>1, <2>2, <1>a, <1>b, SettleMoves
<1>7. CASE EvalRefused(d) \/ EvalStart(d)
  BY <1>7, <1>b, <1>a, EvalMoves
<1>8. QED
  BY <1>1, <1>2, <1>3, <1>4, <1>5, <1>6, <1>7, Kinds DEF CallMoves

-----------------------------------------------------------------------------
(* The bootstrap.                                                          *)

(* A sha that is set stays set.                                            *)
LEMMA ShaStays ==
  ASSUME IInv, [Next]_vars, NEW e \in Entries, sha[e] # NoSha
  PROVE  sha'[e] # NoSha
<1>a. TypeOK
  BY DEF IInv
<1>1. ASSUME NEW c \in Calls, CallMoves(c) PROVE sha'[e] # NoSha
  <2>1. CASE Settle(c)
    <3>1. /\ sha' = sha \/ sha' = [sha EXCEPT ![entry[c]] = LuaOf[entry[c]]]
          /\ entry[c] \in Entries
      BY <2>1, <1>a, SettleMoves
    <3>2. LuaOf[entry[c]] # NoSha
      BY <3>1, ScriptAssumption
    <3>3. QED
      BY <3>1, <3>2, <1>a DEF TypeOK
  <2>2. CASE ServerStep(c)
    BY <2>2, <1>a, ServerMoves DEF service
  <2>3. CASE c \in Evals /\ (EvalRefused(c) \/ EvalStart(c))
    BY <2>3, <1>a, EvalMoves
  <2>4. QED
    BY <1>1, <2>1, <2>2, <2>3 DEF CallMoves
<1>2. QED
  BY <1>1, Kinds, StartsFacts DEF ServerFlushes, service

(* A load that resolved stays resolved, and keeps its entry.               *)
LEMMA DoneStays ==
  ASSUME IInv, [Next]_vars, NEW b \in Calls, phase[b] # "idle"
  PROVE  /\ entry'[b] = entry[b]
         /\ phase'[b] # "idle"
         /\ phase[b] = "done" => phase'[b] = "done"
<1> USE DEF service, caller, command, server
<1>a. TypeOK
  BY DEF IInv
<1>1. CASE UNCHANGED <<sha, caller, command, server>> \/ ServerFlushes
  BY <1>1 DEF ServerFlushes
<1>2. ASSUME NEW f, Starts(f) PROVE phase'[b] = phase[b] /\ entry'[b] = entry[b]
  BY <1>2, StartsFacts
<1>3. ASSUME NEW c \in Calls, CallMoves(c), c # b
      PROVE  phase'[b] = phase[b] /\ entry'[b] = entry[b]
  BY <1>3, <1>a, OtherCalls
<1>4. CASE ServerStep(b)
  BY <1>4, <1>a, ServerMoves
<1>5. CASE Settle(b)
  BY <1>5, <1>a, SettleMoves DEF InFlight
<1>6. CASE b \in Evals /\ (EvalRefused(b) \/ EvalStart(b))
  BY <1>6, <1>a, EvalMoves
<1>7. QED
  BY <1>1, <1>2, <1>3, <1>4, <1>5, <1>6, Kinds DEF CallMoves

LEMMA BootStep == IInv /\ [Next]_vars => BootInv'
<1> SUFFICES ASSUME IInv, [Next]_vars PROVE BootInv'
  OBVIOUS
<1> USE DEF service, caller, command, server
<1>a. TypeOK /\ CommandInv /\ PhaseInv /\ BootInv
  BY DEF IInv
<1>t. TypeOK'
  BY <1>a, TypeStep
<1>1. ASSUME NEW d \in Calls, d \notin Evals, phase'[d] = "done"
      PROVE  entry'[d] # NoEntry /\ sha'[entry'[d]] # NoSha
  <2>1. CASE phase[d] = "done"
    <3>1. entry[d] \in Entries /\ sha[entry[d]] # NoSha
      BY <2>1, <1>1, <1>a DEF BootInv, TypeOK
    <3>2. entry'[d] = entry[d]
      BY <2>1, DoneStays
    <3>3. QED
      BY <3>1, <3>2, ShaStays, ScriptAssumption
  <2>2. CASE phase[d] # "done"
    <3>1. ASSUME NEW f, Starts(f) PROVE entry'[d] # NoEntry /\ sha'[entry'[d]] # NoSha
      BY <3>1, <2>2, <1>1, StartsFacts
    <3>2. CASE Settle(d)
      <4>1. /\ sha' = [sha EXCEPT ![entry[d]] = LuaOf[entry[d]]]
            /\ entry' = entry /\ entry[d] \in Entries
        BY <3>2, <2>2, <1>1, <1>a, SettleMoves DEF PhaseInv
      <4>2. QED
        BY <4>1, <1>a, ScriptAssumption DEF TypeOK
    <3>3. ASSUME NEW c \in Calls, CallMoves(c), c # d \/ ~Settle(d) PROVE FALSE
      BY <3>3, <2>2, <1>1, <1>a, OtherCalls, ServerMoves DEF CallMoves
    <3>4. ~(UNCHANGED <<sha, caller, command, server>> \/ ServerFlushes)
      BY <2>2, <1>1 DEF ServerFlushes
    <3>5. QED
      BY <3>1, <3>2, <3>3, <3>4, Kinds
  <2>3. QED
    BY <2>1, <2>2
<1>2. ASSUME boot' = "idle", NEW b \in Boots PROVE phase'[b] = "idle"
  <2>1. b \in Calls /\ b \notin Evals /\ b \notin Loads
    BY BootsApart
  <2>2. boot = "idle"
    <3>1. CASE \E c \in Calls : CallMoves(c)
      BY <3>1, <1>2, <1>a, OtherCalls
    <3>2. QED
      BY <1>2, <3>1, StepCases
      DEF Register, ManagerShutsDown, BootstrapSkipped, BootstrapEnds, ServerFlushes,
          BootstrapStart, LoadStart, CallMoves, Calls, vars
  <2>3. phase[b] = "idle"
    BY <2>2, <1>a DEF BootInv
  <2>4. ASSUME NEW c \in Calls, CallMoves(c) PROVE phase'[b] = phase[b]
    <3>1. CASE c = b
      <4>1. CASE ServerStep(b)
        BY <4>1, <1>a, <2>1, ServerMoves
      <4>2. ~Settle(b)
        BY <2>1, <2>3, <1>a, SettleMoves DEF InFlight
      <4>3. QED
        BY <2>1, <2>4, <3>1, <4>1, <4>2 DEF CallMoves
    <3>2. CASE c # b
      BY <2>1, <2>4, <3>2, <1>a, OtherCalls
    <3>3. QED
      BY <3>1, <3>2
  <2>5. ASSUME NEW c \in Loads, LoadStart(c) PROVE phase'[b] = phase[b]
    <3>1. PICK f : DOMAIN f = {c} /\ LoadsStart(f)
      BY <2>5, <1>a, LoadStartFacts
    <3>2. QED
      BY <3>1, <2>1 DEF LoadsStart
  <2>6. ~BootstrapStart
    BY <1>2 DEF BootstrapStart
  <2>7. QED
    BY <2>1, <2>3, <2>4, <2>5, <2>6, StepCases
    DEF Register, ManagerShutsDown, BootstrapSkipped, BootstrapEnds, ServerFlushes,
        CallMoves, Calls, vars
<1>3. ASSUME boot' = "done", NEW b \in Boots, entry'[b] # NoEntry PROVE phase'[b] = "done"
  <2>1. b \in Calls /\ b \notin Evals /\ b \notin Loads
    BY BootsApart
  <2>2. CASE boot = "done"
    <3>1. phase[b] = "idle" => entry[b] = NoEntry
      BY <2>1, <1>a DEF CommandInv
    <3>2. entry[b] # NoEntry
      <4>1. ~BootstrapStart
        BY <2>2 DEF BootstrapStart
      <4>2. ASSUME NEW c \in Calls, CallMoves(c) PROVE entry'[b] = entry[b]
        <5>1. CASE c = b
          BY <5>1, <4>2, <2>1, <1>a, ServerMoves, SettleMoves DEF CallMoves
        <5>2. CASE c # b
          BY <5>2, <4>2, <2>1, <1>a, OtherCalls
        <5>3. QED
          BY <5>1, <5>2
      <4>3. ASSUME NEW c \in Loads, LoadStart(c) PROVE entry'[b] = entry[b]
        <5>1. PICK f : DOMAIN f = {c} /\ LoadsStart(f)
          BY <4>3, <1>a, LoadStartFacts
        <5>2. QED
          BY <5>1, <2>1 DEF LoadsStart
      <4>4. entry'[b] = entry[b]
        BY <4>1, <4>2, <4>3, StepCases
        DEF Register, ManagerShutsDown, BootstrapSkipped, BootstrapEnds, ServerFlushes,
            CallMoves, Calls, vars
      <4>5. QED
        BY <4>4, <1>3
    <3>3. phase[b] = "done"
      BY <2>2, <3>2, <1>a DEF BootInv, Booting, Boots
    <3>4. QED
      BY <3>3, <2>1, DoneStays
  <2>3. CASE boot # "done"
    <3>1. BootstrapSkipped \/ BootstrapEnds
      <4>1. ~\E c \in Calls : CallMoves(c)
        BY <2>3, <1>3, <1>a, OtherCalls
      <4>2. QED
        BY <2>3, <1>3, <4>1, StepCases
        DEF Register, ManagerShutsDown, ServerFlushes, BootstrapStart, LoadStart,
            CallMoves, Calls, vars
    <3>2. CASE BootstrapSkipped
      BY <3>2, <2>1, <1>3, <1>a DEF BootstrapSkipped, BootInv, CommandInv
    <3>3. CASE BootstrapEnds
      BY <3>3, <1>3 DEF BootstrapEnds, Booting, Boots
    <3>4. QED
      BY <3>1, <3>2, <3>3
  <2>4. QED
    BY <2>2, <2>3
<1>4. \A b \in Booting' : b \in Boots /\ entry'[b] # NoEntry
  BY DEF Booting, Boots
<1>5. QED
  BY <1>1, <1>2, <1>3, <1>4 DEF BootInv

-----------------------------------------------------------------------------

LEMMA Initially == Init => IInv
<1> SUFFICES ASSUME Init PROVE IInv
  OBVIOUS
<1> USE ScriptAssumption DEF Init
<1>1. TypeOK
  <2>1. mode \in Modes /\ SeedOf \in [Names -> Entries \union {NoEntry}]
    OBVIOUS
  <2>2. {SeedOf[n] : n \in Names} \ {NoEntry} \in SUBSET Entries
    BY <2>1
  <2>3. QED
    BY <2>1, <2>2 DEF TypeOK, InFlight
<1>2. ShaOfBody /\ CommandInv /\ PhaseInv /\ OwnInv /\ ReloadInv
  BY DEF ShaOfBody, CommandInv, PhaseInv, OwnInv, ReloadInv
<1>3. ClusterInv /\ RunsInv /\ SurvivesFlush
  BY DEF ClusterInv, RunsInv, SurvivesFlush, Calls
<1>4. BootInv
  BY BootsApart DEF BootInv, Booting, Boots, Calls
<1>5. QED
  BY <1>1, <1>2, <1>3, <1>4 DEF IInv

(* IInv holds in every reachable state.                                    *)
THEOREM Inductive == Spec => []IInv
<1>1. IInv /\ [Next]_vars => IInv'
  BY TypeStep, ShaStep, CommandStep, PhaseStep, ClusterStep, RunsStep, OwnStep, ReloadStep,
     SurvivesStep, BootStep
  DEF IInv
<1>2. QED
  BY Initially, <1>1, PTL DEF Spec

(* For any names, entries and calls, and whatever the mode and the options,*)
(* the state of the scripts has its type.                                  *)
THEOREM TypeCorrect == Spec => []TypeOK
<1>1. IInv => TypeOK
  BY DEF IInv
<1>2. QED
  BY <1>1, Inductive, PTL

(* A cached sha is the digest of its entry's own body.                     *)
THEOREM ShaCorrect == Spec => []ShaOfBody
<1>1. IInv => ShaOfBody
  BY DEF IInv
<1>2. QED
  BY <1>1, Inductive, PTL

(* Every call runs the script it was called for.                           *)
THEOREM OwnScript == Spec => []RunsItsScript
<1>1. IInv => RunsItsScript
  BY DEF IInv, CommandInv, RunsItsScript, Calls
<1>2. QED
  BY <1>1, Inductive, PTL

(* Unless a script's own error text has NOSCRIPT in it, and always in      *)
(* cluster mode, no call runs its script again of its own accord.          *)
THEOREM AtMostOnce ==
  ASSUME OwnNoscript \subseteq {"cluster"}
  PROVE  Spec => []RunsOnce
<1>1. IInv => RunsOnce
  BY DEF IInv, RunsInv, RunsOnce
<1>2. QED
  BY <1>1, Inductive, PTL

(* NOSCRIPT reaches a caller only after a flush between reload and retry.  *)
THEOREM FlushSurvived == Spec => []SurvivesFlush
<1>1. IInv => SurvivesFlush
  BY DEF IInv
<1>2. QED
  BY <1>1, Inductive, PTL

(* A bootstrap that resolved left every script it found loaded.            *)
THEOREM Bootstrapped == Spec => []BootstrapLoads
<1>1. IInv => BootstrapLoads
  <2>1. \A b \in Booting : b \in Boots
    BY DEF Booting, Boots
  <2>2. QED
    BY <2>1, BootsApart DEF IInv, BootInv, BootstrapLoads
<1>2. QED
  BY <1>1, Inductive, PTL
=============================================================================
