---------------------------- MODULE ScriptManager ----------------------------
(***************************************************************************)
(* Named Lua scripts of src/src/server/services/script-manager.service.ts: *)
(* register, load, the loads of onApplicationBootstrap and eval, over a    *)
(* server whose script cache may be flushed at any time and a connection   *)
(* that may fail a command or send it again.                               *)
(*                                                                         *)
(* A member of Entries is one ScriptEntry object: register creates one and *)
(* puts it in the registry.  A SHA1 is named by the body it digests.       *)
(***************************************************************************)
EXTENDS Naturals, FiniteSets

CONSTANTS
  Names,        \* script names
  Entries,      \* ScriptEntry objects
  Bodies,       \* Lua sources
  LuaOf,        \* the lua of each entry
  SeedOf,       \* registry built by the constructor from options.scripts
  NoEntry,      \* absence of an entry
  NoSha,        \* an sha that is not set
  Evals,        \* calls of eval
  Loads,        \* calls of load
  NameOf,       \* the name each call of eval or load is given
  BootLoad,     \* the load that onApplicationBootstrap makes for each name
  Keyless,      \* calls of eval without keys
  Modes,        \* what options.mode may be
  LazyConnect,  \* connection.lazyConnect
  OwnNoscript,  \* the modes where scripts may fail with a text that has NOSCRIPT in it
  MaxResends    \* bound on the commands of a call that are sent again

Boots == {BootLoad[n] : n \in Names}

Calls == Evals \union Loads \union Boots

ASSUME ScriptAssumption ==
  /\ LuaOf \in [Entries -> Bodies]
  /\ NoSha \notin Bodies
  /\ NoEntry \notin Entries
  /\ SeedOf \in [Names -> Entries \union {NoEntry}]
  /\ NameOf \in [Evals \union Loads -> Names]
  /\ Evals \intersect Loads = {}
  /\ \A n \in Names : BootLoad[n] \notin Evals \union Loads
  /\ \A n, m \in Names : BootLoad[n] = BootLoad[m] => n = m
  /\ Keyless \subseteq Evals
  /\ Modes \subseteq {"standalone", "sentinel", "cluster"} /\ OwnNoscript \subseteq Modes
  /\ LazyConnect \in BOOLEAN
  /\ MaxResends \in Nat

VARIABLES
  mode,       \* options.mode
  registry,   \* scripts: name -> entry
  created,    \* entries that exist
  sha,        \* the sha of each entry
  shutDown,   \* getClient throws
  boot,       \* progress of onApplicationBootstrap
  phase,      \* progress of each call
  entry,      \* the entry each call captured
  op,         \* the last command each call sent
  asked,      \* the sha of its last EVALSHA
  answer,     \* what became of that command on the wire
  outcome,    \* what the caller of an eval got
  cached,     \* the script cache of the server
  ran,        \* the body the server last ran for each call
  runs,       \* how often the server ran a script for each call
  resends,    \* how often a command of each call was sent again
  lapsed      \* calls whose reload was flushed before their retry

service == <<mode, registry, created, sha, shutDown, boot>>
caller  == <<phase, entry, outcome>>
command == <<op, asked, answer>>
server  == <<cached, ran, runs, resends, lapsed>>
vars    == <<service, caller, command, server>>

InFlight == {"loading", "running", "reloading", "retrying", "evaluating"}

TypeOK ==
  /\ mode \in Modes
  /\ registry \in [Names -> Entries \union {NoEntry}]
  /\ created \in SUBSET Entries
  /\ sha \in [Entries -> Bodies \union {NoSha}]
  /\ shutDown \in BOOLEAN
  /\ boot \in {"idle", "loading", "done", "failed"}
  /\ phase \in [Calls -> {"idle", "refused", "done", "failed"} \union InFlight]
  /\ entry \in [Calls -> Entries \union {NoEntry}]
  /\ op \in [Calls -> {"none", "load", "evalsha", "eval"}]
  /\ asked \in [Calls -> Bodies \union {NoSha}]
  /\ answer \in [Calls -> {"none", "sent", "loaded", "value", "error", "noscript", "ownNoscript"}]
  /\ outcome \in [Calls -> {"none", "value", "error", "noscript", "ownNoscript", "connection"}]
  /\ cached \in SUBSET Bodies
  /\ ran \in [Calls -> Bodies \union {NoSha}]
  /\ runs \in [Calls -> Nat]
  /\ resends \in [Calls -> Nat]
  /\ lapsed \in SUBSET Calls
  /\ \A c \in Calls : phase[c] \in InFlight => entry[c] # NoEntry
  /\ \A c \in Calls : phase[c] \in {"running", "retrying"} => asked[c] # NoSha

Init ==
  /\ mode \in Modes
  /\ registry = SeedOf
  /\ created = {SeedOf[n] : n \in Names} \ {NoEntry}
  /\ sha = [e \in Entries |-> NoSha]
  /\ shutDown = FALSE
  /\ boot = "idle"
  /\ phase = [c \in Calls |-> "idle"]
  /\ entry = [c \in Calls |-> NoEntry]
  /\ op = [c \in Calls |-> "none"]
  /\ asked = [c \in Calls |-> NoSha]
  /\ answer = [c \in Calls |-> "none"]
  /\ outcome = [c \in Calls |-> "none"]
  /\ cached = {}
  /\ ran = [c \in Calls |-> NoSha]
  /\ runs = [c \in Calls |-> 0]
  /\ resends = [c \in Calls |-> 0]
  /\ lapsed = {}

-----------------------------------------------------------------------------
(* The registry.                                                           *)

Register(n, e) ==
  /\ e \notin created
  /\ registry' = [registry EXCEPT ![n] = e]
  /\ created' = created \union {e}
  /\ UNCHANGED <<mode, sha, shutDown, boot, caller, command, server>>

ManagerShutsDown ==
  /\ ~shutDown
  /\ shutDown' = TRUE
  /\ UNCHANGED <<mode, registry, created, sha, boot, caller, command, server>>

-----------------------------------------------------------------------------
(* Starting a call: what happens up to its first await that suspends.      *)

Goes(c, p) == phase' = [phase EXCEPT ![c] = p]

Takes(c, e) == entry' = [entry EXCEPT ![c] = e]

Sends(c, o) ==
  /\ op' = [op EXCEPT ![c] = o]
  /\ answer' = [answer EXCEPT ![c] = "sent"]

SendsSha(c, s) == Sends(c, "evalsha") /\ asked' = [asked EXCEPT ![c] = s]

(* SCRIPT_NOT_REGISTERED, CONNECTION_LOST, or a cluster call without keys. *)
EvalRefused(c) ==
  /\ phase[c] = "idle"
  /\ registry[NameOf[c]] = NoEntry \/ shutDown \/ (mode = "cluster" /\ c \in Keyless)
  /\ Goes(c, "refused")
  /\ UNCHANGED <<service, entry, outcome, command, server>>

EvalStart(c) ==
  LET e == registry[NameOf[c]] IN
  /\ phase[c] = "idle"
  /\ e # NoEntry
  /\ ~shutDown
  /\ Takes(c, e)
  /\ \/ /\ mode = "cluster"
        /\ c \notin Keyless
        /\ Goes(c, "evaluating")
        /\ Sends(c, "eval")
        /\ UNCHANGED asked
     \/ /\ mode # "cluster"
        /\ sha[e] # NoSha
        /\ Goes(c, "running")
        /\ SendsSha(c, sha[e])
     \/ /\ mode # "cluster"
        /\ sha[e] = NoSha
        /\ Goes(c, "loading")
        /\ Sends(c, "load")
        /\ UNCHANGED asked
  /\ UNCHANGED <<service, outcome, server>>

(* load returns a cached sha without a client, and needs one otherwise.    *)
LoadPhase(e) ==
  CASE e = NoEntry -> "refused"
    [] e # NoEntry /\ sha[e] # NoSha -> "done"
    [] e # NoEntry /\ sha[e] = NoSha /\ shutDown -> "refused"
    [] OTHER -> "loading"

(* The loads in the domain of entryOf start, each for its entry there.     *)
LoadsStart(entryOf) ==
  LET starting == DOMAIN entryOf
      sending == {c \in starting : LoadPhase(entryOf[c]) = "loading"}
  IN /\ phase' = [c \in Calls |-> IF c \in starting THEN LoadPhase(entryOf[c]) ELSE phase[c]]
     /\ entry' = [c \in Calls |-> IF c \in starting THEN entryOf[c] ELSE entry[c]]
     /\ op' = [c \in Calls |-> IF c \in sending THEN "load" ELSE op[c]]
     /\ answer' = [c \in Calls |-> IF c \in sending THEN "sent" ELSE answer[c]]
     /\ UNCHANGED <<asked, outcome>>

LoadStart(c) ==
  /\ phase[c] = "idle"
  /\ LoadsStart([d \in {c} |-> registry[NameOf[c]]])
  /\ UNCHANGED <<service, server>>

-----------------------------------------------------------------------------
(* onApplicationBootstrap.                                                 *)

BootName(b) == CHOOSE n \in Names : BootLoad[n] = b

Booting == {BootLoad[n] : n \in {m \in Names : entry[BootLoad[m]] # NoEntry}}

BootstrapSkipped ==
  /\ boot = "idle"
  /\ LazyConnect
  /\ boot' = "done"
  /\ UNCHANGED <<mode, registry, created, sha, shutDown, caller, command, server>>

BootstrapStart ==
  /\ boot = "idle"
  /\ ~LazyConnect
  /\ boot' = "loading"
  /\ LoadsStart([b \in {BootLoad[n] : n \in {m \in Names : registry[m] # NoEntry}} |->
                   registry[BootName(b)]])
  /\ UNCHANGED <<mode, registry, created, sha, shutDown, server>>

(* Mutant: Promise.allSettled, which resolves whatever became of a load.   *)
BootstrapSettled ==
  /\ boot = "loading"
  /\ \A b \in Booting : phase[b] \in {"done", "refused", "failed"}
  /\ boot' = "done"
  /\ UNCHANGED <<mode, registry, created, sha, shutDown, caller, command, server>>

(* Promise.all: all loads resolved, or one of them rejected.               *)
BootstrapEnds ==
  /\ boot = "loading"
  /\ \/ (\A b \in Booting : phase[b] = "done") /\ boot' = "done"
     \/ (\E b \in Booting : phase[b] \in {"refused", "failed"}) /\ boot' = "failed"
  /\ UNCHANGED <<mode, registry, created, sha, shutDown, caller, command, server>>

-----------------------------------------------------------------------------
(* The server.                                                             *)

Answers(c, a) == answer' = [answer EXCEPT ![c] = a]

ServerLoads(c) ==
  /\ answer[c] = "sent"
  /\ op[c] = "load"
  /\ \/ Answers(c, "loaded") /\ cached' = cached \union {LuaOf[entry[c]]}
     \/ Answers(c, "error") /\ cached' = cached
  /\ UNCHANGED <<service, caller, op, asked, ran, runs, resends, lapsed>>

(* A script that runs may return or fail with an error of its own.         *)
Runs(c, body) ==
  /\ ran' = [ran EXCEPT ![c] = body]
  /\ runs' = [runs EXCEPT ![c] = @ + 1]
  /\ \E a \in {"value", "error"} \union (IF mode \in OwnNoscript THEN {"ownNoscript"} ELSE {}) :
       Answers(c, a)

ServerRunsSha(c) ==
  /\ answer[c] = "sent"
  /\ op[c] = "evalsha"
  /\ \/ asked[c] \in cached /\ Runs(c, asked[c])
     \/ asked[c] \notin cached /\ Answers(c, "noscript") /\ UNCHANGED <<ran, runs>>
  /\ UNCHANGED <<service, caller, op, asked, cached, resends, lapsed>>

ServerRunsBody(c) ==
  /\ answer[c] = "sent"
  /\ op[c] = "eval"
  /\ Runs(c, LuaOf[entry[c]])
  /\ cached' = cached \union {LuaOf[entry[c]]}
  /\ UNCHANGED <<service, caller, op, asked, resends, lapsed>>

(* SCRIPT FLUSH, a restart or a failover to a node without the scripts.    *)
ServerFlushes ==
  /\ cached # {}
  /\ cached' = {}
  /\ lapsed' = lapsed \union {c \in Calls :
       phase[c] = "retrying" \/ (phase[c] = "reloading" /\ answer[c] = "loaded")}
  /\ UNCHANGED <<service, caller, command, ran, runs, resends>>

(* The link drops after the server acted and before the reply arrived: the *)
(* driver sends the command again on the next connection.                  *)
Resend(c) ==
  /\ answer[c] \notin {"none", "sent"}
  /\ resends[c] < MaxResends
  /\ Answers(c, "sent")
  /\ resends' = [resends EXCEPT ![c] = @ + 1]
  /\ UNCHANGED <<service, caller, op, asked, cached, ran, runs, lapsed>>

-----------------------------------------------------------------------------
(* The continuations of load and eval.                                     *)

(* entry.sha = the reply of SCRIPT LOAD, in the captured entry.            *)
Store(c) == sha' = [sha EXCEPT ![entry[c]] = LuaOf[entry[c]]]

LoadReplied(c) ==
  /\ phase[c] = "loading"
  /\ answer[c] = "loaded"
  /\ Store(c)
  /\ \/ c \in Evals /\ Goes(c, "running") /\ SendsSha(c, LuaOf[entry[c]])
     \/ c \notin Evals /\ Goes(c, "done") /\ Answers(c, "none") /\ UNCHANGED <<op, asked>>
  /\ UNCHANGED <<mode, registry, created, shutDown, boot, entry, outcome, server>>

(* The caller gets the value of the script.                                *)
ValueReplied(c) ==
  /\ phase[c] \in {"running", "retrying", "evaluating"}
  /\ answer[c] = "value"
  /\ Goes(c, "done")
  /\ Answers(c, "none")
  /\ outcome' = [outcome EXCEPT ![c] = "value"]
  /\ UNCHANGED <<service, entry, op, asked, server>>

(* SCRIPT_EXECUTION_FAILED, or the raw error of a load.  A text with       *)
(* NOSCRIPT in it ends a retry and an EVAL as any other error does.        *)
ErrorReplied(c) ==
  /\ \/ phase[c] \in InFlight /\ answer[c] = "error"
     \/ phase[c] \in {"retrying", "evaluating"} /\ answer[c] \in {"noscript", "ownNoscript"}
  /\ Goes(c, "failed")
  /\ Answers(c, "none")
  /\ outcome' = [outcome EXCEPT ![c] = answer[c]]
  /\ UNCHANGED <<service, entry, op, asked, server>>

(* Mutants: the reload goes through load(name), which returns the cached   *)
(* sha; a retry that meets NOSCRIPT is retried as well; every error is     *)
(* taken for an eviction.                                                  *)
ReloadCached(c) ==
  /\ phase[c] = "running"
  /\ answer[c] \in {"noscript", "ownNoscript"}
  /\ Goes(c, "retrying")
  /\ SendsSha(c, sha[entry[c]])
  /\ UNCHANGED <<service, entry, outcome, server>>

ReloadAlways(c) ==
  /\ phase[c] \in {"running", "retrying"}
  /\ answer[c] \in {"noscript", "ownNoscript"}
  /\ Goes(c, "reloading")
  /\ Sends(c, "load")
  /\ UNCHANGED <<service, entry, outcome, asked, server>>

ReloadOnError(c) ==
  /\ phase[c] = "running"
  /\ answer[c] \in {"noscript", "ownNoscript", "error"}
  /\ Goes(c, "reloading")
  /\ Sends(c, "load")
  /\ UNCHANGED <<service, entry, outcome, asked, server>>

(* The error text of the first EVALSHA has NOSCRIPT in it.                 *)
Reload(c) ==
  /\ phase[c] = "running"
  /\ answer[c] \in {"noscript", "ownNoscript"}
  /\ Goes(c, "reloading")
  /\ Sends(c, "load")
  /\ UNCHANGED <<service, entry, outcome, asked, server>>

(* Mutant: the retry looks the script up again by its name.                *)
RetryCurrent(c) ==
  /\ phase[c] = "reloading"
  /\ answer[c] = "loaded"
  /\ Store(c)
  /\ Goes(c, "retrying")
  /\ SendsSha(c, LuaOf[registry[NameOf[c]]])
  /\ UNCHANGED <<mode, registry, created, shutDown, boot, entry, outcome, server>>

Retry(c) ==
  /\ phase[c] = "reloading"
  /\ answer[c] = "loaded"
  /\ Store(c)
  /\ Goes(c, "retrying")
  /\ SendsSha(c, LuaOf[entry[c]])
  /\ UNCHANGED <<mode, registry, created, shutDown, boot, entry, outcome, server>>

(* commandTimeout, a flush of the driver's queues or a closed connection   *)
(* rejects the command; the server may still run it.                       *)
CommandFails(c) ==
  /\ phase[c] \in InFlight
  /\ Goes(c, "failed")
  /\ outcome' = [outcome EXCEPT ![c] = "connection"]
  /\ UNCHANGED <<service, entry, command, server>>

-----------------------------------------------------------------------------

(* What ends the wait for one command.                                     *)
Settle(c) ==
  \/ LoadReplied(c)
  \/ ValueReplied(c)
  \/ ErrorReplied(c)
  \/ Reload(c)
  \/ Retry(c)
  \/ CommandFails(c)

ServerStep(c) ==
  \/ ServerLoads(c)
  \/ ServerRunsSha(c)
  \/ ServerRunsBody(c)
  \/ Resend(c)

Next ==
  \/ \E n \in Names, e \in Entries : Register(n, e)
  \/ \E c \in Evals : EvalRefused(c) \/ EvalStart(c)
  \/ \E c \in Loads : LoadStart(c)
  \/ BootstrapSkipped \/ BootstrapStart \/ BootstrapEnds
  \/ \E c \in Calls : ServerStep(c) \/ Settle(c)
  \/ ServerFlushes
  \/ ManagerShutsDown

Spec == Init /\ [][Next]_vars

(* commandTimeout bounds the wait for each command, answered or not, and   *)
(* the continuation of Promise.all runs.                                   *)
Fairness ==
  /\ \A c \in Calls : WF_vars(Settle(c))
  /\ WF_vars(BootstrapEnds)

FairSpec == Spec /\ Fairness

-----------------------------------------------------------------------------
(* Properties.                                                             *)

(* A cached sha is the digest of the body of its own entry, although loads *)
(* overlap and register replaces the entry of a name while one is in       *)
(* flight.                                                                 *)
ShaOfBody == \A e \in Entries : sha[e] # NoSha => sha[e] = LuaOf[e]

(* What the server runs for a call is the script that was registered under *)
(* its name when it was called, also after a reload and a retry.           *)
RunsItsScript == \A c \in Evals : ran[c] # NoSha => ran[c] = LuaOf[entry[c]]

(* The transparent retry never repeats a script that has run: a script     *)
(* runs once per call, and once more per command the driver sent again.    *)
RunsOnce == \A c \in Evals : runs[c] <= 1 + resends[c]

(* A call fails with NOSCRIPT only when the server forgot the script again *)
(* between the reload and the retry, however stale the cached sha was.     *)
SurvivesFlush == \A c \in Evals : outcome[c] = "noscript" => c \in lapsed

(* When onApplicationBootstrap has resolved, the scripts it found          *)
(* registered have their sha.                                              *)
BootstrapLoads == boot = "done" => \A b \in Booting : sha[entry[b]] # NoSha

(* Every eval and load ends, however often the script cache is flushed,    *)
(* and so does the bootstrap: each is made once, so that in the end none   *)
(* is in flight.                                                           *)
EvalSettles == <>[](boot # "loading" /\ \A c \in Calls : phase[c] \notin InFlight)
=============================================================================
