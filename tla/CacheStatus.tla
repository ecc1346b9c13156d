---------------------------- MODULE CacheStatus ----------------------------
(***************************************************************************)
(* src/src/admin/services/cache-status.service.ts. health is a PING that   *)
(* races a deadline on one thread, where a reply or a timer may be handled *)
(* late; time counts milliseconds. stats reads INFO.                       *)
(***************************************************************************)
EXTENDS RedisInfo

CONSTANTS
  Probes,       \* calls of health
  Timeouts,     \* what options.probeTimeoutMs may be
  Thresholds,   \* what options.degradedAboveMs may be
  MaxDelay,     \* the longest delay of setTimeout, 2^31 - 1 in Node
  MaxTime,      \* bound on the time
  Infos         \* what INFO may answer

ASSUME StatusAssumption ==
  /\ Timeouts \subseteq Nat \ {0} /\ Thresholds \subseteq Nat \ {0}
  /\ MaxDelay \in Nat \ {0} /\ MaxTime \in Nat /\ MaxDate \in Nat

(* A number is spelled in one way, as Redis spells it.                     *)
Value(v) ==
  /\ v.text # Null
  /\ v.number \in Int \union {Null}
  /\ v.number = 0 <=> v.text = "0"

ASSUME InfoAssumption ==
  /\ Null \notin Int /\ Null \notin {"slave", "code"} /\ Null \notin BOOLEAN
  /\ \A lines \in Infos :
       /\ lines = [i \in 1 .. Len(lines) |-> lines[i]] /\ Len(lines) \in Nat
       /\ \A i \in 1 .. Len(lines) : lines[i].header \in BOOLEAN /\ Value(lines[i].value)

VARIABLES
  probeTimeoutMs,   \* the option
  degradedAboveMs,  \* the option
  now,       \* performance.now()
  stage,     \* progress of each probe
  started,   \* when it began
  ping,      \* its PING: pending, then what it settled with
  timer,     \* its deadline
  verdict,   \* what it resolved with
  at,        \* when it resolved
  info,      \* what INFO answered last, or Null
  threw,     \* whether stats threw on it
  stats      \* what stats made of it otherwise

probeOptions == <<probeTimeoutMs, degradedAboveMs>>
probing      == <<stage, started, ping, timer, verdict, at>>
lastReading  == <<info, threw, stats>>
statusVars   == <<probeOptions, now, probing, lastReading>>

-----------------------------------------------------------------------------
(* probe: PING races a deadline.                                           *)

ForgetReading == info' = Null /\ threw' = FALSE /\ stats' = Null

(* A delay that setTimeout cannot hold becomes a millisecond.              *)
Delay == IF probeTimeoutMs > MaxDelay THEN 1 ELSE probeTimeoutMs

Probe(p) ==
  /\ stage[p] = "idle"
  /\ now + Delay <= MaxTime
  /\ stage' = [stage EXCEPT ![p] = "racing"]
  /\ started' = [started EXCEPT ![p] = now]
  /\ ping' = [ping EXCEPT ![p] = "pending"]
  /\ timer' = [timer EXCEPT ![p] = "armed"]
  /\ ForgetReading
  /\ UNCHANGED <<probeOptions, now, verdict, at>>

(* raceDeadline clears the timer whoever won.                              *)
ClearTimer(p) == timer' = [timer EXCEPT ![p] = "cleared"]

Down(reason, code) == [status |-> "down", reason |-> reason, code |-> code]

(* Mutant: any answer is health.                                           *)
JudgeAny(p, reply) == [status |-> "up", latencyMs |-> now - started[p]]

(* What the probe makes of what PING settled with: its own error code if   *)
(* the error has one, and only PONG counts as an answer.                   *)
Judge(p, reply) ==
  LET latencyMs == now - started[p]
  IN  CASE reply = "coded error" -> Down("error", "code")
        [] reply = "error"       -> Down("error", Null)
        [] reply = "other"       -> Down("error", Null)
        [] reply = "PONG"        -> [status |-> IF latencyMs > degradedAboveMs THEN "degraded" ELSE "up",
                                     latencyMs |-> latencyMs]

(* PING settles. It decides the probe, unless the deadline has.            *)
PingSettles(p, reply) ==
  /\ ping[p] = "pending"
  /\ ping' = [ping EXCEPT ![p] = reply]
  /\ IF stage[p] = "racing"
     THEN /\ stage' = [stage EXCEPT ![p] = "done"]
          /\ verdict' = [verdict EXCEPT ![p] = Judge(p, reply)]
          /\ at' = [at EXCEPT ![p] = now]
          /\ ClearTimer(p)
     ELSE UNCHANGED <<stage, verdict, at, timer>>
  /\ UNCHANGED <<probeOptions, lastReading, now, started>>

(* Mutant: the deadline rejects, and nobody settles the probe.             *)
DeadlineForgets(p) ==
  /\ timer[p] = "armed"
  /\ now >= started[p] + Delay
  /\ ClearTimer(p)
  /\ UNCHANGED <<probeOptions, lastReading, now, stage, started, ping, verdict, at>>

(* The deadline: the timer is due and the thread gets to it.               *)
DeadlineFires(p) ==
  /\ timer[p] = "armed"
  /\ now >= started[p] + Delay
  /\ stage' = [stage EXCEPT ![p] = "done"]
  /\ verdict' = [verdict EXCEPT ![p] = Down("timeout", Null)]
  /\ at' = [at EXCEPT ![p] = now]
  /\ ClearTimer(p)
  /\ UNCHANGED <<probeOptions, lastReading, now, started, ping>>

(* stats, when INFO has answered.  Bound: as a reading depends on neither  *)
(* the time nor the probes, it is made and forgotten before they begin.    *)
Stats(text) ==
  /\ now = 0 /\ \A p \in Probes : stage[p] = "idle"
  /\ info' = text
  /\ LET fields == ParseInfoFields(text)
     IN  /\ threw' = ~LastSaveHolds(fields)
         /\ stats' = IF LastSaveHolds(fields) THEN ReadRedisStats(fields) ELSE Null
  /\ UNCHANGED <<probeOptions, now, probing>>

Tick ==
  /\ now < MaxTime
  /\ now' = now + 1
  /\ ForgetReading
  /\ UNCHANGED <<probeOptions, probing>>

-----------------------------------------------------------------------------
StatusInit ==
  /\ probeTimeoutMs \in Timeouts
  /\ degradedAboveMs \in Thresholds
  /\ now = 0
  /\ stage = [p \in Probes |-> "idle"]
  /\ started = [p \in Probes |-> 0]
  /\ ping = [p \in Probes |-> "none"]
  /\ timer = [p \in Probes |-> "none"]
  /\ verdict = [p \in Probes |-> Null]
  /\ at = [p \in Probes |-> 0]
  /\ info = Null /\ threw = FALSE /\ stats = Null

StatusNext ==
  \/ \E p \in Probes : Probe(p) \/ DeadlineFires(p)
  \/ \E p \in Probes, reply \in {"PONG", "other", "error", "coded error"} : PingSettles(p, reply)
  \/ \E text \in Infos : Stats(text)
  \/ Tick

StatusSpec == StatusInit /\ [][StatusNext]_statusVars

(* Time passes and the thread gets to a timer that is due; Redis need not  *)
(* answer.                                                                 *)
FairStatusSpec == StatusSpec /\ WF_statusVars(Tick) /\ \A p \in Probes : WF_statusVars(DeadlineFires(p))

-----------------------------------------------------------------------------
StatusTypeOK ==
  /\ now \in 0 .. MaxTime
  /\ stage \in [Probes -> {"idle", "racing", "done"}]
  /\ started \in [Probes -> 0 .. MaxTime] /\ at \in [Probes -> 0 .. MaxTime]
  /\ ping \in [Probes -> {"none", "pending", "PONG", "other", "error", "coded error"}]
  /\ timer \in [Probes -> {"none", "armed", "cleared"}]
  /\ \A p \in Probes : stage[p] = "idle" <=> timer[p] = "none"

(* No deadline outlives its probe, whoever won the race: nothing keeps the *)
(* process alive or settles a probe twice (cache-status.service.ts:60-75). *)
TimersCleared == \A p \in Probes : timer[p] = "armed" <=> stage[p] = "racing"

(* A verdict is true of its race.  A timeout is said probeTimeoutMs after  *)
(* the start at the earliest, if setTimeout can hold that delay (a longer  *)
(* one is over after a millisecond); an error, of a PING that failed or    *)
(* answered otherwise, with a code if the error had one; up and degraded,  *)
(* of PONG received before the deadline was handled, with the time it took *)
(* (cache-status.service.ts:60-75, 212-231).                               *)
VerdictOfRace ==
  \A p \in Probes :
    stage[p] = "done" =>
      LET waited == at[p] - started[p]
      IN  CASE verdict[p].status = "down" /\ verdict[p].reason = "timeout" ->
                 probeTimeoutMs <= MaxDelay => waited >= probeTimeoutMs
            [] verdict[p].status = "down" /\ verdict[p].reason = "error" ->
                 /\ ping[p] \in {"other", "error", "coded error"}
                 /\ verdict[p].code # Null <=> ping[p] = "coded error"
            [] verdict[p].status = "degraded" ->
                 ping[p] = "PONG" /\ verdict[p].latencyMs = waited /\ waited > degradedAboveMs
            [] verdict[p].status = "up" ->
                 ping[p] = "PONG" /\ verdict[p].latencyMs = waited /\ waited <= degradedAboveMs
            [] OTHER -> FALSE

(* What a text of INFO says last of a field.                               *)
Said(lines, name) ==
  LET about == {i \in DOMAIN lines : ~lines[i].header /\ lines[i].name = name}
  IN  {lines[i].value : i \in {j \in about : \A k \in about : k <= j}}

Measured(lines, name, number) ==
  IF number = Null THEN \A v \in Said(lines, name) : v.number = Null
                   ELSE \E v \in Said(lines, name) : v.number = number

Spelled(lines, name, text) ==
  IF text = Null THEN Said(lines, name) = {}
                 ELSE \E v \in Said(lines, name) : v.text = text

(* What the server did not say is null, never a zero, a false or a ceiling *)
(* that reads as none; what it said last of a field is what is read, and   *)
(* only a spelling that the field does not have is dropped.                *)
TrueOf(lines, s) ==
  /\ Spelled(lines, "redis_version", s.redisVersion)
  /\ Measured(lines, "used_memory", s.usedBytes)
  /\ Measured(lines, "rdb_last_save_time", s.rdbLastSaveAt)
  /\ LET ceilings == Said(lines, "maxmemory")
     IN  CASE s.max.kind = "unreported" -> \A v \in ceilings : v.number = Null
           [] s.max.kind = "unbounded"  -> \E v \in ceilings : v.text = "0"
           [] s.max.kind = "limited"    ->
                \E v \in ceilings : v.number = s.max.bytes /\ v.number # Null /\ v.text # "0"
           [] OTHER -> FALSE
  /\ IF s.aofEnabled = Null THEN Said(lines, "aof_enabled") = {}
     ELSE s.aofEnabled <=> \E v \in Said(lines, "aof_enabled") : v.text = "1"
  /\ s.role = IF \E v \in Said(lines, "role") : v.text = "slave" THEN "replica" ELSE "master"
  /\ IF s.rdbLastBgsaveStatus = Null
     THEN \A v \in Said(lines, "rdb_last_bgsave_status") : v.text \notin {"ok", "err"}
     ELSE /\ s.rdbLastBgsaveStatus \in {"ok", "err"}
          /\ Spelled(lines, "rdb_last_bgsave_status", s.rdbLastBgsaveStatus)

(* A reading is true of what INFO said, and only an instant beyond every   *)
(* Date loses it (parse-info.ts:99-189).                                   *)
StatsAreTrue ==
  /\ info # Null /\ ~threw => TrueOf(info, stats)
  /\ threw => \E v \in Said(info, "rdb_last_save_time") :
                v.number # Null /\ v.number \notin -MaxDate .. MaxDate

(* What health answers is true of the PING that it raced, however late     *)
(* reply, timer and rejection come, and what stats answers is true of what *)
(* INFO said (cache-status.service.ts:60-75, 176-178, 212-231).            *)
VerdictIsTrue == StatusTypeOK /\ TimersCleared /\ VerdictOfRace /\ StatsAreTrue

(* Every health call settles, though Redis never answers its PING          *)
(* (cache-status.service.ts:46-75).                                        *)
HealthSettles == \A p \in Probes : stage[p] = "racing" ~> stage[p] = "done"
=============================================================================
