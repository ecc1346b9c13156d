----------------------------- MODULE RedisInfo -----------------------------
(***************************************************************************)
(* src/src/admin/utils/parse-info.ts: the text of INFO as a reading.  A    *)
(* text is a sequence of lines; a line is [header, name, value], where a   *)
(* blank line has no name, and a value is [text, number]: its spelling,    *)
(* and the number it reads as, Null when it is no finite decimal number.   *)
(***************************************************************************)
EXTENDS Integers, Sequences, FiniteSetsExt

CONSTANTS
  Null,      \* null
  MaxDate    \* the last second that a Date can hold

(* The value of each field, of two lines with one name the later.          *)
ParseInfoFields(lines) ==
  LET named   == {i \in DOMAIN lines : ~lines[i].header /\ lines[i].name # ""}
      last(n) == Max({i \in named : lines[i].name = n})
  IN  [n \in {lines[i].name : i \in named} |-> lines[last(n)].value]

Text(fields, name) == IF name \in DOMAIN fields THEN fields[name].text ELSE Null
Num(fields, name)  == IF name \in DOMAIN fields THEN fields[name].number ELSE Null

MaxMemory(fields) ==
  LET value == Num(fields, "maxmemory")
  IN  CASE value = Null              -> [kind |-> "unreported"]
        [] value # Null /\ value = 0 -> [kind |-> "unbounded"]
        [] OTHER                     -> [kind |-> "limited", bytes |-> value]

(* toISOString throws on an instant that a Date cannot hold.               *)
LastSaveHolds(fields) ==
  LET seconds == Num(fields, "rdb_last_save_time")
  IN  seconds = Null \/ seconds \in -MaxDate .. MaxDate

BgsaveStatus(fields) ==
  LET raw == Text(fields, "rdb_last_bgsave_status") IN IF raw \in {"ok", "err"} THEN raw ELSE Null

AofEnabled(fields) ==
  LET raw == Text(fields, "aof_enabled") IN IF raw = Null THEN Null ELSE raw = "1"

Role(fields) == IF Text(fields, "role") = "slave" THEN "replica" ELSE "master"

(* One field of each kind: the others are read as usedBytes, or as         *)
(* redisVersion.                                                           *)
ReadRedisStats(fields) ==
  [redisVersion |-> Text(fields, "redis_version"),
   usedBytes |-> Num(fields, "used_memory"),
   max |-> MaxMemory(fields),
   rdbLastSaveAt |-> Num(fields, "rdb_last_save_time"),
   rdbLastBgsaveStatus |-> BgsaveStatus(fields),
   aofEnabled |-> AofEnabled(fields),
   role |-> Role(fields)]
=============================================================================
