--------------------------- MODULE MCCacheStatus ---------------------------
(* A small instance of CacheStatus: texts of INFO of up to two lines, and  *)
(* headers, blank lines, empty values and a time beyond a Date among them. *)
EXTENDS CacheStatus
CONSTANTS p1, p2
Line(name, text, number) == [header |-> FALSE, name |-> name, value |-> [text |-> text, number |-> number]]
Lines ==
  {Line("used_memory", "0", 0), Line("used_memory", "7", 7), Line("used_memory", "", Null),
   Line("maxmemory", "0", 0), Line("maxmemory", "7", 7), Line("maxmemory", "0x7", Null),
   Line("rdb_last_save_time", "7", 7), Line("rdb_last_save_time", "9", 9),
   Line("rdb_last_bgsave_status", "ok", Null), Line("rdb_last_bgsave_status", "err", Null),
   Line("rdb_last_bgsave_status", "unknown", Null),
   Line("aof_enabled", "1", 1), Line("aof_enabled", "0", 0),
   Line("role", "slave", Null), Line("role", "master", Null),
   Line("redis_version", "7.4", Null), Line("", "0", 0),
   [Line("used_memory", "7", 7) EXCEPT !.header = TRUE]}
MCInfos == UNION {[1 .. n -> Lines] : n \in 0 .. 2}
=============================================================================
