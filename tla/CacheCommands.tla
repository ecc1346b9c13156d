--------------------------- MODULE CacheCommands ---------------------------
(***************************************************************************)
(* The commands of src/src/server/services/cache.service.ts, over a        *)
(* connection that may drop, reject, time out or repeat a command.         *)
(*                                                                         *)
(* A text stored in Redis is an integer, the JSON of a value of Values (it *)
(* stands for its own JSON), a text of Raws that is no JSON, or EmptyText. *)
(* A call of Calls is one invocation of a method: it keeps what was asked, *)
(* the Redis command it became, and how it settled.                        *)
(***************************************************************************)
EXTENDS Integers, Sequences, FiniteSets, SequencesExt

CONSTANTS
  Calls,        \* invocations of the methods
  Ids,          \* ids of keys, under one prefix
  EmptyId,      \* the empty id, which KeyBuilder refuses
  Values,       \* values other than integers that JSON can hold
  Unencodable,  \* a value JSON.stringify throws on, undefined, a function
  Vanishing,    \* a value whose toJSON answers undefined
  EmptyText,    \* the empty text, which is no JSON
  Raws,         \* texts that are no JSON
  Fields,       \* fields of hashes
  Members,      \* members of sets
  Given,        \* ids passed to a method, EmptyId among them
  Writes,       \* arguments of set and setNx: id, value and TTL
  RawWrites,    \* arguments of setRaw
  Steps,        \* amounts of incr and decr
  Batches,      \* sequences of ids passed to mget and mset
  InitialStores,\* what Redis may hold before the calls
  Ttls,         \* TTLs passed to expire
  NotAnInteger, \* a TTL that is no safe integer
  MaxTtl,       \* bound on the TTLs
  MaxDrops,     \* bound on the losses of the connection
  Nil,          \* null: of Redis and of the methods
  ErrorReply    \* an error reply of Redis

NoTtl == -1     \* no TTL; also the answer of TTL for a key without one

ASSUME CommandsAssumption ==
  /\ IsFiniteSet(Calls) /\ IsFiniteSet(Ids) /\ EmptyId \notin Ids
  /\ Given \subseteq Ids \union {EmptyId} /\ Steps \subseteq Int
  /\ Ttls \subseteq Int \union {NotAnInteger} /\ NotAnInteger \notin Int
  /\ MaxTtl \in Nat \ {0} /\ MaxDrops \in Nat
  /\ "OK" \notin {Nil, ErrorReply} /\ Nil \notin Values \union Raws \union {EmptyText}

VARIABLES
  store,    \* the keys of the namespace in Redis
  removed,  \* keys that were removed at least once
  began,    \* what Redis held before the calls
  up,       \* the connection is ready
  drops,    \* how often it was lost
  queue,    \* calls whose command awaits its reply, oldest first
  ran,      \* how many of them were executed over this connection
  stray,    \* calls whose command a lost connection may still execute
  asked,    \* the method and the arguments of each call
  command,  \* its Redis command
  reply,    \* the last reply of Redis to it
  phase,    \* its progress
  result    \* what it resolved with

server == <<store, removed, began>>
wire   == <<up, drops, queue, ran, stray>>
calls  == <<asked, command, reply, phase, result>>
vars   == <<server, wire, calls>>

-----------------------------------------------------------------------------
(* What a method is asked, the arguments of those that write, and the      *)
(* commands that methods share.                                            *)
Asks(method, id)          == [method |-> method, ids |-> {id}]
AsksSet(method, id, v, t) == [method |-> method, ids |-> {id}, value |-> v, ttl |-> t]
AsksBy(method, id, n)     == [method |-> method, ids |-> {id}, by |-> n]
AsksFor(id, m)            == [method |-> "sismember", ids |-> {id}, member |-> m]

Write(id, v, t) == [id |-> id, value |-> v, ttl |-> t]

On(name, id)             == [name |-> name, key |-> id]
Setting(id, text, t, nx) == [ttl |-> t, name |-> "SET", key |-> id, text |-> text, nx |-> nx]
IncrBy(id, n)            == [by |-> n, name |-> "INCRBY", key |-> id]

TtlArgument(t) == t = NotAnInteger \/ (t \in Int /\ t <= MaxTtl)

ASSUME ArgumentsAssumption ==
  /\ \A a \in Writes \union RawWrites : a.id \in Ids \union {EmptyId} /\ TtlArgument(a.ttl)
  /\ \A t \in Ttls : TtlArgument(t)
  /\ Batches \subseteq Seq(Ids \union {EmptyId})

-----------------------------------------------------------------------------
(* The keyspace: an entry has a type, its data and a TTL.                  *)

Absent == [type |-> "none"]
Entry(type, data, ttl) == [ttl |-> ttl, type |-> type, data |-> data]
Has(s, k) == s[k] # Absent

(* What a keyspace is.                                                     *)
IsStore(s) ==
  /\ DOMAIN s = Ids
  /\ \A k \in Ids :
       Has(s, k) => /\ s[k] = Entry(s[k].type, s[k].data, s[k].ttl)
                    /\ s[k].type \in {"string", "hash", "set"}
                    /\ s[k].ttl \in {NoTtl} \union 1 .. MaxTtl

ASSUME StoresAssumption == \A s \in InitialStores : IsStore(s)

(* What is gone after a step.                                              *)
Lost(before, after) == {k \in Ids : Has(before, k) /\ ~Has(after, k)}

(* A command on a key of another type is an error.                         *)
IsA(s, k, type) == s[k] = Absent \/ s[k].type = type

IsCounter(s, k) == Has(s, k) /\ s[k].type = "string" /\ s[k].data \in Int

Text(s, k)    == IF Has(s, k) THEN s[k].data ELSE Nil
HashAt(s, k)  == IF Has(s, k) THEN s[k].data ELSE <<>>
SetAt(s, k)   == IF Has(s, k) THEN s[k].data ELSE {}
KeptTtl(s, k) == IF Has(s, k) THEN s[k].ttl ELSE NoTtl

Put(s, k, e) == [s EXCEPT ![k] = e]
Drop(s, ks)  == [k \in Ids |-> IF k \in ks THEN Absent ELSE s[k]]

(* Redis drops a hash or a set with its last element.                      *)
PutHash(s, k, h) ==
  IF DOMAIN h = {} THEN Drop(s, {k}) ELSE Put(s, k, Entry("hash", h, KeptTtl(s, k)))
PutSet(s, k, m) ==
  IF m = {} THEN Drop(s, {k}) ELSE Put(s, k, Entry("set", m, KeptTtl(s, k)))

(* What an execution does to the keyspace and answers.                     *)
Did(s, r) == [store |-> s, reply |-> r]
Error(s)  == Did(s, ErrorReply)

RunSet(s, q) ==
  IF q.ttl # NoTtl /\ q.ttl < 1 THEN Error(s)
  ELSE IF q.nx /\ Has(s, q.key) THEN Did(s, Nil)
  ELSE Did(Put(s, q.key, Entry("string", q.text, q.ttl)), "OK")

RunMset(s, q) ==
  LET at(k) == {i \in DOMAIN q.pairs : q.pairs[i].key = k}
  IN  Did([k \in Ids |-> IF at(k) = {} THEN s[k] ELSE Entry("string", q.pairs[Max(at(k))].text, NoTtl)], "OK")

RunIncrBy(s, q) ==
  LET now == IF Has(s, q.key) THEN s[q.key].data ELSE 0
  IN  IF ~Has(s, q.key) \/ IsCounter(s, q.key)
      THEN Did(Put(s, q.key, Entry("string", now + q.by, KeptTtl(s, q.key))), now + q.by)
      ELSE Error(s)

RunExpire(s, q) ==
  CASE ~Has(s, q.key)              -> Did(s, 0)
    [] Has(s, q.key) /\ q.ttl <= 0 -> Did(Drop(s, {q.key}), 1)
    [] Has(s, q.key) /\ q.ttl > 0  -> Did([s EXCEPT ![q.key].ttl = q.ttl], 1)

RunHash(s, q) ==
  LET h == HashAt(s, q.key)
  IN  IF ~IsA(s, q.key, "hash") THEN Error(s)
      ELSE CASE q.name = "HGET" -> Did(s, IF q.field \in DOMAIN h THEN h[q.field] ELSE Nil)
        [] q.name = "HGETALL" -> Did(s, h)
        [] q.name = "HSET"    -> Did(PutHash(s, q.key, (q.field :> q.text) @@ h),
                                     IF q.field \in DOMAIN h THEN 0 ELSE 1)
        [] q.name = "HDEL"    -> Did(PutHash(s, q.key, Restrict(h, DOMAIN h \ q.fields)),
                                     Cardinality(DOMAIN h \intersect q.fields))

RunMembers(s, q) ==
  LET m == SetAt(s, q.key)
  IN  IF ~IsA(s, q.key, "set") THEN Error(s)
      ELSE CASE q.name = "SADD" -> Did(PutSet(s, q.key, m \union q.members),
                                       Cardinality(q.members \ m))
        [] q.name = "SREM"      -> Did(PutSet(s, q.key, m \ q.members),
                                       Cardinality(q.members \intersect m))
        [] q.name = "SMEMBERS"  -> Did(s, m)
        [] q.name = "SISMEMBER" -> Did(s, IF q.member \in m THEN 1 ELSE 0)
        [] q.name = "SCARD"     -> Did(s, Cardinality(m))

Run(s, q) ==
  CASE q.name = "GET"     -> IF IsA(s, q.key, "string") THEN Did(s, Text(s, q.key)) ELSE Error(s)
    [] q.name = "MGET"    -> Did(s, [i \in DOMAIN q.keys |->
                                       IF IsA(s, q.keys[i], "string") THEN Text(s, q.keys[i]) ELSE Nil])
    [] q.name = "SET"     -> RunSet(s, q)
    [] q.name = "MSET"    -> RunMset(s, q)
    [] q.name = "INCRBY"  -> RunIncrBy(s, q)
    [] q.name = "DEL"     -> Did(Drop(s, q.keys), Cardinality({k \in q.keys : Has(s, k)}))
    [] q.name = "EXISTS"  -> Did(s, IF Has(s, q.key) THEN 1 ELSE 0)
    [] q.name = "EXPIRE"  -> RunExpire(s, q)
    [] q.name = "TTL"     -> Did(s, IF Has(s, q.key) THEN s[q.key].ttl ELSE -2)
    [] q.name = "PERSIST" -> IF Has(s, q.key) /\ s[q.key].ttl # NoTtl
                             THEN Did([s EXCEPT ![q.key].ttl = NoTtl], 1) ELSE Did(s, 0)
    [] q.name \in {"HGET", "HGETALL", "HSET", "HDEL"} -> RunHash(s, q)
    [] q.name \in {"SADD", "SREM", "SMEMBERS", "SISMEMBER", "SCARD"} -> RunMembers(s, q)
    [] q.name = "KEYS"    -> Did(s, {k \in Ids : Has(s, k)})
    [] q.name = "PING"    -> Did(s, "PONG")
    [] q.name = "INFO"    -> Did(s, "INFO")

-----------------------------------------------------------------------------
(* The connection. Commands are sent and answered in order; the ones       *)
(* without a reply are sent again over the next connection.                *)

(* Redis executes the oldest command it has not executed yet.              *)
Execute ==
  /\ up
  /\ ran < Len(queue)
  /\ LET c == queue[ran + 1]
         d == Run(store, command[c])
     IN  /\ store' = d.store
         /\ removed' = removed \union Lost(store, d.store)
         /\ reply' = [reply EXCEPT ![c] = d.reply]
  /\ ran' = ran + 1
  /\ UNCHANGED <<began, up, drops, queue, stray, asked, command, phase, result>>

(* The connection is lost, with the replies under way. What was sent over  *)
(* it and not executed may still reach Redis.                              *)
Lose ==
  /\ up
  /\ drops < MaxDrops
  /\ up' = FALSE
  /\ drops' = drops + 1
  /\ stray' = stray \union {queue[i] : i \in ran + 1 .. Len(queue)}
  /\ ran' = 0
  /\ UNCHANGED <<server, queue, calls>>

RunStray(c) ==
  /\ c \in stray
  /\ stray' = stray \ {c}
  /\ LET d == Run(store, command[c])
     IN  /\ store' = d.store
         /\ removed' = removed \union Lost(store, d.store)
  /\ UNCHANGED <<began, up, drops, queue, ran, calls>>

Reconnect ==
  /\ ~up
  /\ up' = TRUE
  /\ UNCHANGED <<server, drops, queue, ran, stray, calls>>

(* A TTL elapses by a second; at its end the key expires.                  *)
Tick ==
  /\ \E k \in Ids : Has(store, k) /\ store[k].ttl # NoTtl
  /\ store' = [k \in Ids |->
                 IF ~Has(store, k) \/ store[k].ttl = NoTtl THEN store[k]
                 ELSE IF store[k].ttl = 1 THEN Absent
                 ELSE [store[k] EXCEPT !.ttl = @ - 1]]
  /\ removed' = removed \union Lost(store, store')
  /\ UNCHANGED <<began, wire, calls>>

-----------------------------------------------------------------------------
(* How a call settles.                                                     *)

(* deserialize throws on a text that is no JSON.                           *)
Parses(text) == text \notin Raws \union {EmptyText}

(* The texts a method deserializes from the reply r.                       *)
Parsed(method, r) ==
  CASE method \in {"get", "hget"}     -> {r} \ {Nil}
    [] method \in {"mget", "hgetall"} -> {r[x] : x \in DOMAIN r} \ {Nil}
    [] OTHER                          -> {}

Rejects(method, r) == r = ErrorReply \/ \E text \in Parsed(method, r) : ~Parses(text)

(* Mutant: 0 counts as done.                                               *)
ResolvedLoosely(method, r) ==
  CASE method = "setNx"                              -> r = "OK"
    [] method \in {"expire", "persist", "sismember"} -> r >= 0
    [] method = "exists"                             -> r > 0
    [] method = "isHealthy"                          -> r = "PONG"
    [] method \in {"set", "setRaw", "mset"}          -> Nil
    [] OTHER                                         -> r

(* What the method resolves with.                                          *)
Resolved(method, r) ==
  CASE method = "setNx"                              -> r = "OK"
    [] method \in {"expire", "persist", "sismember"} -> r = 1
    [] method = "exists"                             -> r > 0
    [] method = "isHealthy"                          -> r = "PONG"
    [] method \in {"set", "setRaw", "mset"}          -> Nil
    [] OTHER                                         -> r

(* The calls cs reject; isHealthy catches every error and answers false.   *)
Reject(cs) ==
  LET caught == {c \in cs : asked'[c].method = "isHealthy"}
  IN  /\ phase' = [c \in Calls |-> CASE c \in caught -> "resolved"
                                     [] c \in cs \ caught -> "rejected"
                                     [] OTHER        -> phase[c]]
      /\ result' = [c \in Calls |-> IF c \in caught THEN FALSE ELSE result[c]]

(* The oldest reply arrives. A call that timed out no longer awaits it.    *)
Reply ==
  /\ up
  /\ ran > 0
  /\ reply' = [reply EXCEPT ![Head(queue)] = Nil]
  /\ UNCHANGED <<server, up, drops, stray, asked, command>>
  /\ LET c == Head(queue)
         r == reply[c]
     IN  CASE phase[c] # "waiting" -> UNCHANGED <<phase, result>>
           [] phase[c] = "waiting" /\ Rejects(asked[c].method, r) -> Reject({c})
           [] OTHER -> /\ phase' = [phase EXCEPT ![c] = "resolved"]
                       /\ result' = [result EXCEPT ![c] = Resolved(asked[c].method, r)]
  /\ queue' = Tail(queue)
  /\ ran' = ran - 1

(* commandTimeout rejects the call; its command stays on the wire.         *)
TimeOut(c) ==
  /\ phase[c] = "waiting"
  /\ UNCHANGED <<server, wire, asked, command, reply>>
  /\ Reject({c})

(* maxRetriesPerRequest is reached: the driver rejects what it holds.      *)
GiveUp ==
  /\ ~up
  /\ queue # <<>>
  /\ queue' = <<>>
  /\ UNCHANGED <<server, up, drops, ran, stray, asked, command, reply>>
  /\ Reject({c \in Calls : phase[c] = "waiting"})

-----------------------------------------------------------------------------
(* The methods: what each checks before it sends, and what it sends.       *)

(* build refuses an empty id, serialize a value JSON cannot hold; the      *)
(* serializer does not notice that a value vanished, and the driver writes *)
(* the empty text for it.                                                  *)
Builds(ids)   == EmptyId \notin ids
Serializes(v) == v # Unencodable
JsonOf(v)     == IF v = Vanishing THEN EmptyText ELSE v

(* assertTtlSeconds.                                                       *)
MinWriteTtl == 1
TtlHolds(t, minimum) == t # NotAnInteger /\ t >= minimum
WriteTtlHolds(t)     == t = NoTtl \/ TtlHolds(t, MinWriteTtl)
ExpireTtlHolds(t)    == t # NotAnInteger

(* A call of a method that fails its checks rejects before anything is     *)
(* sent; so does any command while the client is not ready.                *)
Issue(c, request, checks, q) ==
  /\ phase[c] = "idle"
  /\ asked' = [asked EXCEPT ![c] = request]
  /\ UNCHANGED <<server, up, drops, ran, stray, reply>>
  /\ IF checks /\ up
     THEN /\ phase' = [phase EXCEPT ![c] = "waiting"]
          /\ command' = [command EXCEPT ![c] = q]
          /\ queue' = Append(queue, c)
          /\ UNCHANGED result
     ELSE /\ Reject({c})
          /\ UNCHANGED <<command, queue>>

(* A method with nothing to do resolves without a command.                 *)
Skip(c, request, v) ==
  /\ phase[c] = "idle"
  /\ asked' = [asked EXCEPT ![c] = request]
  /\ phase' = [phase EXCEPT ![c] = "resolved"]
  /\ result' = [result EXCEPT ![c] = v]
  /\ UNCHANGED <<server, wire, command, reply>>

Get(c, id)    == Issue(c, Asks("get", id), Builds({id}), On("GET", id))
GetRaw(c, id) == Issue(c, Asks("getRaw", id), Builds({id}), On("GET", id))

(* Mutant: the TTL is checked and not sent.                                *)
SetForever(c, id, v, t) ==
  Issue(c, AsksSet("set", id, v, t), Builds({id}) /\ Serializes(v) /\ WriteTtlHolds(t),
        Setting(id, JsonOf(v), NoTtl, FALSE))

Set(c, id, v, t) ==
  Issue(c, AsksSet("set", id, v, t), Builds({id}) /\ Serializes(v) /\ WriteTtlHolds(t),
        Setting(id, JsonOf(v), t, FALSE))
SetRaw(c, id, text, t) ==
  Issue(c, AsksSet("setRaw", id, text, t), Builds({id}) /\ WriteTtlHolds(t),
        Setting(id, text, t, FALSE))

(* Mutant: NX is not sent.                                                 *)
SetAlways(c, id, v, t) ==
  Issue(c, AsksSet("setNx", id, v, t), Builds({id}) /\ Serializes(v) /\ WriteTtlHolds(t),
        Setting(id, JsonOf(v), t, FALSE))

SetNx(c, id, v, t) ==
  Issue(c, AsksSet("setNx", id, v, t), Builds({id}) /\ Serializes(v) /\ WriteTtlHolds(t),
        Setting(id, JsonOf(v), t, TRUE))

Del(c, id) == Issue(c, Asks("del", id), Builds({id}), [name |-> "DEL", keys |-> {id}])
DelMany(c, ids) ==
  LET request == [method |-> "delMany", ids |-> ids]
  IN  IF ids = {} THEN Skip(c, request, 0)
      ELSE Issue(c, request, Builds(ids), [name |-> "DEL", keys |-> ids])
Exists(c, id) == Issue(c, Asks("exists", id), Builds({id}), On("EXISTS", id))

Incr(c, id, by) ==
  Issue(c, AsksBy("incr", id, by), Builds({id}), IncrBy(id, by))
Decr(c, id, by) ==
  Issue(c, AsksBy("decr", id, by), Builds({id}), IncrBy(id, -by))

Expire(c, id, t) ==
  Issue(c, [method |-> "expire", ids |-> {id}, ttl |-> t], ExpireTtlHolds(t) /\ Builds({id}),
        [ttl |-> t, name |-> "EXPIRE", key |-> id])
Ttl(c, id)     == Issue(c, Asks("ttl", id), Builds({id}), On("TTL", id))
Persist(c, id) == Issue(c, Asks("persist", id), Builds({id}), On("PERSIST", id))

(* ids and entries are sequences: the answers of mget are in their order.  *)
Mget(c, ids) ==
  LET request == [method |-> "mget", ids |-> ToSet(ids), order |-> ids]
  IN  IF ids = <<>> THEN Skip(c, request, <<>>)
      ELSE Issue(c, request, Builds(ToSet(ids)), [name |-> "MGET", keys |-> ids])
Mset(c, entries) ==
  LET request == [method |-> "mset", ids |-> {entries[i].id : i \in DOMAIN entries},
                  entries |-> entries]
  IN  IF entries = <<>> THEN Skip(c, request, Nil)
      ELSE Issue(c, request, \A i \in DOMAIN entries : Builds({entries[i].id}) /\ Serializes(entries[i].value),
                 [name |-> "MSET", pairs |-> [i \in DOMAIN entries |->
                    [key |-> entries[i].id, text |-> JsonOf(entries[i].value)]]])

Hget(c, id, f) ==
  Issue(c, Asks("hget", id), Builds({id}), [name |-> "HGET", key |-> id, field |-> f])
Hset(c, id, f, v) ==
  Issue(c, Asks("hset", id), Builds({id}) /\ Serializes(v),
        [name |-> "HSET", key |-> id, text |-> JsonOf(v), field |-> f])
Hgetall(c, id) == Issue(c, Asks("hgetall", id), Builds({id}), On("HGETALL", id))
Hdel(c, id, fs) ==
  IF fs = {} THEN Skip(c, Asks("hdel", id), 0)
  ELSE Issue(c, Asks("hdel", id), Builds({id}), [name |-> "HDEL", key |-> id, fields |-> fs])

Sadd(c, id, ms) ==
  IF ms = {} THEN Skip(c, Asks("sadd", id), 0)
  ELSE Issue(c, Asks("sadd", id), Builds({id}), [name |-> "SADD", key |-> id, members |-> ms])
Srem(c, id, ms) ==
  IF ms = {} THEN Skip(c, Asks("srem", id), 0)
  ELSE Issue(c, Asks("srem", id), Builds({id}), [name |-> "SREM", key |-> id, members |-> ms])
Smembers(c, id) == Issue(c, Asks("smembers", id), Builds({id}), On("SMEMBERS", id))
Sismember(c, id, m) ==
  Issue(c, AsksFor(id, m), Builds({id}), [name |-> "SISMEMBER", key |-> id, member |-> m])
Scard(c, id) == Issue(c, Asks("scard", id), Builds({id}), On("SCARD", id))

Keys(c)      == Issue(c, [method |-> "keys", ids |-> {}], TRUE, [name |-> "KEYS"])
Ping(c)      == Issue(c, [method |-> "ping", ids |-> {}], TRUE, [name |-> "PING"])
IsHealthy(c) == Issue(c, [method |-> "isHealthy", ids |-> {}], TRUE, [name |-> "PING"])
Info(c)      == Issue(c, [method |-> "info", ids |-> {}], TRUE, [name |-> "INFO"])

-----------------------------------------------------------------------------
AnyValue == Values \union {Unencodable, Vanishing}

StringCall(c) ==
  \/ \E id \in Given : Get(c, id) \/ GetRaw(c, id) \/ Del(c, id) \/ Exists(c, id)
  \/ \E a \in Writes : Set(c, a.id, a.value, a.ttl) \/ SetNx(c, a.id, a.value, a.ttl)
  \/ \E a \in RawWrites : SetRaw(c, a.id, a.value, a.ttl)
  \/ \E ids \in SUBSET Ids : DelMany(c, ids)
  \/ \E id \in Given, n \in Steps : Incr(c, id, n) \/ Decr(c, id, n)

ExpiryCall(c) ==
  \/ \E id \in Given, t \in Ttls : Expire(c, id, t)
  \/ \E id \in Given : Ttl(c, id) \/ Persist(c, id)

BatchCall(c) ==
  \E ids \in Batches :
    \/ Mget(c, ids)
    \/ \E v \in AnyValue : Mset(c, [i \in DOMAIN ids |-> [id |-> ids[i], value |-> v]])

HashCall(c) ==
  \E id \in Given, f \in Fields :
    \/ Hget(c, id, f)
    \/ \E v \in AnyValue : Hset(c, id, f, v)
    \/ Hgetall(c, id)
    \/ \E fs \in SUBSET Fields : Hdel(c, id, fs)

SetCall(c) ==
  \E id \in Given, m \in Members :
    \/ \E ms \in SUBSET Members : Sadd(c, id, ms) \/ Srem(c, id, ms)
    \/ Smembers(c, id) \/ Sismember(c, id, m) \/ Scard(c, id)

Call(c) ==
  \/ StringCall(c) \/ ExpiryCall(c) \/ BatchCall(c) \/ HashCall(c) \/ SetCall(c)
  \/ Keys(c) \/ Ping(c) \/ IsHealthy(c) \/ Info(c)

Init ==
  /\ store \in InitialStores
  /\ removed = {} /\ began = store
  /\ up = TRUE
  /\ drops = 0
  /\ queue = <<>>
  /\ ran = 0
  /\ stray = {}
  /\ asked = [c \in Calls |-> [method |-> "none", ids |-> {}]]
  /\ command = [c \in Calls |-> [name |-> "none"]]
  /\ reply = [c \in Calls |-> Nil]
  /\ phase = [c \in Calls |-> "idle"]
  /\ result = [c \in Calls |-> Nil]

Next ==
  \/ \E c \in Calls : Call(c) \/ TimeOut(c) \/ RunStray(c)
  \/ Execute \/ Reply \/ Lose \/ Reconnect \/ GiveUp \/ Tick

Spec == Init /\ [][Next]_vars

-----------------------------------------------------------------------------
(* Types, and what is on the wire: a call that waits is in the queue, once.*)
TypeOK ==
  /\ IsStore(store)
  /\ removed \subseteq Ids /\ stray \subseteq Calls
  /\ up \in BOOLEAN
  /\ drops \in 0 .. MaxDrops
  /\ ran \in 0 .. Len(queue)
  /\ phase \in [Calls -> {"idle", "waiting", "resolved", "rejected"}]
  /\ IsInjective(queue)
  /\ {c \in Calls : phase[c] = "waiting"} \subseteq ToSet(queue)

Creators == {"set", "setRaw", "setNx", "incr", "decr", "mset", "hset", "sadd"}
Users(k) == {c \in Calls : k \in asked[c].ids}
Uses(k, methods) == \A c \in Users(k) : asked[c].method \in methods
Settled(c, method) == phase[c] = "resolved" /\ asked[c].method = method
Won(c, k) == Settled(c, "setNx") /\ asked[c].ids = {k} /\ result[c]

(* setNx answers true to one call while the key stays: a lock has one      *)
(* owner, whatever is lost, repeated or late (cache.service.ts:163-186).   *)
OneWinner ==
  \A k \in Ids \ removed, c, d \in Calls : Won(c, k) /\ Won(d, k) => c = d

(* What setNx answered true for is what the key holds, with its TTL, until *)
(* another method changes it (cache.service.ts:177-186).                   *)
WinnerIsStored ==
  \A k \in Ids \ removed, c \in Calls :
    Won(c, k) /\ Uses(k, {"setNx", "get", "getRaw", "exists", "ttl", "mget"})
      => /\ store[k].data = JsonOf(asked[c].value)
         /\ store[k].ttl = NoTtl <=> asked[c].ttl = NoTtl

(* A key that is only ever written with a TTL is never left without one:   *)
(* value and TTL go in one command (cache.service.ts:132-186).             *)
ExpiryNeverLost ==
  \A k \in Ids :
    (/\ Has(store, k) /\ ~(Has(began, k) /\ began[k].ttl = NoTtl)
     /\ \A c \in Users(k) : asked[c].method \in {"set", "setRaw", "setNx"} => asked[c].ttl # NoTtl
     /\ Uses(k, {"set", "setRaw", "setNx", "get", "getRaw", "exists", "ttl", "del", "expire"}))
    => store[k].ttl # NoTtl

(* Locks taken with setNx, as a program relies on them                     *)
(* (cache.service.ts:163-186).                                             *)
LocksHold == TypeOK /\ OneWinner /\ WinnerIsStored

(* The amount each call asks to add, and what a counter began with.        *)
Amounts ==
  [c \in Calls |-> CASE asked[c].method = "incr" -> asked[c].by
                     [] asked[c].method = "decr" -> -asked[c].by
                     [] OTHER                    -> 0]
Base(k)      == IF IsCounter(began, k) THEN began[k].data ELSE 0
Confirmed(k) == SumFunctionOnSet(Amounts, {c \in Users(k) : phase[c] = "resolved"})

(* A confirmed incr or decr is in the counter, though a repeated one may   *)
(* be in it twice (cache.service.ts:237-258).                              *)
ConfirmedCounted ==
  \A k \in Ids \ removed :
    IsCounter(store, k) /\ Uses(k, {"incr", "decr"})
      => /\ (\A c \in Users(k) : Amounts[c] >= 0) => store[k].data >= Base(k) + Confirmed(k)
         /\ (\A c \in Users(k) : Amounts[c] <= 0) => store[k].data <= Base(k) + Confirmed(k)

(* The keys ks hold a value together or not at all, and none can lapse.    *)
Holds(s, k) == Has(s, k) /\ s[k].type = "string" /\ s[k].data \in Values
Even(s, ks) ==
  \A i, j \in ks : Holds(s, i) => Holds(s, j) /\ s[i].ttl = NoTtl

(* The keys ks are read, and written only together.                        *)
Together(ks) ==
  \A d \in Calls :
    \/ asked[d].ids \intersect ks = {}
    \/ asked[d].method \in {"get", "getRaw", "mget", "exists", "ttl"}
    \/ asked[d].method = "mset" /\ asked[d].ids = ks

(* mset writes all its keys at once, and mget answers by position: a mget  *)
(* never sees half of a mset (cache.service.ts:317-344).                   *)
BatchesWhole ==
  \A c \in Calls :
    Settled(c, "mget") =>
      /\ DOMAIN result[c] = DOMAIN asked[c].order
      /\ Even(began, asked[c].ids) /\ Together(asked[c].ids)
           => \A i, j \in DOMAIN result[c] : result[c][i] \in Values => result[c][j] \in Values

(* What writes promise beyond their own reply: a TTL is kept, a confirmed  *)
(* increment counts, a batch is whole (cache.service.ts:132-344).          *)
WritesHold == ExpiryNeverLost /\ ConfirmedCounted /\ BatchesWhole

(* A typed read never resolves with a text that is no JSON: it rejects     *)
(* (json-serializer.ts:83-107).                                            *)
NoUnparsedRead ==
  \A c \in Calls :
    /\ Settled(c, "get") \/ Settled(c, "hget") => result[c] \notin Raws \union {EmptyText}
    /\ Settled(c, "mget") \/ Settled(c, "hgetall")
         => \A x \in DOMAIN result[c] : result[c][x] \notin Raws \union {EmptyText}

(* While a key is only asked the same, what expire, persist, exists, ttl,  *)
(* sismember and scard answered still holds of it, however often a command *)
(* is repeated: a TTL that is not positive removes the key, and until it   *)
(* is removed a set has the members and the size that were answered        *)
(* (cache.service.ts:221-303, 476-492).                                    *)
AnswersHold ==
  \A c \in Calls, k \in Ids :
    phase[c] = "resolved" /\ asked[c].ids = {k} /\ Uses(k, {asked[c].method}) =>
      CASE asked[c].method = "expire" ->
             IF result[c]
             THEN ~Has(store, k) \/ (asked[c].ttl > 0 /\ store[k].ttl # NoTtl)
             ELSE ~Has(store, k)
        [] asked[c].method = "persist"   -> result[c] => Has(store, k) /\ store[k].ttl = NoTtl
        [] asked[c].method = "exists"    -> Has(store, k) => result[c]
        [] asked[c].method = "ttl"       -> Has(store, k) => result[c] # -2
        [] asked[c].method = "sismember" ->
             k \notin removed => (result[c] <=> asked[c].member \in SetAt(store, k))
        [] asked[c].method = "scard"     ->
             k \notin removed => result[c] = Cardinality(SetAt(store, k))
        [] OTHER -> TRUE

(* What callers are told is true: of texts that may be no JSON and of      *)
(* commands that may be repeated (cache.service.ts:99-492).                *)
ReadsHold == NoUnparsedRead /\ AnswersHold
=============================================================================
