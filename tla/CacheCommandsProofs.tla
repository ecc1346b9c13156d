-------------------------- MODULE CacheCommandsProofs --------------------------
(***************************************************************************)
(* Proofs, for any calls, keys, arguments, losses of the connection and    *)
(* lapses of TTLs, that locks taken with setNx hold, that what callers are *)
(* told is true, and that what writes promise is kept.                     *)
(***************************************************************************)
EXTENDS CacheCommands, FiniteSetTheorems, NaturalsInduction, WellFoundedInduction, TLAPS

-----------------------------------------------------------------------------
(* Numbers.                                                                *)

(* A set of natural numbers has a least element.                           *)
LEMMA LeastExists ==
  ASSUME NEW T, T \subseteq Nat, T # {}
  PROVE  \E m \in T : \A k \in T : m <= k
<1>1. PICK m \in T : \A k \in T : <<k, m>> \notin OpToRel(<, Nat)
  BY WFMin, NatLessThanWellFounded, Zenon
<1>2. \A k \in T : ~(k < m)
  BY <1>1, Zenon DEF OpToRel
<1> QED BY <1>2

(* And one below n a greatest, which Max is.                               *)
LEMMA MaxOfIndices ==
  ASSUME NEW n \in Nat, NEW T, T \subseteq 1 .. n, T # {}
  PROVE  Max(T) \in T /\ \A j \in T : (\A k \in T : k <= j) <=> j = Max(T)
<1> DEFINE U == {j \in 0 .. n : n - j \in T}
<1>1. PICK t \in T : TRUE
  OBVIOUS
<1>2. U \subseteq Nat /\ n - t \in U
  BY <1>1
<1>3. PICK u \in U : \A k \in U : u <= k
  BY <1>2, LeastExists, Zenon
<1>4. n - u \in T /\ u \in Nat
  BY <1>3
<1>5. ASSUME NEW k \in T PROVE n - u >= k
  <2>1. n - k \in U /\ k \in Nat
    OBVIOUS
  <2> QED BY <2>1, <1>3, <1>4
<1>6. \E m \in T : \A k \in T : m >= k
  BY <1>4, <1>5
<1>7. Max(T) \in T /\ \A k \in T : Max(T) >= k
  BY <1>6, Zenon DEF Max
<1>8. ASSUME NEW m \in T, \A k \in T : m >= k
      PROVE  \A j \in T : (\A k \in T : k <= j) <=> j = m
  BY <1>8
<1> QED BY <1>7, <1>8, Zenon

-----------------------------------------------------------------------------
(* Sums over finite sets.                                                  *)

(* Of subsets of a finite set, one has none of the others below it.        *)
LEMMA SmallestSet ==
  ASSUME NEW S, IsFiniteSet(S), NEW W, W \subseteq SUBSET S, W # {}
  PROVE  \E T \in W : \A U \in SUBSET T : U \in W => U = T
<1>1. \A T \in SUBSET S : IsFiniteSet(T) /\ Cardinality(T) \in Nat
  BY FS_Subset, FS_CardinalityType
<1> DEFINE sizes == {Cardinality(T) : T \in W}
<1>2. sizes \subseteq Nat /\ sizes # {}
  BY <1>1
<1> HIDE DEF sizes
<1>5. PICK m \in sizes : \A k \in sizes : m <= k
  BY <1>2, LeastExists, Zenon
<1> USE DEF sizes
<1>3. PICK T \in W : \A k \in sizes : Cardinality(T) <= k
  BY <1>5
<1>4. ASSUME NEW U \in SUBSET T, U \in W PROVE U = T
  <2>1. Cardinality(T) <= Cardinality(U) /\ IsFiniteSet(T)
    BY <1>1, <1>3, <1>4
  <2>2. Cardinality(U) <= Cardinality(T) /\ (Cardinality(U) = Cardinality(T) => U = T)
    BY <2>1, FS_Subset
  <2> QED BY <2>1, <2>2, <1>1, <1>4
<1> QED BY <1>4

First(s) == CHOOSE x \in s : TRUE

(* g adds up f, one element after the other.                               *)
Table(f, D, g) == g = [s \in D |-> IF s = {} THEN 0 ELSE f[First(s)] + g[s \ {First(s)}]]

LEMMA FirstOf ==
  ASSUME NEW s, s # {}
  PROVE  First(s) \in s
BY DEF First

(* There is such a g: it grows with the size of the sets.                  *)
LEMMA TableExists ==
  ASSUME NEW S, IsFiniteSet(S), NEW f
  PROVE  \E g : Table(f, SUBSET S, g)
<1> DEFINE Upto(n) == {s \in SUBSET S : Cardinality(s) <= n}
           missing == {n \in Nat : ~\E g : Table(f, Upto(n), g)}
<1>1. \A s \in SUBSET S : IsFiniteSet(s) /\ Cardinality(s) \in Nat
  BY FS_Subset, FS_CardinalityType
<1>2. ASSUME missing # {} PROVE FALSE
  <2>1. PICK m \in missing : \A k \in missing : m <= k
    BY <1>2, LeastExists
  <2>2. CASE m = 0
    <3>1. \A s \in Upto(m) : s = {}
      BY <2>2, <1>1, FS_EmptySet
    <3>2. Table(f, Upto(m), [s \in Upto(m) |-> 0])
      BY <3>1 DEF Table
    <3> QED BY <3>2
  <2>3. CASE m # 0
    <3>1. m - 1 \in Nat /\ m - 1 \notin missing
      <4>1. m \in Nat /\ m - 1 \in Nat /\ ~(m <= m - 1)
        BY <2>1, <2>3
      <4> HIDE DEF missing
      <4> QED BY <4>1, <2>1
    <3>2. PICK g : Table(f, Upto(m - 1), g)
      BY <3>1
    <3> DEFINE h == [s \in Upto(m) |-> IF s = {} THEN 0 ELSE f[First(s)] + g[s \ {First(s)}]]
    <3>3. \A s \in Upto(m - 1) : s \in Upto(m) /\ h[s] = g[s]
      <4>1. \A s \in Upto(m - 1) : s \in Upto(m)
        BY <1>1, <3>1
      <4>2. \A s \in Upto(m - 1) : g[s] = IF s = {} THEN 0 ELSE f[First(s)] + g[s \ {First(s)}]
        BY <3>2, Zenon DEF Table
      <4> QED BY <4>1, <4>2
    <3>4. \A s \in Upto(m) : s # {} => s \ {First(s)} \in Upto(m - 1)
      BY <1>1, <3>1, FirstOf, FS_RemoveElement
    <3>5. \A s \in Upto(m) : s # {} => h[s \ {First(s)}] = g[s \ {First(s)}]
      BY <3>3, <3>4
    <3> HIDE DEF Upto
    <3>6. h = [s \in Upto(m) |-> IF s = {} THEN 0 ELSE f[First(s)] + h[s \ {First(s)}]]
      <4> DEFINE k == [s \in Upto(m) |-> IF s = {} THEN 0 ELSE f[First(s)] + h[s \ {First(s)}]]
      <4>1. ASSUME NEW s \in Upto(m) PROVE h[s] = k[s]
        <5>1. CASE s = {}
          BY <5>1
        <5>2. CASE s # {}
          <6>1. h[s \ {First(s)}] = g[s \ {First(s)}]
            BY <5>2, <3>5
          <6>2. h[s] = f[First(s)] + g[s \ {First(s)}]
            BY <5>2
          <6>3. k[s] = f[First(s)] + h[s \ {First(s)}]
            BY <5>2
          <6> QED BY <6>1, <6>2, <6>3, Zenon
        <5> QED BY <5>1, <5>2
      <4> HIDE DEF h
      <4>2. h = k
        BY <4>1, Zenon DEF h
      <4> QED BY <4>2
    <3> HIDE DEF h
    <3>7. Table(f, Upto(m), h)
      BY <3>6 DEF Table
    <3> QED BY <3>7
  <2> QED BY <2>2, <2>3
<1>3. Cardinality(S) \in Nat /\ \A s \in SUBSET S : Cardinality(s) <= Cardinality(S)
  BY FS_Subset, FS_CardinalityType
<1>4. Upto(Cardinality(S)) = SUBSET S
  BY <1>3
<1> HIDE DEF Upto
<1>5. \E g : Table(f, Upto(Cardinality(S)), g)
  BY <1>2, <1>3
<1> QED BY <1>4, <1>5

LEMMA SumIsTable ==
  ASSUME NEW S, IsFiniteSet(S), NEW f
  PROVE  \E g : Table(f, SUBSET S, g) /\ SumFunctionOnSet(f, S) = g[S]
<1> DEFINE iter == CHOOSE g : Table(f, SUBSET S, g)
<1>1. Table(f, SUBSET S, iter)
  BY TableExists
<1>2. SumFunctionOnSet(f, S) = iter[S]
  BY DEF SumFunctionOnSet, FoldFunctionOnSet, MapThenFoldSet, Table, First
<1> QED BY <1>1, <1>2

Alike(f, e, S) == \A x \in S : f[x] = e[x]

(* Tables agree where their functions do.                                  *)
LEMMA TablesAgree ==
  ASSUME NEW S, IsFiniteSet(S), NEW f, NEW g, Table(f, SUBSET S, g),
         NEW V, NEW e, NEW h, Table(e, SUBSET V, h),
         S \subseteq V, Alike(f, e, S)
  PROVE  g[S] = h[S]
<1> DEFINE W == {T \in SUBSET S : g[T] # h[T]}
<1>2. W \subseteq SUBSET S
  OBVIOUS
<1>1. ASSUME W # {} PROVE FALSE
  <2> HIDE DEF W
  <2>1. PICK T \in W : \A U \in SUBSET T : U \in W => U = T
    BY <1>1, <1>2, SmallestSet
  <2> USE DEF W
  <2>2. /\ g[T] = IF T = {} THEN 0 ELSE f[First(T)] + g[T \ {First(T)}]
        /\ h[T] = IF T = {} THEN 0 ELSE e[First(T)] + h[T \ {First(T)}]
    BY DEF Table
  <2>3. T # {}
    BY <2>2
  <2>4. First(T) \in T
    BY <2>3, FirstOf
  <2>5. T \ {First(T)} \in SUBSET S /\ T \ {First(T)} # T /\ f[First(T)] = e[First(T)]
    BY <2>4 DEF Alike
  <2>6. g[T \ {First(T)}] = h[T \ {First(T)}]
    BY <2>1, <2>5
  <2> QED BY <2>2, <2>5, <2>6
<1> QED BY <1>1

LEMMA SumsAgree ==
  ASSUME NEW S, IsFiniteSet(S), NEW f, NEW e, Alike(f, e, S)
  PROVE  SumFunctionOnSet(f, S) = SumFunctionOnSet(e, S)
<1>1. PICK g : Table(f, SUBSET S, g) /\ SumFunctionOnSet(f, S) = g[S]
  BY SumIsTable
<1>2. PICK h : Table(e, SUBSET S, h) /\ SumFunctionOnSet(e, S) = h[S]
  BY SumIsTable
<1>3. S \subseteq S
  OBVIOUS
<1>4. g[S] = h[S]
  BY <1>1, <1>2, <1>3, TablesAgree, ZenonT(40)
<1> QED BY <1>1, <1>2, <1>4

LEMMA SumOfNothing ==
  ASSUME NEW f
  PROVE  SumFunctionOnSet(f, {}) = 0
<1>1. PICK g : Table(f, SUBSET {}, g) /\ SumFunctionOnSet(f, {}) = g[{}]
  BY SumIsTable, FS_EmptySet
<1>2. g[{}] = 0
  BY <1>1 DEF Table
<1> QED BY <1>1, <1>2

(* A sum is an integer, and any element can be taken out of it.            *)
LEMMA SumWithout ==
  ASSUME NEW S, IsFiniteSet(S), NEW f, \A x \in S : f[x] \in Int
  PROVE  /\ SumFunctionOnSet(f, S) \in Int
         /\ \A x \in S : SumFunctionOnSet(f, S) = f[x] + SumFunctionOnSet(f, S \ {x})
<1>1. PICK g : Table(f, SUBSET S, g) /\ SumFunctionOnSet(f, S) = g[S]
  BY SumIsTable
<1> DEFINE Good(T) == g[T] \in Int /\ \A x \in T : g[T] = f[x] + g[T \ {x}]
           W == {T \in SUBSET S : ~Good(T)}
<1>5. W \subseteq SUBSET S
  OBVIOUS
<1>2. ASSUME W # {} PROVE FALSE
  <2> HIDE DEF W
  <2>1. PICK T \in W : \A U \in SUBSET T : U \in W => U = T
    BY <1>2, <1>5, SmallestSet
  <2> USE DEF W
  <2>0. T \in SUBSET S
    OBVIOUS
  <2>2. g[T] = IF T = {} THEN 0 ELSE f[First(T)] + g[T \ {First(T)}]
    BY <1>1 DEF Table
  <2>3. T # {}
    BY <2>1, <2>2
  <2> DEFINE c == First(T)
  <2>4. c \in T /\ c \in S
    BY <2>3, FirstOf
  <2>5. g[T] = f[c] + g[T \ {c}]
    BY <2>2, <2>3
  <2>6. ASSUME NEW x \in T
        PROVE  g[T \ {x}] \in Int /\ \A y \in T \ {x} : g[T \ {x}] = f[y] + g[(T \ {x}) \ {y}]
    BY <2>1
  <2> HIDE DEF c
  <2>9. f[c] \in Int /\ g[T \ {c}] \in Int
    BY <2>4, <2>6
  <2>7. g[T] \in Int /\ g[T \ {c}] \in Int
    BY <2>5, <2>9
  <2>8. ASSUME NEW x \in T, x # c PROVE g[T] = f[x] + g[T \ {x}]
    <3>1. g[T \ {c}] = f[x] + g[(T \ {c}) \ {x}]
      BY <2>4, <2>6, <2>8
    <3>2. g[T \ {x}] = f[c] + g[(T \ {x}) \ {c}] /\ g[T \ {x}] \in Int
      BY <2>4, <2>6, <2>8
    <3>3. (T \ {x}) \ {c} = (T \ {c}) \ {x}
      OBVIOUS
    <3>4. g[(T \ {c}) \ {x}] \in Int
      <4>1. (T \ {c}) \ {x} \in SUBSET T /\ (T \ {c}) \ {x} # T
        BY <2>8
      <4>2. (T \ {c}) \ {x} \notin W /\ (T \ {c}) \ {x} \in SUBSET S
        BY <4>1, <2>1
      <4> QED BY <4>2
    <3> DEFINE rest == g[(T \ {c}) \ {x}]
    <3>5. g[T] = f[c] + (f[x] + rest)
      BY <3>1, <2>5
    <3>6. g[T \ {x}] = f[c] + rest
      BY <3>2, <3>3
    <3>7. f[c] \in Int /\ f[x] \in Int /\ rest \in Int
      BY <2>4, <3>4, <2>0, <2>9
    <3> HIDE DEF rest
    <3> QED BY <3>5, <3>6, <3>7
  <2> QED BY <2>1, <2>5, <2>7, <2>8
<1>3. Good(S)
  BY <1>2
<1>4. ASSUME NEW x \in S PROVE SumFunctionOnSet(f, S \ {x}) = g[S \ {x}]
  <2>1. IsFiniteSet(S \ {x})
    BY FS_RemoveElement
  <2>2. PICK h : Table(f, SUBSET (S \ {x}), h) /\ SumFunctionOnSet(f, S \ {x}) = h[S \ {x}]
    BY <2>1, SumIsTable
  <2> DEFINE V == S \ {x}
  <2>3. V \subseteq S /\ IsFiniteSet(V) /\ Table(f, SUBSET V, h)
    BY <2>1, <2>2
  <2>5. Alike(f, f, V)
    BY DEF Alike
  <2> HIDE DEF V
  <2>4. h[V] = g[V]
    BY <1>1, <2>3, <2>5, TablesAgree, ZenonT(40)
  <2> QED BY <2>2, <2>4 DEF V
<1> QED BY <1>1, <1>3, <1>4

-----------------------------------------------------------------------------
(* The commands.                                                           *)

Reading  == {"GET", "MGET", "EXISTS", "TTL", "HGET", "HGETALL", "SMEMBERS", "SISMEMBER", "SCARD",
             "KEYS", "PING", "INFO"}
Changing == {"INCRBY", "EXPIRE", "PERSIST", "HSET", "HDEL", "SADD", "SREM"}

(* The methods that leave what a setNx stored.                             *)
Harmless == {"setNx", "get", "getRaw", "exists", "ttl", "mget"}

(* The command that a method sends: it changes no other keys than those    *)
(* the method is about, and only setNx sends NX.                           *)
Fits(r, q) ==
  /\ r.method = "setNx" => q.name = "SET"
  /\ \/ q.name \in Reading
     \/ /\ q.name = "SET" /\ q.key \in Ids /\ r.ids = {q.key}
        /\ q.ttl \in {NoTtl} \union 1 .. MaxTtl
        /\ IF q.nx THEN r.method = "setNx" /\ q.text = JsonOf(r.value) /\ q.ttl = r.ttl
                   ELSE r.method \in {"set", "setRaw"}
     \/ /\ q.name \in Changing /\ q.key \in Ids /\ q.key \in r.ids /\ r.method \notin Harmless
        /\ q.name = "EXPIRE" => q.ttl \in Int /\ q.ttl <= MaxTtl
     \/ /\ q.name = "MSET" /\ r.method \notin Harmless
        /\ \A i \in DOMAIN q.pairs : q.pairs[i].key \in r.ids
     \/ q.name = "DEL" /\ q.keys \subseteq r.ids /\ r.method \notin Harmless

(* Which command a call of a method is, to the letter where that matters.  *)
SentFor(r, q) ==
  \/ /\ q.name = "SET" /\ r.method \in {"set", "setRaw", "setNx"} /\ q.key \in Ids /\ r.ids = {q.key}
     /\ q.ttl = r.ttl /\ r.ttl \in {NoTtl} \union 1 .. MaxTtl
     /\ IF q.nx THEN r.method = "setNx" /\ q.text = JsonOf(r.value) ELSE r.method # "setNx"
  \/ /\ q.name = "INCRBY" /\ r.method \in {"incr", "decr"} /\ q.key \in Ids /\ r.ids = {q.key}
     /\ r.by \in Int /\ q.by = IF r.method = "incr" THEN r.by ELSE -r.by
  \/ /\ q.name = "EXPIRE" /\ r.method = "expire" /\ q.key \in Ids /\ r.ids = {q.key}
     /\ q.ttl = r.ttl /\ r.ttl \in Int /\ r.ttl <= MaxTtl
  \/ q.name = "PERSIST" /\ r.method = "persist" /\ q.key \in Ids /\ r.ids = {q.key}
  \/ /\ q.name \in {"HSET", "HDEL", "SADD", "SREM"} /\ r.method \in {"hset", "hdel", "sadd", "srem"}
     /\ q.key \in Ids /\ r.ids = {q.key}
  \/ /\ q.name = "MSET" /\ r.method = "mset" /\ r.ids = {q.pairs[i].key : i \in DOMAIN q.pairs}
     /\ \E n \in Nat : DOMAIN q.pairs = 1 .. n
     /\ \A i, j \in DOMAIN q.pairs : q.pairs[i].text = q.pairs[j].text
  \/ q.name = "DEL" /\ r.method \in {"del", "delMany"} /\ q.keys = r.ids
  \/ /\ q.name = "MGET" /\ r.method = "mget" /\ q.keys = r.order
     /\ r.ids = ToSet(r.order) /\ r.ids \subseteq Ids
  \/ q.name = "EXISTS" /\ r.method = "exists" /\ q.key \in Ids /\ r.ids = {q.key}
  \/ q.name = "TTL" /\ r.method = "ttl" /\ q.key \in Ids /\ r.ids = {q.key}
  \/ /\ q.name = "SISMEMBER" /\ r.method = "sismember" /\ q.key \in Ids /\ r.ids = {q.key}
     /\ q.member = r.member
  \/ q.name = "SCARD" /\ r.method = "scard" /\ q.key \in Ids /\ r.ids = {q.key}
  \/ /\ q.name \in {"GET", "HGET", "HGETALL", "SMEMBERS", "KEYS", "PING", "INFO"}
     /\ r.method \in {"get", "getRaw", "hget", "hgetall", "smembers", "keys", "ping",
                       "isHealthy", "info"}

LEMMA SentForFits ==
  ASSUME NEW r, NEW q, SentFor(r, q)
  PROVE  Fits(r, q)
<1>1. CASE q.name \in Reading
  <2>1. r.method # "setNx"
    BY <1>1 DEF SentFor, Reading
  <2> QED BY <1>1, <2>1 DEF Fits
<1>2. CASE q.name = "SET"
  BY <1>2 DEF SentFor, Fits
<1>3. CASE q.name \in Changing
  <2>1. /\ q.key \in Ids /\ r.ids = {q.key} /\ r.method \notin Harmless
        /\ q.name = "EXPIRE" => q.ttl \in Int /\ q.ttl <= MaxTtl
    BY <1>3 DEF SentFor, Changing, Harmless
  <2> QED BY <1>3, <2>1 DEF Fits, Harmless
<1>4. CASE q.name = "MSET"
  <2>1. r.method = "mset" /\ \A i \in DOMAIN q.pairs : q.pairs[i].key \in r.ids
    BY <1>4 DEF SentFor
  <2> QED BY <1>4, <2>1 DEF Fits, Harmless
<1>5. CASE q.name = "DEL"
  BY <1>5 DEF SentFor, Fits, Harmless
<1>6. q.name \in Reading \/ q.name = "SET" \/ q.name \in Changing \/ q.name = "MSET" \/ q.name = "DEL"
  BY DEF SentFor, Reading, Changing
<1> QED BY <1>1, <1>2, <1>3, <1>4, <1>5, <1>6

(* An entry of a keyspace.                                                 *)
IsEntry(e) ==
  e # Absent => /\ e = Entry(e.type, e.data, e.ttl)
                /\ e.type \in {"string", "hash", "set"}
                /\ e.ttl \in {NoTtl} \union 1 .. MaxTtl

LEMMA StoreOfEntries ==
  ASSUME NEW s
  PROVE  IsStore(s) <=> DOMAIN s = Ids /\ \A k \in Ids : IsEntry(s[k])
BY DEF IsStore, IsEntry, Has

LEMMA EntryIsEntry ==
  ASSUME NEW type \in {"string", "hash", "set"}, NEW data, NEW ttl \in {NoTtl} \union 1 .. MaxTtl
  PROVE  /\ IsEntry(Entry(type, data, ttl)) /\ Entry(type, data, ttl) # Absent
         /\ Entry(type, data, ttl).data = data /\ Entry(type, data, ttl).ttl = ttl
<1> DEFINE e == Entry(type, data, ttl)
<1>1. e.type = type /\ e.data = data /\ e.ttl = ttl
  BY DEF Entry
<1>2. e # Absent
  <2>1. Absent.type = "none"
    BY DEF Absent
  <2> QED BY <2>1, <1>1
<1> HIDE DEF e
<1>3. e = Entry(e.type, e.data, e.ttl)
  BY <1>1 DEF e
<1>4. IsEntry(e)
  BY <1>1, <1>3 DEF IsEntry
<1> QED BY <1>1, <1>2, <1>4 DEF e

(* To change one key is to change no other.                                *)
LEMMA PutIsStore ==
  ASSUME NEW s, IsStore(s), NEW k \in Ids, NEW e, IsEntry(e)
  PROVE  IsStore(Put(s, k, e)) /\ Put(s, k, e)[k] = e /\ \A j \in Ids \ {k} : Put(s, k, e)[j] = s[j]
<1>1. DOMAIN s = Ids /\ \A j \in Ids : IsEntry(s[j])
  BY StoreOfEntries
<1>2. /\ DOMAIN Put(s, k, e) = Ids /\ Put(s, k, e)[k] = e
      /\ \A j \in Ids \ {k} : Put(s, k, e)[j] = s[j]
  BY <1>1 DEF Put
<1>3. \A j \in Ids : IsEntry(Put(s, k, e)[j])
  BY <1>1, <1>2
<1> QED BY <1>2, <1>3, StoreOfEntries

LEMMA DropIsStore ==
  ASSUME NEW s, IsStore(s), NEW ks
  PROVE  IsStore(Drop(s, ks)) /\ \A j \in Ids \ ks : Drop(s, ks)[j] = s[j]
<1>1. DOMAIN s = Ids /\ \A j \in Ids : IsEntry(s[j])
  BY StoreOfEntries
<1>2. /\ DOMAIN Drop(s, ks) = Ids /\ \A j \in Ids \ ks : Drop(s, ks)[j] = s[j]
      /\ \A j \in Ids \intersect ks : Drop(s, ks)[j] = Absent
  BY DEF Drop
<1>3. IsEntry(Absent)
  BY DEF IsEntry
<1>4. \A j \in Ids : IsEntry(Drop(s, ks)[j])
  BY <1>1, <1>2, <1>3
<1> QED BY <1>2, <1>4, StoreOfEntries

LEMMA KeptTtlFits ==
  ASSUME NEW s, IsStore(s), NEW k \in Ids
  PROVE  KeptTtl(s, k) \in {NoTtl} \union 1 .. MaxTtl
BY DEF IsStore, KeptTtl

(* A change of one key yields a keyspace that differs at that key only.    *)
ChangesOnly(s, t, ks) == IsStore(t) /\ \A j \in Ids \ ks : t[j] = s[j]

LEMMA NothingChanges ==
  ASSUME NEW s, IsStore(s), NEW ks
  PROVE  ChangesOnly(s, s, ks)
BY DEF ChangesOnly

LEMMA IncrByChanges ==
  ASSUME NEW s, IsStore(s), NEW q, q.key \in Ids
  PROVE  ChangesOnly(s, RunIncrBy(s, q).store, {q.key})
<1> DEFINE now == IF Has(s, q.key) THEN s[q.key].data ELSE 0
           e   == Entry("string", now + q.by, KeptTtl(s, q.key))
<1>1. IsEntry(e)
  BY KeptTtlFits, EntryIsEntry
<1>2. RunIncrBy(s, q).store = s \/ RunIncrBy(s, q).store = Put(s, q.key, e)
  BY DEF RunIncrBy, Did, Error
<1> HIDE DEF e
<1>3. ChangesOnly(s, Put(s, q.key, e), {q.key})
  BY <1>1, PutIsStore DEF ChangesOnly
<1> QED BY <1>2, <1>3, NothingChanges

(* An entry that is given another TTL.                                     *)
WithTtl(s, k, t) == [s EXCEPT ![k].ttl = t]

LEMMA TtlChanges ==
  ASSUME NEW s, IsStore(s), NEW k \in Ids, Has(s, k), NEW t \in {NoTtl} \union 1 .. MaxTtl
  PROVE  ChangesOnly(s, WithTtl(s, k, t), {k}) /\ Has(WithTtl(s, k, t), k) /\ WithTtl(s, k, t)[k].ttl = t
<1> DEFINE e == [s[k] EXCEPT !.ttl = t]
<1>1. /\ DOMAIN s = Ids
      /\ s[k] = Entry(s[k].type, s[k].data, s[k].ttl) /\ s[k].type \in {"string", "hash", "set"}
  BY DEF IsStore
<1>2. e = Entry(s[k].type, s[k].data, t)
  BY <1>1 DEF Entry
<1>3. IsEntry(e) /\ e # Absent /\ e.ttl = t
  BY <1>1, <1>2, EntryIsEntry
<1>4. WithTtl(s, k, t) = Put(s, k, e)
  BY <1>1 DEF Put, WithTtl
<1> HIDE DEF e
<1>5. ChangesOnly(s, Put(s, k, e), {k}) /\ Put(s, k, e)[k] = e
  BY <1>3, PutIsStore DEF ChangesOnly
<1>6. Has(Put(s, k, e), k) /\ Put(s, k, e)[k].ttl = t
  BY <1>3, <1>5 DEF Has
<1> QED BY <1>4, <1>5, <1>6, Zenon

LEMMA ExpireChanges ==
  ASSUME NEW s, IsStore(s), NEW q, q.key \in Ids, q.ttl \in Int, q.ttl <= MaxTtl
  PROVE  ChangesOnly(s, RunExpire(s, q).store, {q.key})
<1>1. CASE ~Has(s, q.key)
  <2>1. RunExpire(s, q).store = s
    BY <1>1 DEF RunExpire, Did
  <2> QED BY <2>1, NothingChanges
<1>2. CASE Has(s, q.key) /\ q.ttl <= 0
  <2>1. RunExpire(s, q).store = Drop(s, {q.key})
    BY <1>2 DEF RunExpire, Did
  <2> QED BY <2>1, DropIsStore DEF ChangesOnly
<1>3. CASE Has(s, q.key) /\ q.ttl > 0
  <2>1. RunExpire(s, q).store = WithTtl(s, q.key, q.ttl)
    BY <1>3 DEF RunExpire, Did, WithTtl
  <2>2. q.ttl \in 1 .. MaxTtl
    BY <1>3, CommandsAssumption
  <2> QED BY <2>1, <2>2, <1>3, TtlChanges
<1> QED BY <1>1, <1>2, <1>3

LEMMA HashChanges ==
  ASSUME NEW s, IsStore(s), NEW k \in Ids, NEW h
  PROVE  ChangesOnly(s, PutHash(s, k, h), {k})
<1>1. IsEntry(Entry("hash", h, KeptTtl(s, k)))
  BY KeptTtlFits, EntryIsEntry
<1> QED BY <1>1, PutIsStore, DropIsStore DEF PutHash, ChangesOnly

LEMMA SetChanges ==
  ASSUME NEW s, IsStore(s), NEW k \in Ids, NEW m
  PROVE  ChangesOnly(s, PutSet(s, k, m), {k})
<1>1. IsEntry(Entry("set", m, KeptTtl(s, k)))
  BY KeptTtlFits, EntryIsEntry
<1> QED BY <1>1, PutIsStore, DropIsStore DEF PutSet, ChangesOnly

LEMMA MsetChanges ==
  ASSUME NEW s, IsStore(s), NEW q, NEW ks, \A i \in DOMAIN q.pairs : q.pairs[i].key \in ks
  PROVE  ChangesOnly(s, RunMset(s, q).store, ks)
<1> DEFINE at(k) == {i \in DOMAIN q.pairs : q.pairs[i].key = k}
           e(k)  == Entry("string", q.pairs[Max(at(k))].text, NoTtl)
           t     == [k \in Ids |-> IF at(k) = {} THEN s[k] ELSE e(k)]
<1>1. RunMset(s, q).store = t
  BY DEF RunMset, Did
<1>2. \A k \in Ids : IsEntry(e(k))
  BY EntryIsEntry
<1> HIDE DEF e
<1>3. \A k \in Ids : IsEntry(s[k])
  BY StoreOfEntries
<1>4. DOMAIN t = Ids /\ \A k \in Ids : t[k] = IF at(k) = {} THEN s[k] ELSE e(k)
  OBVIOUS
<1>5. \A k \in Ids \ ks : at(k) = {}
  OBVIOUS
<1> HIDE DEF t, at
<1>6. IsStore(t)
  BY <1>2, <1>3, <1>4, StoreOfEntries
<1> QED BY <1>1, <1>4, <1>5, <1>6 DEF ChangesOnly

(* SET with NX leaves a key that is there, and answers OK of one that was  *)
(* not and is now what was asked for.                                      *)
LEMMA SetNxStores ==
  ASSUME NEW s, IsStore(s), NEW q, q.key \in Ids, q.ttl \in {NoTtl} \union 1 .. MaxTtl, q.nx
  PROVE  /\ Has(s, q.key) => RunSet(s, q).store = s
         /\ RunSet(s, q).reply = "OK" =>
              /\ ~Has(s, q.key) /\ Has(RunSet(s, q).store, q.key)
              /\ RunSet(s, q).store[q.key].data = q.text /\ RunSet(s, q).store[q.key].ttl = q.ttl
<1> DEFINE e == Entry("string", q.text, q.ttl)
<1>1. ~(q.ttl # NoTtl /\ q.ttl < 1)
  BY CommandsAssumption
<1>2. CASE Has(s, q.key)
  BY <1>1, <1>2, CommandsAssumption DEF RunSet, Did
<1>3. CASE ~Has(s, q.key)
  <2>1. RunSet(s, q).store = Put(s, q.key, e)
    BY <1>1, <1>3 DEF RunSet, Did
  <2>2. IsEntry(e) /\ e # Absent /\ e.data = q.text /\ e.ttl = q.ttl
    BY EntryIsEntry
  <2> HIDE DEF e
  <2>3. Put(s, q.key, e)[q.key] = e
    BY <2>2, PutIsStore
  <2>4. RunSet(s, q).store[q.key] = e
    BY <2>1, <2>3
  <2> QED BY <2>2, <2>4, <1>3 DEF Has
<1> QED BY <1>2, <1>3

LEMMA SetChangesKey ==
  ASSUME NEW s, IsStore(s), NEW q, q.key \in Ids, q.ttl \in {NoTtl} \union 1 .. MaxTtl
  PROVE  ChangesOnly(s, RunSet(s, q).store, {q.key})
<1> DEFINE e == Entry("string", q.text, q.ttl)
<1>1. IsEntry(e)
  BY EntryIsEntry
<1>2. RunSet(s, q).store = s \/ RunSet(s, q).store = Put(s, q.key, e)
  BY DEF RunSet, Did, Error
<1> HIDE DEF e
<1>3. ChangesOnly(s, Put(s, q.key, e), {q.key})
  BY <1>1, PutIsStore DEF ChangesOnly
<1> QED BY <1>2, <1>3, NothingChanges

(* What the execution of a command does for the call that sent it.         *)
Effect(s, d, r) ==
  /\ ChangesOnly(s, d.store, r.ids)
  /\ r.method \in Harmless => \A k \in Ids : Has(s, k) => d.store[k] = s[k]
  /\ r.method = "setNx" /\ d.reply = "OK" =>
       \A k \in Ids : r.ids = {k} =>
         /\ ~Has(s, k) /\ Has(d.store, k)
         /\ d.store[k].data = JsonOf(r.value) /\ d.store[k].ttl = r.ttl

LEMMA Wider ==
  ASSUME NEW s, NEW t, NEW ks, NEW js, ks \subseteq js, ChangesOnly(s, t, ks)
  PROVE  ChangesOnly(s, t, js)
BY DEF ChangesOnly

LEMMA ReadingEffect ==
  ASSUME NEW s, IsStore(s), NEW r, NEW q, Fits(r, q), q.name \in Reading
  PROVE  Effect(s, Run(s, q), r)
<1>1. r.method # "setNx"
  BY DEF Fits, Reading
<1>2. Run(s, q).store = s
  <2>1. CASE q.name \in {"GET", "MGET", "EXISTS", "TTL", "KEYS", "PING", "INFO"}
    BY <2>1 DEF Run, Did, Error
  <2>2. CASE q.name \in {"HGET", "HGETALL"}
    <3>1. Run(s, q) = RunHash(s, q)
      BY <2>2 DEF Run
    <3> QED BY <2>2, <3>1 DEF RunHash, Did, Error
  <2>3. CASE q.name \in {"SMEMBERS", "SISMEMBER", "SCARD"}
    <3>1. Run(s, q) = RunMembers(s, q)
      BY <2>3 DEF Run
    <3> QED BY <2>3, <3>1 DEF RunMembers, Did, Error
  <2> QED BY <2>1, <2>2, <2>3 DEF Reading
<1> QED BY <1>1, <1>2, NothingChanges DEF Effect

LEMMA SetEffect ==
  ASSUME NEW s, IsStore(s), NEW r, NEW q, Fits(r, q), q.name = "SET"
  PROVE  Effect(s, Run(s, q), r)
<1>1. Run(s, q) = RunSet(s, q)
  BY DEF Run
<1>2. /\ q.key \in Ids /\ r.ids = {q.key} /\ q.ttl \in {NoTtl} \union 1 .. MaxTtl
      /\ IF q.nx THEN r.method = "setNx" /\ q.text = JsonOf(r.value) /\ q.ttl = r.ttl
                 ELSE r.method \in {"set", "setRaw"}
  BY DEF Fits, Reading, Changing
<1>3. ChangesOnly(s, RunSet(s, q).store, r.ids)
  BY <1>2, SetChangesKey
<1>4. CASE ~q.nx
  <2>1. r.method # "setNx" /\ r.method \notin Harmless
    BY <1>2, <1>4 DEF Harmless
  <2> QED BY <2>1, <1>1, <1>3 DEF Effect
<1>5. CASE q.nx
  <2>1. /\ Has(s, q.key) => RunSet(s, q).store = s
        /\ RunSet(s, q).reply = "OK" =>
             /\ ~Has(s, q.key) /\ Has(RunSet(s, q).store, q.key)
             /\ RunSet(s, q).store[q.key].data = q.text /\ RunSet(s, q).store[q.key].ttl = q.ttl
    BY <1>2, <1>5, SetNxStores
  <2>2. q.text = JsonOf(r.value) /\ q.ttl = r.ttl
    BY <1>2, <1>5
  <2>3. \A k \in Ids : Has(s, k) => RunSet(s, q).store[k] = s[k]
    BY <2>1, <1>2, <1>3 DEF ChangesOnly
  <2>4. \A k \in Ids : r.ids = {k} => k = q.key
    BY <1>2
  <2> QED BY <2>1, <2>2, <2>3, <2>4, <1>1, <1>3 DEF Effect
<1> QED BY <1>4, <1>5

LEMMA ChangingEffect ==
  ASSUME NEW s, IsStore(s), NEW r, NEW q, Fits(r, q), q.name \in Changing
  PROVE  Effect(s, Run(s, q), r)
<1>1. /\ q.key \in Ids /\ q.key \in r.ids /\ r.method \notin Harmless
      /\ q.name = "EXPIRE" => q.ttl \in Int /\ q.ttl <= MaxTtl
  BY DEF Fits, Reading, Changing
<1>2. ChangesOnly(s, Run(s, q).store, {q.key})
  <2>1. CASE q.name = "INCRBY"
    <3>1. Run(s, q) = RunIncrBy(s, q)
      BY <2>1 DEF Run
    <3> QED BY <3>1, <1>1, IncrByChanges
  <2>2. CASE q.name = "EXPIRE"
    <3>1. Run(s, q) = RunExpire(s, q)
      BY <2>2 DEF Run
    <3> QED BY <3>1, <2>2, <1>1, ExpireChanges
  <2>3. CASE q.name = "PERSIST"
    <3>1. CASE Has(s, q.key) /\ s[q.key].ttl # NoTtl
      <4>1. Run(s, q).store = WithTtl(s, q.key, NoTtl)
        BY <2>3, <3>1 DEF Run, Did, WithTtl
      <4> QED BY <4>1, <3>1, <1>1, TtlChanges
    <3>2. CASE ~(Has(s, q.key) /\ s[q.key].ttl # NoTtl)
      <4>1. Run(s, q).store = s
        BY <2>3, <3>2 DEF Run, Did
      <4> QED BY <4>1, NothingChanges
    <3> QED BY <3>1, <3>2
  <2>4. CASE q.name \in {"HSET", "HDEL"}
    <3>1. Run(s, q) = RunHash(s, q)
      BY <2>4 DEF Run
    <3>2. RunHash(s, q).store = s \/ \E h : RunHash(s, q).store = PutHash(s, q.key, h)
      BY <2>4 DEF RunHash, Did, Error
    <3> QED BY <3>1, <3>2, <1>1, HashChanges, NothingChanges
  <2>5. CASE q.name \in {"SADD", "SREM"}
    <3>1. Run(s, q) = RunMembers(s, q)
      BY <2>5 DEF Run
    <3>2. RunMembers(s, q).store = s \/ \E m : RunMembers(s, q).store = PutSet(s, q.key, m)
      BY <2>5 DEF RunMembers, Did, Error
    <3> QED BY <3>1, <3>2, <1>1, SetChanges, NothingChanges
  <2> QED BY <2>1, <2>2, <2>3, <2>4, <2>5 DEF Changing
<1>3. ChangesOnly(s, Run(s, q).store, r.ids)
  <2>1. {q.key} \subseteq r.ids
    BY <1>1
  <2> QED BY <2>1, <1>2, Wider
<1> QED BY <1>1, <1>3 DEF Effect, Harmless

LEMMA RunEffect ==
  ASSUME NEW s, IsStore(s), NEW r, NEW q, Fits(r, q)
  PROVE  Effect(s, Run(s, q), r)
<1>1. CASE q.name \in Reading
  BY <1>1, ReadingEffect
<1>2. CASE q.name = "SET"
  BY <1>2, SetEffect
<1>3. CASE q.name \in Changing
  BY <1>3, ChangingEffect
<1>4. CASE q.name = "MSET"
  <2>1. r.method \notin Harmless /\ \A i \in DOMAIN q.pairs : q.pairs[i].key \in r.ids
    BY <1>4 DEF Fits, Reading, Changing
  <2>2. Run(s, q) = RunMset(s, q)
    BY <1>4 DEF Run
  <2>3. ChangesOnly(s, RunMset(s, q).store, r.ids)
    BY <2>1, MsetChanges
  <2> QED BY <2>1, <2>2, <2>3 DEF Effect, Harmless
<1>5. CASE q.name = "DEL"
  <2>1. r.method \notin Harmless /\ q.keys \subseteq r.ids
    BY <1>5 DEF Fits, Reading, Changing
  <2>2. Run(s, q).store = Drop(s, q.keys)
    BY <1>5 DEF Run, Did
  <2>3. ChangesOnly(s, Drop(s, q.keys), q.keys)
    BY DropIsStore DEF ChangesOnly
  <2> QED BY <2>1, <2>2, <2>3, Wider DEF Effect, Harmless
<1> QED BY <1>1, <1>2, <1>3, <1>4, <1>5 DEF Fits

-----------------------------------------------------------------------------
(* The invariant.                                                          *)

WireInv ==
  /\ stray \subseteq Calls /\ up \in BOOLEAN /\ drops \in 0 .. MaxDrops
  /\ queue \in Seq(Calls) /\ ran \in 0 .. Len(queue) /\ (~up => ran = 0)
  /\ IsInjective(queue)
  /\ \A c \in Calls : phase[c] = "waiting" => c \in ToSet(queue)

CallsInv ==
  /\ DOMAIN asked = Calls /\ DOMAIN command = Calls /\ DOMAIN reply = Calls /\ DOMAIN result = Calls
  /\ phase \in [Calls -> {"idle", "waiting", "resolved", "rejected"}]
  /\ \A c \in Calls : phase[c] = "idle" => asked[c].ids = {}

(* What may still be executed is the command of a call that was made.      *)
SentInv ==
  \A c \in Calls : c \in ToSet(queue) \union stray => phase[c] # "idle" /\ SentFor(asked[c], command[c])

(* The call was told that it holds the lock, or is about to be.            *)
Told(c, k) ==
  /\ asked[c].method = "setNx" /\ asked[c].ids = {k}
  /\ \/ phase[c] = "resolved" /\ result[c]
     \/ \E i \in 1 .. ran : queue[i] = c /\ reply[c] = "OK"

Kept(c, k) ==
  /\ Has(store, k)
  /\ Uses(k, Harmless) => /\ store[k].data = JsonOf(asked[c].value)
                          /\ store[k].ttl = NoTtl <=> asked[c].ttl = NoTtl

(* Who was told so is the only one, and the key is there.                  *)
LockInv ==
  \A k \in Ids \ removed, c \in Calls :
    Told(c, k) => Kept(c, k) /\ \A d \in Calls : Told(d, k) => c = d

IInv == IsStore(store) /\ removed \subseteq Ids /\ WireInv /\ CallsInv /\ SentInv /\ LockInv

-----------------------------------------------------------------------------
(* What a step leaves alone.                                               *)

(* If nobody new is told and what was stored is kept, locks hold.          *)
LEMMA NobodyNew ==
  ASSUME LockInv, removed \subseteq removed',
         \A k \in Ids \ removed', e \in Calls : Told(e, k)' => Told(e, k) /\ (Kept(e, k) => Kept(e, k)')
  PROVE  LockInv'
<1> SUFFICES ASSUME NEW k \in Ids \ removed', NEW c \in Calls, Told(c, k)'
             PROVE  Kept(c, k)' /\ \A d \in Calls : Told(d, k)' => c = d
  BY DEF LockInv
<1>1. k \in Ids \ removed
  OBVIOUS
<1>2. Told(c, k) /\ (Kept(c, k) => Kept(c, k)') /\ \A d \in Calls : Told(d, k)' => Told(d, k)
  OBVIOUS
<1>3. Kept(c, k) /\ \A d \in Calls : Told(d, k) => c = d
  BY <1>1, <1>2 DEF LockInv
<1> QED BY <1>2, <1>3

LEMMA KeptSame ==
  ASSUME UNCHANGED <<store, asked>>, NEW c, NEW k, Kept(c, k)
  PROVE  Kept(c, k)'
BY DEF Kept, Uses, Users, Has

(* The execution of a command keeps what setNx stored, unless the key goes. *)
LEMMA ExecutionKeeps ==
  ASSUME IInv, NEW c \in Calls, Fits(asked[c], command[c]),
         store' = Run(store, command[c]).store, removed' = removed \union Lost(store, store'), asked' = asked
  PROVE  /\ IsStore(store)' /\ removed' \subseteq Ids /\ removed \subseteq removed'
         /\ \A k \in Ids \ removed', e \in Calls : Kept(e, k) => Kept(e, k)'
<1>1. Effect(store, Run(store, command[c]), asked[c])
  BY RunEffect DEF IInv
<1>2. IsStore(store') /\ \A j \in Ids \ asked[c].ids : store'[j] = store[j]
  BY <1>1 DEF Effect, ChangesOnly
<1>3. removed' \subseteq Ids /\ removed \subseteq removed'
  BY DEF IInv, Lost
<1>4. ASSUME NEW k \in Ids \ removed', NEW e \in Calls, Kept(e, k) PROVE Kept(e, k)'
  <2>1. Has(store, k)
    BY <1>4 DEF Kept
  <2>2. Has(store', k)
    BY <2>1, <1>4 DEF Lost
  <2>3. Uses(k, Harmless)' <=> Uses(k, Harmless)
    BY DEF Uses, Users
  <2>4. ASSUME Uses(k, Harmless) PROVE store'[k] = store[k]
    <3>1. CASE k \in asked[c].ids
      <4>1. asked[c].method \in Harmless
        BY <2>4, <3>1 DEF Uses, Users
      <4> QED BY <4>1, <2>1, <1>1 DEF Effect
    <3>2. CASE k \notin asked[c].ids
      BY <3>2, <1>2
    <3> QED BY <3>1, <3>2
  <2> QED BY <1>4, <2>2, <2>3, <2>4 DEF Kept, Has
<1> QED BY <1>2, <1>3, <1>4

(* Of the calls that reject, only isHealthy resolves.                      *)
LEMMA Rejected ==
  ASSUME CallsInv, NEW cs \in SUBSET Calls, Reject(cs)
  PROVE  /\ phase' \in [Calls -> {"idle", "waiting", "resolved", "rejected"}] /\ DOMAIN result' = Calls
         /\ \A e \in Calls \ cs : phase'[e] = phase[e] /\ result'[e] = result[e]
         /\ \A e \in cs : /\ phase'[e] \in {"resolved", "rejected"}
                          /\ asked'[e].method = "setNx" => phase'[e] = "rejected"
<1> DEFINE caught == {c \in cs : asked'[c].method = "isHealthy"}
<1>1. /\ phase' = [c \in Calls |-> CASE c \in caught -> "resolved"
                                      [] c \in cs \ caught -> "rejected"
                                      [] OTHER -> phase[c]]
      /\ result' = [c \in Calls |-> IF c \in caught THEN FALSE ELSE result[c]]
  BY DEF Reject
<1>2. \A e \in cs : asked'[e].method = "setNx" => e \notin caught
  OBVIOUS
<1> HIDE DEF caught
<1>3. caught \subseteq cs
  BY DEF caught
<1>4. /\ \A e \in caught : phase'[e] = "resolved"
      /\ \A e \in cs \ caught : phase'[e] = "rejected"
      /\ \A e \in Calls \ cs : phase'[e] = phase[e] /\ result'[e] = result[e]
      /\ DOMAIN phase' = Calls /\ DOMAIN result' = Calls
  BY <1>1, <1>3
<1>5. \A e \in Calls : phase'[e] \in {"idle", "waiting", "resolved", "rejected"}
  BY <1>3, <1>4 DEF CallsInv
<1>6. phase' \in [Calls -> {"idle", "waiting", "resolved", "rejected"}]
  BY <1>1, <1>5
<1> QED BY <1>2, <1>3, <1>4, <1>6

-----------------------------------------------------------------------------
(* The connection.                                                         *)

(* The elements of the queue.                                              *)
LEMMA QueueFacts ==
  ASSUME WireInv
  PROVE  /\ Len(queue) \in Nat /\ ran \in Nat /\ DOMAIN queue = 1 .. Len(queue)
         /\ ToSet(queue) \subseteq Calls
         /\ \A i \in 1 .. Len(queue) : queue[i] \in ToSet(queue) /\ queue[i] \in Calls
         /\ \A c \in ToSet(queue) : \E i \in 1 .. Len(queue) : queue[i] = c
<1>1. queue \in Seq(Calls) /\ Len(queue) \in Nat /\ DOMAIN queue = 1 .. Len(queue)
  BY DEF WireInv
<1> QED BY <1>1 DEF WireInv, ToSet

LEMMA ExecuteStep ==
  ASSUME IInv, Execute
  PROVE  IInv'
<1> DEFINE c == queue[ran + 1]
           d == Run(store, command[c])
<1>1. /\ up /\ ran < Len(queue)
      /\ store' = d.store /\ removed' = removed \union Lost(store, store')
      /\ reply' = [reply EXCEPT ![c] = d.reply] /\ ran' = ran + 1
      /\ UNCHANGED <<up, drops, queue, stray, asked, command, phase, result>>
  BY DEF Execute
<1>2. ran + 1 \in 1 .. Len(queue) /\ ran \in Nat
  BY <1>1, QueueFacts DEF IInv
<1>3. c \in Calls /\ c \in ToSet(queue)
  BY <1>2, QueueFacts DEF IInv
<1> HIDE DEF c
<1>4. Fits(asked[c], command[c])
  BY <1>3, SentForFits DEF IInv, SentInv
<1>5. /\ IsStore(store)' /\ removed' \subseteq Ids /\ removed \subseteq removed'
      /\ \A k \in Ids \ removed', e \in Calls : Kept(e, k) => Kept(e, k)'
  BY <1>1, <1>3, <1>4, ExecutionKeeps
<1>6. Effect(store, d, asked[c])
  BY <1>4, RunEffect DEF IInv
<1>7. WireInv'
  BY <1>1, <1>2, QueueFacts DEF IInv, WireInv
<1>8. CallsInv' /\ SentInv'
  BY <1>1 DEF IInv, CallsInv, SentInv
<1> HIDE DEF d
<1>9. ASSUME NEW k \in Ids \ removed', NEW e \in Calls, Told(e, k)'
      PROVE  \/ Told(e, k)
             \/ e = c /\ asked[c].method = "setNx" /\ asked[c].ids = {k} /\ d.reply = "OK"
  <2>1. DOMAIN reply = Calls
    BY DEF IInv, CallsInv
  <2>2. asked[e].method = "setNx" /\ asked[e].ids = {k}
    BY <1>1, <1>9 DEF Told
  <2>3. CASE phase[e] = "resolved" /\ result[e]
    BY <2>2, <2>3 DEF Told
  <2>4. CASE ~(phase[e] = "resolved" /\ result[e])
    <3>1. PICK i \in 1 .. ran + 1 : queue[i] = e /\ reply'[e] = "OK"
      BY <1>1, <1>9, <2>4 DEF Told
    <3>2. CASE e = c
      BY <3>1, <3>2, <2>1, <2>2, <1>1
    <3>3. CASE e # c
      <4>1. i # ran + 1 /\ i \in 1 .. ran
        BY <3>1, <3>3, <1>2 DEF c
      <4>2. reply[e] = "OK"
        BY <3>1, <3>3, <2>1, <1>1
      <4> QED BY <4>1, <4>2, <3>1, <2>2 DEF Told
    <3> QED BY <3>2, <3>3
  <2> QED BY <2>3, <2>4
<1>10. ASSUME asked[c].method = "setNx", d.reply = "OK" PROVE LockInv'
  <2> SUFFICES ASSUME NEW k \in Ids \ removed', NEW e \in Calls, Told(e, k)'
               PROVE  Kept(e, k)' /\ \A f \in Calls : Told(f, k)' => e = f
    BY DEF LockInv
  <2>1. CASE asked[c].ids = {k}
    <3>1. /\ ~Has(store, k) /\ Has(d.store, k)
          /\ d.store[k].data = JsonOf(asked[c].value) /\ d.store[k].ttl = asked[c].ttl
      BY <2>1, <1>6, <1>10 DEF Effect
    <3>2. \A f \in Calls : ~Told(f, k)
      BY <3>1, <1>5 DEF IInv, LockInv, Kept
    <3>3. \A f \in Calls : Told(f, k)' => f = c
      BY <3>2, <1>9
    <3>4. e = c
      BY <3>3
    <3>5. \A f \in Calls : Told(f, k)' => e = f
      BY <3>3, <3>4
    <3>6. Kept(e, k)'
      <4>1. store'[k] = d.store[k] /\ asked' = asked
        BY <1>1
      <4>2. Has(store', k)
        BY <3>1, <4>1 DEF Has
      <4>3. store'[k].data = JsonOf(asked'[e].value) /\ store'[k].ttl = asked'[e].ttl
        BY <3>1, <3>4, <4>1
      <4> QED BY <4>2, <4>3 DEF Kept
    <3> QED BY <3>5, <3>6
  <2>2. CASE asked[c].ids # {k}
    <3>1. \A f \in Calls : Told(f, k)' => Told(f, k)
      BY <2>2, <1>9
    <3>2. k \in Ids \ removed /\ Told(e, k)
      BY <3>1, <1>5
    <3>3. Kept(e, k) /\ \A f \in Calls : Told(f, k) => e = f
      BY <3>2 DEF IInv, LockInv
    <3> QED BY <3>1, <3>3, <1>5
  <2> QED BY <2>1, <2>2
<1>11. ASSUME ~(asked[c].method = "setNx" /\ d.reply = "OK") PROVE LockInv'
  <2>1. \A k \in Ids \ removed', e \in Calls : Told(e, k)' => Told(e, k)
    BY <1>9, <1>11
  <2> QED BY <2>1, <1>5, NobodyNew DEF IInv
<1> QED BY <1>5, <1>7, <1>8, <1>10, <1>11 DEF IInv

LEMMA RunStrayStep ==
  ASSUME IInv, NEW c \in Calls, RunStray(c)
  PROVE  IInv'
<1>1. /\ c \in stray /\ stray' = stray \ {c}
      /\ store' = Run(store, command[c]).store /\ removed' = removed \union Lost(store, store')
      /\ UNCHANGED <<up, drops, queue, ran, asked, command, reply, phase, result>>
  BY DEF RunStray, calls
<1>2. Fits(asked[c], command[c])
  BY <1>1, SentForFits DEF IInv, SentInv
<1>3. /\ IsStore(store)' /\ removed' \subseteq Ids /\ removed \subseteq removed'
      /\ \A k \in Ids \ removed', e \in Calls : Kept(e, k) => Kept(e, k)'
  BY <1>1, <1>2, ExecutionKeeps
<1>4. WireInv' /\ CallsInv' /\ SentInv'
  BY <1>1 DEF IInv, WireInv, CallsInv, SentInv
<1>5. \A k \in Ids \ removed', e \in Calls : Told(e, k)' => Told(e, k)
  BY <1>1 DEF Told
<1>6. LockInv'
  BY <1>3, <1>5, NobodyNew DEF IInv
<1> QED BY <1>3, <1>4, <1>6 DEF IInv

LEMMA LoseStep ==
  ASSUME IInv, Lose
  PROVE  IInv'
<1>1. /\ drops < MaxDrops /\ up' = FALSE /\ drops' = drops + 1 /\ ran' = 0
      /\ stray' = stray \union {queue[i] : i \in ran + 1 .. Len(queue)}
      /\ UNCHANGED <<store, removed, queue, asked, command, reply, phase, result>>
  BY DEF Lose, server, calls
<1>2. stray' \subseteq stray \union ToSet(queue) /\ stray' \subseteq Calls
  <2>1. \A i \in ran + 1 .. Len(queue) : i \in 1 .. Len(queue)
    BY QueueFacts DEF IInv
  <2> QED BY <2>1, <1>1, QueueFacts DEF IInv, WireInv
<1>3. WireInv'
  <2>1. drops' \in 0 .. MaxDrops
    BY <1>1, CommandsAssumption DEF IInv, WireInv
  <2>2. queue' \in Seq(Calls) /\ IsInjective(queue')
    BY <1>1 DEF IInv, WireInv
  <2>3. ran' \in 0 .. Len(queue') /\ up' \in BOOLEAN
    <3>1. Len(queue) \in Nat /\ Len(queue') = Len(queue)
      BY <1>1, QueueFacts DEF IInv
    <3>2. ran' \in 0 .. Len(queue')
      BY <3>1, <1>1
    <3>3. up' \in BOOLEAN
      BY <1>1, Zenon
    <3> QED BY <3>2, <3>3
  <2>4. \A c \in Calls : phase'[c] = "waiting" => c \in ToSet(queue')
    BY <1>1 DEF IInv, WireInv
  <2> QED BY <2>1, <2>2, <2>3, <2>4, <1>1, <1>2 DEF WireInv
<1>4. CallsInv' /\ SentInv'
  BY <1>1, <1>2 DEF IInv, CallsInv, SentInv
<1>5. \A k \in Ids, e \in Calls : Told(e, k)' => Told(e, k)
  BY <1>1 DEF Told
<1>6. LockInv'
  BY <1>1, <1>5, KeptSame, NobodyNew DEF IInv
<1> QED BY <1>1, <1>3, <1>4, <1>6 DEF IInv

LEMMA ReconnectStep ==
  ASSUME IInv, Reconnect
  PROVE  IInv'
<1>1. /\ up' = TRUE /\ UNCHANGED <<store, removed, drops, queue, ran, stray, asked, command, reply, phase, result>>
  BY DEF Reconnect, server, calls
<1>2. WireInv' /\ CallsInv' /\ SentInv'
  BY <1>1 DEF IInv, WireInv, CallsInv, SentInv
<1>3. \A k \in Ids, e \in Calls : Told(e, k)' => Told(e, k)
  BY <1>1 DEF Told
<1>4. LockInv'
  BY <1>1, <1>3, KeptSame, NobodyNew DEF IInv
<1> QED BY <1>1, <1>2, <1>4 DEF IInv

(* A TTL elapses: a key goes, or keeps its data and whether it can lapse.  *)
LEMMA TickKey ==
  ASSUME IsStore(store), Tick, NEW k \in Ids
  PROVE  /\ ~Has(store, k) \/ store[k].ttl = NoTtl => store'[k] = store[k]
         /\ Has(store, k) =>
              \/ store'[k] = Absent
              \/ /\ IsEntry(store'[k]) /\ Has(store', k)
                 /\ store'[k].type = store[k].type /\ store'[k].data = store[k].data
                 /\ (store'[k].ttl = NoTtl <=> store[k].ttl = NoTtl)
<1>1. store'[k] = IF ~Has(store, k) \/ store[k].ttl = NoTtl THEN store[k]
                  ELSE IF store[k].ttl = 1 THEN Absent
                  ELSE [store[k] EXCEPT !.ttl = @ - 1]
  BY DEF Tick
<1>2. DOMAIN store = Ids /\ IsEntry(store[k])
  BY StoreOfEntries
<1>3. CASE ~Has(store, k) \/ store[k].ttl = NoTtl
  BY <1>1, <1>2, <1>3 DEF Has
<1>4. CASE Has(store, k) /\ store[k].ttl # NoTtl /\ store[k].ttl = 1
  BY <1>4, <1>1
<1>5. CASE Has(store, k) /\ store[k].ttl # NoTtl /\ store[k].ttl # 1
  <2> DEFINE t == store[k].ttl - 1
  <2>1. /\ store[k] = Entry(store[k].type, store[k].data, store[k].ttl)
        /\ store[k].type \in {"string", "hash", "set"} /\ store[k].ttl \in 1 .. MaxTtl
    BY <1>2, <1>5 DEF IsEntry, Has
  <2>2. t \in 1 .. MaxTtl /\ t # NoTtl
    BY <2>1, <1>5, CommandsAssumption DEF NoTtl
  <2>3. store'[k] = [store[k] EXCEPT !.ttl = t]
    BY <1>1, <1>5
  <2>4. [store[k] EXCEPT !.ttl = t] = Entry(store[k].type, store[k].data, t)
    BY <2>1 DEF Entry
  <2> HIDE DEF t
  <2>5. store'[k] = Entry(store[k].type, store[k].data, t)
    BY <2>3, <2>4
  <2>6. store'[k].type = store[k].type
    BY <2>5 DEF Entry
  <2>7. IsEntry(store'[k]) /\ store'[k] # Absent /\ store'[k].data = store[k].data /\ store'[k].ttl = t
    BY <2>1, <2>2, <2>5, EntryIsEntry
  <2> QED BY <2>2, <2>6, <2>7, <1>5 DEF Has
<1> QED BY <1>3, <1>4, <1>5

LEMMA TickStep ==
  ASSUME IInv, Tick
  PROVE  IInv'
<1>1. /\ removed' = removed \union Lost(store, store') /\ DOMAIN store' = Ids
      /\ UNCHANGED <<up, drops, queue, ran, stray, asked, command, reply, phase, result>>
  BY DEF Tick, wire, calls
<1>2. DOMAIN store = Ids /\ \A k \in Ids : IsEntry(store[k])
  BY StoreOfEntries DEF IInv
<1>3. ASSUME NEW k \in Ids, Has(store, k)
      PROVE  \/ store'[k] = Absent
             \/ IsEntry(store'[k]) /\ store'[k].data = store[k].data
                /\ (store'[k].ttl = NoTtl <=> store[k].ttl = NoTtl)
  BY <1>3, TickKey DEF IInv
<1>4. IsStore(store)'
  <2>1. IsEntry(Absent)
    BY DEF IsEntry
  <2>2. DOMAIN store' = Ids /\ \A k \in Ids : ~Has(store, k) => store'[k] = store[k]
    BY <1>1, TickKey DEF IInv
  <2>3. \A k \in Ids : IsEntry(store'[k])
    BY <2>1, <2>2, <1>2, <1>3
  <2> QED BY <2>2, <2>3, StoreOfEntries
<1>5. removed' \subseteq Ids /\ removed \subseteq removed'
  BY <1>1 DEF IInv, Lost
<1>6. WireInv' /\ CallsInv' /\ SentInv'
  BY <1>1 DEF IInv, WireInv, CallsInv, SentInv
<1>7. \A k \in Ids \ removed', e \in Calls : Kept(e, k) => Kept(e, k)'
  <2> SUFFICES ASSUME NEW k \in Ids \ removed', NEW e \in Calls, Kept(e, k) PROVE Kept(e, k)'
    OBVIOUS
  <2>1. Has(store, k)
    BY DEF Kept
  <2>2. Has(store', k)
    BY <2>1, <1>1 DEF Lost
  <2>3. Uses(k, Harmless)' <=> Uses(k, Harmless)
    BY <1>1 DEF Uses, Users
  <2>4. store'[k].data = store[k].data /\ (store'[k].ttl = NoTtl <=> store[k].ttl = NoTtl)
    BY <2>1, <2>2, <1>3 DEF Has
  <2>5. asked' = asked
    BY <1>1
  <2> QED BY <2>2, <2>3, <2>4, <2>5 DEF Kept
<1>8. \A k \in Ids \ removed', e \in Calls : Told(e, k)' => Told(e, k)
  BY <1>1 DEF Told
<1>9. LockInv'
  BY <1>5, <1>7, <1>8, NobodyNew DEF IInv
<1> QED BY <1>4, <1>5, <1>6, <1>9 DEF IInv

-----------------------------------------------------------------------------
(* How calls settle.                                                       *)

LEMMA ReplyStep ==
  ASSUME IInv, Reply
  PROVE  IInv'
<1> DEFINE c == Head(queue)
<1>1. /\ up /\ ran > 0 /\ reply' = [reply EXCEPT ![c] = Nil]
      /\ UNCHANGED <<store, removed, up, drops, stray, asked, command>>
      /\ queue' = Tail(queue) /\ ran' = ran - 1
  BY DEF Reply, server
<1>2. /\ queue \in Seq(Calls) /\ Len(queue) \in Nat /\ ran \in 1 .. Len(queue) /\ Len(queue) > 0
      /\ queue # <<>> /\ IsInjective(queue) /\ DOMAIN queue = 1 .. Len(queue)
  BY <1>1, QueueFacts DEF IInv, WireInv
<1>3. /\ c = queue[1] /\ c \in Calls
      /\ queue' \in Seq(Calls) /\ Len(queue') = Len(queue) - 1 /\ DOMAIN queue' = 1 .. Len(queue) - 1
      /\ \A i \in 1 .. Len(queue) - 1 : queue'[i] = queue[i + 1]
  BY <1>1, <1>2
<1> HIDE DEF c
<1>4. ASSUME NEW i \in 1 .. Len(queue) - 1 PROVE queue'[i] # c
  <2>1. i + 1 \in DOMAIN queue /\ 1 \in DOMAIN queue /\ i + 1 # 1 /\ queue'[i] = queue[i + 1]
    BY <1>2, <1>3
  <2>2. queue[i + 1] # queue[1]
    BY <2>1, <1>2 DEF IsInjective
  <2> QED BY <2>1, <2>2, <1>3
<1>5. ToSet(queue') = ToSet(queue) \ {c}
  <2>1. ToSet(queue) = {queue[i] : i \in 1 .. Len(queue)} /\ ToSet(queue') = {queue'[i] : i \in 1 .. Len(queue) - 1}
    BY <1>2, <1>3 DEF ToSet
  <2>2. ASSUME NEW i \in 1 .. Len(queue), queue[i] # c PROVE queue[i] \in ToSet(queue')
    <3>1. i - 1 \in 1 .. Len(queue) - 1
      BY <2>2, <1>2, <1>3
    <3>2. queue'[i - 1] = queue[i]
      BY <3>1, <1>3, <1>2
    <3> QED BY <3>1, <3>2, <2>1
  <2>3. ASSUME NEW i \in 1 .. Len(queue) - 1 PROVE queue'[i] \in ToSet(queue) \ {c}
    <3>1. i + 1 \in 1 .. Len(queue)
      BY <1>2
    <3> QED BY <3>1, <2>1, <1>3, <1>4
  <2> QED BY <2>1, <2>2, <2>3
<1>6. /\ phase' \in [Calls -> {"idle", "waiting", "resolved", "rejected"}] /\ DOMAIN result' = Calls
      /\ \A e \in Calls \ {c} : phase'[e] = phase[e] /\ result'[e] = result[e]
      /\ phase'[c] # "waiting" /\ (phase'[c] = "idle" => phase[c] = "idle")
      /\ asked[c].method = "setNx" /\ phase'[c] = "resolved" =>
           \/ phase[c] = "resolved" /\ result'[c] = result[c]
           \/ result'[c] = (reply[c] = "OK")
  <2>1. CASE phase[c] # "waiting"
    <3>1. phase' = phase /\ result' = result
      BY <2>1 DEF Reply, c
    <3> QED BY <3>1, <2>1, <1>3 DEF IInv, CallsInv
  <2>2. CASE phase[c] = "waiting" /\ Rejects(asked[c].method, reply[c])
    <3>1. Reject({c})
      BY <2>2 DEF Reply, c
    <3> QED BY <3>1, <1>3, <1>1, Rejected DEF IInv
  <2>3. CASE phase[c] = "waiting" /\ ~Rejects(asked[c].method, reply[c])
    <3>1. /\ phase' = [phase EXCEPT ![c] = "resolved"]
          /\ result' = [result EXCEPT ![c] = Resolved(asked[c].method, reply[c])]
      BY <2>3 DEF Reply, c
    <3>2. asked[c].method = "setNx" => Resolved(asked[c].method, reply[c]) = (reply[c] = "OK")
      BY DEF Resolved
    <3>3. /\ phase'[c] = "resolved" /\ result'[c] = Resolved(asked[c].method, reply[c])
          /\ \A e \in Calls \ {c} : phase'[e] = phase[e] /\ result'[e] = result[e]
          /\ DOMAIN result' = Calls /\ DOMAIN phase' = Calls
      BY <3>1, <1>3 DEF IInv, CallsInv
    <3>4. phase' \in [Calls -> {"idle", "waiting", "resolved", "rejected"}]
      BY <3>1, <1>3 DEF IInv, CallsInv
    <3>5. asked[c].method = "setNx" => result'[c] = (reply[c] = "OK")
      BY <3>2, <3>3, Zenon
    <3> QED BY <3>3, <3>4, <3>5
  <2> QED BY <2>1, <2>2, <2>3
<1>7. WireInv'
  <2>1. stray' \subseteq Calls /\ up' \in BOOLEAN /\ up' /\ drops' \in 0 .. MaxDrops
    BY <1>1 DEF IInv, WireInv
  <2>2. queue' \in Seq(Calls) /\ ran' \in 0 .. Len(queue')
    BY <1>1, <1>2, <1>3
  <2>3. IsInjective(queue')
    <3> SUFFICES ASSUME NEW i \in 1 .. Len(queue) - 1, NEW j \in 1 .. Len(queue) - 1, queue'[i] = queue'[j]
                 PROVE  i = j
      BY <1>3 DEF IsInjective
    <3>1. i + 1 \in DOMAIN queue /\ j + 1 \in DOMAIN queue /\ queue[i + 1] = queue[j + 1]
      BY <1>2, <1>3
    <3>2. i + 1 = j + 1
      BY <3>1, <1>2 DEF IsInjective
    <3> QED BY <3>2
  <2>4. \A e \in Calls : phase'[e] = "waiting" => e \in ToSet(queue')
    BY <1>5, <1>6 DEF IInv, WireInv
  <2> QED BY <2>1, <2>2, <2>3, <2>4 DEF WireInv
<1>8. CallsInv' /\ SentInv'
  <2>1. \A e \in Calls : phase'[e] = "idle" => phase[e] = "idle"
    BY <1>6
  <2>2. DOMAIN reply' = Calls
    BY <1>1 DEF IInv, CallsInv
  <2>3. CallsInv'
    BY <2>1, <2>2, <1>1, <1>6 DEF IInv, CallsInv
  <2>4. SentInv'
    BY <2>1, <1>1, <1>5 DEF IInv, SentInv
  <2> QED BY <2>3, <2>4
<1>9. ASSUME NEW k \in Ids, NEW e \in Calls, Told(e, k)' PROVE Told(e, k)
  <2>1. asked[e].method = "setNx" /\ asked[e].ids = {k}
    BY <1>1, <1>9 DEF Told
  <2>2. CASE phase'[e] = "resolved" /\ result'[e]
    <3>1. CASE e # c
      BY <3>1, <2>1, <2>2, <1>6 DEF Told
    <3>2. CASE e = c
      <4>1. CASE phase[c] = "resolved" /\ result'[c] = result[c]
        BY <4>1, <3>2, <2>1, <2>2 DEF Told
      <4>2. CASE result'[c] = (reply[c] = "OK")
        <5>1. result'[c]
          BY <2>2, <3>2, Zenon
        <5>2. reply[c] = "OK"
          BY <4>2, <5>1, Zenon
        <5> QED BY <5>2, <3>2, <2>1, <1>2, <1>3 DEF Told
      <4> QED BY <4>1, <4>2, <3>2, <2>1, <2>2, <1>6
    <3> QED BY <3>1, <3>2
  <2>3. CASE ~(phase'[e] = "resolved" /\ result'[e])
    <3>1. PICK i \in 1 .. ran - 1 : queue'[i] = e /\ reply'[e] = "OK"
      BY <1>1, <1>9, <2>3 DEF Told
    <3>2. i \in 1 .. Len(queue) - 1 /\ i + 1 \in 1 .. ran
      BY <1>2
    <3>3. queue[i + 1] = e /\ e # c
      BY <3>1, <3>2, <1>3, <1>4
    <3>4. reply[e] = "OK"
      BY <3>1, <3>3, <1>1 DEF IInv, CallsInv
    <3> QED BY <3>2, <3>3, <3>4, <2>1 DEF Told
  <2> QED BY <2>2, <2>3
<1>10. LockInv'
  BY <1>1, <1>9, KeptSame, NobodyNew DEF IInv
<1> QED BY <1>1, <1>7, <1>8, <1>10 DEF IInv

(* Rejecting calls tells nobody that it holds a lock.                      *)
LEMMA RejectTellsNobody ==
  ASSUME CallsInv, NEW cs \in SUBSET Calls, Reject(cs), UNCHANGED <<asked, command, reply>>,
         queue' = queue \/ ran' = 0, ran' = ran
  PROVE  /\ CallsInv' /\ \A e \in Calls : phase'[e] = "idle" => phase[e] = "idle"
         /\ \A e \in Calls : phase'[e] = "waiting" => phase[e] = "waiting" /\ e \notin cs
         /\ \A k \in Ids, e \in Calls : Told(e, k)' => Told(e, k)
<1>1. /\ phase' \in [Calls -> {"idle", "waiting", "resolved", "rejected"}] /\ DOMAIN result' = Calls
      /\ \A e \in Calls \ cs : phase'[e] = phase[e] /\ result'[e] = result[e]
      /\ \A e \in cs : /\ phase'[e] \in {"resolved", "rejected"}
                       /\ asked'[e].method = "setNx" => phase'[e] = "rejected"
  BY Rejected
<1>2. \A e \in Calls : /\ phase'[e] = "idle" => phase[e] = "idle"
                       /\ phase'[e] = "waiting" => phase[e] = "waiting" /\ e \notin cs
  BY <1>1
<1>3. CallsInv'
  BY <1>1, <1>2 DEF CallsInv
<1>4. ASSUME NEW k \in Ids, NEW e \in Calls, Told(e, k)' PROVE Told(e, k)
  <2>1. asked[e].method = "setNx" /\ asked[e].ids = {k} /\ reply' = reply
    BY <1>4 DEF Told
  <2>2. CASE phase'[e] = "resolved" /\ result'[e]
    <3>1. e \notin cs
      BY <1>1, <2>1, <2>2
    <3> QED BY <3>1, <1>1, <2>1, <2>2 DEF Told
  <2>3. CASE ~(phase'[e] = "resolved" /\ result'[e])
    <3>1. PICK i \in 1 .. ran : queue'[i] = e /\ reply[e] = "OK"
      BY <1>4, <2>1, <2>3 DEF Told
    <3>2. ran # 0 /\ queue' = queue
      BY <3>1
    <3> QED BY <3>1, <3>2, <2>1 DEF Told
  <2> QED BY <2>2, <2>3
<1> QED BY <1>2, <1>3, <1>4

LEMMA TimeOutStep ==
  ASSUME IInv, NEW c \in Calls, TimeOut(c)
  PROVE  IInv'
<1>1. Reject({c}) /\ UNCHANGED <<store, removed, up, drops, queue, ran, stray, asked, command, reply>>
  BY DEF TimeOut, server, wire
<1>2. /\ CallsInv' /\ \A e \in Calls : phase'[e] = "idle" => phase[e] = "idle"
      /\ \A e \in Calls : phase'[e] = "waiting" => phase[e] = "waiting"
      /\ \A k \in Ids, e \in Calls : Told(e, k)' => Told(e, k)
  BY <1>1, RejectTellsNobody DEF IInv
<1>3. WireInv' /\ SentInv'
  BY <1>1, <1>2 DEF IInv, WireInv, SentInv
<1>4. LockInv'
  BY <1>1, <1>2, KeptSame, NobodyNew DEF IInv
<1> QED BY <1>1, <1>2, <1>3, <1>4 DEF IInv

LEMMA GiveUpStep ==
  ASSUME IInv, GiveUp
  PROVE  IInv'
<1> DEFINE cs == {c \in Calls : phase[c] = "waiting"}
<1>1. /\ ~up /\ queue' = <<>> /\ Reject(cs)
      /\ UNCHANGED <<store, removed, up, drops, ran, stray, asked, command, reply>>
  BY DEF GiveUp, server
<1>2. ran = 0 /\ ran' = 0
  BY <1>1 DEF IInv, WireInv
<1>3. /\ CallsInv' /\ \A e \in Calls : phase'[e] = "idle" => phase[e] = "idle"
      /\ \A e \in Calls : phase'[e] = "waiting" => phase[e] = "waiting" /\ e \notin cs
      /\ \A k \in Ids, e \in Calls : Told(e, k)' => Told(e, k)
  BY <1>1, <1>2, RejectTellsNobody DEF IInv
<1>4. queue' \in Seq(Calls) /\ Len(queue') = 0 /\ ToSet(queue') = {} /\ IsInjective(queue')
  BY <1>1 DEF ToSet, IsInjective
<1>5. \A e \in Calls : phase'[e] # "waiting"
  BY <1>3
<1>6. WireInv'
  <2>1. stray' \subseteq Calls /\ up' \in BOOLEAN /\ drops' \in 0 .. MaxDrops
    BY <1>1 DEF IInv, WireInv
  <2>2. ran' \in 0 .. Len(queue')
    BY <1>2, <1>4
  <2> QED BY <2>1, <2>2, <1>2, <1>4, <1>5 DEF WireInv
<1>7. SentInv'
  BY <1>1, <1>3, <1>4 DEF IInv, SentInv
<1>8. LockInv'
  BY <1>1, <1>3, KeptSame, NobodyNew DEF IInv
<1> QED BY <1>1, <1>3, <1>6, <1>7, <1>8 DEF IInv

-----------------------------------------------------------------------------
(* The calls.                                                              *)

(* A call that is made was about no key before, and its command is not     *)
(* under way.                                                              *)
LEMMA NewCall ==
  ASSUME IInv, NEW c \in Calls, phase[c] = "idle", NEW r, asked' = [asked EXCEPT ![c] = r],
         UNCHANGED <<store, removed, ran, reply>>, \A i \in 1 .. ran : queue'[i] = queue[i],
         \A e \in Calls \ {c} : phase'[e] = phase[e] /\ result'[e] = result[e],
         r.method = "setNx" => phase'[c] # "resolved"
  PROVE  LockInv'
<1>1. asked'[c] = r /\ \A e \in Calls \ {c} : asked'[e] = asked[e]
  BY DEF IInv, CallsInv
<1>2. asked[c].ids = {}
  BY DEF IInv, CallsInv
<1>3. c \notin ToSet(queue)
  BY DEF IInv, SentInv
<1>4. ASSUME NEW k \in Ids, NEW e \in Calls, Told(e, k)' PROVE e # c /\ Told(e, k)
  <2>1. asked'[e].method = "setNx" /\ asked'[e].ids = {k}
    BY <1>4 DEF Told
  <2>2. CASE phase'[e] = "resolved" /\ result'[e]
    <3>1. e # c
      BY <1>1, <2>1, <2>2
    <3> QED BY <3>1, <1>1, <2>1, <2>2 DEF Told
  <2>3. CASE ~(phase'[e] = "resolved" /\ result'[e])
    <3>1. PICK i \in 1 .. ran : queue[i] = e /\ reply[e] = "OK"
      BY <1>4, <2>3 DEF Told
    <3>2. i \in 1 .. Len(queue)
      BY QueueFacts DEF IInv, WireInv
    <3>3. e # c
      BY <3>1, <3>2, <1>3, QueueFacts DEF IInv
    <3> QED BY <3>1, <3>3, <1>1, <2>1 DEF Told
  <2> QED BY <2>2, <2>3
<1>5. ASSUME NEW k \in Ids, NEW e \in Calls \ {c}, Kept(e, k) PROVE Kept(e, k)'
  <2>1. Uses(k, Harmless)' => Uses(k, Harmless)
    <3>1. \A d \in Users(k) : d # c
      BY <1>2 DEF Users
    <3>2. \A d \in Users(k) : d \in Calls /\ asked'[d] = asked[d] /\ k \in asked'[d].ids
      BY <3>1, <1>1 DEF Users
    <3> QED BY <3>2 DEF Uses, Users
  <2>2. Has(store', k) /\ asked'[e] = asked[e] /\ store'[k] = store[k]
    BY <1>1, <1>5 DEF Kept, Has
  <2> QED BY <1>5, <2>1, <2>2 DEF Kept
<1>6. removed \subseteq removed' /\ LockInv
  BY DEF IInv
<1>7. \A k \in Ids \ removed', e \in Calls : Told(e, k)' => Told(e, k) /\ (Kept(e, k) => Kept(e, k)')
  BY <1>4, <1>5
<1> QED BY <1>6, <1>7, NobodyNew

(* What is sent.                                                           *)
Sends(c, r, q) ==
  /\ phase[c] = "idle" /\ asked' = [asked EXCEPT ![c] = r]
  /\ UNCHANGED <<store, removed, began, up, drops, ran, stray, reply>> /\ up
  /\ phase' = [phase EXCEPT ![c] = "waiting"] /\ command' = [command EXCEPT ![c] = q]
  /\ queue' = Append(queue, c) /\ result' = result

Refuses(c, r) ==
  /\ phase[c] = "idle" /\ asked' = [asked EXCEPT ![c] = r] /\ Reject({c})
  /\ UNCHANGED <<store, removed, began, up, drops, ran, stray, reply, command, queue>>

(* What needs no command.                                                  *)
Idles(c, r, v) ==
  /\ Skip(c, r, v) /\ r.method \in {"delMany", "mget", "mset", "hdel", "sadd", "srem"}
  /\ r.method = "mget" => v = <<>> /\ r.order = <<>>

LEMMA SendStep ==
  ASSUME IInv, NEW c \in Calls, NEW r, NEW q, Sends(c, r, q), SentFor(r, q)
  PROVE  IInv'
<1>1. /\ phase[c] = "idle" /\ asked' = [asked EXCEPT ![c] = r] /\ up
      /\ UNCHANGED <<store, removed, up, drops, ran, stray, reply, result>>
      /\ phase' = [phase EXCEPT ![c] = "waiting"] /\ command' = [command EXCEPT ![c] = q]
      /\ queue' = Append(queue, c)
  BY DEF Sends
<1>2. /\ queue \in Seq(Calls) /\ Len(queue) \in Nat /\ ran \in 0 .. Len(queue) /\ IsInjective(queue)
      /\ DOMAIN queue = 1 .. Len(queue)
  BY QueueFacts DEF IInv, WireInv
<1>3. /\ queue' \in Seq(Calls) /\ Len(queue') = Len(queue) + 1 /\ DOMAIN queue' = 1 .. Len(queue) + 1
      /\ queue'[Len(queue) + 1] = c /\ \A i \in 1 .. Len(queue) : queue'[i] = queue[i]
  BY <1>1, <1>2
<1>4. c \notin ToSet(queue) /\ \A i \in 1 .. Len(queue) : queue[i] # c
  BY <1>1, QueueFacts DEF IInv, SentInv
<1>5. ToSet(queue') = ToSet(queue) \union {c}
  <2>1. /\ ToSet(queue) = {queue[i] : i \in 1 .. Len(queue)}
        /\ ToSet(queue') = {queue'[i] : i \in 1 .. Len(queue) + 1}
    BY <1>2, <1>3 DEF ToSet
  <2>2. \A i \in 1 .. Len(queue) + 1 : i \in 1 .. Len(queue) \/ i = Len(queue) + 1
    BY <1>2
  <2>3. Len(queue) + 1 \in 1 .. Len(queue) + 1 /\ \A i \in 1 .. Len(queue) : i \in 1 .. Len(queue) + 1
    BY <1>2
  <2> QED BY <2>1, <2>2, <2>3, <1>3
<1>6. /\ phase' \in [Calls -> {"idle", "waiting", "resolved", "rejected"}] /\ phase'[c] = "waiting"
      /\ asked'[c] = r /\ command'[c] = q
      /\ \A e \in Calls \ {c} : phase'[e] = phase[e] /\ asked'[e] = asked[e] /\ command'[e] = command[e]
  BY <1>1 DEF IInv, CallsInv
<1>7. WireInv'
  <2>1. stray' \subseteq Calls /\ up' \in BOOLEAN /\ up' /\ drops' \in 0 .. MaxDrops
    BY <1>1 DEF IInv, WireInv
  <2>2. ran' \in 0 .. Len(queue')
    BY <1>1, <1>2, <1>3
  <2>3. IsInjective(queue')
    <3> SUFFICES ASSUME NEW i \in 1 .. Len(queue) + 1, NEW j \in 1 .. Len(queue) + 1, queue'[i] = queue'[j]
                 PROVE  i = j
      BY <1>3 DEF IsInjective
    <3>1. CASE i \in 1 .. Len(queue) /\ j \in 1 .. Len(queue)
      BY <3>1, <1>2, <1>3 DEF IsInjective
    <3>2. CASE ~(i \in 1 .. Len(queue) /\ j \in 1 .. Len(queue))
      BY <3>2, <1>2, <1>3, <1>4
    <3> QED BY <3>1, <3>2
  <2>4. \A e \in Calls : phase'[e] = "waiting" => e \in ToSet(queue')
    BY <1>5, <1>6 DEF IInv, WireInv
  <2> QED BY <2>1, <2>2, <2>3, <2>4, <1>3 DEF WireInv
<1>8. CallsInv'
  BY <1>1, <1>6 DEF IInv, CallsInv
<1>9. SentInv'
  BY <1>1, <1>5, <1>6 DEF IInv, SentInv
<1>10. LockInv'
  <2>1. \A i \in 1 .. ran : queue'[i] = queue[i]
    BY <1>2, <1>3
  <2>2. \A e \in Calls \ {c} : phase'[e] = phase[e] /\ result'[e] = result[e]
    BY <1>1, <1>6
  <2>3. phase'[c] # "resolved"
    BY <1>6
  <2> QED BY <2>1, <2>2, <2>3, <1>1, NewCall
<1> QED BY <1>1, <1>7, <1>8, <1>9, <1>10 DEF IInv

LEMMA RefuseStep ==
  ASSUME IInv, NEW c \in Calls, NEW r, Refuses(c, r)
  PROVE  IInv'
<1>1. /\ phase[c] = "idle" /\ asked' = [asked EXCEPT ![c] = r] /\ Reject({c})
      /\ UNCHANGED <<store, removed, up, drops, ran, stray, reply, command, queue>>
  BY DEF Refuses
<1>2. /\ phase' \in [Calls -> {"idle", "waiting", "resolved", "rejected"}] /\ DOMAIN result' = Calls
      /\ \A e \in Calls \ {c} : phase'[e] = phase[e] /\ result'[e] = result[e]
      /\ phase'[c] \in {"resolved", "rejected"} /\ (asked'[c].method = "setNx" => phase'[c] = "rejected")
  BY <1>1, Rejected DEF IInv
<1>3. asked'[c] = r /\ DOMAIN asked' = Calls /\ \A e \in Calls \ {c} : asked'[e] = asked[e]
  BY <1>1 DEF IInv, CallsInv
<1>4. c \notin ToSet(queue) \union stray
  BY <1>1 DEF IInv, SentInv
<1>5. WireInv'
  <2>1. \A e \in Calls : phase'[e] = "waiting" => e # c /\ phase[e] = "waiting"
    BY <1>2
  <2> QED BY <2>1, <1>1 DEF IInv, WireInv
<1>6. CallsInv' /\ SentInv'
  <2>1. CallsInv'
    BY <1>1, <1>2, <1>3 DEF IInv, CallsInv
  <2>2. SentInv'
    BY <1>1, <1>2, <1>3, <1>4 DEF IInv, SentInv
  <2> QED BY <2>1, <2>2
<1>7. LockInv'
  <2>1. r.method = "setNx" => phase'[c] # "resolved"
    BY <1>2, <1>3
  <2> QED BY <2>1, <1>1, <1>2, NewCall
<1> QED BY <1>1, <1>5, <1>6, <1>7 DEF IInv

LEMMA SkipStep ==
  ASSUME IInv, NEW c \in Calls, NEW r, NEW v, Skip(c, r, v), r.method # "setNx"
  PROVE  IInv'
<1>1. /\ phase[c] = "idle" /\ asked' = [asked EXCEPT ![c] = r]
      /\ phase' = [phase EXCEPT ![c] = "resolved"] /\ result' = [result EXCEPT ![c] = v]
      /\ UNCHANGED <<store, removed, up, drops, queue, ran, stray, command, reply>>
  BY DEF Skip, server, wire
<1>2. /\ phase' \in [Calls -> {"idle", "waiting", "resolved", "rejected"}] /\ DOMAIN result' = Calls
      /\ phase'[c] = "resolved"
      /\ \A e \in Calls \ {c} : phase'[e] = phase[e] /\ result'[e] = result[e]
  BY <1>1 DEF IInv, CallsInv
<1>3. asked'[c] = r /\ DOMAIN asked' = Calls /\ \A e \in Calls \ {c} : asked'[e] = asked[e]
  BY <1>1 DEF IInv, CallsInv
<1>4. c \notin ToSet(queue) \union stray
  BY <1>1 DEF IInv, SentInv
<1>5. WireInv'
  <2>1. \A e \in Calls : phase'[e] = "waiting" => e # c /\ phase[e] = "waiting"
    BY <1>2
  <2> QED BY <2>1, <1>1 DEF IInv, WireInv
<1>6. CallsInv' /\ SentInv'
  <2>1. CallsInv'
    BY <1>1, <1>2, <1>3 DEF IInv, CallsInv
  <2>2. SentInv'
    BY <1>1, <1>2, <1>3, <1>4 DEF IInv, SentInv
  <2> QED BY <2>1, <2>2
<1>7. LockInv'
  BY <1>1, <1>2, NewCall
<1> QED BY <1>1, <1>5, <1>6, <1>7 DEF IInv

(* A method sends its command, rejects, or has nothing to do.              *)
Made(c) ==
  \/ \E r, q : Sends(c, r, q) /\ SentFor(r, q)
  \/ \E r : Refuses(c, r)
  \/ \E r, v : Idles(c, r, v)

LEMMA MadeStep ==
  ASSUME IInv, NEW c \in Calls, Made(c)
  PROVE  IInv'
<1>1. ASSUME NEW r, NEW v, Idles(c, r, v) PROVE IInv'
  BY <1>1, SkipStep DEF Idles
<1> QED BY <1>1, SendStep, RefuseStep DEF Made

LEMMA TtlFits ==
  ASSUME NEW t, TtlArgument(t), WriteTtlHolds(t)
  PROVE  t \in {NoTtl} \union 1 .. MaxTtl
BY CommandsAssumption DEF TtlArgument, WriteTtlHolds, TtlHolds, MinWriteTtl, NoTtl

LEMMA IdFits ==
  ASSUME NEW id, id \in Ids \union {EmptyId}, Builds({id})
  PROVE  id \in Ids
BY DEF Builds

(* The methods that only read.                                             *)
LEMMA ReadMade ==
  ASSUME NEW c \in Calls, NEW id, id \in Ids \union {EmptyId},
         \/ Get(c, id) \/ GetRaw(c, id) \/ Exists(c, id) \/ Ttl(c, id) \/ Hgetall(c, id)
         \/ Smembers(c, id) \/ Scard(c, id)
  PROVE  Made(c)
<1> DEFINE made(method, name) == \/ Builds({id}) /\ Sends(c, Asks(method, id), On(name, id))
                                \/ Refuses(c, Asks(method, id))
<1>1. \/ made("get", "GET") \/ made("getRaw", "GET") \/ made("exists", "EXISTS") \/ made("ttl", "TTL")
      \/ made("hgetall", "HGETALL") \/ made("smembers", "SMEMBERS") \/ made("scard", "SCARD")
  BY DEF Get, GetRaw, Exists, Ttl, Hgetall, Smembers, Scard, Issue, Sends, Refuses, server
<1>2. /\ SentFor(Asks("get", id), On("GET", id)) /\ SentFor(Asks("getRaw", id), On("GET", id))
      /\ SentFor(Asks("hgetall", id), On("HGETALL", id)) /\ SentFor(Asks("smembers", id), On("SMEMBERS", id))
  BY DEF Asks, On, SentFor
<1>3. Builds({id}) => /\ SentFor(Asks("exists", id), On("EXISTS", id))
                      /\ SentFor(Asks("ttl", id), On("TTL", id))
                      /\ SentFor(Asks("scard", id), On("SCARD", id))
  BY IdFits DEF Asks, On, SentFor
<1> QED BY <1>1, <1>2, <1>3 DEF Made

LEMMA ReadPartMade ==
  ASSUME NEW c \in Calls, NEW id, id \in Ids \union {EmptyId}, NEW x, Hget(c, id, x) \/ Sismember(c, id, x)
  PROVE  Made(c)
<1>1. CASE Hget(c, id, x)
  <2> DEFINE r == Asks("hget", id)
             q == [name |-> "HGET", key |-> id, field |-> x]
  <2>1. SentFor(r, q)
    BY DEF Asks, SentFor
  <2>2. Sends(c, r, q) \/ Refuses(c, r)
    BY <1>1 DEF Hget, Issue, Sends, Refuses, server
  <2> QED BY <2>1, <2>2 DEF Made
<1>2. CASE Sismember(c, id, x)
  <2> DEFINE r == AsksFor(id, x)
             q == [name |-> "SISMEMBER", key |-> id, member |-> x]
  <2>1. Builds({id}) => SentFor(r, q)
    BY IdFits DEF AsksFor, SentFor
  <2>2. (Builds({id}) /\ Sends(c, r, q)) \/ Refuses(c, r)
    BY <1>2 DEF Sismember, Issue, Sends, Refuses, server
  <2> QED BY <2>1, <2>2 DEF Made
<1> QED BY <1>1, <1>2

LEMMA PlainMade ==
  ASSUME NEW c \in Calls, Keys(c) \/ Ping(c) \/ IsHealthy(c) \/ Info(c)
  PROVE  Made(c)
<1> DEFINE r(method) == [method |-> method, ids |-> {}]
           q(name)   == [name |-> name]
           made(method, name) == Sends(c, r(method), q(name)) \/ Refuses(c, r(method))
<1>1. made("keys", "KEYS") \/ made("ping", "PING") \/ made("isHealthy", "PING") \/ made("info", "INFO")
  BY DEF Keys, Ping, IsHealthy, Info, Issue, Sends, Refuses, server
<1>2. /\ SentFor(r("keys"), q("KEYS")) /\ SentFor(r("ping"), q("PING"))
      /\ SentFor(r("isHealthy"), q("PING")) /\ SentFor(r("info"), q("INFO"))
  BY DEF SentFor
<1> QED BY <1>1, <1>2 DEF Made

(* The keys of a batch.                                                    *)
LEMMA BatchFits ==
  ASSUME NEW ids \in Batches
  PROVE  /\ ids \in Seq(Ids \union {EmptyId}) /\ Len(ids) \in Nat /\ DOMAIN ids = 1 .. Len(ids)
         /\ ToSet(ids) = {ids[i] : i \in DOMAIN ids}
         /\ Builds(ToSet(ids)) => ToSet(ids) \subseteq Ids
<1>1. ids \in Seq(Ids \union {EmptyId}) /\ Len(ids) \in Nat /\ DOMAIN ids = 1 .. Len(ids)
  BY ArgumentsAssumption
<1>2. ToSet(ids) = {ids[i] : i \in DOMAIN ids}
  BY DEF ToSet
<1>3. \A i \in DOMAIN ids : ids[i] \in Ids \union {EmptyId}
  BY <1>1
<1>4. Builds(ToSet(ids)) => ToSet(ids) \subseteq Ids
  BY <1>2, <1>3 DEF Builds
<1> QED BY <1>1, <1>2, <1>4

LEMMA MgetMade ==
  ASSUME NEW c \in Calls, NEW ids \in Batches, Mget(c, ids)
  PROVE  Made(c)
<1> DEFINE r == [method |-> "mget", ids |-> ToSet(ids), order |-> ids]
           q == [name |-> "MGET", keys |-> ids]
<1>1. \/ ids = <<>> /\ Skip(c, r, <<>>)
      \/ Builds(ToSet(ids)) /\ Sends(c, r, q)
      \/ Refuses(c, r)
  BY DEF Mget, Issue, Sends, Refuses, server
<1>2. Builds(ToSet(ids)) => SentFor(r, q)
  BY BatchFits DEF SentFor
<1>3. r.method = "mget" /\ r.order = ids
  OBVIOUS
<1>4. ids = <<>> /\ Skip(c, r, <<>>) => Idles(c, r, <<>>)
  BY <1>3 DEF Idles
<1> HIDE DEF r
<1> QED BY <1>1, <1>2, <1>4 DEF Made

(* The methods that write a string.                                        *)
LEMMA SetMade ==
  ASSUME NEW c \in Calls, NEW id, id \in Ids \union {EmptyId}, NEW v, NEW t, TtlArgument(t),
         Set(c, id, v, t) \/ SetRaw(c, id, v, t) \/ SetNx(c, id, v, t)
  PROVE  Made(c)
<1> DEFINE r(method)    == AsksSet(method, id, v, t)
           q(text, nx)  == Setting(id, text, t, nx)
           ready        == Builds({id}) /\ WriteTtlHolds(t)
           sent(m, x, nx) == ready /\ Sends(c, r(m), q(x, nx))
<1>1. \/ sent("set", JsonOf(v), FALSE) \/ sent("setRaw", v, FALSE) \/ sent("setNx", JsonOf(v), TRUE)
      \/ Refuses(c, r("set")) \/ Refuses(c, r("setRaw")) \/ Refuses(c, r("setNx"))
  BY DEF Set, SetRaw, SetNx, Issue, Sends, Refuses, server
<1>2. ASSUME ready
      PROVE  /\ \A x : SentFor(r("set"), q(x, FALSE)) /\ SentFor(r("setRaw"), q(x, FALSE))
             /\ SentFor(r("setNx"), q(JsonOf(v), TRUE))
  <2>1. id \in Ids /\ t \in {NoTtl} \union 1 .. MaxTtl
    BY <1>2, IdFits, TtlFits
  <2> QED BY <2>1 DEF SentFor, AsksSet, Setting
<1> QED BY <1>1, <1>2 DEF Made

(* The other methods that write.                                           *)
LEMMA DelMade ==
  ASSUME NEW c \in Calls, NEW ids, Del(c, ids) \/ DelMany(c, ids)
  PROVE  Made(c)
<1>1. CASE Del(c, ids)
  <2> DEFINE r == Asks("del", ids)
             q == [name |-> "DEL", keys |-> {ids}]
  <2>1. SentFor(r, q)
    BY DEF SentFor, Asks
  <2>2. Sends(c, r, q) \/ Refuses(c, r)
    BY <1>1 DEF Del, Issue, Sends, Refuses, server
  <2> QED BY <2>1, <2>2 DEF Made
<1>2. CASE DelMany(c, ids)
  <2> DEFINE r == [method |-> "delMany", ids |-> ids]
             q == [name |-> "DEL", keys |-> ids]
  <2>1. SentFor(r, q)
    BY DEF SentFor
  <2>2. Skip(c, r, 0) \/ Sends(c, r, q) \/ Refuses(c, r)
    BY <1>2 DEF DelMany, Issue, Sends, Refuses, server
  <2>3. Skip(c, r, 0) => Idles(c, r, 0)
    BY DEF Idles
  <2> HIDE DEF r, q
  <2> QED BY <2>1, <2>2, <2>3 DEF Made
<1> QED BY <1>1, <1>2

LEMMA CountMade ==
  ASSUME NEW c \in Calls, NEW id, id \in Ids \union {EmptyId}, NEW n \in Steps,
         Incr(c, id, n) \/ Decr(c, id, n)
  PROVE  Made(c)
<1> DEFINE r(method) == AsksBy(method, id, n)
<1>1. \/ Builds({id}) /\ Sends(c, r("incr"), IncrBy(id, n))
      \/ Builds({id}) /\ Sends(c, r("decr"), IncrBy(id, -n))
      \/ Refuses(c, r("incr")) \/ Refuses(c, r("decr"))
  BY DEF Incr, Decr, Issue, Sends, Refuses, server
<1>2. ASSUME Builds({id}) PROVE SentFor(r("incr"), IncrBy(id, n)) /\ SentFor(r("decr"), IncrBy(id, -n))
  <2>1. id \in Ids /\ n \in Int
    BY <1>2, IdFits, CommandsAssumption
  <2> QED BY <2>1 DEF AsksBy, IncrBy, SentFor
<1> QED BY <1>1, <1>2 DEF Made

LEMMA ExpireMade ==
  ASSUME NEW c \in Calls, NEW id, id \in Ids \union {EmptyId}, NEW t, TtlArgument(t), Expire(c, id, t)
  PROVE  Made(c)
<1> DEFINE r == [method |-> "expire", ids |-> {id}, ttl |-> t]
           q == [name |-> "EXPIRE", key |-> id, ttl |-> t]
<1>1. (ExpireTtlHolds(t) /\ Builds({id}) /\ Sends(c, r, q)) \/ Refuses(c, r)
  BY DEF Expire, Issue, Sends, Refuses, server
<1>2. ASSUME ExpireTtlHolds(t), Builds({id}) PROVE SentFor(r, q)
  <2>1. id \in Ids /\ t \in Int /\ t <= MaxTtl
    BY <1>2, IdFits DEF ExpireTtlHolds, TtlArgument
  <2> QED BY <2>1 DEF SentFor
<1> QED BY <1>1, <1>2 DEF Made

LEMMA PersistMade ==
  ASSUME NEW c \in Calls, NEW id, id \in Ids \union {EmptyId}, Persist(c, id)
  PROVE  Made(c)
<1>1. \/ Builds({id}) /\ Sends(c, Asks("persist", id), On("PERSIST", id))
      \/ Refuses(c, Asks("persist", id))
  BY DEF Persist, Issue, Sends, Refuses, server
<1>2. ASSUME Builds({id}) PROVE SentFor(Asks("persist", id), On("PERSIST", id))
  BY <1>2, IdFits DEF Asks, On, SentFor
<1> QED BY <1>1, <1>2 DEF Made

LEMMA MsetMade ==
  ASSUME NEW c \in Calls, NEW ids \in Batches, NEW v,
         Mset(c, [i \in DOMAIN ids |-> [id |-> ids[i], value |-> v]])
  PROVE  Made(c)
<1> DEFINE entries == [i \in DOMAIN ids |-> [id |-> ids[i], value |-> v]]
           r == [method |-> "mset", entries |-> entries, ids |-> {entries[i].id : i \in DOMAIN entries}]
           q == [name |-> "MSET", pairs |-> [i \in DOMAIN entries |->
                   [key |-> entries[i].id, text |-> JsonOf(entries[i].value)]]]
<1>1. Skip(c, r, Nil) \/ Sends(c, r, q) \/ Refuses(c, r)
  BY DEF Mset, Issue, Sends, Refuses, server
<1>2. SentFor(r, q)
  <2>1. DOMAIN entries = DOMAIN ids /\ \A i \in DOMAIN ids : entries[i].id = ids[i] /\ entries[i].value = v
    OBVIOUS
  <2> HIDE DEF entries
  <2>2. /\ DOMAIN q.pairs = DOMAIN ids
        /\ \A i \in DOMAIN ids : q.pairs[i].key = entries[i].id /\ q.pairs[i].text = JsonOf(v)
    BY <2>1
  <2>3. r.ids = {q.pairs[i].key : i \in DOMAIN q.pairs}
    BY <2>1, <2>2
  <2>4. \E n \in Nat : DOMAIN q.pairs = 1 .. n
    BY <2>2, BatchFits
  <2>5. r.method = "mset" /\ q.name = "MSET"
    OBVIOUS
  <2> HIDE DEF r, q
  <2> QED BY <2>2, <2>3, <2>4, <2>5 DEF SentFor
<1>3. Skip(c, r, Nil) => Idles(c, r, Nil)
  BY DEF Idles
<1> HIDE DEF r, q
<1> QED BY <1>1, <1>2, <1>3 DEF Made

LEMMA HashMade ==
  ASSUME NEW c \in Calls, NEW id, id \in Ids \union {EmptyId}, NEW x, NEW v,
         Hset(c, id, x, v) \/ Hdel(c, id, x)
  PROVE  Made(c)
<1>1. CASE Hset(c, id, x, v)
  <2> DEFINE r == Asks("hset", id)
             q == [name |-> "HSET", key |-> id, field |-> x, text |-> JsonOf(v)]
  <2>1. (Builds({id}) /\ Sends(c, r, q)) \/ Refuses(c, r)
    BY <1>1 DEF Hset, Issue, Sends, Refuses, server
  <2>2. ASSUME Builds({id}) PROVE SentFor(r, q)
    BY <2>2, IdFits DEF Asks, SentFor
  <2> QED BY <2>1, <2>2 DEF Made
<1>2. CASE Hdel(c, id, x)
  <2> DEFINE r == Asks("hdel", id)
             q == [name |-> "HDEL", key |-> id, fields |-> x]
  <2>1. Skip(c, r, 0) \/ (Builds({id}) /\ Sends(c, r, q)) \/ Refuses(c, r)
    BY <1>2 DEF Hdel, Issue, Sends, Refuses, server
  <2>2. ASSUME Builds({id}) PROVE SentFor(r, q)
    BY <2>2, IdFits DEF Asks, SentFor
  <2>3. Skip(c, r, 0) => Idles(c, r, 0)
    BY DEF Idles, Asks
  <2> HIDE DEF r, q
  <2> QED BY <2>1, <2>2, <2>3 DEF Made
<1> QED BY <1>1, <1>2

LEMMA MembersMade ==
  ASSUME NEW c \in Calls, NEW id, id \in Ids \union {EmptyId}, NEW ms,
         Sadd(c, id, ms) \/ Srem(c, id, ms)
  PROVE  Made(c)
<1> DEFINE r(method) == Asks(method, id)
           q(name)   == [name |-> name, key |-> id, members |-> ms]
           sent(method, name) == Builds({id}) /\ Sends(c, r(method), q(name))
           made(method, name) == Skip(c, r(method), 0) \/ Refuses(c, r(method)) \/ sent(method, name)
<1>1. made("sadd", "SADD") \/ made("srem", "SREM")
  BY DEF Sadd, Srem, Issue, Sends, Refuses, server
<1>2. ASSUME Builds({id}) PROVE SentFor(r("sadd"), q("SADD")) /\ SentFor(r("srem"), q("SREM"))
  BY <1>2, IdFits DEF Asks, SentFor
<1>3. /\ Skip(c, r("sadd"), 0) => Idles(c, r("sadd"), 0)
      /\ Skip(c, r("srem"), 0) => Idles(c, r("srem"), 0)
  BY DEF Asks, Idles
<1> HIDE DEF r, q
<1> QED BY <1>1, <1>2, <1>3 DEF Made

LEMMA CallMade ==
  ASSUME NEW c \in Calls, Call(c)
  PROVE  Made(c)
<1>1. /\ \A id \in Given : id \in Ids \union {EmptyId}
      /\ \A a \in Writes \union RawWrites : a.id \in Ids \union {EmptyId} /\ TtlArgument(a.ttl)
      /\ \A t \in Ttls : TtlArgument(t)
  BY CommandsAssumption, ArgumentsAssumption
<1>2. CASE StringCall(c)
  <2>1. ASSUME NEW id \in Given, Get(c, id) \/ GetRaw(c, id) \/ Del(c, id) \/ Exists(c, id) PROVE Made(c)
    BY <2>1, <1>1, ReadMade, DelMade
  <2>2. ASSUME NEW a \in Writes, Set(c, a.id, a.value, a.ttl) \/ SetNx(c, a.id, a.value, a.ttl) PROVE Made(c)
    BY <2>2, <1>1, SetMade
  <2>3. ASSUME NEW a \in RawWrites, SetRaw(c, a.id, a.value, a.ttl) PROVE Made(c)
    BY <2>3, <1>1, SetMade
  <2>4. ASSUME NEW ids, DelMany(c, ids) PROVE Made(c)
    BY <2>4, DelMade
  <2>5. ASSUME NEW id \in Given, NEW n \in Steps, Incr(c, id, n) \/ Decr(c, id, n) PROVE Made(c)
    BY <2>5, <1>1, CountMade
  <2> QED BY <1>2, <2>1, <2>2, <2>3, <2>4, <2>5 DEF StringCall
<1>3. CASE ExpiryCall(c)
  <2>1. ASSUME NEW id \in Given, NEW t \in Ttls, Expire(c, id, t) PROVE Made(c)
    BY <2>1, <1>1, ExpireMade
  <2>2. ASSUME NEW id \in Given, Ttl(c, id) \/ Persist(c, id) PROVE Made(c)
    BY <2>2, <1>1, ReadMade, PersistMade
  <2> QED BY <1>3, <2>1, <2>2 DEF ExpiryCall
<1>4. CASE BatchCall(c)
  BY <1>4, MgetMade, MsetMade DEF BatchCall
<1>5. CASE HashCall(c)
  <2>1. ASSUME NEW id \in Given, NEW f, Hget(c, id, f) \/ Hgetall(c, id) PROVE Made(c)
    BY <2>1, <1>1, ReadMade, ReadPartMade
  <2>2. ASSUME NEW id \in Given, NEW x, NEW v, Hset(c, id, x, v) \/ Hdel(c, id, x) PROVE Made(c)
    BY <2>2, <1>1, HashMade
  <2> QED BY <1>5, <2>1, <2>2 DEF HashCall
<1>6. CASE SetCall(c)
  <2>1. ASSUME NEW id \in Given, NEW m, Smembers(c, id) \/ Sismember(c, id, m) \/ Scard(c, id) PROVE Made(c)
    BY <2>1, <1>1, ReadMade, ReadPartMade
  <2>2. ASSUME NEW id \in Given, NEW ms, Sadd(c, id, ms) \/ Srem(c, id, ms) PROVE Made(c)
    BY <2>2, <1>1, MembersMade
  <2> QED BY <1>6, <2>1, <2>2 DEF SetCall
<1>7. CASE Keys(c) \/ Ping(c) \/ IsHealthy(c) \/ Info(c)
  BY <1>7, PlainMade
<1> QED BY <1>2, <1>3, <1>4, <1>5, <1>6, <1>7 DEF Call

-----------------------------------------------------------------------------
(* The invariant holds.                                                    *)

LEMMA InitHolds == Init => IInv
<1> SUFFICES ASSUME Init PROVE IInv
  OBVIOUS
<1>1. /\ store \in InitialStores /\ removed = {} /\ up = TRUE /\ drops = 0 /\ queue = <<>> /\ ran = 0
      /\ stray = {} /\ asked = [c \in Calls |-> [method |-> "none", ids |-> {}]]
      /\ command = [c \in Calls |-> [name |-> "none"]] /\ reply = [c \in Calls |-> Nil]
      /\ phase = [c \in Calls |-> "idle"] /\ result = [c \in Calls |-> Nil]
  BY DEF Init
<1>2. IsStore(store) /\ removed \subseteq Ids
  BY <1>1, StoresAssumption
<1>3. queue \in Seq(Calls) /\ Len(queue) = 0 /\ ToSet(queue) = {} /\ IsInjective(queue)
  BY <1>1 DEF ToSet, IsInjective
<1>4. WireInv
  <2>1. stray \subseteq Calls /\ up \in BOOLEAN /\ up
    BY <1>1
  <2>2. drops \in 0 .. MaxDrops /\ ran \in 0 .. Len(queue)
    BY <1>1, <1>3, CommandsAssumption
  <2>3. \A c \in Calls : phase[c] # "waiting"
    BY <1>1
  <2> QED BY <2>1, <2>2, <2>3, <1>3 DEF WireInv
<1>5. CallsInv
  BY <1>1 DEF CallsInv
<1>6. SentInv
  BY <1>1, <1>3 DEF SentInv
<1>7. \A c \in Calls : asked[c].method # "setNx"
  BY <1>1
<1>8. LockInv
  BY <1>7 DEF LockInv, Told
<1> QED BY <1>2, <1>4, <1>5, <1>6, <1>8 DEF IInv

LEMMA StepHolds == IInv /\ [Next]_vars => IInv'
<1> SUFFICES ASSUME IInv, [Next]_vars PROVE IInv'
  OBVIOUS
<1>1. ASSUME NEW c \in Calls, Call(c) \/ TimeOut(c) \/ RunStray(c) PROVE IInv'
  BY <1>1, CallMade, MadeStep, TimeOutStep, RunStrayStep
<1>2. CASE Execute \/ Reply \/ Lose \/ Reconnect \/ GiveUp \/ Tick
  BY <1>2, ExecuteStep, ReplyStep, LoseStep, ReconnectStep, GiveUpStep, TickStep
<1>3. CASE UNCHANGED vars
  <2>1. UNCHANGED <<store, removed, up, drops, queue, ran, stray, asked, command, reply, phase, result>>
    BY <1>3 DEF vars, server, wire, calls
  <2>2. WireInv' /\ CallsInv' /\ SentInv'
    BY <2>1 DEF IInv, WireInv, CallsInv, SentInv
  <2>3. \A k \in Ids, e \in Calls : Told(e, k)' => Told(e, k)
    BY <2>1 DEF Told
  <2>4. LockInv'
    BY <2>1, <2>3, KeptSame, NobodyNew DEF IInv
  <2> QED BY <2>1, <2>2, <2>4 DEF IInv
<1> QED BY <1>1, <1>2, <1>3 DEF Next

(* What the invariant says of the calls that won.                          *)
LEMMA InvImplies == IInv => LocksHold
<1> SUFFICES ASSUME IInv PROVE LocksHold
  OBVIOUS
<1>1. TypeOK
  BY DEF IInv, WireInv, CallsInv, TypeOK
<1>2. \A k \in Ids, c \in Calls : Won(c, k) => Told(c, k)
  BY DEF Won, Settled, Told
<1>3. OneWinner
  BY <1>2 DEF OneWinner, IInv, LockInv
<1>4. WinnerIsStored
  BY <1>2 DEF WinnerIsStored, IInv, LockInv, Kept, Harmless
<1> QED BY <1>1, <1>3, <1>4 DEF LocksHold

(* A lock taken with setNx has one owner and holds its value with its TTL, *)
(* through losses of the connection, repeated commands, time-outs and the  *)
(* lapse of TTLs (cache.service.ts:163-186).                               *)
THEOREM LocksHeld == Spec => []LocksHold
<1>1. Init => IInv
  BY InitHolds
<1>2. IInv /\ [Next]_vars => IInv'
  BY StepHolds
<1>3. IInv => LocksHold
  BY InvImplies
<1> QED BY <1>1, <1>2, <1>3, PTL DEF Spec

-----------------------------------------------------------------------------
(* What a step is to what the callers were told: commands are executed,    *)
(* TTLs elapse, calls settle, or a call begins.                            *)

(* The reply to a call is under way.                                       *)
Due(c, r) == \E i \in 1 .. ran : queue[i] = c /\ reply[c] = r

(* What the call resolved with, or will if the reply under way arrives.    *)
Learnt(c, v) ==
  \/ phase[c] = "resolved" /\ result[c] = v
  \/ \E r : Due(c, r) /\ ~Rejects(asked[c].method, r) /\ v = Resolved(asked[c].method, r)

(* An execution tells at most its own call something.                      *)
Executes(c) ==
  LET d == Run(store, command[c])
  IN  /\ SentFor(asked[c], command[c])
      /\ store' = d.store /\ removed' = removed \union Lost(store, store')
      /\ UNCHANGED <<began, asked>>
      /\ \A e \in Calls : \A v :
           Learnt(e, v)' =>
             \/ Learnt(e, v)
             \/ /\ e = c /\ ~Rejects(asked[c].method, d.reply)
                /\ v = Resolved(asked[c].method, d.reply)

(* A call that settles resolves with what was under way.                   *)
Settles ==
  /\ UNCHANGED <<store, removed, began, asked>>
  /\ \A e \in Calls : \A v : Learnt(e, v)' => Learnt(e, v) \/ asked[e].method = "isHealthy"

Elapses ==
  /\ Tick /\ UNCHANGED asked
  /\ \A e \in Calls : \A v : Learnt(e, v)' => Learnt(e, v)

(* A call begins and learns nothing, unless it has nothing to ask.         *)
Begins(c) ==
  /\ asked[c].ids = {} /\ UNCHANGED <<store, removed, began>>
  /\ \A e \in Calls \ {c} : asked'[e] = asked[e]
  /\ \A e \in Calls : \A v :
       Learnt(e, v)' =>
         \/ e # c /\ Learnt(e, v)
         \/ /\ e = c
            /\ asked'[c].method \in {"isHealthy", "delMany", "mget", "mset", "hdel", "sadd", "srem"}
            /\ asked'[c].method = "mget" => v = <<>> /\ asked'[c].order = <<>>

(* While replies only go, what is learnt was learnt before or is new.      *)
LEMMA FewerDue ==
  ASSUME \A e \in Calls : \A r : Due(e, r)' => Due(e, r), UNCHANGED asked,
         NEW e \in Calls, NEW v, Learnt(e, v)'
  PROVE  Learnt(e, v) \/ (phase'[e] = "resolved" /\ result'[e] = v)
<1>1. CASE phase'[e] = "resolved" /\ result'[e] = v
  BY <1>1
<1>2. CASE ~(phase'[e] = "resolved" /\ result'[e] = v)
  <2>1. PICK r : Due(e, r)' /\ ~Rejects(asked'[e].method, r) /\ v = Resolved(asked'[e].method, r)
    BY <1>2 DEF Learnt
  <2>2. Due(e, r) /\ ~Rejects(asked[e].method, r) /\ v = Resolved(asked[e].method, r)
    BY <2>1
  <2> QED BY <2>2 DEF Learnt
<1> QED BY <1>1, <1>2

LEMMA ExecuteTells ==
  ASSUME IInv, Execute
  PROVE  \E c \in Calls : Executes(c)
<1> DEFINE c == queue[ran + 1]
           d == Run(store, command[c])
<1>1. /\ up /\ ran < Len(queue)
      /\ store' = d.store /\ removed' = removed \union Lost(store, store')
      /\ reply' = [reply EXCEPT ![c] = d.reply] /\ ran' = ran + 1
      /\ UNCHANGED <<began, up, drops, queue, stray, asked, command, phase, result>>
  BY DEF Execute
<1>2. ran + 1 \in 1 .. Len(queue) /\ ran \in Nat
  BY <1>1, QueueFacts DEF IInv
<1>3. c \in Calls /\ c \in ToSet(queue)
  BY <1>2, QueueFacts DEF IInv
<1>4. DOMAIN reply = Calls
  BY DEF IInv, CallsInv
<1> HIDE DEF c
<1>5. SentFor(asked[c], command[c])
  BY <1>3 DEF IInv, SentInv
<1> HIDE DEF d
<1>6. reply'[c] = d.reply /\ \A e \in Calls \ {c} : reply'[e] = reply[e]
  BY <1>1, <1>3, <1>4
<1>7. ASSUME NEW e \in Calls, NEW v, Learnt(e, v)'
      PROVE  \/ Learnt(e, v)
             \/ /\ e = c /\ ~Rejects(asked[c].method, d.reply)
                /\ v = Resolved(asked[c].method, d.reply)
  <2>1. CASE phase'[e] = "resolved" /\ result'[e] = v
    BY <2>1, <1>1 DEF Learnt
  <2>2. CASE ~(phase'[e] = "resolved" /\ result'[e] = v)
    <3>1. PICK r : Due(e, r)' /\ ~Rejects(asked'[e].method, r) /\ v = Resolved(asked'[e].method, r)
      BY <2>2, <1>7 DEF Learnt
    <3>2. PICK i \in 1 .. ran + 1 : queue[i] = e /\ reply'[e] = r
      BY <3>1, <1>1 DEF Due
    <3>3. CASE e = c
      BY <3>1, <3>2, <3>3, <1>1, <1>6
    <3>4. CASE e # c
      <4>1. i \in 1 .. ran /\ reply[e] = r
        BY <3>2, <3>4, <1>2, <1>6 DEF c
      <4>2. Due(e, r)
        BY <4>1, <3>2 DEF Due
      <4> QED BY <4>2, <3>1, <1>1 DEF Learnt
    <3> QED BY <3>3, <3>4
  <2> QED BY <2>1, <2>2
<1>8. Executes(c)
  BY <1>1, <1>5, <1>7 DEF Executes, d
<1> QED BY <1>3, <1>8

LEMMA StrayTells ==
  ASSUME IInv, NEW c \in Calls, RunStray(c)
  PROVE  Executes(c)
<1>1. /\ c \in stray
      /\ store' = Run(store, command[c]).store /\ removed' = removed \union Lost(store, store')
      /\ UNCHANGED <<began, queue, ran, asked, reply, phase, result>>
  BY DEF RunStray, calls
<1>2. SentFor(asked[c], command[c])
  BY <1>1 DEF IInv, SentInv
<1>3. \A e \in Calls : \A v : Learnt(e, v)' => Learnt(e, v)
  BY <1>1 DEF Learnt, Due
<1> QED BY <1>1, <1>2, <1>3 DEF Executes

LEMMA TickTells ==
  ASSUME Tick
  PROVE  Elapses
<1>1. UNCHANGED <<queue, ran, asked, reply, phase, result>>
  BY DEF Tick, wire, calls
<1>2. \A e \in Calls : \A v : Learnt(e, v)' => Learnt(e, v)
  BY <1>1 DEF Learnt, Due
<1> QED BY <1>1, <1>2 DEF Elapses

(* Of the calls that reject, isHealthy alone resolves.                     *)
LEMMA RejectTells ==
  ASSUME CallsInv, NEW cs \in SUBSET Calls, Reject(cs), NEW e \in Calls,
         phase'[e] = "resolved"
  PROVE  asked'[e].method = "isHealthy" \/ (phase[e] = "resolved" /\ result'[e] = result[e])
<1> DEFINE caught == {c \in cs : asked'[c].method = "isHealthy"}
<1>1. /\ phase' = [c \in Calls |-> CASE c \in caught -> "resolved"
                                      [] c \in cs \ caught -> "rejected"
                                      [] OTHER -> phase[c]]
      /\ result' = [c \in Calls |-> IF c \in caught THEN FALSE ELSE result[c]]
  BY DEF Reject
<1>2. e \in caught => asked'[e].method = "isHealthy"
  OBVIOUS
<1> HIDE DEF caught
<1>3. e \notin caught => e \notin cs \ caught /\ phase[e] = "resolved" /\ result'[e] = result[e]
  BY <1>1
<1> QED BY <1>2, <1>3

LEMMA ReplyTells ==
  ASSUME IInv, Reply
  PROVE  Settles
<1> DEFINE c == Head(queue)
<1>1. /\ ran > 0 /\ reply' = [reply EXCEPT ![c] = Nil]
      /\ UNCHANGED <<store, removed, began, asked>>
      /\ queue' = Tail(queue) /\ ran' = ran - 1
  BY DEF Reply, server
<1>2. /\ queue \in Seq(Calls) /\ Len(queue) \in Nat /\ ran \in 1 .. Len(queue)
      /\ IsInjective(queue) /\ DOMAIN queue = 1 .. Len(queue) /\ queue # <<>>
  BY <1>1, QueueFacts DEF IInv, WireInv
<1>3. c = queue[1] /\ c \in Calls /\ \A i \in 1 .. ran - 1 : queue'[i] = queue[i + 1]
  BY <1>1, <1>2
<1>4. DOMAIN reply = Calls /\ DOMAIN phase = Calls /\ DOMAIN result = Calls
  BY DEF IInv, CallsInv
<1> HIDE DEF c
<1>5. ASSUME NEW e \in Calls, NEW r, Due(e, r)' PROVE Due(e, r)
  <2>1. PICK i \in 1 .. ran - 1 : queue'[i] = e /\ reply'[e] = r
    BY <1>1, <1>5 DEF Due
  <2>2. i + 1 \in 1 .. ran /\ i + 1 \in DOMAIN queue /\ 1 \in DOMAIN queue /\ queue[i + 1] = e
    BY <2>1, <1>2, <1>3
  <2>3. e # c
    BY <2>2, <1>2, <1>3 DEF IsInjective
  <2>4. reply[e] = r
    BY <2>1, <2>3, <1>1, <1>4
  <2> QED BY <2>2, <2>4 DEF Due
<1>6. Due(c, reply[c])
  BY <1>2, <1>3 DEF Due
<1>7. ASSUME NEW e \in Calls, phase'[e] = "resolved" PROVE Learnt(e, result'[e]) \/ asked[e].method = "isHealthy"
  <2>1. CASE phase[c] # "waiting"
    <3>1. phase' = phase /\ result' = result
      BY <2>1 DEF Reply, c
    <3> QED BY <3>1, <1>7 DEF Learnt
  <2>2. CASE phase[c] = "waiting" /\ Rejects(asked[c].method, reply[c])
    <3>1. Reject({c})
      BY <2>2 DEF Reply, c
    <3>2. asked'[e].method = "isHealthy" \/ (phase[e] = "resolved" /\ result'[e] = result[e])
      BY <3>1, <1>3, <1>7, RejectTells DEF IInv
    <3> QED BY <3>2, <1>1 DEF Learnt
  <2>3. CASE phase[c] = "waiting" /\ ~Rejects(asked[c].method, reply[c])
    <3>1. /\ phase' = [phase EXCEPT ![c] = "resolved"]
          /\ result' = [result EXCEPT ![c] = Resolved(asked[c].method, reply[c])]
      BY <2>3 DEF Reply, c
    <3>2. CASE e = c
      <4>1. result'[e] = Resolved(asked[c].method, reply[c])
        BY <3>1, <3>2, <1>4, Zenon
      <4> QED BY <4>1, <3>2, <2>3, <1>6 DEF Learnt
    <3>3. CASE e # c
      BY <3>1, <3>3, <1>7, <1>4 DEF Learnt
    <3> QED BY <3>2, <3>3
  <2> QED BY <2>1, <2>2, <2>3
<1>8. ASSUME NEW e \in Calls, NEW v, Learnt(e, v)' PROVE Learnt(e, v) \/ asked[e].method = "isHealthy"
  BY <1>1, <1>5, <1>7, <1>8, FewerDue
<1> QED BY <1>1, <1>8 DEF Settles

LEMMA RejectionsTell ==
  ASSUME IInv, (\E c \in Calls : TimeOut(c)) \/ GiveUp
  PROVE  Settles
<1>1. PICK cs \in SUBSET Calls : Reject(cs)
  BY DEF TimeOut, GiveUp
<1>2. UNCHANGED <<store, removed, began, asked, reply, ran>> /\ (queue' = queue \/ ran = 0)
  <2>1. CASE \E c \in Calls : TimeOut(c)
    BY <2>1 DEF TimeOut, server, wire
  <2>2. CASE GiveUp
    BY <2>2 DEF GiveUp, server, IInv, WireInv
  <2> QED BY <2>1, <2>2
<1>3. \A e \in Calls : \A r : Due(e, r)' => Due(e, r)
  BY <1>2 DEF Due
<1>4. ASSUME NEW e \in Calls, phase'[e] = "resolved" PROVE Learnt(e, result'[e]) \/ asked[e].method = "isHealthy"
  BY <1>1, <1>2, <1>4, RejectTells DEF IInv, Learnt
<1>5. ASSUME NEW e \in Calls, NEW v, Learnt(e, v)' PROVE Learnt(e, v) \/ asked[e].method = "isHealthy"
  BY <1>2, <1>3, <1>4, <1>5, FewerDue
<1> QED BY <1>2, <1>5 DEF Settles

LEMMA ConnectionTells ==
  ASSUME Lose \/ Reconnect \/ UNCHANGED vars
  PROVE  Settles
<1>1. /\ UNCHANGED <<store, removed, began, asked, queue, reply, phase, result>>
      /\ ran' = 0 \/ ran' = ran
  BY DEF Lose, Reconnect, vars, server, wire, calls
<1>2. \A e \in Calls : \A v : Learnt(e, v)' => Learnt(e, v)
  BY <1>1 DEF Learnt, Due
<1> QED BY <1>1, <1>2 DEF Settles

LEMMA MadeTells ==
  ASSUME IInv, NEW c \in Calls, Made(c)
  PROVE  Begins(c)
<1>1. CallsInv /\ WireInv /\ SentInv
  BY DEF IInv
<1>2. DOMAIN asked = Calls /\ DOMAIN phase = Calls /\ DOMAIN result = Calls
  BY <1>1 DEF CallsInv
<1>3. phase[c] = "idle" /\ UNCHANGED <<store, removed, began, ran, reply>>
  BY DEF Made, Sends, Refuses, Idles, Skip, server, wire
<1>4. PICK r : asked' = [asked EXCEPT ![c] = r]
  BY DEF Made, Sends, Refuses, Idles, Skip
<1>5. asked'[c] = r /\ asked[c].ids = {} /\ \A e \in Calls \ {c} : asked'[e] = asked[e]
  BY <1>1, <1>2, <1>3, <1>4 DEF CallsInv
<1>6. c \notin ToSet(queue) /\ \A i \in 1 .. ran : i \in 1 .. Len(queue)
  BY <1>1, <1>3, QueueFacts DEF SentInv, WireInv
<1>7. \A i \in 1 .. ran : queue'[i] = queue[i] /\ queue[i] # c
  <2>1. \A i \in 1 .. ran : queue[i] # c
    BY <1>1, <1>6, QueueFacts
  <2>2. queue \in Seq(Calls)
    BY <1>1 DEF WireInv
  <2>3. queue' = queue \/ queue' = Append(queue, c)
    BY DEF Made, Sends, Refuses, Idles, Skip, wire
  <2> QED BY <2>1, <2>2, <2>3, <1>6
<1>8. \A e \in Calls \ {c} : phase'[e] = phase[e] /\ result'[e] = result[e]
  <2>1. ASSUME Reject({c}) PROVE \A e \in Calls \ {c} : phase'[e] = phase[e] /\ result'[e] = result[e]
    BY <2>1, <1>1, Rejected
  <2>2. \/ phase' = [phase EXCEPT ![c] = "waiting"] /\ result' = result
        \/ Reject({c})
        \/ \E v : phase' = [phase EXCEPT ![c] = "resolved"] /\ result' = [result EXCEPT ![c] = v]
    BY DEF Made, Sends, Refuses, Idles, Skip
  <2> QED BY <2>1, <2>2, <1>2
<1>9. ASSUME NEW v, phase'[c] = "resolved" /\ result'[c] = v
      PROVE  /\ asked'[c].method \in {"isHealthy", "delMany", "mget", "mset", "hdel", "sadd", "srem"}
             /\ asked'[c].method = "mget" => v = <<>> /\ asked'[c].order = <<>>
  <2>1. ASSUME NEW u, NEW q, Sends(c, u, q) PROVE FALSE
    BY <2>1, <1>2, <1>9 DEF Sends
  <2>2. ASSUME NEW u, Refuses(c, u) PROVE asked'[c].method = "isHealthy"
    <3>1. Reject({c})
      BY <2>2 DEF Refuses
    <3> QED BY <3>1, <1>1, <1>3, <1>9, RejectTells
  <2>3. ASSUME NEW u, NEW w, Idles(c, u, w)
        PROVE  /\ asked'[c].method \in {"delMany", "mget", "mset", "hdel", "sadd", "srem"}
               /\ asked'[c].method = "mget" => v = <<>> /\ asked'[c].order = <<>>
    <3>1. asked' = [asked EXCEPT ![c] = u] /\ result' = [result EXCEPT ![c] = w]
      BY <2>3 DEF Idles, Skip
    <3>2. asked'[c] = u /\ w = v
      BY <3>1, <1>2, <1>9
    <3> QED BY <3>2, <2>3 DEF Idles
  <2> QED BY <2>1, <2>2, <2>3 DEF Made
<1>10. ASSUME NEW e \in Calls, NEW v, Learnt(e, v)', ~(phase'[e] = "resolved" /\ result'[e] = v)
       PROVE  e # c /\ Learnt(e, v)
  <2>1. PICK x : Due(e, x)' /\ ~Rejects(asked'[e].method, x) /\ v = Resolved(asked'[e].method, x)
    BY <1>10 DEF Learnt
  <2>2. Due(e, x) /\ e # c
    BY <2>1, <1>3, <1>7 DEF Due
  <2> QED BY <2>1, <2>2, <1>5 DEF Learnt
<1>11. ASSUME NEW e \in Calls, NEW v, phase'[e] = "resolved" /\ result'[e] = v, e # c
       PROVE  Learnt(e, v)
  BY <1>8, <1>11 DEF Learnt
<1> QED BY <1>3, <1>5, <1>9, <1>10, <1>11 DEF Begins

LEMMA Events ==
  ASSUME IInv, [Next]_vars
  PROVE  (\E c \in Calls : Executes(c) \/ Begins(c)) \/ Settles \/ Elapses
<1>1. ASSUME NEW c \in Calls, Call(c) \/ TimeOut(c) \/ RunStray(c)
      PROVE  Begins(c) \/ Executes(c) \/ Settles
  BY <1>1, CallMade, MadeTells, StrayTells, RejectionsTell
<1> QED BY <1>1, ExecuteTells, ReplyTells, RejectionsTell, ConnectionTells, TickTells DEF Next

-----------------------------------------------------------------------------
(* What callers are told is true.                                          *)

(* The typed reads: what was learnt has been parsed.                       *)
Readable(method, v) ==
  /\ method \in {"get", "hget"} => v \notin Raws \union {EmptyText}
  /\ method \in {"mget", "hgetall"} => \A x \in DOMAIN v : v[x] \notin Raws \union {EmptyText}

TextsInv == \A c \in Calls : \A v : Learnt(c, v) => Readable(asked[c].method, v)

(* What the answer v to the request r says of its key k.                   *)
Truth(s, gone, r, k, v) ==
  /\ r.method = "expire" => IF v THEN ~Has(s, k) \/ (r.ttl > 0 /\ s[k].ttl # NoTtl) ELSE ~Has(s, k)
  /\ r.method = "persist" => (v => Has(s, k) /\ s[k].ttl = NoTtl)
  /\ r.method = "exists" => (Has(s, k) => v)
  /\ r.method = "ttl" => (Has(s, k) => v # -2)
  /\ r.method = "sismember" => (k \notin gone => (v <=> r.member \in SetAt(s, k)))
  /\ r.method = "scard" => (k \notin gone => v = Cardinality(SetAt(s, k)))

(* It holds while all calls about the key are of the same method.          *)
AnswersInv ==
  \A c \in Calls, k \in Ids : \A v :
    Learnt(c, v) /\ asked[c].ids = {k} /\ Uses(k, {asked[c].method})
      => Truth(store, removed, asked[c], k, v)

LEMMA ParsedIsReadable ==
  ASSUME NEW method, NEW r, ~Rejects(method, r)
  PROVE  Readable(method, Resolved(method, r))
<1>1. Nil \notin Raws \union {EmptyText}
  BY CommandsAssumption
<1>2. CASE method \in {"get", "hget"}
  <2>1. Resolved(method, r) = r /\ Parsed(method, r) = {r} \ {Nil}
    BY <1>2 DEF Resolved, Parsed
  <2> QED BY <2>1, <1>1, <1>2 DEF Readable, Rejects, Parses
<1>3. CASE method \in {"mget", "hgetall"}
  <2>1. Resolved(method, r) = r /\ Parsed(method, r) = {r[x] : x \in DOMAIN r} \ {Nil}
    BY <1>3 DEF Resolved, Parsed
  <2> QED BY <2>1, <1>1, <1>3 DEF Readable, Rejects, Parses
<1> QED BY <1>2, <1>3 DEF Readable

(* The commands that these methods send, and what they do.                 *)
LEMMA ExpireDoes ==
  ASSUME NEW s, IsStore(s), NEW q, q.name = "EXPIRE", q.key \in Ids, q.ttl \in Int, q.ttl <= MaxTtl
  PROVE  LET d == Run(s, q)
         IN  \/ ~Has(s, q.key) /\ d.store = s /\ d.reply = 0
             \/ Has(s, q.key) /\ q.ttl <= 0 /\ ~Has(d.store, q.key) /\ d.reply = 1
             \/ /\ Has(s, q.key) /\ q.ttl > 0 /\ d.reply = 1
                /\ Has(d.store, q.key) /\ d.store[q.key].ttl = q.ttl
<1>1. Run(s, q) = RunExpire(s, q)
  BY DEF Run
<1>2. CASE ~Has(s, q.key)
  BY <1>1, <1>2 DEF RunExpire, Did
<1>3. CASE Has(s, q.key) /\ q.ttl <= 0
  <2>1. RunExpire(s, q) = Did(Drop(s, {q.key}), 1)
    BY <1>3 DEF RunExpire
  <2>2. ~Has(Drop(s, {q.key}), q.key)
    BY DEF Has, Drop
  <2> QED BY <2>1, <2>2, <1>1, <1>3 DEF Did
<1>4. CASE Has(s, q.key) /\ q.ttl > 0
  <2>1. RunExpire(s, q) = Did(WithTtl(s, q.key, q.ttl), 1)
    BY <1>4 DEF RunExpire, WithTtl
  <2>2. q.ttl \in {NoTtl} \union 1 .. MaxTtl
    BY <1>4, CommandsAssumption
  <2> DEFINE k == q.key
             t == q.ttl
  <2>3. Has(WithTtl(s, k, t), k) /\ WithTtl(s, k, t)[k].ttl = t
    <3>1. k \in Ids /\ Has(s, k) /\ t \in {NoTtl} \union 1 .. MaxTtl
      BY <2>2, <1>4
    <3> HIDE DEF k, t
    <3> QED BY <3>1, TtlChanges
  <2> QED BY <2>1, <2>3, <1>1, <1>4 DEF Did
<1> QED BY <1>2, <1>3, <1>4

LEMMA PersistDoes ==
  ASSUME NEW s, IsStore(s), NEW q, q.name = "PERSIST", q.key \in Ids
  PROVE  LET d == Run(s, q)
         IN  /\ Has(s, q.key) => Has(d.store, q.key) /\ d.store[q.key].ttl = NoTtl
             /\ d.reply \in {0, 1} /\ (d.reply = 1 => Has(s, q.key))
<1>1. CASE Has(s, q.key) /\ s[q.key].ttl # NoTtl
  <2> DEFINE k == q.key
             t == WithTtl(s, k, NoTtl)
  <2>1. Has(t, k) /\ t[k].ttl = NoTtl
    <3>1. k \in Ids /\ Has(s, k)
      BY <1>1
    <3> HIDE DEF k
    <3> QED BY <3>1, TtlChanges, ZenonT(40)
  <2>2. Run(s, q) = Did(t, 1)
    BY <1>1 DEF Run, WithTtl
  <2> HIDE DEF t
  <2> QED BY <2>1, <2>2, <1>1 DEF Did
<1>2. CASE ~(Has(s, q.key) /\ s[q.key].ttl # NoTtl)
  <2>1. Run(s, q) = Did(s, 0)
    BY <1>2 DEF Run
  <2> QED BY <2>1, <1>2 DEF Did
<1> QED BY <1>1, <1>2

LEMMA QuestionsDo ==
  ASSUME NEW s, IsStore(s), NEW q, q.name \in {"EXISTS", "TTL", "SISMEMBER", "SCARD"}, q.key \in Ids
  PROVE  LET d == Run(s, q)
         IN  /\ d.store = s
             /\ q.name = "EXISTS" => d.reply = IF Has(s, q.key) THEN 1 ELSE 0
             /\ q.name = "TTL" => d.reply = IF Has(s, q.key) THEN s[q.key].ttl ELSE -2
             /\ q.name = "SISMEMBER" =>
                  d.reply = ErrorReply \/ (d.reply = 1 <=> q.member \in SetAt(s, q.key))
             /\ q.name = "SCARD" => d.reply = ErrorReply \/ d.reply = Cardinality(SetAt(s, q.key))
<1>1. CASE q.name = "EXISTS"
  BY <1>1 DEF Run, Did
<1>2. CASE q.name = "TTL"
  BY <1>2 DEF Run, Did
<1>3. CASE q.name = "SISMEMBER"
  <2>1. Run(s, q) = RunMembers(s, q)
    BY <1>3 DEF Run
  <2>2. CASE IsA(s, q.key, "set")
    <3>1. RunMembers(s, q) = Did(s, IF q.member \in SetAt(s, q.key) THEN 1 ELSE 0)
      BY <1>3, <2>2 DEF RunMembers
    <3> QED BY <3>1, <2>1, <1>3 DEF Did
  <2>3. CASE ~IsA(s, q.key, "set")
    <3>1. RunMembers(s, q) = Did(s, ErrorReply)
      BY <1>3, <2>3 DEF RunMembers, Error
    <3> QED BY <3>1, <2>1, <1>3 DEF Did
  <2> QED BY <2>2, <2>3
<1>4. CASE q.name = "SCARD"
  <2>1. Run(s, q) = RunMembers(s, q)
    BY <1>4 DEF Run
  <2>2. CASE IsA(s, q.key, "set")
    <3>1. RunMembers(s, q) = Did(s, Cardinality(SetAt(s, q.key)))
      BY <1>4, <2>2 DEF RunMembers
    <3> QED BY <3>1, <2>1, <1>4 DEF Did
  <2>3. CASE ~IsA(s, q.key, "set")
    <3>1. RunMembers(s, q) = Did(s, ErrorReply)
      BY <1>4, <2>3 DEF RunMembers, Error
    <3> QED BY <3>1, <2>1, <1>4 DEF Did
  <2> QED BY <2>2, <2>3
<1> QED BY <1>1, <1>2, <1>3, <1>4

(* The methods whose answers are about one key.                            *)
Asking == {"expire", "persist", "exists", "ttl", "sismember", "scard"}

LEMMA CommandOfAsking ==
  ASSUME NEW r, NEW q, SentFor(r, q), r.method \in Asking
  PROVE  /\ q.key \in Ids /\ r.ids = {q.key}
         /\ r.method = "expire" => q.name = "EXPIRE" /\ q.ttl = r.ttl /\ q.ttl \in Int /\ q.ttl <= MaxTtl
         /\ r.method = "persist" => q.name = "PERSIST"
         /\ r.method = "exists" => q.name = "EXISTS"
         /\ r.method = "ttl" => q.name = "TTL"
         /\ r.method = "sismember" => q.name = "SISMEMBER" /\ q.member = r.member
         /\ r.method = "scard" => q.name = "SCARD"
BY DEF SentFor, Asking

(* An execution answers what is true.                                      *)
LEMMA AnswerIsTrue ==
  ASSUME NEW s, IsStore(s), NEW r, NEW q, SentFor(r, q), NEW k \in Ids, r.ids = {k}, NEW gone,
         ~Rejects(r.method, Run(s, q).reply)
  PROVE  Truth(Run(s, q).store, gone, r, k, Resolved(r.method, Run(s, q).reply))
<1> DEFINE d == Run(s, q)
<1>1. r.method \in Asking => q.key = k
  BY CommandOfAsking
<1>2. d.reply # ErrorReply
  BY DEF Rejects
<1>3. CASE r.method = "expire"
  <2>1. q.name = "EXPIRE" /\ q.key \in Ids /\ q.ttl = r.ttl /\ q.ttl \in Int /\ q.ttl <= MaxTtl
    BY <1>3, CommandOfAsking DEF Asking
  <2>2. \/ ~Has(s, k) /\ d.store = s /\ d.reply = 0
        \/ Has(s, k) /\ q.ttl <= 0 /\ ~Has(d.store, k) /\ d.reply = 1
        \/ Has(s, k) /\ q.ttl > 0 /\ d.reply = 1 /\ Has(d.store, k) /\ d.store[k].ttl = q.ttl
    BY <2>1, <1>1, <1>3, ExpireDoes DEF Asking
  <2>3. Resolved(r.method, d.reply) = (d.reply = 1)
    BY <1>3 DEF Resolved
  <2> HIDE DEF d
  <2>4. Truth(d.store, gone, r, k, d.reply = 1)
    BY <2>1, <2>2, <1>3 DEF Truth, NoTtl
  <2> QED BY <2>3, <2>4, Zenon DEF d
<1>4. CASE r.method = "persist"
  <2>1. q.name = "PERSIST" /\ q.key \in Ids
    BY <1>4, CommandOfAsking DEF Asking
  <2>2. /\ Has(s, k) => Has(d.store, k) /\ d.store[k].ttl = NoTtl
        /\ d.reply \in {0, 1} /\ (d.reply = 1 => Has(s, k))
    BY <2>1, <1>1, <1>4, PersistDoes DEF Asking
  <2>3. Resolved(r.method, d.reply) = (d.reply = 1)
    BY <1>4 DEF Resolved
  <2> HIDE DEF d
  <2>4. Truth(d.store, gone, r, k, d.reply = 1)
    BY <2>1, <2>2, <1>4 DEF Truth
  <2> QED BY <2>3, <2>4, Zenon DEF d
<1>5. CASE r.method = "exists"
  <2>1. d.store = s /\ d.reply = IF Has(s, k) THEN 1 ELSE 0
    BY <1>1, <1>5, CommandOfAsking, QuestionsDo DEF Asking
  <2>2. Resolved(r.method, d.reply) = (d.reply > 0)
    BY <1>5 DEF Resolved
  <2> HIDE DEF d
  <2>3. Truth(d.store, gone, r, k, d.reply > 0)
    BY <2>1, <1>5 DEF Truth
  <2> QED BY <2>2, <2>3, Zenon DEF d
<1>6. CASE r.method = "ttl"
  <2>1. d.store = s /\ d.reply = IF Has(s, k) THEN s[k].ttl ELSE -2
    BY <1>1, <1>6, CommandOfAsking, QuestionsDo DEF Asking
  <2>2. Resolved(r.method, d.reply) = d.reply
    BY <1>6 DEF Resolved
  <2>3. Has(s, k) => s[k].ttl # -2
    BY CommandsAssumption DEF IsStore, NoTtl
  <2> HIDE DEF d
  <2> QED BY <2>1, <2>2, <2>3, <1>6 DEF Truth, d
<1>7. CASE r.method = "sismember"
  <2>1. d.store = s /\ (d.reply = 1 <=> r.member \in SetAt(s, k))
    BY <1>1, <1>2, <1>7, CommandOfAsking, QuestionsDo DEF Asking
  <2>2. Resolved(r.method, d.reply) = (d.reply = 1)
    BY <1>7 DEF Resolved
  <2> HIDE DEF d
  <2>3. Truth(d.store, gone, r, k, d.reply = 1)
    BY <2>1, <1>7 DEF Truth
  <2> QED BY <2>2, <2>3, Zenon DEF d
<1>8. CASE r.method = "scard"
  <2>1. d.store = s /\ d.reply = Cardinality(SetAt(s, k))
    BY <1>1, <1>2, <1>8, CommandOfAsking, QuestionsDo DEF Asking
  <2>2. Resolved(r.method, d.reply) = d.reply
    BY <1>8 DEF Resolved
  <2> HIDE DEF d
  <2>3. Truth(d.store, gone, r, k, d.reply)
    BY <2>1, <1>8 DEF Truth
  <2> QED BY <2>2, <2>3, Zenon DEF d
<1> QED BY <1>3, <1>4, <1>5, <1>6, <1>7, <1>8 DEF Truth

(* An answer about a key that is left alone stays true.                    *)
LEMMA TruthOfSame ==
  ASSUME NEW s, NEW t, NEW k \in Ids, t[k] = s[k], NEW gone, NEW more, gone \subseteq more,
         NEW r, NEW v, Truth(s, gone, r, k, v)
  PROVE  Truth(t, more, r, k, v)
<1>1. Has(t, k) <=> Has(s, k)
  BY DEF Has
<1>2. SetAt(t, k) = SetAt(s, k)
  BY <1>1 DEF SetAt
<1>3. k \notin more => k \notin gone
  OBVIOUS
<1> QED BY <1>1, <1>2, <1>3, Zenon DEF Truth

(* So it does when a call of the same method is executed.                  *)
LEMMA TruthIsKept ==
  ASSUME NEW s, IsStore(s), NEW p, NEW q, SentFor(p, q), NEW k \in Ids, NEW r, NEW v,
         k \in p.ids => p.method = r.method,
         NEW gone, NEW more, gone \subseteq more, Truth(s, gone, r, k, v)
  PROVE  Truth(Run(s, q).store, more, r, k, v)
<1> DEFINE d == Run(s, q)
<1>1. CASE k \notin p.ids
  <2>1. Fits(p, q)
    BY SentForFits
  <2>2. d.store[k] = s[k]
    BY <2>1, <1>1, RunEffect DEF Effect, ChangesOnly
  <2> HIDE DEF d
  <2> QED BY <2>2, TruthOfSame DEF d
<1>2. CASE k \in p.ids /\ p.method \in {"exists", "ttl", "sismember", "scard"}
  <2>1. d.store = s
    BY <1>2, CommandOfAsking, QuestionsDo DEF Asking
  <2> HIDE DEF d
  <2> QED BY <2>1, TruthOfSame DEF d
<1>3. CASE k \in p.ids /\ p.method = "expire"
  <2>1. q.name = "EXPIRE" /\ q.key = k /\ q.ttl \in Int /\ q.ttl <= MaxTtl
    BY <1>3, CommandOfAsking DEF Asking
  <2>2. \/ ~Has(s, k) /\ d.store = s
        \/ ~Has(d.store, k)
        \/ Has(s, k) /\ q.ttl > 0 /\ Has(d.store, k) /\ d.store[k].ttl = q.ttl
    BY <2>1, ExpireDoes
  <2>3. r.method = "expire"
    BY <1>3
  <2> HIDE DEF d
  <2>4. IF v THEN ~Has(s, k) \/ (r.ttl > 0 /\ s[k].ttl # NoTtl) ELSE ~Has(s, k)
    BY <2>3, Zenon DEF Truth
  <2>5. q.ttl > 0 => q.ttl # NoTtl
    BY <2>1 DEF NoTtl
  <2>6. IF v THEN ~Has(d.store, k) \/ (r.ttl > 0 /\ d.store[k].ttl # NoTtl) ELSE ~Has(d.store, k)
    BY <2>2, <2>4, <2>5, Zenon
  <2>7. Truth(d.store, more, r, k, v)
    BY <2>3, <2>6, Zenon DEF Truth
  <2> QED BY <2>7 DEF d
<1>4. CASE k \in p.ids /\ p.method = "persist"
  <2>1. q.name = "PERSIST" /\ q.key = k
    BY <1>4, CommandOfAsking DEF Asking
  <2>2. Has(s, k) => Has(d.store, k) /\ d.store[k].ttl = NoTtl
    BY <2>1, PersistDoes
  <2>3. r.method = "persist"
    BY <1>4
  <2> HIDE DEF d
  <2>4. v => Has(s, k)
    BY <2>3, Zenon DEF Truth
  <2>5. Truth(d.store, more, r, k, v)
    BY <2>2, <2>3, <2>4, Zenon DEF Truth
  <2> QED BY <2>5 DEF d
<1>5. CASE k \in p.ids /\ p.method \notin Asking
  BY <1>5 DEF Truth, Asking
<1> QED BY <1>1, <1>2, <1>3, <1>4, <1>5 DEF Asking

(* And when a TTL elapses.                                                 *)
LEMMA TruthElapses ==
  ASSUME IsStore(store), Tick, NEW k \in Ids, NEW r, NEW v, Truth(store, removed, r, k, v)
  PROVE  Truth(store', removed', r, k, v)
<1>1. /\ ~Has(store, k) \/ store[k].ttl = NoTtl => store'[k] = store[k]
      /\ Has(store, k) =>
           \/ store'[k] = Absent
           \/ /\ Has(store', k) /\ store'[k].data = store[k].data
              /\ (store'[k].ttl = NoTtl <=> store[k].ttl = NoTtl)
  BY TickKey
<1>2. removed \subseteq removed' /\ (Has(store, k) /\ ~Has(store', k) => k \in removed')
  BY DEF Tick, Lost
<1>3. CASE store'[k] = store[k]
  BY <1>2, <1>3, TruthOfSame
<1>4. CASE Has(store, k) /\ ~Has(store', k) /\ store[k].ttl # NoTtl
  <2>1. k \in removed'
    BY <1>2, <1>4
  <2> QED BY <2>1, <1>4, Zenon DEF Truth
<1>5. CASE Has(store, k) /\ Has(store', k)
  <2>1. /\ store'[k].data = store[k].data /\ (store'[k].ttl = NoTtl <=> store[k].ttl = NoTtl)
    BY <1>1, <1>5 DEF Has
  <2>2. SetAt(store', k) = SetAt(store, k)
    BY <2>1, <1>5 DEF SetAt
  <2>3. k \notin removed' => k \notin removed
    BY <1>2
  <2> QED BY <2>1, <2>2, <2>3, <1>5, Zenon DEF Truth
<1> QED BY <1>1, <1>3, <1>4, <1>5 DEF Has

-----------------------------------------------------------------------------
(* Answers stay true through every step.                                   *)

(* A call that begins only adds to the calls about a key.                  *)
LEMMA UsedBefore ==
  ASSUME NEW c \in Calls, Begins(c), NEW k, NEW methods, Uses(k, methods)'
  PROVE  Uses(k, methods)
<1>1. \A d \in Users(k) : d \in Calls /\ d # c /\ k \in asked[d].ids /\ asked'[d] = asked[d]
  BY DEF Begins, Users
<1>2. \A d \in Users(k) : asked'[d].method \in methods
  BY <1>1 DEF Uses, Users
<1> QED BY <1>1, <1>2 DEF Uses

LEMMA ReadsExecuted ==
  ASSUME IInv, TextsInv, AnswersInv, NEW c \in Calls, Executes(c)
  PROVE  TextsInv' /\ AnswersInv'
<1> DEFINE d == Run(store, command[c])
<1>1. /\ SentFor(asked[c], command[c]) /\ store' = d.store
      /\ removed' = removed \union Lost(store, store') /\ asked' = asked
  BY DEF Executes
<1>2. \A e \in Calls : \A v :
        Learnt(e, v)' =>
          \/ Learnt(e, v)
          \/ e = c /\ ~Rejects(asked[c].method, d.reply) /\ v = Resolved(asked[c].method, d.reply)
  BY DEF Executes
<1>3. IsStore(store) /\ removed \subseteq removed'
  BY <1>1 DEF IInv
<1>4. TextsInv'
  <2> SUFFICES ASSUME NEW e \in Calls, NEW v, Learnt(e, v)' PROVE Readable(asked[e].method, v)
    BY <1>1 DEF TextsInv
  <2>1. CASE Learnt(e, v)
    BY <2>1 DEF TextsInv
  <2>2. CASE e = c /\ ~Rejects(asked[c].method, d.reply) /\ v = Resolved(asked[c].method, d.reply)
    <3> HIDE DEF d
    <3> QED BY <2>2, ParsedIsReadable
  <2> QED BY <2>1, <2>2, <1>2
<1>5. AnswersInv'
  <2> SUFFICES ASSUME NEW e \in Calls, NEW k \in Ids, NEW v, Learnt(e, v)', asked'[e].ids = {k},
                      Uses(k, {asked[e].method})'
               PROVE  Truth(store', removed', asked'[e], k, v)
    BY DEF AnswersInv
  <2>1. Uses(k, {asked[e].method}) /\ asked[e].ids = {k}
    BY <1>1 DEF Uses, Users
  <2>2. k \in asked[c].ids => asked[c].method = asked[e].method
    BY <2>1 DEF Uses, Users
  <2>3. CASE Learnt(e, v)
    <3>1. Truth(store, removed, asked[e], k, v)
      BY <2>1, <2>3 DEF AnswersInv
    <3>2. Truth(d.store, removed', asked[e], k, v)
      BY <3>1, <2>2, <1>1, <1>3, TruthIsKept
    <3> QED BY <3>2, <1>1
  <2>4. CASE e = c /\ ~Rejects(asked[c].method, d.reply) /\ v = Resolved(asked[c].method, d.reply)
    <3>1. Truth(d.store, removed', asked[c], k, Resolved(asked[c].method, d.reply))
      BY <2>1, <2>4, <1>1, <1>3, AnswerIsTrue
    <3> QED BY <3>1, <2>4, <1>1
  <2> QED BY <2>3, <2>4, <1>2
<1> QED BY <1>4, <1>5

LEMMA ReadsBegin ==
  ASSUME TextsInv, AnswersInv, NEW c \in Calls, Begins(c)
  PROVE  TextsInv' /\ AnswersInv'
<1>1. /\ UNCHANGED <<store, removed>> /\ \A e \in Calls \ {c} : asked'[e] = asked[e]
      /\ \A e \in Calls : \A v :
           Learnt(e, v)' =>
             \/ e # c /\ Learnt(e, v)
             \/ /\ e = c
                /\ asked'[c].method \in {"isHealthy", "delMany", "mget", "mset", "hdel", "sadd", "srem"}
                /\ asked'[c].method = "mget" => v = <<>> /\ asked'[c].order = <<>>
  BY DEF Begins
<1>2. TextsInv'
  <2> SUFFICES ASSUME NEW e \in Calls, NEW v, Learnt(e, v)' PROVE Readable(asked'[e].method, v)
    BY DEF TextsInv
  <2>1. CASE e # c /\ Learnt(e, v)
    BY <2>1, <1>1 DEF TextsInv
  <2>2. CASE e = c
    <3>1. /\ asked'[c].method \in {"isHealthy", "delMany", "mget", "mset", "hdel", "sadd", "srem"}
          /\ asked'[c].method = "mget" => v = <<>>
      BY <2>2, <1>1
    <3>2. \A x \in DOMAIN <<>> : FALSE
      OBVIOUS
    <3> QED BY <3>1, <3>2, <2>2 DEF Readable
  <2> QED BY <2>1, <2>2, <1>1
<1>3. AnswersInv'
  <2> SUFFICES ASSUME NEW e \in Calls, NEW k \in Ids, NEW v, Learnt(e, v)', asked'[e].ids = {k},
                      Uses(k, {asked[e].method})'
               PROVE  Truth(store', removed', asked'[e], k, v)
    BY DEF AnswersInv
  <2>1. CASE e # c /\ Learnt(e, v)
    <3>1. asked'[e] = asked[e]
      BY <2>1, <1>1
    <3> DEFINE method == asked[e].method
    <3>2. Uses(k, {method})
      <4>1. \A x \in Users(k) : x \in Calls /\ x # c /\ k \in asked[x].ids /\ asked'[x] = asked[x]
        BY DEF Begins, Users
      <4>2. \A x \in Users(k) : asked'[x].method \in {asked'[e].method}
        BY <4>1 DEF Uses, Users
      <4> QED BY <4>1, <4>2, <3>1 DEF Uses
    <3> QED BY <3>1, <3>2, <2>1, <1>1 DEF AnswersInv
  <2>2. CASE e = c
    <3>1. asked'[e].method \notin Asking
      BY <2>2, <1>1 DEF Asking
    <3> QED BY <3>1 DEF Truth, Asking
  <2> QED BY <2>1, <2>2, <1>1
<1> QED BY <1>2, <1>3

LEMMA ReadsSettle ==
  ASSUME TextsInv, AnswersInv, Settles
  PROVE  TextsInv' /\ AnswersInv'
<1>1. /\ UNCHANGED <<store, removed, asked>>
      /\ \A e \in Calls : \A v : Learnt(e, v)' => Learnt(e, v) \/ asked[e].method = "isHealthy"
  BY DEF Settles
<1>2. \A e \in Calls : \A v : asked[e].method = "isHealthy" => Readable(asked[e].method, v)
  BY DEF Readable
<1>3. \A e \in Calls : \A k, v : asked[e].method = "isHealthy" => Truth(store, removed, asked[e], k, v)
  BY DEF Truth
<1>4. TextsInv'
  BY <1>1, <1>2 DEF TextsInv
<1>5. AnswersInv'
  <2> SUFFICES ASSUME NEW e \in Calls, NEW k \in Ids, NEW v, Learnt(e, v)', asked'[e].ids = {k},
                      Uses(k, {asked[e].method})'
               PROVE  Truth(store', removed', asked'[e], k, v)
    BY DEF AnswersInv
  <2>1. Uses(k, {asked[e].method})
    BY <1>1 DEF Uses, Users
  <2>2. Truth(store, removed, asked[e], k, v)
    BY <2>1, <1>1, <1>3 DEF AnswersInv
  <2> QED BY <2>2, <1>1
<1> QED BY <1>4, <1>5

LEMMA ReadsElapse ==
  ASSUME IInv, TextsInv, AnswersInv, Elapses
  PROVE  TextsInv' /\ AnswersInv'
<1>1. Tick /\ asked' = asked /\ \A e \in Calls : \A v : Learnt(e, v)' => Learnt(e, v)
  BY DEF Elapses
<1>2. TextsInv'
  BY <1>1 DEF TextsInv
<1>3. AnswersInv'
  <2> SUFFICES ASSUME NEW e \in Calls, NEW k \in Ids, NEW v, Learnt(e, v)', asked'[e].ids = {k},
                      Uses(k, {asked[e].method})'
               PROVE  Truth(store', removed', asked'[e], k, v)
    BY DEF AnswersInv
  <2>1. Uses(k, {asked[e].method})
    BY <1>1 DEF Uses, Users
  <2>2. Truth(store, removed, asked[e], k, v)
    BY <2>1, <1>1 DEF AnswersInv
  <2>3. Truth(store', removed', asked[e], k, v)
    BY <2>2, <1>1, TruthElapses DEF IInv
  <2> QED BY <2>3, <1>1
<1> QED BY <1>2, <1>3

LEMMA NothingLearnt == Init => \A c \in Calls : \A v : ~Learnt(c, v)
<1> SUFFICES ASSUME Init, NEW c \in Calls, NEW v PROVE ~Learnt(c, v)
  OBVIOUS
<1>1. phase[c] = "idle" /\ ran = 0
  BY DEF Init
<1>2. \A r : ~Due(c, r)
  BY <1>1 DEF Due
<1> QED BY <1>1, <1>2 DEF Learnt

ReadsInv == IInv /\ TextsInv /\ AnswersInv

LEMMA ReadsInit == Init => ReadsInv
BY InitHolds, NothingLearnt DEF ReadsInv, TextsInv, AnswersInv

LEMMA ReadsStep == ReadsInv /\ [Next]_vars => ReadsInv'
<1> SUFFICES ASSUME IInv, TextsInv, AnswersInv, [Next]_vars PROVE ReadsInv'
  BY DEF ReadsInv
<1>1. IInv'
  BY StepHolds
<1>2. TextsInv' /\ AnswersInv'
  BY Events, ReadsExecuted, ReadsBegin, ReadsSettle, ReadsElapse
<1> QED BY <1>1, <1>2 DEF ReadsInv

LEMMA ReadsImplied == ReadsInv => ReadsHold
<1> SUFFICES ASSUME TextsInv, AnswersInv PROVE ReadsHold
  BY DEF ReadsInv
<1>1. ASSUME NEW c \in Calls, phase[c] = "resolved" PROVE Learnt(c, result[c])
  BY <1>1 DEF Learnt
<1>2. NoUnparsedRead
  <2> SUFFICES ASSUME NEW c \in Calls, phase[c] = "resolved"
               PROVE  /\ asked[c].method \in {"get", "hget"} => result[c] \notin Raws \union {EmptyText}
                      /\ asked[c].method \in {"mget", "hgetall"}
                           => \A x \in DOMAIN result[c] : result[c][x] \notin Raws \union {EmptyText}
    BY DEF NoUnparsedRead, Settled
  <2> QED BY <1>1 DEF TextsInv, Readable
<1>3. AnswersHold
  <2> SUFFICES ASSUME NEW c \in Calls, NEW k \in Ids, phase[c] = "resolved", asked[c].ids = {k},
                      Uses(k, {asked[c].method})
               PROVE  CASE asked[c].method = "expire" ->
                             IF result[c]
                             THEN ~Has(store, k) \/ (asked[c].ttl > 0 /\ store[k].ttl # NoTtl)
                             ELSE ~Has(store, k)
                        [] asked[c].method = "persist"   -> result[c] => Has(store, k) /\ store[k].ttl = NoTtl
                        [] asked[c].method = "exists"    -> Has(store, k) => result[c]
                        [] asked[c].method = "ttl"       -> Has(store, k) => result[c] # -2
                        [] asked[c].method = "sismember" ->
                             k \notin removed => (result[c] <=> asked[c].member \in SetAt(store, k))
                        [] asked[c].method = "scard"     ->
                             k \notin removed => result[c] = Cardinality(SetAt(store, k))
                        [] OTHER -> TRUE
    BY Zenon DEF AnswersHold
  <2>1. Truth(store, removed, asked[c], k, result[c])
    BY <1>1 DEF AnswersInv
  <2> QED BY <2>1 DEF Truth
<1> QED BY <1>2, <1>3 DEF ReadsHold

(* Callers are told the truth: no typed read resolves with a text that is  *)
(* no JSON, and the answers about a key hold while only such calls are     *)
(* made, though their commands are repeated (cache.service.ts:99-492).     *)
THEOREM ReadsAreTrue == Spec => []ReadsHold
<1> QED BY ReadsInit, ReadsStep, ReadsImplied, PTL DEF Spec

-----------------------------------------------------------------------------
(* A TTL is never lost.                                                    *)

(* The keys that are written with a TTL only, and never persisted.         *)
Lasting(k) ==
  /\ ~(Has(began, k) /\ began[k].ttl = NoTtl)
  /\ \A c \in Users(k) : asked[c].method \in {"set", "setRaw", "setNx"} => asked[c].ttl # NoTtl
  /\ Uses(k, {"set", "setRaw", "setNx", "get", "getRaw", "exists", "ttl", "del", "expire"})

ExpiryInv == \A k \in Ids : Lasting(k) /\ Has(store, k) => store[k].ttl # NoTtl

(* What reads changes nothing.                                             *)
LEMMA ReadingKeeps ==
  ASSUME NEW s, IsStore(s), NEW q, q.name \in Reading
  PROVE  Run(s, q).store = s
<1>1. CASE q.name \in {"GET", "MGET", "EXISTS", "TTL", "KEYS", "PING", "INFO"}
  BY <1>1 DEF Run, Did, Error
<1>2. CASE q.name \in {"HGET", "HGETALL"}
  <2>1. Run(s, q) = RunHash(s, q)
    BY <1>2 DEF Run
  <2> QED BY <1>2, <2>1 DEF RunHash, Did, Error
<1>3. CASE q.name \in {"SMEMBERS", "SISMEMBER", "SCARD"}
  <2>1. Run(s, q) = RunMembers(s, q)
    BY <1>3 DEF Run
  <2> QED BY <1>3, <2>1 DEF RunMembers, Did, Error
<1> QED BY <1>1, <1>2, <1>3 DEF Reading

(* A command of another key leaves the key alone.                          *)
LEMMA OthersKeep ==
  ASSUME NEW s, IsStore(s), NEW p, NEW q, SentFor(p, q), NEW k \in Ids, k \notin p.ids
  PROVE  Run(s, q).store[k] = s[k]
<1>1. Fits(p, q)
  BY SentForFits
<1> QED BY <1>1, RunEffect DEF Effect, ChangesOnly

LEMMA SetDoes ==
  ASSUME NEW s, IsStore(s), NEW q, q.name = "SET", q.key \in Ids, q.ttl \in {NoTtl} \union 1 .. MaxTtl
  PROVE  \/ Run(s, q).store = s
         \/ Run(s, q).store[q.key] = Entry("string", q.text, q.ttl)
<1> DEFINE e == Entry("string", q.text, q.ttl)
<1>1. IsEntry(e)
  BY EntryIsEntry
<1>2. Run(s, q).store = s \/ Run(s, q).store = Put(s, q.key, e)
  BY DEF Run, RunSet, Did, Error
<1> HIDE DEF e
<1>3. Put(s, q.key, e)[q.key] = e
  BY <1>1, PutIsStore
<1> QED BY <1>2, <1>3 DEF e

LEMMA ExpiryRun ==
  ASSUME NEW s, IsStore(s), NEW p, NEW q, SentFor(p, q), NEW k \in Ids, k \in p.ids,
         p.method \in {"set", "setRaw", "setNx", "get", "getRaw", "exists", "ttl", "del", "expire"},
         p.method \in {"set", "setRaw", "setNx"} => p.ttl # NoTtl,
         Has(s, k) => s[k].ttl # NoTtl, Has(Run(s, q).store, k)
  PROVE  Run(s, q).store[k].ttl # NoTtl
<1> DEFINE d == Run(s, q)
<1>1. CASE q.name = "SET"
  <2>1. /\ q.key = k /\ q.ttl = p.ttl /\ q.ttl \in {NoTtl} \union 1 .. MaxTtl
        /\ p.method \in {"set", "setRaw", "setNx"}
    BY <1>1 DEF SentFor
  <2>2. d.store = s \/ d.store[k] = Entry("string", q.text, q.ttl)
    BY <2>1, <1>1, SetDoes
  <2>3. Entry("string", q.text, q.ttl).ttl = q.ttl
    BY DEF Entry
  <2> HIDE DEF d
  <2> QED BY <2>1, <2>2, <2>3 DEF d
<1>2. CASE q.name = "EXPIRE"
  <2>1. q.key = k /\ q.ttl \in Int /\ q.ttl <= MaxTtl
    BY <1>2 DEF SentFor
  <2>2. \/ ~Has(s, k) /\ d.store = s
        \/ ~Has(d.store, k)
        \/ q.ttl > 0 /\ d.store[k].ttl = q.ttl
    BY <2>1, <1>2, ExpireDoes
  <2> HIDE DEF d
  <2> QED BY <2>1, <2>2 DEF d, NoTtl
<1>3. CASE q.name = "DEL"
  <2>1. q.keys = p.ids
    BY <1>3 DEF SentFor
  <2>2. d.store = Drop(s, q.keys)
    BY <1>3 DEF Run, Did
  <2>3. ~Has(d.store, k)
    BY <2>1, <2>2 DEF Has, Drop
  <2> QED BY <2>3
<1>4. CASE q.name \in Reading
  <2>1. d.store = s
    BY <1>4, ReadingKeeps
  <2> HIDE DEF d
  <2> QED BY <2>1 DEF d
<1>5. q.name \in Reading \/ q.name \in {"SET", "EXPIRE", "DEL"}
  BY DEF SentFor, Reading
<1> QED BY <1>1, <1>2, <1>3, <1>4, <1>5

LEMMA ExpiryStep ==
  ASSUME IInv, ExpiryInv, [Next]_vars
  PROVE  ExpiryInv'
<1>1. IsStore(store)
  BY DEF IInv
<1>2. ASSUME NEW c \in Calls, Executes(c) PROVE ExpiryInv'
  <2> DEFINE d == Run(store, command[c])
  <2>1. SentFor(asked[c], command[c]) /\ store' = d.store /\ UNCHANGED <<began, asked>>
    BY <1>2 DEF Executes
  <2> SUFFICES ASSUME NEW k \in Ids, Lasting(k)', Has(store', k) PROVE store'[k].ttl # NoTtl
    BY DEF ExpiryInv, Has
  <2>2. Lasting(k)
    BY <2>1 DEF Lasting, Uses, Users, Has
  <2>3. Has(store, k) => store[k].ttl # NoTtl
    BY <2>2 DEF ExpiryInv
  <2>4. CASE k \notin asked[c].ids
    BY <2>1, <2>3, <2>4, <1>1, OthersKeep DEF Has
  <2>5. CASE k \in asked[c].ids
    <3>1. /\ asked[c].method \in {"set", "setRaw", "setNx", "get", "getRaw", "exists", "ttl", "del", "expire"}
          /\ asked[c].method \in {"set", "setRaw", "setNx"} => asked[c].ttl # NoTtl
      BY <2>2, <2>5 DEF Lasting, Uses, Users
    <3>2. d.store[k].ttl # NoTtl
      BY <3>1, <2>1, <2>3, <2>5, <1>1, ExpiryRun
    <3> QED BY <3>2, <2>1
  <2> QED BY <2>4, <2>5
<1>3. ASSUME NEW c \in Calls, Begins(c) PROVE ExpiryInv'
  <2>1. UNCHANGED <<store, began>> /\ \A e \in Calls \ {c} : asked'[e] = asked[e]
    BY <1>3 DEF Begins
  <2>2. ASSUME NEW k \in Ids, Lasting(k)' PROVE Lasting(k)
    <3>1. Uses(k, {"set", "setRaw", "setNx", "get", "getRaw", "exists", "ttl", "del", "expire"})
      BY <2>2, <1>3, UsedBefore DEF Lasting
    <3>2. \A e \in Users(k) : e \in Users(k)' /\ asked'[e] = asked[e]
      BY <1>3 DEF Begins, Users
    <3>3. ~(Has(began, k) /\ began[k].ttl = NoTtl)
      BY <2>1, <2>2 DEF Lasting, Has
    <3> QED BY <3>1, <3>2, <3>3, <2>2 DEF Lasting
  <2> QED BY <2>1, <2>2 DEF ExpiryInv, Has
<1>4. CASE Settles
  <2>1. UNCHANGED <<store, began, asked>>
    BY <1>4 DEF Settles
  <2> QED BY <2>1 DEF ExpiryInv, Lasting, Uses, Users, Has
<1>5. CASE Elapses
  <2>1. Tick /\ UNCHANGED <<began, asked>>
    BY <1>5 DEF Elapses, Tick
  <2> SUFFICES ASSUME NEW k \in Ids, Lasting(k)', Has(store', k) PROVE store'[k].ttl # NoTtl
    BY DEF ExpiryInv, Has
  <2>2. Lasting(k)
    BY <2>1 DEF Lasting, Uses, Users, Has
  <2>3. /\ ~Has(store, k) \/ store[k].ttl = NoTtl => store'[k] = store[k]
        /\ Has(store, k) => store'[k] = Absent \/ (store'[k].ttl = NoTtl <=> store[k].ttl = NoTtl)
    BY <2>1, <1>1, TickKey
  <2> QED BY <2>2, <2>3 DEF ExpiryInv, Has
<1> QED BY <1>2, <1>3, <1>4, <1>5, Events

LEMMA ExpiryInit == Init => ExpiryInv
BY DEF Init, ExpiryInv, Lasting, Has

-----------------------------------------------------------------------------
(* A batch is whole.                                                       *)

EvenInv == \A ks \in SUBSET Ids : Even(began, ks) /\ Together(ks) => Even(store, ks)

WholeInv ==
  \A c \in Calls : \A v :
    Learnt(c, v) /\ asked[c].method = "mget" =>
      /\ DOMAIN v = DOMAIN asked[c].order
      /\ Even(began, asked[c].ids) /\ Together(asked[c].ids)
           => \A i, j \in DOMAIN v : v[i] \in Values => v[j] \in Values

(* MSET gives each of its keys the text and no TTL.                        *)
LEMMA MsetDoes ==
  ASSUME NEW s, IsStore(s), NEW p, NEW q, SentFor(p, q), q.name = "MSET",
         NEW i \in Ids, NEW j \in Ids, i \in p.ids, j \in p.ids
  PROVE  \E text : Run(s, q).store[i] = Entry("string", text, NoTtl)
                   /\ Run(s, q).store[j] = Entry("string", text, NoTtl)
<1> DEFINE at(k) == {x \in DOMAIN q.pairs : q.pairs[x].key = k}
<1>1. PICK n \in Nat : DOMAIN q.pairs = 1 .. n
  BY DEF SentFor
<1>2. /\ \A x, y \in DOMAIN q.pairs : q.pairs[x].text = q.pairs[y].text
      /\ p.ids = {q.pairs[x].key : x \in DOMAIN q.pairs}
  BY DEF SentFor
<1>3. /\ at(i) # {} /\ at(j) # {} /\ at(i) \subseteq 1 .. n /\ at(j) \subseteq 1 .. n
  BY <1>1, <1>2
<1>4. Run(s, q).store = [k \in Ids |-> IF at(k) = {} THEN s[k]
                                       ELSE Entry("string", q.pairs[Max(at(k))].text, NoTtl)]
  BY DEF Run, RunMset, Did
<1>5. \A k \in {i, j} : Run(s, q).store[k] = Entry("string", q.pairs[Max(at(k))].text, NoTtl)
  BY <1>3, <1>4
<1> HIDE DEF at
<1>6. Max(at(i)) \in DOMAIN q.pairs /\ Max(at(j)) \in DOMAIN q.pairs
  BY <1>1, <1>3, MaxOfIndices
<1>7. q.pairs[Max(at(i))].text = q.pairs[Max(at(j))].text
  BY <1>2, <1>6
<1> QED BY <1>5, <1>7

LEMMA EvenRun ==
  ASSUME NEW c \in Calls, IsStore(store), SentFor(asked[c], command[c]),
         NEW ks \in SUBSET Ids, Together(ks), Even(store, ks)
  PROVE  Even(Run(store, command[c]).store, ks)
<1> DEFINE t == Run(store, command[c]).store
<1>1. CASE asked[c].ids \intersect ks = {}
  <2>1. \A k \in ks : t[k] = store[k]
    BY <1>1, OthersKeep
  <2> HIDE DEF t
  <2> QED BY <2>1 DEF Even, Holds, Has, t
<1>2. CASE asked[c].method \in {"get", "getRaw", "mget", "exists", "ttl"}
  <2>1. command[c].name \in Reading
    BY <1>2 DEF SentFor, Reading
  <2>2. t = store
    BY <2>1, ReadingKeeps
  <2> QED BY <2>2
<1>3. CASE asked[c].method = "mset" /\ asked[c].ids = ks
  <2> SUFFICES ASSUME NEW i \in ks, NEW j \in ks, Holds(t, i) PROVE Holds(t, j) /\ t[i].ttl = NoTtl
    BY DEF Even
  <2>1. command[c].name = "MSET"
    BY <1>3 DEF SentFor
  <2>2. i \in asked[c].ids /\ j \in asked[c].ids /\ i \in Ids /\ j \in Ids
    BY <1>3
  <2>3. \E text : t[i] = Entry("string", text, NoTtl) /\ t[j] = Entry("string", text, NoTtl)
    BY <2>1, <2>2, MsetDoes
  <2> HIDE DEF t
  <2>4. t[j] = t[i] /\ t[i].ttl = NoTtl
    BY <2>3 DEF Entry
  <2> QED BY <2>4 DEF Holds, Has
<1> QED BY <1>1, <1>2, <1>3 DEF Together

(* A mget that is executed sees the keys together.                         *)
LEMMA WholeRun ==
  ASSUME NEW s, IsStore(s), NEW p, NEW q, SentFor(p, q), p.method = "mget", NEW v, v = Run(s, q).reply
  PROVE  /\ DOMAIN v = DOMAIN p.order /\ p.ids \subseteq Ids
         /\ Even(s, p.ids) => \A i, j \in DOMAIN v : v[i] \in Values => v[j] \in Values
<1>1. q.name = "MGET" /\ q.keys = p.order /\ p.ids = ToSet(p.order) /\ p.ids \subseteq Ids
  BY DEF SentFor
<1>2. v = [i \in DOMAIN q.keys |-> IF IsA(s, q.keys[i], "string") THEN Text(s, q.keys[i]) ELSE Nil]
  BY <1>1 DEF Run, Did
<1>3. DOMAIN v = DOMAIN p.order /\ \A i \in DOMAIN v : p.order[i] \in p.ids
  BY <1>1, <1>2 DEF ToSet
<1>4. Nil \notin Values
  BY CommandsAssumption
<1>5. \A i \in DOMAIN v : v[i] = IF IsA(s, p.order[i], "string") THEN Text(s, p.order[i]) ELSE Nil
  BY <1>1, <1>2
<1>6. \A i \in DOMAIN v : v[i] \in Values <=> Holds(s, p.order[i])
  BY <1>4, <1>5 DEF Holds, Text, IsA, Has
<1>7. Even(s, p.ids) => \A i, j \in DOMAIN v : v[i] \in Values => v[j] \in Values
  BY <1>3, <1>6 DEF Even
<1> QED BY <1>1, <1>3, <1>7

LEMMA WholeExecuted ==
  ASSUME IInv, EvenInv, WholeInv, NEW c \in Calls, Executes(c)
  PROVE  EvenInv' /\ WholeInv'
<1> DEFINE d == Run(store, command[c])
<1>1. IsStore(store) /\ SentFor(asked[c], command[c]) /\ store' = d.store /\ UNCHANGED <<began, asked>>
  BY DEF Executes, IInv
<1>2. \A e \in Calls : \A v :
        Learnt(e, v)' =>
          \/ Learnt(e, v)
          \/ e = c /\ ~Rejects(asked[c].method, d.reply) /\ v = Resolved(asked[c].method, d.reply)
  BY DEF Executes
<1>3. \A ks : (Even(began, ks) <=> Even(began', ks)) /\ (Together(ks)' <=> Together(ks))
  BY <1>1 DEF Together
<1>4. EvenInv'
  <2> SUFFICES ASSUME NEW ks \in SUBSET Ids, Even(began', ks), Together(ks)' PROVE Even(store', ks)
    BY DEF EvenInv, Even, Holds, Has
  <2>1. Together(ks) /\ Even(store, ks)
    BY <1>3 DEF EvenInv
  <2> QED BY <2>1, <1>1, EvenRun
<1>5. WholeInv'
  <2> SUFFICES ASSUME NEW e \in Calls, NEW v, Learnt(e, v)', asked[e].method = "mget"
               PROVE  /\ DOMAIN v = DOMAIN asked[e].order
                      /\ Even(began, asked[e].ids) /\ Together(asked[e].ids)
                           => \A i, j \in DOMAIN v : v[i] \in Values => v[j] \in Values
    BY <1>1, <1>3 DEF WholeInv
  <2>1. CASE Learnt(e, v)
    BY <2>1 DEF WholeInv
  <2>2. CASE e = c /\ v = Resolved(asked[c].method, d.reply)
    <3>1. v = d.reply
      BY <2>2 DEF Resolved
    <3>2. /\ DOMAIN v = DOMAIN asked[c].order /\ asked[c].ids \subseteq Ids
          /\ Even(store, asked[c].ids) => \A i, j \in DOMAIN v : v[i] \in Values => v[j] \in Values
      BY <3>1, <2>2, <1>1, WholeRun
    <3>3. Even(began, asked[c].ids) /\ Together(asked[c].ids) => Even(store, asked[c].ids)
      BY <3>2 DEF EvenInv
    <3> QED BY <3>2, <3>3, <2>2
  <2> QED BY <2>1, <2>2, <1>2
<1> QED BY <1>4, <1>5

LEMMA WholeBegins ==
  ASSUME EvenInv, WholeInv, NEW c \in Calls, Begins(c)
  PROVE  EvenInv' /\ WholeInv'
<1>1. /\ asked[c].ids = {} /\ UNCHANGED <<store, began>>
      /\ \A e \in Calls \ {c} : asked'[e] = asked[e]
      /\ \A e \in Calls : \A v :
           Learnt(e, v)' =>
             \/ e # c /\ Learnt(e, v)
             \/ e = c /\ (asked'[c].method = "mget" => v = <<>> /\ asked'[c].order = <<>>)
  BY DEF Begins
<1>2. ASSUME NEW ks, Together(ks)' PROVE Together(ks)
  <2>1. \A e \in Calls : \/ asked'[e].ids \intersect ks = {}
                         \/ asked'[e].method \in {"get", "getRaw", "mget", "exists", "ttl"}
                         \/ asked'[e].method = "mset" /\ asked'[e].ids = ks
    BY <1>2 DEF Together
  <2>2. asked[c].ids \intersect ks = {}
    BY <1>1
  <2> QED BY <2>1, <2>2, <1>1 DEF Together
<1>3. EvenInv'
  <2> SUFFICES ASSUME NEW ks \in SUBSET Ids, Even(began, ks), Together(ks)' PROVE Even(store, ks)
    BY <1>1 DEF EvenInv
  <2> QED BY <1>2 DEF EvenInv
<1>4. WholeInv'
  <2> SUFFICES ASSUME NEW e \in Calls, NEW v, Learnt(e, v)', asked'[e].method = "mget"
               PROVE  /\ DOMAIN v = DOMAIN asked'[e].order
                      /\ Even(began, asked'[e].ids) /\ Together(asked[e].ids)'
                           => \A i, j \in DOMAIN v : v[i] \in Values => v[j] \in Values
    BY <1>1 DEF WholeInv
  <2>1. CASE e # c /\ Learnt(e, v)
    <3>1. asked'[e] = asked[e]
      BY <2>1, <1>1
    <3>2. /\ DOMAIN v = DOMAIN asked[e].order
          /\ Even(began, asked[e].ids) /\ Together(asked[e].ids)
               => \A i, j \in DOMAIN v : v[i] \in Values => v[j] \in Values
      BY <3>1, <2>1 DEF WholeInv
    <3> DEFINE ks == asked[e].ids
    <3>3. Together(asked[e].ids)' => Together(ks)
      <4>1. ASSUME Together(asked[e].ids)'
            PROVE  \A x \in Calls : \/ asked'[x].ids \intersect ks = {}
                                    \/ asked'[x].method \in {"get", "getRaw", "mget", "exists", "ttl"}
                                    \/ asked'[x].method = "mset" /\ asked'[x].ids = ks
        BY <4>1, <3>1 DEF Together
      <4>2. asked[c].ids \intersect ks = {}
        BY <1>1
      <4> QED BY <4>1, <4>2, <1>1 DEF Together
    <3> QED BY <3>1, <3>2, <3>3
  <2>2. CASE e = c
    <3>1. v = <<>> /\ asked'[e].order = <<>>
      BY <2>2, <1>1
    <3>2. DOMAIN v = {}
      BY <3>1
    <3> QED BY <3>1, <3>2
  <2> QED BY <2>1, <2>2, <1>1
<1> QED BY <1>3, <1>4

LEMMA WholeSettles ==
  ASSUME EvenInv, WholeInv, Settles
  PROVE  EvenInv' /\ WholeInv'
<1>1. /\ UNCHANGED <<store, began, asked>>
      /\ \A e \in Calls : \A v : Learnt(e, v)' => Learnt(e, v) \/ asked[e].method = "isHealthy"
  BY DEF Settles
<1>2. \A ks : Together(ks)' <=> Together(ks)
  BY <1>1 DEF Together
<1>3. EvenInv'
  BY <1>1, <1>2 DEF EvenInv
<1>4. WholeInv'
  BY <1>1, <1>2 DEF WholeInv
<1> QED BY <1>3, <1>4

LEMMA WholeElapses ==
  ASSUME IInv, EvenInv, WholeInv, Elapses
  PROVE  EvenInv' /\ WholeInv'
<1>1. Tick /\ UNCHANGED <<began, asked>> /\ \A e \in Calls : \A v : Learnt(e, v)' => Learnt(e, v)
  BY DEF Elapses, Tick
<1>2. \A ks : Together(ks)' <=> Together(ks)
  BY <1>1 DEF Together
<1>3. EvenInv'
  <2> SUFFICES ASSUME NEW ks \in SUBSET Ids, Even(began, ks), Together(ks)' PROVE Even(store', ks)
    BY <1>1 DEF EvenInv
  <2>1. Even(store, ks)
    BY <1>2 DEF EvenInv
  <2>2. ASSUME NEW k \in ks
        PROVE  /\ Holds(store', k) => Holds(store, k) /\ (store'[k].ttl = NoTtl <=> store[k].ttl = NoTtl)
               /\ Holds(store, k) /\ store[k].ttl = NoTtl => Holds(store', k)
    <3>1. k \in Ids /\ IsStore(store)
      BY DEF IInv
    <3>2. /\ ~Has(store, k) \/ store[k].ttl = NoTtl => store'[k] = store[k]
          /\ Has(store, k) =>
               \/ store'[k] = Absent
               \/ /\ store'[k].type = store[k].type /\ store'[k].data = store[k].data
                  /\ (store'[k].ttl = NoTtl <=> store[k].ttl = NoTtl)
      BY <3>1, <1>1, TickKey
    <3> QED BY <3>2 DEF Holds, Has
  <2> SUFFICES ASSUME NEW i \in ks, NEW j \in ks, Holds(store', i)
               PROVE  Holds(store', j) /\ store'[i].ttl = NoTtl
    BY DEF Even
  <2>3. Holds(store, i) /\ Holds(store, j) /\ store[i].ttl = NoTtl /\ store[j].ttl = NoTtl
    <3>1. Holds(store, i)
      BY <2>2
    <3>2. Holds(store, j) /\ store[i].ttl = NoTtl
      BY <3>1, <2>1 DEF Even
    <3>3. store[j].ttl = NoTtl
      BY <3>2, <2>1 DEF Even
    <3> QED BY <3>1, <3>2, <3>3
  <2> QED BY <2>2, <2>3
<1>4. WholeInv'
  BY <1>1, <1>2 DEF WholeInv
<1> QED BY <1>3, <1>4

LEMMA WholeInit == Init => EvenInv /\ WholeInv
<1>1. Init => EvenInv
  BY DEF Init, EvenInv
<1> QED BY <1>1, NothingLearnt DEF WholeInv

LEMMA WholeStep ==
  ASSUME IInv, EvenInv, WholeInv, [Next]_vars
  PROVE  EvenInv' /\ WholeInv'
BY Events, WholeExecuted, WholeBegins, WholeSettles, WholeElapses

-----------------------------------------------------------------------------
(* A confirmed increment is counted.                                       *)

Knows(c) == \E v : Learnt(c, v)
Sum(T)   == SumFunctionOnSet(Amounts, T)

(* The counter has counted the calls T.                                    *)
Counts(k, T) ==
  /\ (\A c \in Users(k) : Amounts[c] >= 0) => store[k].data >= Base(k) + Sum(T)
  /\ (\A c \in Users(k) : Amounts[c] <= 0) => store[k].data <= Base(k) + Sum(T)

Counting == {"incr", "decr"}

AmountsKnown == \A c \in Calls : Knows(c) /\ asked[c].method \in Counting => asked[c].by \in Int

(* A counter has counted any of those that know they are in it: those that *)
(* may still forget it, because the connection is lost, among them or not. *)
Counted(k) ==
  IF IsCounter(store, k)
  THEN \A T \in SUBSET Users(k) : (\A c \in T : Knows(c)) => Counts(k, T)
  ELSE (\A c \in Users(k) : ~Knows(c)) /\ (Has(began, k) => Has(store, k))

CountInv == AmountsKnown /\ \A k \in Ids \ removed : Uses(k, Counting) => Counted(k)

LEMMA AmountIs ==
  ASSUME NEW c \in Calls
  PROVE  /\ asked[c].method = "incr" => Amounts[c] = asked[c].by
         /\ asked[c].method = "decr" => Amounts[c] = -asked[c].by
BY DEF Amounts

(* What INCRBY does, and answers.                                          *)
LEMMA IncrByDoes ==
  ASSUME NEW s, IsStore(s), NEW q, q.name = "INCRBY", NEW k \in Ids, q.key = k, q.by \in Int
  PROVE  /\ IsCounter(s, k) => /\ IsCounter(Run(s, q).store, k)
                               /\ Run(s, q).store[k].data = s[k].data + q.by
         /\ ~Has(s, k) => IsCounter(Run(s, q).store, k) /\ Run(s, q).store[k].data = q.by
         /\ Has(s, k) /\ ~IsCounter(s, k) => Run(s, q).store = s /\ Run(s, q).reply = ErrorReply
<1> DEFINE now == IF Has(s, k) THEN s[k].data ELSE 0
           e == Entry("string", now + q.by, KeptTtl(s, k))
<1>1. Run(s, q) = IF ~Has(s, k) \/ IsCounter(s, k) THEN Did(Put(s, k, e), now + q.by) ELSE Error(s)
  BY DEF Run, RunIncrBy
<1>2. IsEntry(e)
  BY KeptTtlFits, EntryIsEntry
<1>3. Has(s, k) => s[k] # Absent
  BY DEF Has
<1>4. e.type = "string" /\ e.data = now + q.by /\ e # Absent
  BY DEF Entry, Absent
<1>5. CASE ~Has(s, k) \/ IsCounter(s, k)
  <2>1. now \in Int
    BY <1>5 DEF IsCounter
  <2> HIDE DEF now, e
  <2>2. Put(s, k, e)[k] = e
    BY <1>2, PutIsStore
  <2>3. Run(s, q).store = Put(s, k, e)
    BY <1>1, <1>5 DEF Did
  <2>4. IsCounter(Run(s, q).store, k) /\ Run(s, q).store[k].data = now + q.by
    BY <1>4, <2>1, <2>2, <2>3 DEF IsCounter, Has
  <2>5. (IsCounter(s, k) => now = s[k].data) /\ (~Has(s, k) => now = 0)
    BY DEF now, IsCounter
  <2> QED BY <1>5, <2>1, <2>4, <2>5
<1>6. CASE Has(s, k) /\ ~IsCounter(s, k)
  BY <1>1, <1>6 DEF Error, Did
<1> QED BY <1>5, <1>6

(* Who counts knows an integer, and a sum of integers is one.              *)
LEMMA SumsOfKnown ==
  ASSUME IInv, AmountsKnown, NEW k, Uses(k, Counting), NEW T \in SUBSET Users(k), \A c \in T : Knows(c)
  PROVE  /\ IsFiniteSet(T) /\ Sum(T) \in Int
         /\ \A c \in T : Amounts[c] \in Int /\ Sum(T) = Amounts[c] + Sum(T \ {c})
<1>1. IsFiniteSet(T)
  BY CommandsAssumption, FS_Subset DEF Users
<1>2. \A c \in T : Amounts[c] \in Int
  <2> TAKE c \in T
  <2>1. c \in Calls /\ asked[c].method \in Counting /\ asked[c].by \in Int
    BY DEF Uses, Users, AmountsKnown
  <2> QED BY <2>1, AmountIs DEF Counting
<1> QED BY <1>1, <1>2, SumWithout DEF Sum

(* While nobody asks anything else, sums and bounds are what they were.    *)
LEMMA CountsSame ==
  ASSUME UNCHANGED <<asked, began>>, NEW k, NEW T
  PROVE  /\ Users(k)' = Users(k) /\ Amounts' = Amounts /\ Base(k)' = Base(k) /\ Sum(T)' = Sum(T)
         /\ \A methods : Uses(k, methods)' <=> Uses(k, methods)
<1>1. Users(k)' = Users(k) /\ Amounts' = Amounts
  BY DEF Users, Amounts
<1>2. Base(k)' = Base(k)
  BY DEF Base, IsCounter, Has
<1> QED BY <1>1, <1>2 DEF Sum, Uses

(* The execution of INCRBY is counted.                                     *)
LEMMA IncrementCounted ==
  ASSUME IInv, CountInv, NEW c \in Calls, Executes(c), NEW k \in Ids \ removed',
         Uses(k, Counting), k \in asked[c].ids
  PROVE  Counted(k)'
<1> DEFINE q == command[c]
           d == Run(store, q)
<1>1. /\ SentFor(asked[c], q) /\ store' = d.store /\ removed' = removed \union Lost(store, store')
      /\ UNCHANGED <<began, asked>>
  BY DEF Executes
<1>2. c \in Users(k) /\ asked[c].method \in Counting
  BY DEF Users, Uses
<1>3. q.name = "INCRBY" /\ q.key = k /\ asked[c].by \in Int /\ q.by \in Int /\ q.by = Amounts[c]
  <2>1. asked[c].method = "incr" \/ asked[c].method = "decr"
    BY <1>2 DEF Counting
  <2>2. /\ q.name = "INCRBY" /\ q.key \in Ids /\ asked[c].ids = {q.key}
        /\ asked[c].by \in Int /\ q.by = IF asked[c].method = "incr" THEN asked[c].by ELSE -asked[c].by
    <3> HIDE DEF q
    <3> QED BY <1>1, <2>1 DEF SentFor
  <2>3. q.key = k
    BY <2>2
  <2>4. q.by = Amounts[c]
    BY <2>1, <2>2, AmountIs
  <2>5. q.by \in Int
    <3> HIDE DEF q
    <3> QED BY <2>1, <2>2
  <2> HIDE DEF q
  <2> QED BY <2>2, <2>3, <2>4, <2>5
<1>4. k \in Ids \ removed /\ Counted(k) /\ IsStore(store) /\ AmountsKnown
  BY <1>1 DEF CountInv, IInv
<1>5. /\ Users(k)' = Users(k) /\ Amounts' = Amounts /\ Base(k)' = Base(k)
      /\ \A T \in SUBSET Users(k) : Sum(T)' = Sum(T)
  BY <1>1, CountsSame
<1>6. \A e \in Calls \ {c} : Knows(e)' => Knows(e)
  BY DEF Executes, Knows
<1>7. Base(k) \in Int
  BY DEF Base, IsCounter
<1> HIDE DEF d, q
<1>8. /\ IsCounter(store, k) => IsCounter(d.store, k) /\ d.store[k].data = store[k].data + q.by
      /\ ~Has(store, k) => IsCounter(d.store, k) /\ d.store[k].data = q.by
      /\ Has(store, k) /\ ~IsCounter(store, k) => d.store = store /\ d.reply = ErrorReply
  BY <1>3, <1>4, IncrByDoes DEF d
<1>9. IsCounter(store', k) <=> IsCounter(store, k)'
  BY DEF IsCounter, Has
<1>10. CASE IsCounter(store, k)
  <2>1. IsCounter(store, k)' /\ store'[k].data = store[k].data + q.by /\ store[k].data \in Int
    BY <1>1, <1>8, <1>9, <1>10 DEF IsCounter
  <2>2. ASSUME NEW T \in SUBSET Users(k), \A e \in T : Knows(e)' PROVE Counts(k, T)'
    <3> DEFINE U == T \ {c}
    <3>1. U \in SUBSET Users(k) /\ (\A e \in U : Knows(e)) /\ IsFiniteSet(T)
      BY <1>6, <2>2, CommandsAssumption, FS_Subset DEF Users
    <3>2. Counts(k, U)
      BY <1>4, <1>10, <3>1 DEF Counted
    <3>3. IsFiniteSet(U) /\ Sum(U) \in Int /\ \A x \in U : Amounts[x] \in Int
      BY <1>4, <3>1, SumsOfKnown
    <3>4. Sum(T) = IF c \in T THEN Amounts[c] + Sum(U) ELSE Sum(U)
      <4>1. CASE c \notin T
        BY <4>1
      <4>2. CASE c \in T
        <5>1. \A x \in T : Amounts[x] \in Int
          BY <1>3, <3>3
        <5> QED BY <4>2, <5>1, <3>1, SumWithout DEF Sum
      <4> QED BY <4>1, <4>2
    <3> HIDE DEF U
    <3>5. (\A x \in Users(k) : Amounts[x] >= 0) => store'[k].data >= Base(k) + Sum(T)
      <4> HAVE \A x \in Users(k) : Amounts[x] >= 0
      <4>1. q.by >= 0 /\ store[k].data >= Base(k) + Sum(U)
        BY <1>2, <1>3, <3>2 DEF Counts
      <4> QED BY <4>1, <1>3, <1>7, <2>1, <3>3, <3>4
    <3>6. (\A x \in Users(k) : Amounts[x] <= 0) => store'[k].data <= Base(k) + Sum(T)
      <4> HAVE \A x \in Users(k) : Amounts[x] <= 0
      <4>1. q.by <= 0 /\ store[k].data <= Base(k) + Sum(U)
        BY <1>2, <1>3, <3>2 DEF Counts
      <4> QED BY <4>1, <1>3, <1>7, <2>1, <3>3, <3>4
    <3> QED BY <3>5, <3>6, <1>5 DEF Counts
  <2> QED BY <2>1, <2>2, <1>5 DEF Counted
<1>11. CASE ~Has(store, k)
  <2>1. IsCounter(store, k)' /\ store'[k].data = Amounts[c] /\ Amounts[c] \in Int
    BY <1>1, <1>3, <1>8, <1>9, <1>11
  <2>2. (\A e \in Users(k) : ~Knows(e)) /\ ~Has(began, k)
    BY <1>4, <1>11 DEF Counted, IsCounter
  <2>3. Base(k) = 0
    BY <2>2 DEF Base, IsCounter
  <2>4. ASSUME NEW T \in SUBSET Users(k), \A e \in T : Knows(e)' PROVE Counts(k, T)'
    <3>1. T = {} \/ T = {c}
      BY <1>6, <2>2, <2>4 DEF Users
    <3>2. Sum({}) = 0
      BY SumOfNothing DEF Sum
    <3>3. Sum({c}) = Amounts[c]
      <4>1. IsFiniteSet({c}) /\ {c} \ {c} = {}
        BY FS_Singleton
      <4>2. Sum({c}) = Amounts[c] + Sum({c} \ {c})
        BY <2>1, <4>1, SumWithout DEF Sum
      <4>3. Sum({c}) = Amounts[c] + 0
        BY <4>1, <4>2, <3>2, Zenon
      <4> QED BY <4>3, <2>1
    <3>4. Sum(T) = 0 \/ Sum(T) = Amounts[c]
      BY <3>1, <3>2, <3>3, Zenon
    <3>5. /\ (\A x \in Users(k) : Amounts[x] >= 0) => store'[k].data >= Base(k) + Sum(T)
          /\ (\A x \in Users(k) : Amounts[x] <= 0) => store'[k].data <= Base(k) + Sum(T)
      <4> DEFINE sum == Sum(T)
      <4>1. (sum = 0 \/ sum = Amounts[c]) /\ c \in Users(k)
        BY <3>4, <1>2
      <4> HIDE DEF sum
      <4> SUFFICES /\ (\A x \in Users(k) : Amounts[x] >= 0) => store'[k].data >= Base(k) + sum
                   /\ (\A x \in Users(k) : Amounts[x] <= 0) => store'[k].data <= Base(k) + sum
        BY DEF sum
      <4> QED BY <4>1, <2>1, <2>3
    <3> QED BY <3>5, <1>5 DEF Counts
  <2> QED BY <2>1, <2>4, <1>5 DEF Counted
<1>12. CASE Has(store, k) /\ ~IsCounter(store, k)
  <2>1. store' = store /\ d.reply = ErrorReply
    BY <1>1, <1>8, <1>12
  <2>2. \A e \in Users(k) : ~Knows(e)
    BY <1>4, <1>12 DEF Counted
  <2>3. Rejects(asked[c].method, d.reply)
    BY <2>1 DEF Rejects
  <2>4. \A e \in Users(k) : ~Knows(e)'
    BY <2>2, <2>3 DEF Executes, Knows, Users, d, q
  <2>5. ~IsCounter(store, k)' /\ (Has(began, k)' => Has(store, k)')
    BY <2>1, <1>1, <1>12 DEF IsCounter, Has
  <2> QED BY <2>4, <2>5, <1>5 DEF Counted
<1> QED BY <1>10, <1>11, <1>12 DEF IsCounter

LEMMA CountExecuted ==
  ASSUME IInv, CountInv, NEW c \in Calls, Executes(c)
  PROVE  CountInv'
<1>1. /\ SentFor(asked[c], command[c]) /\ store' = Run(store, command[c]).store
      /\ removed' = removed \union Lost(store, store') /\ UNCHANGED <<began, asked>>
  BY DEF Executes
<1>2. \A e \in Calls \ {c} : Knows(e)' => Knows(e)
  BY DEF Executes, Knows
<1>3. AmountsKnown'
  <2>1. asked[c].method \in Counting => asked[c].by \in Int
    BY <1>1 DEF SentFor, Counting
  <2> QED BY <1>1, <1>2, <2>1 DEF AmountsKnown, CountInv
<1>4. ASSUME NEW k \in Ids \ removed', Uses(k, Counting)' PROVE Counted(k)'
  <2>1. Uses(k, Counting) /\ k \in Ids \ removed
    BY <1>1, <1>4, CountsSame
  <2>2. CASE k \in asked[c].ids
    BY <2>1, <2>2, IncrementCounted
  <2>3. CASE k \notin asked[c].ids
    <3>1. store'[k] = store[k]
      BY <1>1, <2>3, OthersKeep DEF IInv
    <3>2. \A e \in Users(k) : Knows(e)' => Knows(e)
      BY <1>2, <2>3 DEF Users
    <3>3. /\ Users(k)' = Users(k) /\ Amounts' = Amounts /\ Base(k)' = Base(k)
          /\ \A T \in SUBSET Users(k) : Sum(T)' = Sum(T)
      BY <1>1, CountsSame
    <3>4. (IsCounter(store, k)' <=> IsCounter(store, k)) /\ (Has(store, k)' <=> Has(store, k))
          /\ (Has(began, k)' <=> Has(began, k))
      BY <3>1, <1>1 DEF IsCounter, Has
    <3>5. Counted(k)
      BY <2>1 DEF CountInv
    <3>6. ASSUME NEW T \in SUBSET Users(k), Counts(k, T) PROVE Counts(k, T)'
      BY <3>1, <3>3, <3>6 DEF Counts
    <3> QED BY <3>2, <3>3, <3>4, <3>5, <3>6 DEF Counted
  <2> QED BY <2>2, <2>3
<1> QED BY <1>3, <1>4 DEF CountInv

(* A call that begins knows nothing yet of a counter.                      *)
LEMMA CountBegins ==
  ASSUME IInv, CountInv, NEW c \in Calls, Begins(c)
  PROVE  CountInv'
<1>1. /\ asked[c].ids = {} /\ UNCHANGED <<store, removed, began>>
      /\ \A e \in Calls \ {c} : asked'[e] = asked[e]
  BY DEF Begins
<1>2. \A e \in Calls : Knows(e)' => (e # c /\ Knows(e)) \/ (e = c /\ asked'[c].method \notin Counting)
  BY DEF Begins, Knows, Counting
<1>3. AmountsKnown'
  BY <1>1, <1>2 DEF AmountsKnown, CountInv
<1>4. ASSUME NEW k \in Ids \ removed', Uses(k, Counting)' PROVE Counted(k)'
  <2>1. Uses(k, Counting) /\ k \in Ids \ removed
    BY <1>1, <1>4, UsedBefore
  <2>2. Counted(k) /\ AmountsKnown
    BY <2>1 DEF CountInv
  <2>3. Users(k) \subseteq Users(k)' /\ Users(k)' \subseteq Users(k) \union {c} /\ c \notin Users(k)
    BY <1>1 DEF Users
  <2>4. \A e \in Users(k)' : Knows(e)' => e \in Users(k) /\ Knows(e)
    <3> TAKE e \in Users(k)'
    <3>1. e \in Calls /\ asked'[e].method \in Counting
      BY <1>4 DEF Uses, Users
    <3> QED BY <3>1, <1>2, <2>3
  <2>5. \A e \in Users(k) : Amounts'[e] = Amounts[e]
    BY <1>1, <2>3 DEF Amounts, Users
  <2>6. Base(k)' = Base(k) /\ (IsCounter(store, k)' <=> IsCounter(store, k))
        /\ (Has(store, k)' <=> Has(store, k)) /\ (Has(began, k)' <=> Has(began, k))
    BY <1>1 DEF Base, IsCounter, Has
  <2>7. CASE IsCounter(store, k)
    <3>1. ASSUME NEW T \in SUBSET Users(k)', \A e \in T : Knows(e)' PROVE Counts(k, T)'
      <4>1. T \in SUBSET Users(k) /\ \A e \in T : Knows(e)
        BY <2>4, <3>1
      <4>2. Counts(k, T)
        BY <4>1, <2>2, <2>7 DEF Counted
      <4>3. IsFiniteSet(T) /\ Alike(Amounts, Amounts', T)
        BY <4>1, <2>5, CommandsAssumption, FS_Subset DEF Users, Alike
      <4>4. Sum(T)' = Sum(T)
        BY <4>3, SumsAgree DEF Sum
      <4>5. store'[k].data = store[k].data
        BY <1>1
      <4>6. /\ (\A e \in Users(k)' : Amounts'[e] >= 0) => \A e \in Users(k) : Amounts[e] >= 0
            /\ (\A e \in Users(k)' : Amounts'[e] <= 0) => \A e \in Users(k) : Amounts[e] <= 0
        BY <2>3, <2>5
      <4> QED BY <4>2, <4>4, <4>5, <4>6, <2>6 DEF Counts
    <3> QED BY <3>1, <2>6, <2>7 DEF Counted
  <2>8. CASE ~IsCounter(store, k)
    BY <2>2, <2>4, <2>6, <2>8 DEF Counted
  <2> QED BY <2>7, <2>8
<1> QED BY <1>3, <1>4 DEF CountInv

(* What holds of a counter while its users know no more than they did and  *)
(* it keeps its value.                                                     *)
LEMMA CountKept ==
  ASSUME CountInv, UNCHANGED <<asked, began>>, removed \subseteq removed',
         \A e \in Calls : Knows(e)' => Knows(e) \/ asked[e].method = "isHealthy",
         \A k \in Ids \ removed' : /\ Has(store', k) <=> Has(store, k)
                                   /\ Has(store, k) => /\ store'[k].type = store[k].type
                                                       /\ store'[k].data = store[k].data
  PROVE  CountInv'
<1>1. AmountsKnown'
  BY DEF AmountsKnown, CountInv, Counting
<1>2. ASSUME NEW k \in Ids \ removed', Uses(k, Counting)' PROVE Counted(k)'
  <2>1. Uses(k, Counting) /\ k \in Ids \ removed
    BY <1>2, CountsSame
  <2>2. Counted(k)
    BY <2>1 DEF CountInv
  <2>3. \A e \in Users(k) : Knows(e)' => Knows(e)
    BY <2>1 DEF Uses, Users, Counting
  <2>4. /\ Users(k)' = Users(k) /\ Amounts' = Amounts /\ Base(k)' = Base(k)
        /\ \A T \in SUBSET Users(k) : Sum(T)' = Sum(T)
    BY CountsSame
  <2>5. /\ Has(store, k)' <=> Has(store, k)
        /\ Has(store, k) => store'[k].type = store[k].type /\ store'[k].data = store[k].data
        /\ Has(began, k)' <=> Has(began, k)
    BY <1>2 DEF Has
  <2>6. IsCounter(store, k)' <=> IsCounter(store, k)
    BY <2>5 DEF IsCounter
  <2>7. ASSUME IsCounter(store, k), NEW T \in SUBSET Users(k), Counts(k, T) PROVE Counts(k, T)'
    BY <2>4, <2>5, <2>7 DEF Counts, IsCounter
  <2> QED BY <2>2, <2>3, <2>4, <2>5, <2>6, <2>7 DEF Counted
<1> QED BY <1>1, <1>2 DEF CountInv

LEMMA CountStep ==
  ASSUME IInv, CountInv, [Next]_vars
  PROVE  CountInv'
<1>1. CASE Settles
  <2>1. UNCHANGED <<store, removed, began, asked>>
        /\ \A e \in Calls : Knows(e)' => Knows(e) \/ asked[e].method = "isHealthy"
    BY <1>1 DEF Settles, Knows
  <2> QED BY <2>1, CountKept DEF Has
<1>2. CASE Elapses
  <2>1. Tick /\ UNCHANGED <<asked, began>> /\ removed' = removed \union Lost(store, store')
    BY <1>2 DEF Elapses, Tick
  <2>2. \A e \in Calls : Knows(e)' => Knows(e)
    BY <1>2 DEF Elapses, Knows
  <2>3. ASSUME NEW k \in Ids \ removed'
        PROVE  /\ Has(store', k) <=> Has(store, k)
               /\ Has(store, k) => store'[k].type = store[k].type /\ store'[k].data = store[k].data
    <3>1. Has(store, k) => Has(store', k)
      BY <2>1, <2>3 DEF Lost
    <3>2. ~Has(store, k) => store'[k] = store[k]
      BY <2>1, TickKey DEF IInv
    <3>3. Has(store, k) =>
            \/ store'[k] = Absent
            \/ store'[k].type = store[k].type /\ store'[k].data = store[k].data
      BY <2>1, TickKey DEF IInv
    <3> QED BY <3>1, <3>2, <3>3 DEF Has
  <2> QED BY <2>1, <2>2, <2>3, CountKept
<1> QED BY <1>1, <1>2, Events, CountExecuted, CountBegins

LEMMA CountInit == Init => CountInv
<1> SUFFICES ASSUME Init PROVE CountInv
  OBVIOUS
<1>1. \A c \in Calls : ~Knows(c)
  BY NothingLearnt DEF Knows
<1>2. began = store
  BY DEF Init
<1>3. ASSUME NEW k \in Ids PROVE Counted(k)
  <2>1. CASE IsCounter(store, k)
    <3>1. ASSUME NEW T \in SUBSET Users(k), \A c \in T : Knows(c) PROVE Counts(k, T)
      <4>1. T = {}
        BY <1>1, <3>1 DEF Users
      <4>2. Sum(T) = 0
        BY <4>1, SumOfNothing DEF Sum
      <4>3. Base(k) = store[k].data /\ store[k].data \in Int
        BY <1>2, <2>1 DEF Base, IsCounter
      <4> QED BY <4>2, <4>3 DEF Counts
    <3> QED BY <2>1, <3>1 DEF Counted
  <2>2. CASE ~IsCounter(store, k)
    BY <1>1, <1>2, <2>2 DEF Counted, Users
  <2> QED BY <2>1, <2>2
<1> QED BY <1>1, <1>3 DEF CountInv, AmountsKnown

-----------------------------------------------------------------------------
(* What writes promise.                                                    *)

WritesInv == IInv /\ ExpiryInv /\ EvenInv /\ WholeInv /\ CountInv

LEMMA WritesInit == Init => WritesInv
BY InitHolds, ExpiryInit, WholeInit, CountInit DEF WritesInv

LEMMA WritesStep == WritesInv /\ [Next]_vars => WritesInv'
BY StepHolds, ExpiryStep, WholeStep, CountStep DEF WritesInv

LEMMA ResolvedLearnt ==
  ASSUME NEW c \in Calls, phase[c] = "resolved"
  PROVE  Learnt(c, result[c])
BY DEF Learnt

LEMMA WritesImplied == WritesInv => WritesHold
<1> SUFFICES ASSUME WritesInv PROVE WritesHold
  OBVIOUS
<1>1. ExpiryNeverLost
  BY DEF WritesInv, ExpiryInv, Lasting, ExpiryNeverLost
<1>2. ConfirmedCounted
  <2> SUFFICES ASSUME NEW k \in Ids \ removed, IsCounter(store, k), Uses(k, Counting)
               PROVE  /\ (\A c \in Users(k) : Amounts[c] >= 0) => store[k].data >= Base(k) + Confirmed(k)
                      /\ (\A c \in Users(k) : Amounts[c] <= 0) => store[k].data <= Base(k) + Confirmed(k)
    BY DEF ConfirmedCounted, Counting
  <2> DEFINE T == {c \in Users(k) : phase[c] = "resolved"}
  <2>1. \A c \in T : Knows(c)
    BY ResolvedLearnt DEF Knows, Users
  <2>2. T \in SUBSET Users(k) /\ Sum(T) = Confirmed(k)
    BY DEF Sum, Confirmed
  <2> HIDE DEF T
  <2>3. Counts(k, T)
    BY <2>1, <2>2 DEF WritesInv, CountInv, Counted
  <2> QED BY <2>2, <2>3 DEF Counts
<1>3. BatchesWhole
  BY ResolvedLearnt DEF BatchesWhole, Settled, WritesInv, WholeInv
<1> QED BY <1>1, <1>2, <1>3 DEF WritesHold

(* A TTL is never lost, a confirmed increment counts and a batch is whole, *)
(* for any calls of any methods, any keys, arguments, losses of the        *)
(* connection, repeated commands and lapses of TTLs                        *)
(* (cache.service.ts:132-344).                                             *)
THEOREM WritesAreKept == Spec => []WritesHold
<1> QED BY WritesInit, WritesStep, WritesImplied, PTL DEF Spec
=============================================================================
