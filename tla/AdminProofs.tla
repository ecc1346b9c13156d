------------------------------ MODULE AdminProofs ------------------------------
(***************************************************************************)
(* Proofs about the administration surface: that a walk through the pages  *)
(* of a scope lists every key that stayed, that what the console is shown  *)
(* is true, for any keyspace, scopes, limits and changes of other clients; *)
(* and that what health and stats answer is true, for any probes,          *)
(* deadlines, thresholds and texts of INFO.                                *)
(***************************************************************************)
EXTENDS AdminKeyspace, CacheStatus, FiniteSetTheorems, SequenceTheorems, WellFoundedInduction, TLAPS

(* The keyspace: AdminKeyspace.                                            *)

-----------------------------------------------------------------------------
(* The invariant.                                                          *)

Replies == {Missing} \union [name : {"TYPE", "TTL", "MEMORY"}, key : Keys, type : Types \union {"none"}]
Entries == [key : Keys, type : Types \union {"other"}, ttl : Replies, size : Replies]

StoreInv ==
  /\ commandBatchLimit \in BatchLimits
  /\ stored \in [Keys -> {Absent} \union Values]
  /\ changes \in 0 .. MaxChanges

(* The loops of listKeys. The replies are those of the first commands.     *)
PageInv ==
  /\ page \in {"idle", "scanning", "describing", "complete", "refused"}
  /\ scope \in Scopes \union {Unknown}
  /\ page \in {"scanning", "describing"} => scope \in Scopes
  /\ from \in 0 .. Buckets - 1 /\ cursor \in 0 .. Buckets - 1
  /\ keys \in Seq(Keys) /\ entries \in Seq(Entries) /\ replies \in Seq(Replies)
  /\ Len(entries) <= Len(keys)
  /\ \A i \in 1 .. Len(entries) : entries[i].key = keys[i]
  /\ page # "describing" => entries = <<>> /\ replies = <<>>
  /\ page # "describing" /\ page # "scanning" => keys = <<>>

RepliesAligned ==
  /\ Len(replies) <= Len(Commands)
  /\ \A i \in 1 .. Len(replies) :
       replies[i] # Missing => replies[i].key = Commands[i].key /\ replies[i].name = Commands[i].name

(* Where a key that stayed is: before the page, collected by it, or behind *)
(* the cursor.                                                             *)
WalkInv ==
  /\ scope = Unknown => steady = {}
  /\ scope \in Scopes => steady \subseteq {k \in InScope[scope] : Has(k)}
  /\ \A k \in steady :
       /\ BucketOf[k] <= from => k \in listed
       /\ page = "scanning" /\ BucketOf[k] <= cursor => k \in listed \union ToSet(keys)
       /\ page = "describing" /\ (cursor = 0 \/ BucketOf[k] <= cursor) => k \in listed \union ToSet(keys)
       /\ page = "complete" => k \in listed

(* A call that goes on was allowed to.                                     *)
ReadsInv ==
  /\ DOMAIN about = Reads /\ DOMAIN reveals = Reads /\ DOMAIN seen = Reads /\ DOMAIN answer = Reads
  /\ phase \in [Reads -> {"idle", "typing", "reading", "refused", "withheld", "described",
                          "missing", "revealed", "unsupported", "failed"}]
  /\ \A r \in Reads :
       /\ phase[r] \in {"typing", "reading"} =>
            /\ about[r].scope \in Scopes /\ about[r].key \in InScope[about[r].scope]
            /\ reveals[r] => about[r].scope \in Readable
       /\ phase[r] = "reading" => reveals[r]

-----------------------------------------------------------------------------
(* Sequences.                                                              *)

LEMMA ToSetOfConcat ==
  ASSUME NEW S, NEW s \in Seq(S), NEW t \in Seq(S)
  PROVE  ToSet(s \o t) = ToSet(s) \union ToSet(t)
<1>1. /\ DOMAIN s = 1 .. Len(s) /\ DOMAIN t = 1 .. Len(t) /\ DOMAIN (s \o t) = 1 .. Len(s) + Len(t)
      /\ Len(s) \in Nat /\ Len(t) \in Nat
  OBVIOUS
<1>2. \A i \in 1 .. Len(s) + Len(t) : (s \o t)[i] = IF i <= Len(s) THEN s[i] ELSE t[i - Len(s)]
  OBVIOUS
<1>3. ToSet(s \o t) \subseteq ToSet(s) \union ToSet(t)
  <2> SUFFICES ASSUME NEW i \in 1 .. Len(s) + Len(t) PROVE (s \o t)[i] \in ToSet(s) \union ToSet(t)
    BY <1>1 DEF ToSet
  <2>1. CASE i <= Len(s)
    BY <2>1, <1>1, <1>2 DEF ToSet
  <2>2. CASE i > Len(s)
    <3>1. i - Len(s) \in 1 .. Len(t) /\ (s \o t)[i] = t[i - Len(s)]
      BY <2>2, <1>1, <1>2
    <3> QED BY <3>1, <1>1 DEF ToSet
  <2> QED BY <2>1, <2>2, <1>1
<1>4. ToSet(s) \subseteq ToSet(s \o t)
  <2> SUFFICES ASSUME NEW i \in 1 .. Len(s) PROVE s[i] \in ToSet(s \o t)
    BY <1>1 DEF ToSet
  <2>1. i \in 1 .. Len(s) + Len(t) /\ (s \o t)[i] = s[i]
    BY <1>1, <1>2
  <2> QED BY <2>1, <1>1 DEF ToSet
<1>5. ToSet(t) \subseteq ToSet(s \o t)
  <2> SUFFICES ASSUME NEW i \in 1 .. Len(t) PROVE t[i] \in ToSet(s \o t)
    BY <1>1 DEF ToSet
  <2>1. Len(s) + i \in 1 .. Len(s) + Len(t) /\ (s \o t)[Len(s) + i] = t[i]
    BY <1>1, <1>2
  <2> QED BY <2>1, <1>1 DEF ToSet
<1> QED BY <1>3, <1>4, <1>5

(* The members of a finite set, in some order.                             *)
LEMMA SetAsSeq ==
  ASSUME NEW S, IsFiniteSet(S)
  PROVE  SetToSeq(S) \in Seq(S) /\ ToSet(SetToSeq(S)) = S
<1> DEFINE n == Cardinality(S)
<1>1. n \in Nat /\ ExistsBijection(1 .. n, S)
  BY FS_CardinalityType
<1>2. PICK f \in Bijection(1 .. n, S) : TRUE
  BY <1>1 DEF ExistsBijection
<1>3. f \in [1 .. n -> S] /\ IsInjective(f)
  BY <1>2 DEF Bijection, Injection
<1>4. SetToSeq(S) \in [1 .. n -> S] /\ IsInjective(SetToSeq(S))
  BY <1>3 DEF SetToSeq
<1>5. SetToSeq(S) \in Injection(1 .. n, S)
  BY <1>4 DEF Injection
<1>6. IsFiniteSet(1 .. n) /\ Cardinality(1 .. n) = n
  BY <1>1, FS_Interval
<1>7. SetToSeq(S) \in Surjection(1 .. n, S)
  BY <1>5, <1>6, FS_Injection
<1>8. \A x \in S : \E i \in 1 .. n : SetToSeq(S)[i] = x
  BY <1>7 DEF Surjection
<1>9. DOMAIN SetToSeq(S) = 1 .. n /\ SetToSeq(S) \in Seq(S)
  BY <1>4, <1>1
<1> QED BY <1>4, <1>8, <1>9 DEF ToSet

-----------------------------------------------------------------------------
(* The pipeline.                                                           *)

(* The chunk is the next keys, at least one of them if there are any, and  *)
(* its commands come key by key.                                           *)
ChunkOK ==
  /\ PerKey \in 2 .. 3 /\ (withSize => PerKey = 3)
  /\ ChunkSize \in Nat \ {0}
  /\ PerKey * ChunkSize <= commandBatchLimit \/ ChunkSize = 1
  /\ Len(Chunk) \in Nat /\ Len(Chunk) <= ChunkSize /\ Len(entries) + Len(Chunk) <= Len(keys)
  /\ \A i \in 1 .. Len(Chunk) : Chunk[i] = keys[Len(entries) + i] /\ Chunk[i] \in Keys
  /\ Len(Commands) = PerKey * Len(Chunk)
  /\ \A i \in 1 .. PerKey * Len(Chunk) :
       Commands[i] = [key |-> Chunk[((i - 1) \div PerKey) + 1], name |-> <<"TYPE", "TTL", "MEMORY">>[Part(i)]]

LEMMA ChunkHolds == StoreInv /\ PageInv => ChunkOK
<1> SUFFICES ASSUME StoreInv, PageInv PROVE ChunkOK
  OBVIOUS
<1>1. commandBatchLimit \in Nat \ {0}
  BY AdminAssumption DEF StoreInv
<1>2. PerKey \in 2 .. 3 /\ (withSize => PerKey = 3)
  BY DEF PerKey
<1>3. /\ ChunkSize \in Nat \ {0}
      /\ PerKey * ChunkSize <= commandBatchLimit \/ ChunkSize = 1
  <2>1. CASE PerKey = 2
    BY <2>1, <1>1 DEF ChunkSize, AtLeastOne
  <2>2. CASE PerKey = 3
    BY <2>2, <1>1 DEF ChunkSize, AtLeastOne
  <2> QED BY <2>1, <2>2, <1>2
<1>4. /\ keys \in Seq(Keys) /\ entries \in Seq(Entries) /\ Len(entries) <= Len(keys)
      /\ Len(entries) \in Nat /\ Len(keys) \in Nat
  BY DEF PageInv
<1> DEFINE last == Least(Len(entries) + ChunkSize, Len(keys))
<1>5. last \in Len(entries) .. Len(keys) /\ last <= Len(entries) + ChunkSize
  BY <1>3, <1>4 DEF Least
<1>6. Chunk = SubSeq(keys, Len(entries) + 1, last)
  BY DEF Chunk
<1> HIDE DEF last
<1>7. /\ Len(Chunk) = last - Len(entries)
      /\ \A i \in 1 .. Len(Chunk) : Chunk[i] = keys[Len(entries) + i] /\ Chunk[i] \in Keys
  BY <1>4, <1>5, <1>6
<1>8. /\ Len(Chunk) \in Nat /\ Len(Chunk) <= ChunkSize /\ Len(entries) + Len(Chunk) <= Len(keys)
      /\ PerKey * Len(Chunk) \in Nat
  BY <1>2, <1>3, <1>4, <1>5, <1>7
<1>9. /\ Len(Commands) = PerKey * Len(Chunk)
      /\ \A i \in 1 .. PerKey * Len(Chunk) :
           Commands[i] = [key |-> Chunk[((i - 1) \div PerKey) + 1], name |-> <<"TYPE", "TTL", "MEMORY">>[Part(i)]]
  BY <1>8 DEF Commands
<1> QED BY <1>2, <1>3, <1>7, <1>8, <1>9 DEF ChunkOK

(* What the commands of the i-th key of a chunk are about.                 *)
LEMMA CommandsOfKey ==
  ASSUME ChunkOK, NEW i \in 1 .. Len(Chunk), NEW n \in 1 .. PerKey
  PROVE  /\ (i - 1) * PerKey + n \in 1 .. Len(Commands)
         /\ Commands[(i - 1) * PerKey + n].key = Chunk[i]
         /\ Commands[(i - 1) * PerKey + n].name = <<"TYPE", "TTL", "MEMORY">>[n]
<1> DEFINE j == (i - 1) * PerKey + n
<1>1. PerKey \in 2 .. 3 /\ Len(Chunk) \in Nat /\ Len(Commands) = PerKey * Len(Chunk)
  BY DEF ChunkOK
<1>2. j \in 1 .. PerKey * Len(Chunk) /\ ((j - 1) \div PerKey) + 1 = i /\ ((j - 1) % PerKey) + 1 = n
  <2>1. CASE PerKey = 2
    BY <2>1, <1>1
  <2>2. CASE PerKey = 3
    BY <2>2, <1>1
  <2> QED BY <2>1, <2>2, <1>1
<1> HIDE DEF j
<1>3. Commands[j] = [key |-> Chunk[((j - 1) \div PerKey) + 1], name |-> <<"TYPE", "TTL", "MEMORY">>[Part(j)]]
  BY <1>2 DEF ChunkOK
<1>4. Part(j) = n
  BY <1>2 DEF Part
<1>5. Commands[j] = [key |-> Chunk[i], name |-> <<"TYPE", "TTL", "MEMORY">>[n]]
  BY <1>2, <1>3, <1>4
<1> QED BY <1>1, <1>2, <1>5 DEF j

LEMMA NoReplies ==
  ASSUME StoreInv', PageInv', replies' = <<>>
  PROVE  RepliesAligned'
<1>1. ChunkOK'
  BY ChunkHolds, PTL
<1>2. Len(Commands') \in Nat
  BY <1>1 DEF ChunkOK
<1> QED BY <1>2 DEF RepliesAligned

LEMMA KeptReplies ==
  ASSUME RepliesAligned, UNCHANGED <<commandBatchLimit, withSize, keys, entries, replies>>
  PROVE  RepliesAligned'
<1>1. PerKey' = PerKey
  BY DEF PerKey
<1>2. ChunkSize' = ChunkSize
  BY <1>1 DEF ChunkSize
<1>3. Chunk' = Chunk
  BY <1>2 DEF Chunk
<1>4. \A i : Part(i)' = Part(i)
  BY <1>1 DEF Part
<1>5. Commands' = Commands
  BY <1>1, <1>3, <1>4 DEF Commands
<1> QED BY <1>5 DEF RepliesAligned

(* Every command is about a key of the chunk.                              *)
LEMMA CommandTyped ==
  ASSUME ChunkOK, NEW i \in 1 .. Len(Commands)
  PROVE  Commands[i].key \in Keys /\ Commands[i].name \in {"TYPE", "TTL", "MEMORY"}
<1>1. PerKey \in 2 .. 3 /\ Len(Chunk) \in Nat /\ i \in 1 .. PerKey * Len(Chunk)
  BY DEF ChunkOK
<1>2. ((i - 1) \div PerKey) + 1 \in 1 .. Len(Chunk) /\ ((i - 1) % PerKey) + 1 \in 1 .. 3
  <2>1. CASE PerKey = 2
    BY <2>1, <1>1
  <2>2. CASE PerKey = 3
    BY <2>2, <1>1
  <2> QED BY <2>1, <2>2, <1>1
<1>3. Commands[i] = [key |-> Chunk[((i - 1) \div PerKey) + 1], name |-> <<"TYPE", "TTL", "MEMORY">>[Part(i)]]
  BY <1>1 DEF ChunkOK
<1>4. Chunk[((i - 1) \div PerKey) + 1] \in Keys
  BY <1>2 DEF ChunkOK
<1>5. <<"TYPE", "TTL", "MEMORY">>[Part(i)] \in {"TYPE", "TTL", "MEMORY"}
  BY <1>2 DEF Part
<1> QED BY <1>3, <1>4, <1>5

-----------------------------------------------------------------------------
(* What a step leaves alone.                                               *)

ListInv == StoreInv /\ PageInv /\ RepliesAligned /\ WalkInv /\ EntriesAligned
CallInv == ReadsInv /\ WithheldUnread /\ CompleteMeansWhole

LEMMA CallKept ==
  ASSUME CallInv, UNCHANGED reading
  PROVE  CallInv'
BY DEF CallInv, ReadsInv, WithheldUnread, CompleteMeansWhole, reading

LEMMA ListKept ==
  ASSUME ListInv, UNCHANGED <<options, stored, changes, steady, listing>>
  PROVE  ListInv'
<1>1. UNCHANGED <<commandBatchLimit, stored, changes, steady, page, scope, from, cursor, withSize,
                  keys, entries, replies, listed>>
  BY DEF options, listing
<1>2. StoreInv' /\ PageInv'
  BY <1>1 DEF ListInv, StoreInv, PageInv
<1>3. RepliesAligned'
  BY <1>1, KeptReplies DEF ListInv
<1>4. WalkInv' /\ EntriesAligned'
  BY <1>1 DEF ListInv, WalkInv, EntriesAligned, Has
<1> QED BY <1>2, <1>3, <1>4 DEF ListInv

(* Another client changes a key.                                           *)
LEMMA ChangeStep ==
  ASSUME ListInv, CallInv, NEW k \in Keys, NEW value \in Values \union {Absent}, Change(k, value)
  PROVE  ListInv' /\ CallInv'
<1>1. /\ stored' = [stored EXCEPT ![k] = value] /\ changes < MaxChanges /\ changes' = changes + 1
      /\ steady' = IF value = Absent THEN steady \ {k} ELSE steady
      /\ UNCHANGED <<commandBatchLimit, page, scope, from, cursor, withSize, keys, entries, replies, listed>>
      /\ UNCHANGED reading
  BY DEF Change, options, listing
<1>2. StoreInv'
  <2>1. changes \in Nat /\ MaxChanges \in Nat
    BY AdminAssumption DEF ListInv, StoreInv
  <2>2. changes' \in 0 .. MaxChanges
    BY <2>1, <1>1
  <2> QED BY <2>2, <1>1 DEF ListInv, StoreInv
<1>3. PageInv' /\ EntriesAligned'
  BY <1>1 DEF ListInv, PageInv, EntriesAligned
<1>4. RepliesAligned'
  BY <1>1, KeptReplies DEF ListInv
<1>5. WalkInv'
  <2>1. steady' \subseteq steady
    BY <1>1
  <2>2. ASSUME NEW j \in steady', Has(j) PROVE Has(j)'
    <3>1. stored \in [Keys -> {Absent} \union Values]
      BY DEF ListInv, StoreInv
    <3>2. CASE j = k
      BY <3>1, <3>2, <1>1 DEF Has
    <3>3. CASE j # k
      <4>1. stored'[j] = stored[j]
        BY <3>1, <3>3, <1>1
      <4> QED BY <4>1, <2>2 DEF Has
    <3> QED BY <3>2, <3>3
  <2> QED BY <2>1, <2>2, <1>1 DEF ListInv, WalkInv
<1> QED BY <1>1, <1>2, <1>3, <1>4, <1>5, CallKept DEF ListInv

-----------------------------------------------------------------------------
(* listKeys.                                                               *)

LEMMA ListKeysStep ==
  ASSUME ListInv, NEW s \in Scopes \union {Unknown}, NEW size, ListKeys(s, size)
  PROVE  ListInv'
<1>1. /\ page = "idle" /\ (from = 0 \/ s = scope)
      /\ page' = IF s = Unknown THEN "refused" ELSE "scanning"
      /\ scope' = s /\ cursor' = from /\ keys' = <<>> /\ entries' = <<>>
      /\ listed' = IF from = 0 THEN {} ELSE listed
      /\ s = Unknown => steady' = {}
      /\ s # Unknown /\ from = 0 => steady' = {k \in InScope[s] : Has(k)}
      /\ s # Unknown /\ from # 0 => steady' = steady
      /\ UNCHANGED <<commandBatchLimit, stored, changes, from, replies>>
  <2> DEFINE Kept == {k \in InScope[s] : Has(k)}
  <2>1. steady' = CASE s = Unknown -> {} [] s # Unknown /\ from = 0 -> Kept [] s # Unknown /\ from # 0 -> steady
    BY DEF ListKeys
  <2> HIDE DEF Kept
  <2>2. /\ s = Unknown => steady' = {}
        /\ s # Unknown /\ from = 0 => steady' = Kept
        /\ s # Unknown /\ from # 0 => steady' = steady
    BY <2>1
  <2>3. /\ page = "idle" /\ (from = 0 \/ s = scope)
        /\ page' = IF s = Unknown THEN "refused" ELSE "scanning"
        /\ scope' = s /\ cursor' = from /\ keys' = <<>> /\ entries' = <<>>
        /\ listed' = IF from = 0 THEN {} ELSE listed
        /\ UNCHANGED <<commandBatchLimit, stored, changes, from, replies>>
    BY DEF ListKeys, options
  <2> QED BY <2>2, <2>3 DEF Kept
<1>2. StoreInv'
  BY <1>1 DEF ListInv, StoreInv
<1>3. page = "idle" /\ replies' = <<>>
  BY <1>1 DEF ListInv, PageInv, ListKeys
<1>4. PageInv'
  BY <1>1, <1>3 DEF ListInv, PageInv
<1>5. RepliesAligned'
  BY <1>2, <1>3, <1>4, NoReplies
<1>6. EntriesAligned'
  BY <1>1 DEF EntriesAligned, ToSet
<1>7. WalkInv'
  <2>1. CASE s = Unknown
    BY <2>1, <1>1, AdminAssumption DEF WalkInv
  <2>2. CASE s # Unknown /\ from = 0
    <3>1. \A k \in steady' : BucketOf[k] \in 1 .. Buckets
      BY <2>2, <1>1, AdminAssumption
    <3>2. \A k \in steady' : ~(BucketOf[k] <= 0)
      BY <3>1, AdminAssumption
    <3>3. s \in Scopes /\ steady' = {k \in InScope[scope'] : Has(k)'}
      BY <2>2, <1>1 DEF Has
    <3> QED BY <3>2, <3>3, <2>2, <1>1 DEF WalkInv
  <2>3. CASE s # Unknown /\ from # 0
    <3>1. s = scope /\ s \in Scopes /\ page' = "scanning" /\ listed' = listed /\ steady' = steady
          /\ cursor' = from /\ scope' = scope /\ from' = from /\ stored' = stored
      BY <2>3, <1>1
    <3> QED BY <3>1 DEF ListInv, WalkInv, Has
  <2> QED BY <2>1, <2>2, <2>3
<1> QED BY <1>2, <1>4, <1>5, <1>6, <1>7 DEF ListInv

LEMMA ScanStep ==
  ASSUME ListInv, NEW last \in 1 .. Buckets, Scan(last)
  PROVE  ListInv'
<1> DEFINE batch == {k \in InScope[scope] : Has(k) /\ BucketOf[k] \in cursor + 1 .. last}
           next  == IF last = Buckets THEN 0 ELSE last
<1>1. /\ page = "scanning" /\ last \in cursor + 1 .. Buckets
      /\ cursor' = next /\ keys' = keys \o SetToSeq(batch)
      /\ page' \in {"scanning", "describing"} /\ (page' = "scanning" => next # 0)
      /\ UNCHANGED <<commandBatchLimit, stored, changes, steady, scope, from, entries, replies, listed>>
  BY DEF Scan, options
<1>2. StoreInv'
  BY <1>1 DEF ListInv, StoreInv
<1>3. /\ scope \in Scopes /\ entries = <<>> /\ replies = <<>> /\ keys \in Seq(Keys)
      /\ cursor \in Nat /\ last \in Nat /\ Buckets \in Nat \ {0}
      /\ from \in 0 .. Buckets - 1
  BY <1>1, AdminAssumption DEF ListInv, PageInv
<1>4. batch \subseteq Keys /\ IsFiniteSet(batch)
  BY <1>3, AdminAssumption, FS_Subset
<1> HIDE DEF batch
<1>5. SetToSeq(batch) \in Seq(Keys) /\ ToSet(SetToSeq(batch)) = batch
  <2>1. SetToSeq(batch) \in Seq(batch) /\ ToSet(SetToSeq(batch)) = batch
    BY <1>4, SetAsSeq
  <2> QED BY <2>1, <1>4
<1>6. keys' \in Seq(Keys) /\ ToSet(keys') = ToSet(keys) \union batch
  BY <1>1, <1>3, <1>5, ToSetOfConcat
<1>7. PageInv'
  <2>1. cursor' \in 0 .. Buckets - 1
    BY <1>1, <1>3
  <2>2. Len(keys') \in Nat /\ Len(<<>>) = 0
    BY <1>6
  <2> QED BY <2>1, <2>2, <1>1, <1>3, <1>6 DEF PageInv
<1>8. RepliesAligned'
  BY <1>1, <1>2, <1>3, <1>7, NoReplies
<1>9. EntriesAligned'
  BY <1>1, <1>3 DEF EntriesAligned, ToSet
<1>10. WalkInv'
  <2>1. \A k \in steady : BucketOf[k] \in 1 .. Buckets /\ k \in InScope[scope] /\ Has(k)
    BY <1>3, AdminAssumption DEF ListInv, WalkInv
  <2>2. ASSUME NEW k \in steady, BucketOf[k] <= last PROVE k \in listed \union ToSet(keys')
    <3>1. CASE BucketOf[k] <= cursor
      BY <3>1, <1>1, <1>6 DEF ListInv, WalkInv
    <3>2. CASE BucketOf[k] > cursor
      <4>1. BucketOf[k] \in cursor + 1 .. last
        BY <3>2, <2>1, <2>2, <1>3
      <4> QED BY <4>1, <2>1, <1>6 DEF batch
    <3> QED BY <3>1, <3>2, <2>1, <1>3
  <2>3. ASSUME NEW k \in steady, cursor' = 0 \/ BucketOf[k] <= cursor' PROVE k \in listed \union ToSet(keys')
    <3>1. BucketOf[k] <= last
      BY <2>1, <2>3, <1>1, <1>3
    <3> QED BY <3>1, <2>2
  <2> QED BY <2>1, <2>3, <1>1 DEF ListInv, WalkInv, Has
<1> QED BY <1>2, <1>7, <1>8, <1>9, <1>10 DEF ListInv

LEMMA RunCommandStep ==
  ASSUME ListInv, NEW fails \in BOOLEAN, RunCommand(fails)
  PROVE  ListInv'
<1> DEFINE n == Len(replies)
           c == Commands[n + 1]
           x == IF fails \/ (c.name # "TYPE" /\ ~Has(c.key)) THEN Missing
                ELSE [name |-> c.name, key |-> c.key, type |-> stored[c.key].type]
<1>1. /\ page = "describing" /\ n < Len(Commands)
      /\ changes' = changes + (IF fails THEN 1 ELSE 0) /\ changes' <= MaxChanges
      /\ replies' = Append(replies, x)
      /\ UNCHANGED <<commandBatchLimit, stored, steady, page, scope, from, cursor, withSize, keys, entries, listed>>
  BY DEF RunCommand, options
<1>2. StoreInv'
  <2>1. changes \in Nat /\ MaxChanges \in Nat
    BY AdminAssumption DEF ListInv, StoreInv
  <2>2. changes' \in 0 .. MaxChanges
    BY <2>1, <1>1
  <2> QED BY <2>2, <1>1 DEF ListInv, StoreInv
<1>3. ChunkOK /\ replies \in Seq(Replies) /\ n \in Nat /\ Len(Commands) \in Nat
  BY ChunkHolds DEF ListInv, PageInv, ChunkOK
<1>4. n + 1 \in 1 .. Len(Commands)
  BY <1>1, <1>3
<1>5. c.key \in Keys /\ c.name \in {"TYPE", "TTL", "MEMORY"}
  BY <1>3, <1>4, CommandTyped
<1> HIDE DEF c
<1>6. stored[c.key].type \in Types \union {"none"}
  <2>1. stored[c.key] \in {Absent} \union Values
    BY <1>5 DEF ListInv, StoreInv
  <2> QED BY <2>1 DEF Absent, Values
<1>7. x \in Replies
  BY <1>5, <1>6 DEF Replies
<1>8. x # Missing => x.key = c.key /\ x.name = c.name
  OBVIOUS
<1> HIDE DEF x
<1>9. /\ replies' \in Seq(Replies) /\ Len(replies') = n + 1 /\ replies'[n + 1] = x
      /\ \A i \in 1 .. n : replies'[i] = replies[i]
  BY <1>1, <1>3, <1>7
<1>10. PageInv'
  BY <1>1, <1>9 DEF ListInv, PageInv
<1>11. RepliesAligned'
  <2>1. PerKey' = PerKey
    BY <1>1 DEF PerKey
  <2>2. ChunkSize' = ChunkSize
    BY <2>1, <1>1 DEF ChunkSize
  <2>3. Chunk' = Chunk
    BY <2>2, <1>1 DEF Chunk
  <2>4. \A i : Part(i)' = Part(i)
    BY <2>1 DEF Part
  <2>5. Commands' = Commands
    BY <2>1, <2>3, <2>4 DEF Commands
  <2>6. \A i \in 1 .. n : replies[i] # Missing => replies[i].key = Commands[i].key /\ replies[i].name = Commands[i].name
    BY DEF ListInv, RepliesAligned
  <2>7. \A i \in 1 .. n + 1 : i \in 1 .. n \/ i = n + 1
    BY <1>3
  <2>8. \A i \in 1 .. n + 1 :
          replies'[i] # Missing => replies'[i].key = Commands[i].key /\ replies'[i].name = Commands[i].name
    BY <2>6, <2>7, <1>8, <1>9 DEF c
  <2>9. Len(replies') = n + 1 /\ n + 1 <= Len(Commands)
    BY <1>4, <1>9
  <2> HIDE DEF n
  <2> QED BY <2>5, <2>8, <2>9 DEF RepliesAligned
<1>12. WalkInv' /\ EntriesAligned'
  BY <1>1 DEF ListInv, WalkInv, EntriesAligned, Has
<1> QED BY <1>2, <1>10, <1>11, <1>12 DEF ListInv

LEMMA DescribeStep ==
  ASSUME ListInv, Describe
  PROVE  ListInv'
<1> DEFINE new == [i \in 1 .. Len(Chunk) |->
                    LET base == (i - 1) * PerKey
                    IN  [key  |-> Chunk[i],
                         type |-> ReadType(ReplyAt(base + 1)),
                         ttl  |-> ReplyAt(base + 2),
                         size |-> IF withSize THEN ReplyAt(base + 3) ELSE Missing]]
<1>1. /\ page = "describing" /\ Len(replies) = Len(Commands)
      /\ entries' = entries \o new /\ replies' = <<>>
      /\ UNCHANGED <<commandBatchLimit, stored, changes, steady, page, scope, from, cursor, withSize, keys, listed>>
  BY DEF Describe, options
<1>2. StoreInv'
  BY <1>1 DEF ListInv, StoreInv
<1>3. /\ ChunkOK /\ replies \in Seq(Replies) /\ Len(Chunk) \in Nat /\ PerKey \in 2 .. 3
      /\ withSize => PerKey = 3
  BY ChunkHolds DEF ListInv, PageInv, ChunkOK
<1>4. ASSUME NEW i \in 1 .. Len(Chunk), NEW m \in 1 .. PerKey
      PROVE  LET r == ReplyAt((i - 1) * PerKey + m)
             IN  /\ r \in Replies
                 /\ r # Missing => r.key = Chunk[i] /\ r.name = <<"TYPE", "TTL", "MEMORY">>[m]
  <2> DEFINE j == (i - 1) * PerKey + m
  <2>1. /\ j \in 1 .. Len(replies)
        /\ Commands[j].key = Chunk[i] /\ Commands[j].name = <<"TYPE", "TTL", "MEMORY">>[m]
    BY <1>1, <1>3, CommandsOfKey
  <2> HIDE DEF j
  <2>2. replies[j] \in Replies
    BY <2>1, <1>3
  <2>3. replies[j] # Missing => replies[j].key = Commands[j].key /\ replies[j].name = Commands[j].name
    BY <2>1 DEF ListInv, RepliesAligned
  <2> QED BY <2>1, <2>2, <2>3 DEF ReplyAt, j
<1>5. ASSUME NEW i \in 1 .. Len(Chunk)
      PROVE  /\ new[i] \in Entries /\ new[i].key = Chunk[i]
             /\ new[i].ttl # Missing  => new[i].ttl.key = new[i].key /\ new[i].ttl.name = "TTL"
             /\ new[i].size # Missing => new[i].size.key = new[i].key /\ new[i].size.name = "MEMORY"
  <2> DEFINE base == (i - 1) * PerKey
  <2>1. new[i] = [key |-> Chunk[i], type |-> ReadType(ReplyAt(base + 1)), ttl |-> ReplyAt(base + 2),
                  size |-> IF withSize THEN ReplyAt(base + 3) ELSE Missing]
    OBVIOUS
  <2>2. /\ ReplyAt(base + 2) \in Replies
        /\ ReplyAt(base + 2) # Missing => ReplyAt(base + 2).key = Chunk[i] /\ ReplyAt(base + 2).name = "TTL"
    <3>1. 2 \in 1 .. PerKey
      BY <1>3
    <3> QED BY <3>1, <1>4
  <2>3. withSize =>
          /\ ReplyAt(base + 3) \in Replies
          /\ ReplyAt(base + 3) # Missing => ReplyAt(base + 3).key = Chunk[i] /\ ReplyAt(base + 3).name = "MEMORY"
    <3> SUFFICES ASSUME withSize
                 PROVE  /\ ReplyAt(base + 3) \in Replies
                        /\ ReplyAt(base + 3) # Missing =>
                             ReplyAt(base + 3).key = Chunk[i] /\ ReplyAt(base + 3).name = "MEMORY"
      OBVIOUS
    <3>1. 3 \in 1 .. PerKey
      BY <1>3
    <3> QED BY <3>1, <1>4
  <2>4. ReadType(ReplyAt(base + 1)) \in Types \union {"other"}
    BY DEF ReadType
  <2>5. Chunk[i] \in Keys /\ Missing \in Replies
    BY <1>3 DEF ChunkOK, Replies
  <2> HIDE DEF base, new
  <2>6. new[i] \in Entries
    BY <2>1, <2>2, <2>3, <2>4, <2>5 DEF Entries
  <2>7. /\ new[i].key = Chunk[i] /\ new[i].ttl = ReplyAt(base + 2)
        /\ new[i].size = IF withSize THEN ReplyAt(base + 3) ELSE Missing
    BY <2>1
  <2> QED BY <2>2, <2>3, <2>6, <2>7
<1>6. new \in Seq(Entries) /\ Len(new) = Len(Chunk)
  <2>1. new \in [1 .. Len(Chunk) -> Entries]
    BY <1>5
  <2> HIDE DEF new
  <2> QED BY <2>1, <1>3
<1> HIDE DEF new
<1>7. /\ entries \in Seq(Entries) /\ keys \in Seq(Keys) /\ Len(entries) \in Nat
      /\ entries' \in Seq(Entries) /\ Len(entries') = Len(entries) + Len(Chunk)
      /\ \A i \in 1 .. Len(entries) : entries'[i] = entries[i]
      /\ \A i \in 1 .. Len(Chunk) : entries'[Len(entries) + i] = new[i]
  <2>1. entries \in Seq(Entries) /\ keys \in Seq(Keys) /\ entries' = entries \o new
    BY <1>1 DEF ListInv, PageInv
  <2>2. entries' \in Seq(Entries) /\ Len(entries') = Len(entries) + Len(Chunk)
    <3>1. entries \o new \in Seq(Entries) /\ Len(entries \o new) = Len(entries) + Len(new)
      BY <2>1, <1>6, ConcatProperties
    <3> QED BY <3>1, <2>1, <1>6
  <2>3. \A i \in 1 .. Len(entries) : entries'[i] = entries[i]
    BY <2>1, <1>6
  <2>4. \A i \in 1 .. Len(Chunk) : entries'[Len(entries) + i] = new[i]
    <3> DEFINE m == Len(entries)
    <3> SUFFICES ASSUME NEW i \in 1 .. Len(new) PROVE (entries \o new)[m + i] = new[i]
      BY <2>1, <1>6
    <3>1. m \in Nat /\ m + i \in 1 .. m + Len(new) /\ m + i > m /\ (m + i) - m = i
      BY <2>1, <1>6
    <3>2. (entries \o new)[m + i] = IF m + i <= m THEN entries[m + i] ELSE new[(m + i) - m]
      BY <3>1, <2>1, <1>6, ConcatProperties
    <3> QED BY <3>1, <3>2
  <2> QED BY <2>1, <2>2, <2>3, <2>4
<1>8. \A i \in 1 .. Len(entries') : entries'[i].key = keys[i]
  <2> SUFFICES ASSUME NEW i \in 1 .. Len(entries') PROVE entries'[i].key = keys[i]
    OBVIOUS
  <2>1. CASE i <= Len(entries)
    BY <2>1, <1>7 DEF ListInv, PageInv
  <2>2. CASE i > Len(entries)
    <3> DEFINE j == i - Len(entries)
    <3>1. j \in 1 .. Len(Chunk) /\ i = Len(entries) + j
      BY <2>2, <1>3, <1>7
    <3> HIDE DEF j
    <3>2. Chunk[j] = keys[Len(entries) + j]
      BY <3>1, <1>3 DEF ChunkOK
    <3> QED BY <3>1, <3>2, <1>5, <1>7
  <2> QED BY <2>1, <2>2, <1>7
<1>9. PageInv'
  <2>1. Len(entries') <= Len(keys) /\ replies' \in Seq(Replies)
    BY <1>1, <1>3, <1>7 DEF ChunkOK
  <2> QED BY <2>1, <1>1, <1>7, <1>8 DEF ListInv, PageInv
<1>10. RepliesAligned'
  BY <1>1, <1>2, <1>9, NoReplies
<1>11. EntriesAligned'
  <2>1. ToSet(entries') = ToSet(entries) \union ToSet(new)
    BY <1>1, <1>6, <1>7, ToSetOfConcat
  <2>2. \A e \in ToSet(new) : \E i \in 1 .. Len(Chunk) : e = new[i]
    BY <1>6 DEF ToSet
  <2> QED BY <2>1, <2>2, <1>5 DEF ListInv, EntriesAligned
<1>12. WalkInv'
  BY <1>1 DEF ListInv, WalkInv, Has
<1> QED BY <1>2, <1>9, <1>10, <1>11, <1>12 DEF ListInv

LEMMA ReturnStep ==
  ASSUME ListInv, Return
  PROVE  ListInv'
<1>1. /\ page = "describing" /\ Len(entries) = Len(keys)
      /\ page' = IF cursor = 0 THEN "complete" ELSE "idle"
      /\ listed' = listed \union {e.key : e \in ToSet(entries)}
      /\ from' = cursor /\ keys' = <<>> /\ entries' = <<>>
      /\ UNCHANGED <<commandBatchLimit, stored, changes, steady, scope, cursor, replies>>
  BY DEF Return, Page, options
<1>2. StoreInv'
  BY <1>1 DEF ListInv, StoreInv
<1>3. replies = <<>>
  <2>1. ChunkOK /\ replies \in Seq(Replies) /\ Len(replies) <= Len(Commands) /\ Len(entries) \in Nat
    BY ChunkHolds DEF ListInv, PageInv, RepliesAligned
  <2>2. Len(Chunk) = 0 /\ Len(Commands) = PerKey * Len(Chunk) /\ PerKey \in 2 .. 3
    BY <2>1, <1>1 DEF ChunkOK
  <2>3. Len(Commands) = 0
    BY <2>2
  <2>4. Len(replies) = 0
    BY <2>1, <2>3
  <2> QED BY <2>1, <2>4
<1>4. PageInv'
  BY <1>1, <1>3 DEF ListInv, PageInv
<1>5. RepliesAligned'
  BY <1>1, <1>2, <1>3, <1>4, NoReplies
<1>6. EntriesAligned'
  BY <1>1 DEF EntriesAligned, ToSet
<1>7. ToSet(keys) \subseteq listed'
  <2>1. keys \in Seq(Keys) /\ entries \in Seq(Entries) /\ \A i \in 1 .. Len(entries) : entries[i].key = keys[i]
    BY DEF ListInv, PageInv
  <2>2. \A i \in 1 .. Len(keys) : entries[i] \in ToSet(entries) /\ entries[i].key = keys[i]
    BY <2>1, <1>1 DEF ToSet
  <2>3. \A i \in 1 .. Len(keys) : keys[i] \in listed'
    BY <2>2, <1>1
  <2> QED BY <2>1, <2>3 DEF ToSet
<1>8. WalkInv'
  <2>1. \A k \in steady : BucketOf[k] \in Nat /\ BucketOf[k] >= 1
    <3>1. scope \in Scopes
      BY <1>1 DEF ListInv, PageInv
    <3> QED BY <3>1, AdminAssumption DEF ListInv, WalkInv
  <2>2. \A k \in steady : cursor = 0 \/ BucketOf[k] <= cursor => k \in listed'
    BY <1>1, <1>7 DEF ListInv, WalkInv
  <2>3. page' # "scanning" /\ page' # "describing" /\ (page' = "complete" => cursor = 0)
    BY <1>1
  <2> QED BY <2>2, <2>3, <1>1 DEF ListInv, WalkInv, Has
<1> QED BY <1>2, <1>4, <1>5, <1>6, <1>8 DEF ListInv

LEMMA ListFailsStep ==
  ASSUME ListInv, ListFails
  PROVE  ListInv'
<1>1. /\ page' = "idle" /\ cursor' = from /\ keys' = <<>> /\ entries' = <<>> /\ replies' = <<>>
      /\ UNCHANGED <<commandBatchLimit, stored, changes, steady, scope, from, listed>>
  BY DEF ListFails, options
<1>2. StoreInv' /\ PageInv'
  BY <1>1 DEF ListInv, StoreInv, PageInv
<1>3. RepliesAligned'
  BY <1>1, <1>2, NoReplies
<1>4. WalkInv' /\ EntriesAligned'
  BY <1>1 DEF ListInv, WalkInv, EntriesAligned, Has, ToSet
<1> QED BY <1>2, <1>3, <1>4 DEF ListInv

-----------------------------------------------------------------------------
(* describeKey and revealValue.                                            *)

(* What is to be shown of each call.                                       *)
CallFine(r) ==
  /\ phase[r] \in {"typing", "reading"} =>
       /\ about[r].scope \in Scopes /\ about[r].key \in InScope[about[r].scope]
       /\ reveals[r] => about[r].scope \in Readable
  /\ phase[r] = "reading" => reveals[r]
  /\ phase[r] = "revealed" => /\ answer[r].kept <= revealLimit
                              /\ answer[r].isComplete <=> answer[r].kept = answer[r].of.length

LEMMA CallFineKept ==
  ASSUME NEW q, CallFine(q), phase'[q] = phase[q], about'[q] = about[q],
         reveals'[q] = reveals[q], answer'[q] = answer[q]
  PROVE  CallFine(q)'
BY DEF CallFine

(* A call that moves on keeps the invariant if it is fine itself.          *)
LEMMA CallMoves ==
  ASSUME CallInv, NEW r \in Reads,
         \A q \in Reads \ {r} : CallFine(q) => CallFine(q)',
         CallFine(r)',
         phase' \in [Reads -> {"idle", "typing", "reading", "refused", "withheld", "described",
                               "missing", "revealed", "unsupported", "failed"}],
         DOMAIN about' = Reads, DOMAIN reveals' = Reads, DOMAIN seen' = Reads, DOMAIN answer' = Reads,
         WithheldUnread'
  PROVE  CallInv'
<1>1. \A q \in Reads : CallFine(q)
  BY DEF CallInv, ReadsInv, CompleteMeansWhole, CallFine
<1>2. \A q \in Reads : CallFine(q)'
  BY <1>1
<1>3. ReadsInv'
  BY <1>2 DEF CallFine, ReadsInv
<1>4. CompleteMeansWhole'
  BY <1>2 DEF CallFine, CompleteMeansWhole
<1> QED BY <1>3, <1>4 DEF CallInv

LEMMA AskStep ==
  ASSUME CallInv, NEW r \in Reads, NEW s \in Scopes \union {Unknown}, NEW k \in Keys, NEW reveal \in BOOLEAN,
         Ask(r, s, k, reveal)
  PROVE  CallInv'
<1> DEFINE outcome == CASE s = Unknown \/ (s # Unknown /\ k \notin InScope[s]) -> "refused"
                        [] reveal /\ s \in Scopes \ Readable /\ k \in InScope[s] -> "withheld"
                        [] OTHER -> "typing"
<1>0. /\ DOMAIN about = Reads /\ DOMAIN reveals = Reads /\ DOMAIN seen = Reads /\ DOMAIN answer = Reads
      /\ phase \in [Reads -> {"idle", "typing", "reading", "refused", "withheld", "described",
                              "missing", "revealed", "unsupported", "failed"}]
  BY DEF CallInv, ReadsInv
<1>1. /\ about' = [about EXCEPT ![r] = [scope |-> s, key |-> k]]
      /\ reveals' = [reveals EXCEPT ![r] = reveal]
      /\ UNCHANGED <<seen, touched>>
  BY DEF Ask
<1>2. \E o \in {"refused", "withheld", "typing"} :
        /\ phase' = [phase EXCEPT ![r] = o]
        /\ answer' = answer \/ answer' = [answer EXCEPT ![r] = Missing]
        /\ o = "typing" => /\ s \in Scopes /\ k \in InScope[s]
                           /\ reveal => s \in Readable
  <2>1. CASE s = Unknown \/ (s # Unknown /\ k \notin InScope[s])
    <3>1. ~(reveal /\ s \in Scopes \ Readable /\ k \in InScope[s])
      BY <2>1, AdminAssumption
    <3>2. Answers(r, "refused", Missing)
      BY <2>1, <3>1 DEF Ask
    <3> QED BY <3>2 DEF Answers, Goes
  <2>2. CASE s # Unknown /\ k \in InScope[s] /\ reveal /\ s \in Scopes \ Readable
    <3>1. Answers(r, "withheld", Missing)
      BY <2>2 DEF Ask
    <3> QED BY <3>1 DEF Answers, Goes
  <2>3. CASE s # Unknown /\ k \in InScope[s] /\ ~(reveal /\ s \in Scopes \ Readable)
    <3>1. Goes(r, "typing") /\ UNCHANGED answer
      BY <2>3 DEF Ask
    <3> QED BY <3>1, <2>3 DEF Goes
  <2> QED BY <2>1, <2>2, <2>3
<1>3. PICK o \in {"refused", "withheld", "typing"} :
        /\ phase' = [phase EXCEPT ![r] = o]
        /\ answer' = answer \/ answer' = [answer EXCEPT ![r] = Missing]
        /\ o = "typing" => /\ s \in Scopes /\ k \in InScope[s]
                           /\ reveal => s \in Readable
  BY <1>2
<1>4. /\ phase'[r] = o /\ about'[r].scope = s /\ about'[r].key = k /\ reveals'[r] = reveal
      /\ \A q \in Reads \ {r} : /\ phase'[q] = phase[q] /\ about'[q] = about[q]
                               /\ reveals'[q] = reveals[q] /\ answer'[q] = answer[q]
  BY <1>0, <1>1, <1>3
<1>5. CallFine(r)'
  BY <1>3, <1>4 DEF CallFine
<1>6. \A q \in Reads \ {r} : CallFine(q) => CallFine(q)'
  BY <1>4, CallFineKept
<1>7. WithheldUnread'
  BY <1>1 DEF CallInv, WithheldUnread
<1>8. /\ phase' \in [Reads -> {"idle", "typing", "reading", "refused", "withheld", "described",
                               "missing", "revealed", "unsupported", "failed"}]
      /\ DOMAIN about' = Reads /\ DOMAIN reveals' = Reads /\ DOMAIN seen' = Reads /\ DOMAIN answer' = Reads
  BY <1>0, <1>1, <1>3
<1> QED BY <1>5, <1>6, <1>7, <1>8, CallMoves

LEMMA TypeRepliesStep ==
  ASSUME CallInv, NEW r \in Reads, TypeReplies(r)
  PROVE  CallInv'
<1> DEFINE type == stored[about[r].key].type
<1>0. /\ DOMAIN about = Reads /\ DOMAIN reveals = Reads /\ DOMAIN seen = Reads /\ DOMAIN answer = Reads
      /\ phase \in [Reads -> {"idle", "typing", "reading", "refused", "withheld", "described",
                              "missing", "revealed", "unsupported", "failed"}]
      /\ CallFine(r)
  BY DEF CallInv, ReadsInv, CompleteMeansWhole, CallFine
<1>1. phase[r] = "typing" /\ seen' = [seen EXCEPT ![r] = type] /\ UNCHANGED <<about, reveals, touched>>
  BY DEF TypeReplies
<1>2. \E o \in {"described", "missing", "reading"} :
        /\ phase' = [phase EXCEPT ![r] = o] /\ (o = "reading" => reveals[r])
        /\ \/ answer' = answer
           \/ \E a : answer' = [answer EXCEPT ![r] = a]
  <2>1. CASE ~reveals[r]
    <3>1. Answers(r, "described", type)
      BY <2>1 DEF TypeReplies
    <3> QED BY <3>1 DEF Answers, Goes
  <2>2. CASE reveals[r] /\ type = "none"
    <3>1. Answers(r, "missing", Missing)
      BY <2>2 DEF TypeReplies
    <3> QED BY <3>1 DEF Answers, Goes
  <2>3. CASE reveals[r] /\ type # "none"
    <3>1. Goes(r, "reading") /\ UNCHANGED answer
      BY <2>3 DEF TypeReplies
    <3> QED BY <3>1, <2>3 DEF Goes
  <2> QED BY <2>1, <2>2, <2>3
<1>3. PICK o \in {"described", "missing", "reading"} :
        /\ phase' = [phase EXCEPT ![r] = o] /\ (o = "reading" => reveals[r])
        /\ \/ answer' = answer
           \/ \E a : answer' = [answer EXCEPT ![r] = a]
  BY <1>2
<1>4. /\ phase'[r] = o /\ about' = about /\ reveals' = reveals
      /\ \A q \in Reads \ {r} : phase'[q] = phase[q] /\ answer'[q] = answer[q]
  BY <1>0, <1>1, <1>3
<1>5. CallFine(r)'
  BY <1>0, <1>1, <1>3, <1>4 DEF CallFine
<1>6. \A q \in Reads \ {r} : CallFine(q) => CallFine(q)'
  BY <1>4, CallFineKept
<1>7. WithheldUnread'
  BY <1>1 DEF CallInv, WithheldUnread
<1>8. /\ phase' \in [Reads -> {"idle", "typing", "reading", "refused", "withheld", "described",
                               "missing", "revealed", "unsupported", "failed"}]
      /\ DOMAIN about' = Reads /\ DOMAIN reveals' = Reads /\ DOMAIN seen' = Reads /\ DOMAIN answer' = Reads
  BY <1>0, <1>1, <1>3
<1> QED BY <1>5, <1>6, <1>7, <1>8, CallMoves

(* What is kept of n elements, and when it is all of them.                 *)
LEMMA Capped ==
  ASSUME NEW type, NEW n \in Nat
  PROVE  LET all == Fetched(type, n)
             kept == Least(all, revealLimit)
         IN  kept <= revealLimit /\ (kept = all <=> kept = n)
<1>1. revealLimit \in Nat \ {0}
  BY AdminAssumption
<1>2. CASE type = "list"
  BY <1>1, <1>2 DEF Fetched, Least
<1>3. CASE type # "list"
  BY <1>1, <1>3 DEF Fetched, Least
<1> QED BY <1>2, <1>3

LEMMA ReadValueStep ==
  ASSUME StoreInv, CallInv, NEW r \in Reads, ReadValue(r)
  PROVE  CallInv'
<1> DEFINE k    == about[r].key
           current  == stored[k]
           all  == Fetched(seen[r], current.length)
           kept == Least(all, revealLimit)
           whole == [kept |-> kept, isComplete |-> kept = all, of |-> current]
<1>0. /\ DOMAIN about = Reads /\ DOMAIN reveals = Reads /\ DOMAIN seen = Reads /\ DOMAIN answer = Reads
      /\ phase \in [Reads -> {"idle", "typing", "reading", "refused", "withheld", "described",
                              "missing", "revealed", "unsupported", "failed"}]
      /\ CallFine(r)
  BY DEF CallInv, ReadsInv, CompleteMeansWhole, CallFine
<1>1. /\ phase[r] = "reading" /\ touched' \subseteq touched \union {about[r]}
      /\ UNCHANGED <<about, reveals, seen>>
  BY DEF ReadValue
<1>2. about[r].scope \in Scopes /\ k \in InScope[about[r].scope] /\ about[r].scope \in Readable /\ k \in Keys
  BY <1>0, <1>1, AdminAssumption DEF CallFine
<1>3. current.length \in Nat
  <2>1. current \in {Absent} \union Values
    BY <1>2 DEF StoreInv
  <2>2. CASE current = Absent
    BY <2>2 DEF Absent
  <2>3. CASE current \in Values
    BY <2>3, AdminAssumption DEF Values
  <2> QED BY <2>1, <2>2, <2>3
<1> HIDE DEF k, current, all, kept, whole
<1>4. \E o \in {"unsupported", "failed", "missing", "revealed"}, a \in {Missing, whole} :
        /\ phase' = [phase EXCEPT ![r] = o] /\ answer' = [answer EXCEPT ![r] = a]
        /\ o = "revealed" => a = whole
  <2>1. CASE seen[r] = "stream"
    <3>1. Answers(r, "unsupported", Missing)
      BY <2>1 DEF ReadValue
    <3> QED BY <3>1 DEF Answers, Goes
  <2>2. CASE seen[r] # "stream" /\ Has(k) /\ current.type # seen[r]
    <3>1. Answers(r, "failed", Missing)
      BY <2>2 DEF ReadValue, k, current
    <3> QED BY <3>1 DEF Answers, Goes
  <2>3. CASE seen[r] # "stream" /\ ~Has(k) /\ seen[r] = "string"
    <3>1. Answers(r, "missing", Missing)
      BY <2>3 DEF ReadValue, k, current
    <3> QED BY <3>1 DEF Answers, Goes
  <2>4. CASE seen[r] # "stream" /\ ~(Has(k) /\ current.type # seen[r]) /\ ~(seen[r] = "string" /\ ~Has(k))
    <3>1. Answers(r, "revealed", whole)
      BY <2>4 DEF ReadValue, k, current, all, kept, whole
    <3> QED BY <3>1 DEF Answers, Goes
  <2> QED BY <2>1, <2>2, <2>3, <2>4
<1>5. PICK o \in {"unsupported", "failed", "missing", "revealed"}, a \in {Missing, whole} :
        /\ phase' = [phase EXCEPT ![r] = o] /\ answer' = [answer EXCEPT ![r] = a]
        /\ o = "revealed" => a = whole
  BY <1>4
<1>6. /\ phase'[r] = o /\ answer'[r] = a /\ about' = about /\ reveals' = reveals
      /\ \A q \in Reads \ {r} : phase'[q] = phase[q] /\ answer'[q] = answer[q]
  BY <1>0, <1>1, <1>5
<1>7. CallFine(r)'
  <2>1. kept <= revealLimit /\ (kept = all <=> kept = current.length)
    BY <1>3, Capped DEF all, kept
  <2>2. whole.kept = kept /\ whole.isComplete = (kept = all) /\ whole.of = current
    BY DEF whole
  <2>3. phase'[r] = "revealed" => /\ answer'[r].kept <= revealLimit
                                  /\ answer'[r].isComplete <=> answer'[r].kept = answer'[r].of.length
    BY <2>1, <2>2, <1>5, <1>6
  <2> QED BY <2>3, <1>5, <1>6 DEF CallFine
<1>8. \A q \in Reads \ {r} : CallFine(q) => CallFine(q)'
  BY <1>6, CallFineKept
<1>9. WithheldUnread'
  BY <1>1, <1>2 DEF CallInv, WithheldUnread, k
<1>10. /\ phase' \in [Reads -> {"idle", "typing", "reading", "refused", "withheld", "described",
                                "missing", "revealed", "unsupported", "failed"}]
       /\ DOMAIN about' = Reads /\ DOMAIN reveals' = Reads /\ DOMAIN seen' = Reads /\ DOMAIN answer' = Reads
  BY <1>0, <1>1, <1>5
<1> QED BY <1>7, <1>8, <1>9, <1>10, CallMoves

LEMMA ReadFailsStep ==
  ASSUME CallInv, NEW r \in Reads, ReadFails(r)
  PROVE  CallInv'
<1>0. /\ DOMAIN about = Reads /\ DOMAIN reveals = Reads /\ DOMAIN seen = Reads /\ DOMAIN answer = Reads
      /\ phase \in [Reads -> {"idle", "typing", "reading", "refused", "withheld", "described",
                              "missing", "revealed", "unsupported", "failed"}]
  BY DEF CallInv, ReadsInv
<1>1. /\ phase' = [phase EXCEPT ![r] = "failed"] /\ answer' = [answer EXCEPT ![r] = Missing]
      /\ UNCHANGED <<about, reveals, seen, touched>>
  BY DEF ReadFails, Answers, Goes
<1>2. /\ phase'[r] = "failed"
      /\ \A q \in Reads \ {r} : phase'[q] = phase[q] /\ answer'[q] = answer[q]
  BY <1>0, <1>1
<1>3. CallFine(r)'
  BY <1>2 DEF CallFine
<1>4. \A q \in Reads \ {r} : CallFine(q) => CallFine(q)'
  BY <1>1, <1>2, CallFineKept
<1>5. WithheldUnread'
  BY <1>1 DEF CallInv, WithheldUnread
<1>6. /\ phase' \in [Reads -> {"idle", "typing", "reading", "refused", "withheld", "described",
                               "missing", "revealed", "unsupported", "failed"}]
      /\ DOMAIN about' = Reads /\ DOMAIN reveals' = Reads /\ DOMAIN seen' = Reads /\ DOMAIN answer' = Reads
  BY <1>0, <1>1
<1> QED BY <1>3, <1>4, <1>5, <1>6, CallMoves

-----------------------------------------------------------------------------
(* The theorems.                                                           *)

Holds == ListInv /\ CallInv

LEMMA InitHolds == Init => Holds
<1> SUFFICES ASSUME Init PROVE Holds
  OBVIOUS
<1>1. /\ page = "idle" /\ scope = Unknown /\ from = 0 /\ cursor = 0 /\ keys = <<>> /\ entries = <<>>
      /\ replies = <<>> /\ steady = {} /\ changes = 0 /\ touched = {}
      /\ stored \in InitialStores /\ commandBatchLimit \in BatchLimits
  BY DEF Init
<1>2. StoreInv
  BY <1>1, AdminAssumption DEF StoreInv
<1>3. PageInv
  BY <1>1, AdminAssumption DEF PageInv
<1>4. RepliesAligned
  <2>1. Len(Commands) \in Nat
    BY <1>2, <1>3, ChunkHolds DEF ChunkOK
  <2> QED BY <2>1, <1>1 DEF RepliesAligned
<1>5. WalkInv /\ EntriesAligned
  BY <1>1, AdminAssumption DEF WalkInv, EntriesAligned, ToSet
<1>6. CallInv
  BY <1>1 DEF Init, CallInv, ReadsInv, WithheldUnread, CompleteMeansWhole
<1> QED BY <1>2, <1>3, <1>4, <1>5, <1>6 DEF Holds, ListInv

LEMMA StepHolds == Holds /\ [Next]_vars => Holds'
<1> SUFFICES ASSUME ListInv, CallInv, [Next]_vars PROVE ListInv' /\ CallInv'
  BY DEF Holds
<1>1. ASSUME NEW k \in Keys, NEW value \in Written \union {Absent}, Change(k, value)
      PROVE  ListInv' /\ CallInv'
  <2>1. value \in Values \union {Absent}
    BY AdminAssumption
  <2> QED BY <2>1, <1>1, ChangeStep
<1>2. ASSUME NEW s \in Scopes \union {Unknown}, NEW size \in BOOLEAN, ListKeys(s, size)
      PROVE  ListInv' /\ CallInv'
  BY <1>2, ListKeysStep, CallKept DEF ListKeys
<1>3. ASSUME NEW last \in 1 .. Buckets, Scan(last) PROVE ListInv' /\ CallInv'
  BY <1>3, ScanStep, CallKept DEF Scan
<1>4. ASSUME NEW fails \in BOOLEAN, RunCommand(fails) PROVE ListInv' /\ CallInv'
  BY <1>4, RunCommandStep, CallKept DEF RunCommand
<1>5. ASSUME Describe PROVE ListInv' /\ CallInv'
  BY <1>5, DescribeStep, CallKept DEF Describe
<1>6. ASSUME Return PROVE ListInv' /\ CallInv'
  BY <1>6, ReturnStep, CallKept DEF Return
<1>7. ASSUME ListFails PROVE ListInv' /\ CallInv'
  BY <1>7, ListFailsStep, CallKept DEF ListFails
<1>8. ASSUME NEW r \in Reads, NEW s \in Scopes \union {Unknown}, NEW k \in Keys, NEW reveal \in BOOLEAN,
             Ask(r, s, k, reveal)
      PROVE  ListInv' /\ CallInv'
  BY <1>8, AskStep, ListKept DEF Ask
<1>9. ASSUME NEW r \in Reads, TypeReplies(r) PROVE ListInv' /\ CallInv'
  BY <1>9, TypeRepliesStep, ListKept DEF TypeReplies
<1>10. ASSUME NEW r \in Reads, ReadValue(r) PROVE ListInv' /\ CallInv'
  BY <1>10, ReadValueStep, ListKept DEF ReadValue, ListInv
<1>11. ASSUME NEW r \in Reads, ReadFails(r) PROVE ListInv' /\ CallInv'
  BY <1>11, ReadFailsStep, ListKept DEF ReadFails
<1>12. CASE UNCHANGED vars
  <2>1. UNCHANGED <<options, stored, changes, steady, listing>> /\ UNCHANGED reading
    BY <1>12 DEF vars
  <2> QED BY <2>1, ListKept, CallKept
<1> QED BY <1>1, <1>2, <1>3, <1>4, <1>5, <1>6, <1>7, <1>8, <1>9, <1>10, <1>11, <1>12 DEF Next

(* The invariant says of the types and of the pipeline what is checked.    *)
LEMMA TypesHold == Holds => TypeOK
<1> SUFFICES ASSUME Holds PROVE TypeOK
  OBVIOUS
<1>1. StoreInv /\ PageInv /\ RepliesAligned /\ ReadsInv
  BY DEF Holds, ListInv, CallInv
<1>2. DOMAIN entries = 1 .. Len(entries)
  BY <1>1 DEF PageInv
<1> QED BY <1>1, <1>2 DEF TypeOK, StoreInv, PageInv, RepliesAligned, ReadsInv

LEMMA PipelineHolds == Holds => PipelineBounded
<1> SUFFICES ASSUME Holds, page = "describing" PROVE Len(Commands) <= commandBatchLimit \/ Len(Chunk) = 1
  BY DEF PipelineBounded
<1>1. ChunkOK /\ commandBatchLimit \in Nat
  BY ChunkHolds, AdminAssumption DEF Holds, ListInv, StoreInv
<1>2. /\ PerKey \in 2 .. 3 /\ ChunkSize \in Nat /\ Len(Chunk) \in Nat /\ Len(Chunk) <= ChunkSize
      /\ Len(Commands) = PerKey * Len(Chunk)
      /\ PerKey * ChunkSize <= commandBatchLimit \/ ChunkSize = 1
  BY <1>1 DEF ChunkOK
<1>3. PerKey * Len(Chunk) <= PerKey * ChunkSize
  <2>1. CASE PerKey = 2
    BY <2>1, <1>2
  <2>2. CASE PerKey = 3
    BY <2>2, <1>2
  <2> QED BY <2>1, <2>2, <1>2
<1>4. CASE PerKey * ChunkSize <= commandBatchLimit
  <2>1. PerKey * Len(Chunk) \in Int /\ PerKey * ChunkSize \in Int
    BY <1>2
  <2> QED BY <2>1, <1>1, <1>2, <1>3, <1>4
<1>5. CASE ChunkSize = 1
  <2>1. Len(Chunk) = 0 \/ Len(Chunk) = 1
    <3>1. \A l \in Nat : l <= 1 => l = 0 \/ l = 1
      OBVIOUS
    <3>2. Len(Chunk) \in Nat /\ Len(Chunk) <= 1
      BY <1>2, <1>5
    <3> QED BY <3>1, <3>2
  <2>2. Len(Chunk) = 0 => Len(Commands) = 0
    BY <1>2
  <2> QED BY <2>1, <2>2, <1>1
<1> QED BY <1>2, <1>4, <1>5

(* A walk through the pages of a scope lists every key that stayed,        *)
(* whatever failed and was asked for again (cache-admin.service.ts:193-211). *)
THEOREM WalkComplete == Spec => []WalkListsSteady
<1>1. Holds => WalkListsSteady
  BY DEF Holds, ListInv, WalkInv, WalkListsSteady
<1> QED BY <1>1, InitHolds, StepHolds, PTL DEF Spec

(* The console is shown what is true, and no value it must not see         *)
(* (cache-admin.service.ts:226-383).                                       *)
THEOREM ConsoleTrue == Spec => []ShownIsTrue
<1>1. Holds => ShownIsTrue
  BY TypesHold, PipelineHolds DEF Holds, ListInv, CallInv, ShownIsTrue
<1> QED BY <1>1, InitHolds, StepHolds, PTL DEF Spec

(* The status: CacheStatus.                                                *)

-----------------------------------------------------------------------------
(* The last line of a text that says something of a field.                 *)

(* A set of natural numbers has a least element.                           *)
LEMMA LeastExists ==
  ASSUME NEW T, T \subseteq Nat, T # {}
  PROVE  \E m \in T : \A k \in T : m <= k
<1>1. PICK m \in T : \A k \in T : <<k, m>> \notin OpToRel(<, Nat)
  BY WFMin, NatLessThanWellFounded, Zenon
<1>2. \A k \in T : ~(k < m)
  BY <1>1, Zenon DEF OpToRel
<1> QED BY <1>2

(* And one below n a greatest, which Max is.                               *)
LEMMA MaxOfIndices ==
  ASSUME NEW n \in Nat, NEW T, T \subseteq 1 .. n, T # {}
  PROVE  Max(T) \in T /\ \A j \in T : (\A k \in T : k <= j) <=> j = Max(T)
<1> DEFINE U == {j \in 0 .. n : n - j \in T}
<1>1. PICK t \in T : TRUE
  OBVIOUS
<1>2. U \subseteq Nat /\ n - t \in U
  BY <1>1
<1>3. PICK u \in U : \A k \in U : u <= k
  BY <1>2, LeastExists, Zenon
<1>4. n - u \in T /\ u \in Nat
  BY <1>3
<1>5. ASSUME NEW k \in T PROVE n - u >= k
  <2>1. n - k \in U /\ k \in Nat
    OBVIOUS
  <2> QED BY <2>1, <1>3, <1>4
<1>6. \E m \in T : \A k \in T : m >= k
  BY <1>4, <1>5
<1>7. Max(T) \in T /\ \A k \in T : Max(T) >= k
  BY <1>6, Zenon DEF Max
<1>8. ASSUME NEW m \in T, \A k \in T : m >= k
      PROVE  \A j \in T : (\A k \in T : k <= j) <=> j = m
  BY <1>8
<1> QED BY <1>7, <1>8, Zenon

(* The value that a text gives a field is what it said last of it, and a   *)
(* field that no line names has none.                                      *)
LEMMA LastSaid ==
  ASSUME NEW lines \in Infos, NEW name, name # ""
  PROVE  LET fields == ParseInfoFields(lines)
         IN  IF name \in DOMAIN fields THEN Said(lines, name) = {fields[name]} /\ Value(fields[name])
             ELSE Said(lines, name) = {}
<1> DEFINE n      == Len(lines)
           fields == ParseInfoFields(lines)
           saying  == {i \in DOMAIN lines : ~lines[i].header /\ lines[i].name = name}
           named  == {i \in DOMAIN lines : ~lines[i].header /\ lines[i].name # ""}
<1>1. /\ n \in Nat /\ DOMAIN lines = 1 .. n
      /\ \A i \in 1 .. n : Value(lines[i].value)
  BY InfoAssumption
<1>2. /\ DOMAIN fields = {lines[i].name : i \in named}
      /\ \A f \in DOMAIN fields : fields[f] = lines[Max({i \in named : lines[i].name = f})].value
  BY DEF ParseInfoFields
<1>3. saying = {i \in named : lines[i].name = name}
  OBVIOUS
<1>4. name \in DOMAIN fields <=> saying # {}
  BY <1>2, <1>3
<1>5. Said(lines, name) = {lines[i].value : i \in {j \in saying : \A k \in saying : k <= j}}
  BY DEF Said
<1> HIDE DEF fields, named, saying, n
<1>6. CASE saying = {}
  BY <1>4, <1>5, <1>6 DEF fields
<1>7. CASE saying # {}
  <2>1. saying \subseteq 1 .. n
    BY <1>1 DEF saying
  <2>2. /\ Max(saying) \in saying
        /\ \A j \in saying : (\A k \in saying : k <= j) <=> j = Max(saying)
    BY <2>1, <1>1, <1>7, MaxOfIndices
  <2>3. fields[name] = lines[Max(saying)].value
    BY <1>2, <1>3, <1>4, <1>7
  <2>4. {j \in saying : \A k \in saying : k <= j} = {Max(saying)}
    BY <2>2, Zenon
  <2>5. Said(lines, name) = {fields[name]}
    BY <2>3, <2>4, <1>5
  <2>6. Value(fields[name])
    BY <2>1, <2>2, <2>3, <1>1
  <2> QED BY <2>5, <2>6, <1>4, <1>7 DEF fields
<1> QED BY <1>6, <1>7

-----------------------------------------------------------------------------
(* stats.                                                                  *)

(* Each way to read a field is true of what was said of it.                *)
LEMMA ReadingTrue ==
  ASSUME NEW lines \in Infos, NEW s, s = ReadRedisStats(ParseInfoFields(lines))
  PROVE  TrueOf(lines, s)
<1> DEFINE fields == ParseInfoFields(lines)
           Known(name) == name \in DOMAIN fields
<1>0. ASSUME NEW name, name # ""
      PROVE  /\ Known(name) => Said(lines, name) = {fields[name]} /\ Value(fields[name])
             /\ ~Known(name) => Said(lines, name) = {}
  BY <1>0, LastSaid
<1> HIDE DEF fields
<1>1. /\ s.redisVersion = Text(fields, "redis_version")
      /\ s.usedBytes = Num(fields, "used_memory")
      /\ s.rdbLastSaveAt = Num(fields, "rdb_last_save_time")
      /\ s.max = MaxMemory(fields)
      /\ s.rdbLastBgsaveStatus = BgsaveStatus(fields)
      /\ s.aofEnabled = AofEnabled(fields)
      /\ s.role = Role(fields)
  BY DEF ReadRedisStats, fields
<1>2. ASSUME NEW name, name # "" PROVE Measured(lines, name, Num(fields, name))
  <2>1. CASE Known(name)
    BY <2>1, <1>0, <1>2 DEF Measured, Num
  <2>2. CASE ~Known(name)
    BY <2>2, <1>0, <1>2 DEF Measured, Num
  <2> QED BY <2>1, <2>2
<1>3. LET ceilings == Said(lines, "maxmemory")
      IN  CASE s.max.kind = "unreported" -> \A v \in ceilings : v.number = Null
            [] s.max.kind = "unbounded"  -> \E v \in ceilings : v.text = "0"
            [] s.max.kind = "limited"    ->
                 \E v \in ceilings : v.number = s.max.bytes /\ v.number # Null /\ v.text # "0"
            [] OTHER -> FALSE
  <2> DEFINE m == fields["maxmemory"]
  <2>1. CASE Known("maxmemory")
    <3>1. Said(lines, "maxmemory") = {m} /\ Value(m) /\ Num(fields, "maxmemory") = m.number
      BY <2>1, <1>0 DEF Num
    <3> HIDE DEF m
    <3>2. CASE m.number = Null
      <4>1. s.max.kind = "unreported"
        BY <3>1, <3>2, <1>1 DEF MaxMemory
      <4> QED BY <3>1, <3>2, <4>1
    <3>3. CASE m.number # Null /\ m.number = 0
      <4>1. s.max.kind = "unbounded" /\ m.text = "0"
        BY <3>1, <3>3, <1>1 DEF MaxMemory, Value
      <4> QED BY <3>1, <4>1
    <3>4. CASE m.number # Null /\ m.number # 0
      <4>1. s.max.kind = "limited" /\ s.max.bytes = m.number /\ m.text # "0"
        BY <3>1, <3>4, <1>1 DEF MaxMemory, Value
      <4> QED BY <3>1, <3>4, <4>1
    <3> QED BY <3>2, <3>3, <3>4
  <2>2. CASE ~Known("maxmemory")
    <3>1. Said(lines, "maxmemory") = {} /\ Num(fields, "maxmemory") = Null
      BY <2>2, <1>0 DEF Num
    <3>2. s.max.kind = "unreported"
      BY <3>1, <1>1 DEF MaxMemory
    <3> QED BY <3>1, <3>2
  <2> QED BY <2>1, <2>2
<1>4. IF s.aofEnabled = Null THEN Said(lines, "aof_enabled") = {}
      ELSE s.aofEnabled <=> \E v \in Said(lines, "aof_enabled") : v.text = "1"
  <2>1. CASE Known("aof_enabled")
    <3>1. /\ Said(lines, "aof_enabled") = {fields["aof_enabled"]}
          /\ Text(fields, "aof_enabled") = fields["aof_enabled"].text
          /\ Text(fields, "aof_enabled") # Null
      BY <2>1, <1>0 DEF Text, Value
    <3>2. s.aofEnabled = (fields["aof_enabled"].text = "1")
      BY <3>1, <1>1 DEF AofEnabled
    <3>3. s.aofEnabled \in BOOLEAN
      BY <3>2, Zenon
    <3>4. Null # TRUE /\ Null # FALSE
      BY InfoAssumption
    <3>5. s.aofEnabled # Null
      BY <3>3, <3>4, Zenon
    <3>6. (\E v \in Said(lines, "aof_enabled") : v.text = "1") <=> fields["aof_enabled"].text = "1"
      BY <3>1
    <3> QED BY <3>2, <3>5, <3>6, Zenon
  <2>2. CASE ~Known("aof_enabled")
    BY <2>2, <1>0, <1>1 DEF AofEnabled, Text
  <2> QED BY <2>1, <2>2
<1>5. s.role = IF \E v \in Said(lines, "role") : v.text = "slave" THEN "replica" ELSE "master"
  <2>1. CASE Known("role")
    BY <2>1, <1>0, <1>1 DEF Role, Text
  <2>2. CASE ~Known("role")
    <3>1. Said(lines, "role") = {} /\ Text(fields, "role") = Null
      BY <2>2, <1>0 DEF Text
    <3>2. Null # "slave"
      BY InfoAssumption
    <3>3. s.role = "master"
      BY <3>1, <3>2, <1>1 DEF Role
    <3> QED BY <3>1, <3>3
  <2> QED BY <2>1, <2>2
<1>6. IF s.rdbLastBgsaveStatus = Null
      THEN \A v \in Said(lines, "rdb_last_bgsave_status") : v.text \notin {"ok", "err"}
      ELSE /\ s.rdbLastBgsaveStatus \in {"ok", "err"}
           /\ Spelled(lines, "rdb_last_bgsave_status", s.rdbLastBgsaveStatus)
  <2>1. CASE Known("rdb_last_bgsave_status")
    <3> DEFINE m == fields["rdb_last_bgsave_status"]
    <3>1. /\ Said(lines, "rdb_last_bgsave_status") = {m} /\ m.text # Null
          /\ s.rdbLastBgsaveStatus = IF m.text \in {"ok", "err"} THEN m.text ELSE Null
      BY <2>1, <1>0, <1>1 DEF BgsaveStatus, Text, Value
    <3> HIDE DEF m
    <3>2. CASE m.text \in {"ok", "err"}
      BY <3>1, <3>2 DEF Spelled
    <3>3. CASE m.text \notin {"ok", "err"}
      BY <3>1, <3>3
    <3> QED BY <3>2, <3>3
  <2>2. CASE ~Known("rdb_last_bgsave_status")
    <3>1. Said(lines, "rdb_last_bgsave_status") = {} /\ s.rdbLastBgsaveStatus = Null
      BY <2>2, <1>0, <1>1 DEF BgsaveStatus, Text
    <3> QED BY <3>1
  <2> QED BY <2>1, <2>2
<1>7. Spelled(lines, "redis_version", s.redisVersion)
  <2>1. CASE Known("redis_version")
    BY <2>1, <1>0, <1>1 DEF Spelled, Text, Value
  <2>2. CASE ~Known("redis_version")
    BY <2>2, <1>0, <1>1 DEF Spelled, Text
  <2> QED BY <2>1, <2>2
<1> QED BY <1>1, <1>2, <1>3, <1>4, <1>5, <1>6, <1>7 DEF TrueOf

-----------------------------------------------------------------------------
(* health.                                                                 *)

(* What VerdictOfRace says of one verdict.                                 *)
VerdictFine(v, reply, waited) ==
  CASE v.status = "down" /\ v.reason = "timeout" -> probeTimeoutMs <= MaxDelay => waited >= probeTimeoutMs
    [] v.status = "down" /\ v.reason = "error" ->
         /\ reply \in {"other", "error", "coded error"}
         /\ v.code # Null <=> reply = "coded error"
    [] v.status = "degraded" -> reply = "PONG" /\ v.latencyMs = waited /\ waited > degradedAboveMs
    [] v.status = "up" -> reply = "PONG" /\ v.latencyMs = waited /\ waited <= degradedAboveMs
    [] OTHER -> FALSE

LEMMA RaceIs ==
  VerdictOfRace <=>
    \A p \in Probes : stage[p] = "done" => VerdictFine(verdict[p], ping[p], at[p] - started[p])
BY Zenon DEF VerdictOfRace, VerdictFine

(* The invariant adds to what is checked that a PING that is still pending *)
(* was overtaken by its deadline, and what the options are.                *)
Overtaken ==
  \A p \in Probes :
    /\ stage[p] = "racing" => ping[p] = "pending"
    /\ stage[p] = "done" /\ ping[p] = "pending" =>
         verdict[p].status = "down" /\ verdict[p].reason = "timeout"

StatusInv ==
  /\ probeTimeoutMs \in Nat /\ degradedAboveMs \in Nat
  /\ DOMAIN verdict = Probes
  /\ StatusTypeOK /\ TimersCleared /\ Overtaken /\ VerdictOfRace /\ StatsAreTrue

LEMMA StatusInitHolds == StatusInit => StatusInv
<1> SUFFICES ASSUME StatusInit PROVE StatusInv
  OBVIOUS
<1>1. StatsAreTrue
  BY DEF StatusInit, StatsAreTrue
<1> QED BY <1>1, StatusAssumption
        DEF StatusInit, StatusInv, StatusTypeOK, TimersCleared, Overtaken, VerdictOfRace

(* Nothing that does not read INFO says anything of it.                    *)
LEMMA ReadingForgotten ==
  ASSUME ForgetReading
  PROVE  StatsAreTrue'
BY DEF ForgetReading, StatsAreTrue

(* A reading that is kept stays true.                                      *)
LEMMA ReadingKept ==
  ASSUME StatsAreTrue, UNCHANGED lastReading
  PROVE  StatsAreTrue'
BY DEF StatsAreTrue, lastReading

(* The types, one probe at a time.                                         *)
LEMMA StatusTypes ==
  ASSUME StatusInv
  PROVE  /\ now \in 0 .. MaxTime /\ now \in Nat /\ MaxTime \in Nat
         /\ Delay \in Nat
         /\ stage \in [Probes -> {"idle", "racing", "done"}]
         /\ timer \in [Probes -> {"none", "armed", "cleared"}]
         /\ started \in [Probes -> 0 .. MaxTime] /\ at \in [Probes -> 0 .. MaxTime]
         /\ ping \in [Probes -> {"none", "pending", "PONG", "other", "error", "coded error"}]
<1>1. MaxTime \in Nat /\ MaxDelay \in Nat
  BY StatusAssumption
<1>2. now \in 0 .. MaxTime /\ probeTimeoutMs \in Nat
  BY DEF StatusInv, StatusTypeOK
<1>3. Delay = 1 \/ Delay = probeTimeoutMs
  BY DEF Delay
<1>4. now \in Nat /\ Delay \in Nat
  BY <1>1, <1>2, <1>3
<1> QED BY <1>1, <1>2, <1>4 DEF StatusInv, StatusTypeOK

(* A timeout is fine when it is not said too early, whatever PING answered.*)
LEMMA OverdueOnly ==
  ASSUME NEW v, NEW reply, NEW waited, VerdictFine(v, reply, waited),
         v.status = "down", v.reason = "timeout"
  PROVE  probeTimeoutMs <= MaxDelay => waited >= probeTimeoutMs
BY DEF VerdictFine

LEMMA OverdueFine ==
  ASSUME NEW q, probeTimeoutMs' = probeTimeoutMs,
         verdict'[q] = verdict[q], at'[q] = at[q], started'[q] = started[q],
         verdict[q].status = "down", verdict[q].reason = "timeout",
         probeTimeoutMs <= MaxDelay => at[q] - started[q] >= probeTimeoutMs
  PROVE  VerdictFine(verdict[q], ping[q], at[q] - started[q])'
BY DEF VerdictFine

(* What is to be shown of each probe.                                      *)
ProbeFine(p) ==
  /\ stage[p] = "idle" <=> timer[p] = "none"
  /\ timer[p] = "armed" <=> stage[p] = "racing"
  /\ stage[p] = "racing" => ping[p] = "pending"
  /\ stage[p] = "done" /\ ping[p] = "pending" =>
       verdict[p].status = "down" /\ verdict[p].reason = "timeout"
  /\ stage[p] = "done" => VerdictFine(verdict[p], ping[p], at[p] - started[p])

LEMMA ProbesFine ==
  (\A p \in Probes : ProbeFine(p))
  <=> /\ \A p \in Probes : stage[p] = "idle" <=> timer[p] = "none"
      /\ TimersCleared /\ Overtaken /\ VerdictOfRace
BY RaceIs DEF ProbeFine, TimersCleared, Overtaken

LEMMA ProbesFineNext == (\A p \in Probes : ProbeFine(p)') => TimersCleared' /\ Overtaken' /\ VerdictOfRace'
BY DEF ProbeFine, TimersCleared, Overtaken, VerdictOfRace, VerdictFine

(* A probe that a step leaves alone stays as it is.                        *)
LEMMA OtherProbes ==
  ASSUME NEW q, ProbeFine(q), UNCHANGED <<probeTimeoutMs, degradedAboveMs>>,
         stage'[q] = stage[q], started'[q] = started[q], ping'[q] = ping[q],
         timer'[q] = timer[q], verdict'[q] = verdict[q], at'[q] = at[q]
  PROVE  ProbeFine(q)'
<1>1. \A v, reply, waited : VerdictFine(v, reply, waited)' = VerdictFine(v, reply, waited)
  BY DEF VerdictFine
<1> QED BY <1>1 DEF ProbeFine

(* What Judge says of a PING that has settled with reply.                  *)
LEMMA Judgement ==
  ASSUME NEW p, NEW reply \in {"PONG", "other", "error", "coded error"},
         now - started[p] \in Int, degradedAboveMs \in Nat
  PROVE  VerdictFine(Judge(p, reply), reply, now - started[p])
<1>1. CASE reply = "PONG"
  <2>1. /\ Judge(p, reply).latencyMs = now - started[p]
        /\ Judge(p, reply).status = IF now - started[p] > degradedAboveMs THEN "degraded" ELSE "up"
    BY <1>1 DEF Judge
  <2> QED BY <1>1, <2>1 DEF VerdictFine
<1>2. CASE reply # "PONG"
  <2>1. /\ Judge(p, reply).status = "down" /\ Judge(p, reply).reason = "error"
        /\ Judge(p, reply).code = IF reply = "coded error" THEN "code" ELSE Null
    BY <1>2 DEF Judge, Down
  <2>2. Null # "code"
    BY InfoAssumption
  <2> QED BY <1>2, <2>1, <2>2 DEF VerdictFine
<1> QED BY <1>1, <1>2

-----------------------------------------------------------------------------
(* The steps.                                                              *)

(* The probe begins.                                                       *)
LEMMA ProbeStep ==
  ASSUME StatusInv, NEW p \in Probes, Probe(p)
  PROVE  StatusInv'
<1>1. StatsAreTrue'
  BY ReadingForgotten DEF Probe
<1>2. /\ stage' = [stage EXCEPT ![p] = "racing"] /\ timer' = [timer EXCEPT ![p] = "armed"]
      /\ ping' = [ping EXCEPT ![p] = "pending"] /\ started' = [started EXCEPT ![p] = now]
      /\ UNCHANGED <<probeTimeoutMs, degradedAboveMs, now, verdict, at>>
  BY DEF Probe, probeOptions
<1>3. ASSUME NEW q \in Probes PROVE ProbeFine(q)'
  <2>1. ProbeFine(q)
    BY ProbesFine DEF StatusInv, StatusTypeOK
  <2>2. CASE q = p
    BY <1>2, <2>2, StatusTypes DEF ProbeFine
  <2>3. CASE q # p
    BY <1>2, <2>1, <2>3, StatusTypes, OtherProbes
  <2> QED BY <2>2, <2>3
<1>4. StatusTypeOK'
  BY <1>2, <1>3, StatusTypes DEF ProbeFine, StatusTypeOK
<1>5. TimersCleared' /\ Overtaken' /\ VerdictOfRace'
  BY <1>3, ProbesFineNext, Zenon
<1> QED BY <1>1, <1>2, <1>4, <1>5 DEF StatusInv

LEMMA TimesAre ==
  ASSUME StatusInv, NEW p \in Probes
  PROVE  now - started[p] \in Int /\ degradedAboveMs \in Nat
<1>1. now \in Nat /\ MaxTime \in Nat /\ started \in [Probes -> 0 .. MaxTime]
  BY StatusTypes, Zenon
<1>2. started[p] \in Nat
  BY <1>1
<1>3. degradedAboveMs \in Nat
  BY Zenon DEF StatusInv
<1> QED BY <1>1, <1>2, <1>3

(* PING settles.                                                           *)
LEMMA PingStep ==
  ASSUME StatusInv, NEW p \in Probes, NEW reply \in {"PONG", "other", "error", "coded error"},
         PingSettles(p, reply)
  PROVE  StatusInv'
<1>1. StatsAreTrue'
  BY ReadingKept DEF PingSettles, StatusInv
<1>2. /\ ping[p] = "pending" /\ ping' = [ping EXCEPT ![p] = reply]
      /\ UNCHANGED <<probeTimeoutMs, degradedAboveMs, now, started>>
  BY DEF PingSettles, probeOptions
<1>3. /\ stage[p] = "racing" =>
           /\ stage' = [stage EXCEPT ![p] = "done"] /\ timer' = [timer EXCEPT ![p] = "cleared"]
           /\ verdict' = [verdict EXCEPT ![p] = Judge(p, reply)] /\ at' = [at EXCEPT ![p] = now]
      /\ stage[p] # "racing" => UNCHANGED <<stage, timer, verdict, at>>
  BY DEF PingSettles, ClearTimer
<1>4. DOMAIN verdict = Probes
  BY DEF StatusInv
<1>5. ASSUME NEW q \in Probes PROVE ProbeFine(q)'
  <2>1. ProbeFine(q)
    BY ProbesFine DEF StatusInv, StatusTypeOK
  <2>2. CASE q = p /\ stage[p] = "racing"
    <3>1. /\ stage'[q] = "done" /\ timer'[q] = "cleared" /\ ping'[q] = reply
          /\ verdict'[q] = Judge(q, reply) /\ at'[q] = now /\ started'[q] = started[q]
      BY <1>2, <1>3, <1>4, <2>2, StatusTypes
    <3>2. VerdictFine(verdict[q], ping[q], at[q] - started[q])'
      <4>1. now - started[q] \in Int /\ degradedAboveMs \in Nat
        BY TimesAre
      <4>2. VerdictFine(Judge(q, reply), reply, now - started[q])
        BY <4>1, Judgement
      <4>3. VerdictFine(verdict'[q], ping'[q], at'[q] - started'[q])
        BY <3>1, <4>2, Zenon
      <4>4. probeTimeoutMs' = probeTimeoutMs /\ degradedAboveMs' = degradedAboveMs
        BY <1>2
      <4> QED BY <4>3, <4>4, Zenon DEF VerdictFine
    <3>3. /\ stage'[q] # "idle" /\ timer'[q] # "none" /\ timer'[q] # "armed"
          /\ stage'[q] # "racing" /\ ping'[q] # "pending"
      BY <3>1
    <3>4. ProbeFine(q)'
      BY <3>2, <3>3, Zenon DEF ProbeFine
    <3> QED BY <3>4, Zenon
  <2>3. CASE q = p /\ stage[p] # "racing"
    <3>1. /\ stage'[q] = stage[q] /\ timer'[q] = timer[q] /\ verdict'[q] = verdict[q]
          /\ at'[q] = at[q] /\ started'[q] = started[q] /\ ping[q] = "pending" /\ stage[q] # "racing"
      BY <1>2, <1>3, <2>3
    <3>2. ping'[q] # "pending"
      BY <1>2, <2>3, StatusTypes
    <3>3. ASSUME stage[q] = "done"
          PROVE  VerdictFine(verdict[q], ping[q], at[q] - started[q])'
      <4>1. /\ verdict[q].status = "down" /\ verdict[q].reason = "timeout"
            /\ VerdictFine(verdict[q], ping[q], at[q] - started[q])
        BY <2>1, <3>1, <3>3, Zenon DEF ProbeFine
      <4>2. probeTimeoutMs <= MaxDelay => at[q] - started[q] >= probeTimeoutMs
        BY <4>1, OverdueOnly
      <4>3. probeTimeoutMs' = probeTimeoutMs
        BY <1>2
      <4> QED BY <3>1, <4>1, <4>2, <4>3, OverdueFine
    <3>4. /\ stage'[q] = "idle" <=> timer'[q] = "none"
          /\ timer'[q] = "armed" <=> stage'[q] = "racing"
      BY <2>1, <3>1, Zenon DEF ProbeFine
    <3>5. ProbeFine(q)'
      BY <3>1, <3>2, <3>3, <3>4, Zenon DEF ProbeFine
    <3> QED BY <3>5
  <2>4. CASE q # p
    <3>1. /\ stage'[q] = stage[q] /\ timer'[q] = timer[q]
          /\ verdict'[q] = verdict[q] /\ at'[q] = at[q]
      <4>1. CASE stage[p] = "racing"
        BY <4>1, <1>3, <1>4, <2>4, StatusTypes
      <4>2. CASE stage[p] # "racing"
        BY <4>2, <1>3
      <4> QED BY <4>1, <4>2
    <3>2. started'[q] = started[q] /\ ping'[q] = ping[q]
      BY <1>2, <2>4, StatusTypes
    <3> QED BY <3>1, <3>2, <1>2, <2>1, OtherProbes
  <2> QED BY <2>2, <2>3, <2>4
<1>6. StatusTypeOK'
  <2>1. /\ stage' \in [Probes -> {"idle", "racing", "done"}]
        /\ timer' \in [Probes -> {"none", "armed", "cleared"}]
        /\ at' \in [Probes -> 0 .. MaxTime]
    <3>1. CASE stage[p] = "racing"
      <4>1. /\ stage' = [stage EXCEPT ![p] = "done"] /\ timer' = [timer EXCEPT ![p] = "cleared"]
            /\ at' = [at EXCEPT ![p] = now]
        BY <3>1, <1>3
      <4> QED BY <4>1, StatusTypes
    <3>2. CASE stage[p] # "racing"
      <4>1. stage' = stage /\ timer' = timer /\ at' = at
        BY <3>2, <1>3
      <4> QED BY <4>1, StatusTypes
    <3> QED BY <3>1, <3>2
  <2>2. /\ ping' \in [Probes -> {"none", "pending", "PONG", "other", "error", "coded error"}]
        /\ started' \in [Probes -> 0 .. MaxTime] /\ now' \in 0 .. MaxTime
    BY <1>2, StatusTypes
  <2>3. \A q \in Probes : stage'[q] = "idle" <=> timer'[q] = "none"
    BY <1>5 DEF ProbeFine
  <2> QED BY <2>1, <2>2, <2>3 DEF StatusTypeOK
<1>7. TimersCleared' /\ Overtaken' /\ VerdictOfRace'
  BY <1>5, ProbesFineNext, Zenon
<1>8. DOMAIN verdict' = Probes
  BY <1>3, <1>4
<1> QED BY <1>1, <1>2, <1>6, <1>7, <1>8 DEF StatusInv

(* The deadline is handled.                                                *)
LEMMA DeadlineStep ==
  ASSUME StatusInv, NEW p \in Probes, DeadlineFires(p)
  PROVE  StatusInv'
<1>1. StatsAreTrue'
  BY ReadingKept DEF DeadlineFires, StatusInv
<1>2. /\ timer[p] = "armed"
      /\ stage' = [stage EXCEPT ![p] = "done"] /\ timer' = [timer EXCEPT ![p] = "cleared"]
      /\ verdict' = [verdict EXCEPT ![p] = Down("timeout", Null)] /\ at' = [at EXCEPT ![p] = now]
      /\ UNCHANGED <<probeTimeoutMs, degradedAboveMs, now, started, ping>>
  BY DEF DeadlineFires, ClearTimer, probeOptions
<1>3. DOMAIN verdict = Probes
  BY DEF StatusInv
<1>4. ASSUME NEW q \in Probes PROVE ProbeFine(q)'
  <2>1. ProbeFine(q)
    BY ProbesFine DEF StatusInv, StatusTypeOK
  <2>2. CASE q = p
    <3>1. /\ stage'[p] = "done" /\ timer'[p] = "cleared" /\ at'[p] = now /\ started'[p] = started[p]
          /\ verdict'[p].status = "down" /\ verdict'[p].reason = "timeout"
      BY <1>2, <1>3, StatusTypes DEF Down
    <3>2. probeTimeoutMs <= MaxDelay => at'[p] - started'[p] >= probeTimeoutMs
      <4>1. /\ now >= started[p] + Delay /\ now \in Nat /\ MaxTime \in Nat
            /\ started \in [Probes -> 0 .. MaxTime] /\ probeTimeoutMs \in Nat
        BY StatusTypes DEF DeadlineFires, StatusInv
      <4>2. started[p] \in Nat
        BY <4>1
      <4>3. probeTimeoutMs <= MaxDelay => Delay = probeTimeoutMs
        BY <4>1, StatusAssumption DEF Delay
      <4> HIDE DEF Delay
      <4>4. probeTimeoutMs <= MaxDelay => now - started[p] >= probeTimeoutMs
        BY <4>1, <4>2, <4>3
      <4> QED BY <3>1, <4>4, Zenon
    <3>3. probeTimeoutMs' = probeTimeoutMs
      BY <1>2
    <3>4. VerdictFine(verdict[p], ping[p], at[p] - started[p])'
      BY <3>1, <3>2, <3>3 DEF VerdictFine
    <3> QED BY <2>2, <3>1, <3>4 DEF ProbeFine
  <2>3. CASE q # p
    <3>1. /\ stage'[q] = stage[q] /\ timer'[q] = timer[q] /\ at'[q] = at[q]
          /\ started'[q] = started[q] /\ ping'[q] = ping[q]
      BY <1>2, <2>3, StatusTypes
    <3>2. /\ verdict'[q] = verdict[q]
          /\ probeTimeoutMs' = probeTimeoutMs /\ degradedAboveMs' = degradedAboveMs
      BY <1>2, <1>3, <2>3
    <3> QED BY <3>1, <3>2, <2>1, OtherProbes
  <2> QED BY <2>2, <2>3
<1>5. StatusTypeOK'
  BY <1>2, <1>4, StatusTypes DEF ProbeFine, StatusTypeOK
<1>6. TimersCleared' /\ Overtaken' /\ VerdictOfRace'
  BY <1>4, ProbesFineNext, Zenon
<1> QED BY <1>1, <1>2, <1>3, <1>5, <1>6 DEF StatusInv

(* A step that no probe takes.                                             *)
LEMMA ProbesRest ==
  ASSUME StatusInv, UNCHANGED <<probeOptions, probing>>, now' \in 0 .. MaxTime, StatsAreTrue'
  PROVE  StatusInv'
<1>1. /\ probeTimeoutMs' = probeTimeoutMs /\ degradedAboveMs' = degradedAboveMs
      /\ stage' = stage /\ started' = started /\ at' = at /\ ping' = ping /\ timer' = timer
      /\ verdict' = verdict
  BY DEF probeOptions, probing
<1>2. StatusTypeOK'
  BY <1>1 DEF StatusInv, StatusTypeOK
<1>3. TimersCleared'
  BY <1>1 DEF StatusInv, TimersCleared
<1>4. Overtaken'
  BY <1>1 DEF StatusInv, Overtaken
<1>5. VerdictOfRace'
  BY <1>1, ZenonT(40) DEF StatusInv, VerdictOfRace
<1> QED BY <1>1, <1>2, <1>3, <1>4, <1>5 DEF StatusInv

(* INFO is read.                                                           *)
LEMMA StatsStep ==
  ASSUME StatusInv, NEW text \in Infos, Stats(text)
  PROVE  StatusInv'
<1> DEFINE fields == ParseInfoFields(text)
<1>1. /\ info' = text /\ threw' = ~LastSaveHolds(fields)
      /\ stats' = IF LastSaveHolds(fields) THEN ReadRedisStats(fields) ELSE Null
      /\ UNCHANGED <<probeOptions, now, probing>>
  BY DEF Stats
<1>2. ASSUME LastSaveHolds(fields) PROVE StatsAreTrue'
  <2>1. ~threw' /\ stats' = ReadRedisStats(fields)
    BY <1>1, <1>2, Zenon
  <2> QED BY <2>1, <1>1, ReadingTrue DEF StatsAreTrue
<1>3. ASSUME ~LastSaveHolds(fields) PROVE StatsAreTrue'
  <2>1. threw' = TRUE /\ Num(fields, "rdb_last_save_time") # Null
        /\ Num(fields, "rdb_last_save_time") \notin -MaxDate .. MaxDate
    BY <1>1, <1>3 DEF LastSaveHolds
  <2>2. "rdb_last_save_time" \in DOMAIN fields
    BY <2>1 DEF Num
  <2>3. Said(text, "rdb_last_save_time") = {fields["rdb_last_save_time"]}
    BY <2>2, LastSaid
  <2> QED BY <2>1, <2>2, <2>3, <1>1 DEF StatsAreTrue, Num
<1>4. StatsAreTrue'
  BY <1>2, <1>3
<1>5. now' \in 0 .. MaxTime
  BY <1>1 DEF StatusInv, StatusTypeOK
<1> QED BY <1>1, <1>4, <1>5, ProbesRest

LEMMA StatusStepHolds == StatusInv /\ [StatusNext]_statusVars => StatusInv'
<1> SUFFICES ASSUME StatusInv, [StatusNext]_statusVars PROVE StatusInv'
  OBVIOUS
<1>1. ASSUME NEW p \in Probes, Probe(p) PROVE StatusInv'
  BY <1>1, ProbeStep
<1>2. ASSUME NEW p \in Probes, DeadlineFires(p) PROVE StatusInv'
  BY <1>2, DeadlineStep
<1>3. ASSUME NEW p \in Probes, NEW reply \in {"PONG", "other", "error", "coded error"}, PingSettles(p, reply)
      PROVE  StatusInv'
  BY <1>3, PingStep
<1>4. ASSUME NEW text \in Infos, Stats(text) PROVE StatusInv'
  BY <1>4, StatsStep
<1>5. CASE Tick
  <2>1. StatsAreTrue'
    BY <1>5, ReadingForgotten DEF Tick
  <2>2. now' \in 0 .. MaxTime
    <3>1. now \in Nat /\ now < MaxTime /\ MaxTime \in Nat /\ now' = now + 1
      BY <1>5, StatusTypes DEF Tick
    <3> QED BY <3>1
  <2>3. UNCHANGED <<probeOptions, probing>>
    BY <1>5 DEF Tick
  <2> QED BY <2>1, <2>2, <2>3, ProbesRest
<1>6. CASE UNCHANGED statusVars
  <2>1. StatsAreTrue'
    BY <1>6, ReadingKept DEF StatusInv, statusVars
  <2>2. UNCHANGED <<probeOptions, probing>> /\ now' \in 0 .. MaxTime
    BY <1>6 DEF StatusInv, StatusTypeOK, statusVars
  <2> QED BY <2>1, <2>2, ProbesRest
<1> QED BY <1>1, <1>2, <1>3, <1>4, <1>5, <1>6 DEF StatusNext

(* What the administration surface says of Redis is true: a latency is of  *)
(* an answer, no timer outlives its probe, and a reading of INFO is what   *)
(* INFO said (cache-status.service.ts:60-75, 176-178, 212-231).            *)
THEOREM StatusTrue == StatusSpec => []VerdictIsTrue
<1>1. StatusInv => VerdictIsTrue
  BY DEF StatusInv, VerdictIsTrue
<1> QED BY <1>1, StatusInitHolds, StatusStepHolds, PTL DEF StatusSpec
=============================================================================
