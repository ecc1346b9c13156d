--------------------------- MODULE AdminKeyspace ---------------------------
(***************************************************************************)
(* listKeys, describeKey and revealValue of                                *)
(* src/src/admin/services/cache-admin.service.ts: pages of a SCAN whose    *)
(* keys are described in pipelines, and single keys whose type is read     *)
(* before their value, while other clients create, delete and replace      *)
(* keys between any two commands.                                          *)
(*                                                                         *)
(* The two share nothing but the keyspace: a behaviour has either of them. *)
(*                                                                         *)
(* Redis keeps its keys in buckets and a SCAN cursor names the bucket to   *)
(* go on with. A value is abstracted to its number of elements or, for a   *)
(* string, of characters.                                                  *)
(***************************************************************************)
EXTENDS Naturals, Sequences, FiniteSets, SequencesExt

CONSTANTS
  Keys,              \* keys in Redis
  BucketOf,          \* the bucket of each key, 1 .. Buckets
  Buckets,           \* number of buckets
  Scopes,            \* ids of the declared scopes
  Unknown,           \* an id that is not declared
  InScope,           \* the keys the pattern of each scope matches
  Readable,          \* scopes whose isReadable is set
  Reads,             \* calls of describeKey and revealValue
  scanLimit,         \* options.scanLimit
  BatchLimits,       \* what options.commandBatchLimit may be
  revealLimit,       \* options.revealLimit and revealStringLimit
  MaxLength,         \* bound on the lengths of values
  MaxChanges,        \* bound on the changes other clients make and the slots that fail
  InitialStores,     \* what Redis may hold at the start
  Written,           \* the values other clients write
  Missing            \* null: of a reply slot and of readValue

Types  == {"string", "hash", "list", "stream"}  \* set and zset: as hash and list
Values == [type : Types, length : 1 .. MaxLength]
Absent == [type |-> "none", length |-> 0]

ASSUME AdminAssumption ==
  /\ IsFiniteSet(Keys) /\ Buckets \in Nat \ {0} /\ BucketOf \in [Keys -> 1 .. Buckets]
  /\ Unknown \notin Scopes /\ InScope \in [Scopes -> SUBSET Keys] /\ Readable \subseteq Scopes
  /\ scanLimit \in Nat \ {0} /\ BatchLimits \subseteq Nat \ {0} /\ revealLimit \in Nat \ {0}
  /\ MaxLength \in Nat /\ MaxChanges \in Nat
  /\ InitialStores \subseteq [Keys -> {Absent} \union Values] /\ Written \subseteq Values

VARIABLES
  commandBatchLimit, \* options.commandBatchLimit
  paging,     \* the console pages; otherwise it asks for single keys
  stored,     \* the type and the length of each key in Redis
  changes,    \* how often other clients changed it, or a slot failed
  \* a console that pages through a scope
  page,       \* progress of its listKeys
  scope,      \* the scope it lists
  from,       \* the cursor it passes; 0 is '0'
  cursor,     \* the cursor of the loop
  withSize,   \* includeSize
  keys,       \* keys collected
  entries,    \* entries described
  replies,    \* replies of the pipeline under way
  listed,     \* keys on the pages of this walk
  steady,     \* keys of the scope present ever since the walk began
  \* single keys
  phase,      \* progress of each call
  about,      \* its scope and key
  reveals,    \* it is revealValue
  seen,       \* what TYPE answered
  answer,     \* what it resolved with
  touched     \* keys whose value was read, with the scope

listing == <<page, scope, from, cursor, withSize, keys, entries, replies, listed>>
reading == <<phase, about, reveals, seen, answer, touched>>
options == <<commandBatchLimit, paging>>
vars    == <<options, stored, changes, steady, listing, reading>>

Has(k) == stored[k] # Absent

-----------------------------------------------------------------------------
(* Other clients.                                                          *)

Change(k, value) ==
  /\ changes < MaxChanges
  /\ stored[k] # value
  /\ stored' = [stored EXCEPT ![k] = value]
  /\ changes' = changes + 1
  /\ steady' = IF value = Absent THEN steady \ {k} ELSE steady
  /\ UNCHANGED <<options, listing, reading>>

-----------------------------------------------------------------------------
(* listKeys.                                                               *)

(* findScope throws on an id nobody declared. A page starts where the last *)
(* one ended; a first page starts a walk.                                  *)
ListKeys(s, size) ==
  /\ paging /\ page = "idle"
  /\ from = 0 \/ s = scope
  /\ page' = IF s = Unknown THEN "refused" ELSE "scanning"
  /\ scope' = s
  /\ withSize' = size
  /\ listed' = IF from = 0 THEN {} ELSE listed
  /\ steady' = CASE s = Unknown               -> {}
                 [] s # Unknown /\ from = 0 -> {k \in InScope[s] : Has(k)}
                 [] s # Unknown /\ from # 0 -> steady
  /\ keys' = <<>>
  /\ entries' = <<>>
  /\ cursor' = from
  /\ UNCHANGED <<options, stored, changes, from, replies, reading>>

(* One SCAN: Redis goes through some buckets from the cursor on. The loop  *)
(* ends at the end of the keyspace or once there are keys enough.          *)
Scan(last) ==
  LET batch == {k \in InScope[scope] : Has(k) /\ BucketOf[k] \in cursor + 1 .. last}
      next  == IF last = Buckets THEN 0 ELSE last
  IN  /\ page = "scanning"
      /\ last \in cursor + 1 .. Buckets
      /\ cursor' = next
      /\ keys' = keys \o SetToSeq(batch)
      /\ page' = IF next # 0 /\ Len(keys') < scanLimit THEN "scanning" ELSE "describing"
      /\ UNCHANGED <<options, stored, changes, steady, scope, from, withSize, entries, replies, listed, reading>>

(* describeAll: a pipeline of TYPE, TTL and MEMORY USAGE for every key of  *)
(* a chunk, whose size the command limit decides.                          *)
PerKey    == 2 + (IF withSize THEN 1 ELSE 0)
Least(m, n) == IF m < n THEN m ELSE n

(* Mutant: a chunk may be empty.                                           *)
AnyNumber(n) == n

AtLeastOne(n) == IF n < 1 THEN 1 ELSE n
ChunkSize == AtLeastOne(commandBatchLimit \div PerKey)
Chunk     == SubSeq(keys, Len(entries) + 1, Least(Len(entries) + ChunkSize, Len(keys)))
Part(i)   == ((i - 1) % PerKey) + 1
Commands  == [i \in 1 .. PerKey * Len(Chunk) |->
                [key |-> Chunk[((i - 1) \div PerKey) + 1], name |-> <<"TYPE", "TTL", "MEMORY">>[Part(i)]]]

(* Redis executes the next command of the pipeline; its slot may hold an   *)
(* error. A reply is identified with the key and the type it is about.     *)
RunCommand(fails) ==
  /\ page = "describing"
  /\ Len(replies) < Len(Commands)
  /\ LET c == Commands[Len(replies) + 1]
     IN  /\ changes' = changes + (IF fails THEN 1 ELSE 0)
         /\ changes' <= MaxChanges
         /\ replies' = Append(replies, IF fails \/ (c.name # "TYPE" /\ ~Has(c.key)) THEN Missing
                                    ELSE [name |-> c.name, key |-> c.key, type |-> stored[c.key].type])
  /\ UNCHANGED <<options, stored, steady, page, scope, from, cursor, withSize, keys, entries, listed, reading>>

(* replyAt, readKeyType and readSizeBytes.                                 *)
ReplyAt(i) == replies[i]
ReadType(r) == IF r # Missing /\ r.type \in Types THEN r.type ELSE "other"

(* Mutant: the slots are counted as if every key had two.                  *)
DescribeByTwo ==
  /\ page = "describing"
  /\ Len(entries) < Len(keys)
  /\ Len(replies) = Len(Commands)
  /\ entries' = entries \o [i \in 1 .. Len(Chunk) |->
       [key  |-> Chunk[i], type |-> "other", ttl  |-> ReplyAt(2 * i),
        size |-> IF withSize THEN ReplyAt(2 * i + 1) ELSE Missing]]
  /\ replies' = <<>>
  /\ UNCHANGED <<options, stored, changes, steady, page, scope, from, cursor, withSize, keys, listed, reading>>

(* The replies are put beside their keys by position.                      *)
Describe ==
  /\ page = "describing"
  /\ Len(entries) < Len(keys)
  /\ Len(replies) = Len(Commands)
  /\ entries' = entries \o [i \in 1 .. Len(Chunk) |->
       LET base == (i - 1) * PerKey
       IN  [key  |-> Chunk[i],
            type |-> ReadType(ReplyAt(base + 1)),
            ttl  |-> ReplyAt(base + 2),
            size |-> IF withSize THEN ReplyAt(base + 3) ELSE Missing]]
  /\ replies' = <<>>
  /\ UNCHANGED <<options, stored, changes, steady, page, scope, from, cursor, withSize, keys, listed, reading>>

(* Mutant: a page is cut to the limit.                                     *)
PageOfLimit == SubSeq(entries, 1, Least(Len(entries), scanLimit))

(* Everything collected is returned, with the cursor of the next page.     *)
Page == entries
Return ==
  /\ page = "describing"
  /\ Len(entries) = Len(keys)
  /\ page' = IF cursor = 0 THEN "complete" ELSE "idle"
  /\ listed' = listed \union {e.key : e \in ToSet(Page)}
  /\ from' = cursor
  /\ keys' = <<>>
  /\ entries' = <<>>
  /\ UNCHANGED <<options, stored, changes, steady, scope, cursor, withSize, replies, reading>>

(* A SCAN or a pipeline rejects; the console may ask for the page again.   *)
ListFails ==
  /\ page \in {"scanning", "describing"}
  /\ page' = "idle"
  /\ cursor' = from
  /\ keys' = <<>>
  /\ entries' = <<>>
  /\ replies' = <<>>
  /\ UNCHANGED <<options, stored, changes, steady, scope, from, withSize, listed, reading>>

-----------------------------------------------------------------------------
(* describeKey and revealValue.                                            *)

Goes(r, p) == phase' = [phase EXCEPT ![r] = p]
Answers(r, p, a) == Goes(r, p) /\ answer' = [answer EXCEPT ![r] = a]

(* resolve throws SCOPE_NOT_FOUND or KEY_NOT_IN_SCOPE. A scope that is not *)
(* readable withholds its values before anything is read.                  *)
Ask(r, s, k, reveal) ==
  /\ ~paging /\ phase[r] = "idle"
  /\ about' = [about EXCEPT ![r] = [scope |-> s, key |-> k]]
  /\ reveals' = [reveals EXCEPT ![r] = reveal]
  /\ CASE s = Unknown \/ (s # Unknown /\ k \notin InScope[s]) -> Answers(r, "refused", Missing)
       [] reveal /\ s \in Scopes \ Readable /\ k \in InScope[s] -> Answers(r, "withheld", Missing)
       [] OTHER -> Goes(r, "typing") /\ UNCHANGED answer
  /\ UNCHANGED <<options, stored, changes, steady, listing, seen, touched>>

(* The answer of TYPE. describeKey asks for the TTL at the same time.      *)
TypeReplies(r) ==
  LET type == stored[about[r].key].type
  IN  /\ phase[r] = "typing"
      /\ seen' = [seen EXCEPT ![r] = type]
      /\ CASE ~reveals[r]                   -> Answers(r, "described", type)
           [] reveals[r] /\ type = "none" -> Answers(r, "missing", Missing)
           [] reveals[r] /\ type # "none" -> Goes(r, "reading") /\ UNCHANGED answer
      /\ UNCHANGED <<options, stored, changes, steady, listing, about, reveals, touched>>

(* What each read returns of a value of n elements: LRANGE and ZRANGE ask  *)
(* for one element more than the limit, the others for everything.         *)
Fetched(type, n) == IF type = "list" THEN Least(n, revealLimit + 1) ELSE n

(* readValue: the command the type calls for. It rejects on a key that is  *)
(* of another type by now; of a key that is gone, a string is null and a   *)
(* collection is empty.                                                    *)
ReadValue(r) ==
  LET k    == about[r].key
      now  == stored[k]
      all  == Fetched(seen[r], now.length)
      kept == Least(all, revealLimit)
  IN  /\ phase[r] = "reading"
      /\ touched' = touched \union (IF seen[r] = "stream" THEN {} ELSE {about[r]})
      /\ CASE seen[r] = "stream"               -> Answers(r, "unsupported", Missing)
           [] seen[r] # "stream" /\ Has(k) /\ now.type # seen[r] -> Answers(r, "failed", Missing)
           [] seen[r] = "string" /\ ~Has(k)    -> Answers(r, "missing", Missing)
           [] OTHER -> Answers(r, "revealed", [kept |-> kept, isComplete |-> kept = all, of |-> now])
      /\ UNCHANGED <<options, stored, changes, steady, listing, about, reveals, seen>>

(* A command of the call rejects.                                          *)
ReadFails(r) ==
  /\ phase[r] \in {"typing", "reading"}
  /\ Answers(r, "failed", Missing)
  /\ UNCHANGED <<options, stored, changes, steady, listing, about, reveals, seen, touched>>

-----------------------------------------------------------------------------
Init ==
  /\ stored \in InitialStores
  /\ commandBatchLimit \in BatchLimits
  /\ paging \in BOOLEAN
  /\ changes = 0
  /\ page = "idle"
  /\ scope = Unknown
  /\ from = 0
  /\ cursor = 0
  /\ withSize = FALSE
  /\ keys = <<>>
  /\ entries = <<>>
  /\ replies = <<>>
  /\ listed = {}
  /\ steady = {}
  /\ phase = [r \in Reads |-> "idle"]
  /\ about = [r \in Reads |-> Missing]
  /\ reveals = [r \in Reads |-> FALSE]
  /\ seen = [r \in Reads |-> "none"]
  /\ answer = [r \in Reads |-> Missing]
  /\ touched = {}

Next ==
  \/ \E k \in Keys : (\E value \in Written : Change(k, value)) \/ Change(k, Absent)
  \/ \E s \in Scopes \union {Unknown}, size \in BOOLEAN : ListKeys(s, size)
  \/ \E last \in 1 .. Buckets : Scan(last)
  \/ \E fails \in BOOLEAN : RunCommand(fails)
  \/ Describe \/ Return \/ ListFails
  \/ \E r \in Reads, s \in Scopes \union {Unknown}, k \in Keys, reveal \in BOOLEAN : Ask(r, s, k, reveal)
  \/ \E r \in Reads : TypeReplies(r) \/ ReadValue(r) \/ ReadFails(r)

Spec == Init /\ [][Next]_vars

(* The calls go on, and every command is answered or rejected.             *)
ListStep == (\E last \in 1 .. Buckets : Scan(last)) \/ RunCommand(FALSE) \/ Describe \/ Return
FairSpec ==
  /\ Spec
  /\ WF_vars(ListStep)
  /\ \A r \in Reads : WF_vars(TypeReplies(r) \/ ReadValue(r))

-----------------------------------------------------------------------------
(* Types, and the loops of listKeys: the entries are those of the first    *)
(* keys, and the pipeline has the commands of the next chunk.              *)
TypeOK ==
  /\ stored \in [Keys -> {Absent} \union Values]
  /\ changes \in 0 .. MaxChanges
  /\ page \in {"idle", "scanning", "describing", "complete", "refused"}
  /\ scope \in Scopes \union {Unknown}
  /\ from \in 0 .. Buckets - 1 /\ cursor \in 0 .. Buckets - 1
  /\ Len(entries) <= Len(keys)
  /\ \A i \in DOMAIN entries : entries[i].key = keys[i]
  /\ Len(replies) <= Len(Commands)
  /\ phase \in [Reads -> {"idle", "typing", "reading", "refused", "withheld", "described",
                          "missing", "revealed", "unsupported", "failed"}]

(* A walk through the pages, with pages asked for again after a failure,   *)
(* lists every key that stayed: a page hands out all it collected, since   *)
(* its cursor has moved past it (cache-admin.service.ts:193-211).          *)
WalkListsSteady ==
  page = "complete" => steady \subseteq listed

(* The TTL and the size of an entry are those of its key, whatever the     *)
(* batch, whichever slots failed (cache-admin.service.ts:308-327).         *)
EntriesAligned ==
  \A e \in ToSet(entries) :
    /\ e.ttl # Missing  => e.ttl.key = e.key /\ e.ttl.name = "TTL"
    /\ e.size # Missing => e.size.key = e.key /\ e.size.name = "MEMORY"

(* A pipeline has no more commands than the limit, unless a single key     *)
(* needs more (cache-admin.service.ts:304-317).                            *)
PipelineBounded ==
  page = "describing" => Len(Commands) <= commandBatchLimit \/ Len(Chunk) = 1

(* Values are read only in a readable scope, and only of keys the scope    *)
(* matches (cache-admin.service.ts:248-283).                               *)
WithheldUnread ==
  \A t \in touched : t.scope \in Readable /\ t.key \in InScope[t.scope]

(* A revealed value is capped, and says it is complete exactly when it is  *)
(* (cache-admin.service.ts:339-383).                                       *)
CompleteMeansWhole ==
  \A r \in Reads :
    phase[r] = "revealed" => /\ answer[r].kept <= revealLimit
                             /\ answer[r].isComplete <=> answer[r].kept = answer[r].of.length

(* What the console is shown: its own TTL and size beside each key, no     *)
(* value it must not see, none that is cut without saying so               *)
(* (cache-admin.service.ts:226-383).                                       *)
ShownIsTrue ==
  TypeOK /\ EntriesAligned /\ PipelineBounded /\ WithheldUnread /\ CompleteMeansWhole

(* A page that SCANs is returned, though the limit is below the commands   *)
(* of one key, and a single read settles (cache-admin.service.ts:305-308). *)
ListingEnds == page \in {"scanning", "describing"} ~> page \notin {"scanning", "describing"}
ReadsEnd == \A r \in Reads : phase[r] = "typing" ~> phase[r] \notin {"typing", "reading"}

(* Whatever other clients do to the keyspace, a page and a read end        *)
(* (cache-admin.service.ts:180-263).                                       *)
CallsEnd == ListingEnds /\ ReadsEnd
=============================================================================
