---------------------------- MODULE KeyIteration ----------------------------
(***************************************************************************)
(* scan and flushNamespace of src/src/server/services/cache.service.ts:    *)
(* loops over a SCAN stream, over keys that others create and delete       *)
(* meanwhile and a connection that may reject a command or repeat it.      *)
(*                                                                         *)
(* The stream is the driver's: it sends one SCAN at a time and reads       *)
(* ahead of the loop, so the chunks of keys that the loop has not taken    *)
(* yet may be out of date.                                                 *)
(***************************************************************************)
EXTENDS Naturals, Sequences, FiniteSets

CONSTANTS
  Keys,         \* keys in Redis that match the pattern
  Flushes,      \* calls of flushNamespace
  Scans,        \* calls of scan
  AllowFlush,   \* options.allowFlushInProduction
  Cluster,      \* options.mode is 'cluster'
  MaxReplies,   \* bound on the replies of one SCAN iteration
  ReadAhead,    \* chunks the stream buffers, 16 in Node
  MaxResends    \* bound on the UNLINKs of a flush that are sent again

Calls == Flushes \union Scans

ASSUME IterationAssumption ==
  /\ IsFiniteSet(Keys)
  /\ Flushes \intersect Scans = {}
  /\ AllowFlush \in BOOLEAN /\ Cluster \in BOOLEAN
  /\ MaxReplies \in Nat \ {0} /\ ReadAhead \in Nat \ {0} /\ MaxResends \in Nat

VARIABLES
  stored,    \* keys in Redis
  phase,     \* progress of each call
  stream,    \* state of its SCAN stream
  replies,   \* SCAN replies it got
  due,       \* keys SCAN still owes it: present ever since its first reply
  chunks,    \* chunks of keys it has not taken yet
  batch,     \* keys of its UNLINK under way
  wire,      \* what became of that UNLINK
  answer,    \* the number of keys its last execution removed
  total,     \* total of flushNamespace
  resends,   \* how often an UNLINK was sent again
  yielded,   \* keys scan has yielded
  gone,      \* keys that were absent at some moment since the call
  removed    \* number of keys the UNLINKs of a flush have removed

loop    == <<phase, total, yielded>>
reading == <<stream, replies, due, chunks>>
unlink  == <<batch, wire, answer, resends, removed>>
vars    == <<stored, gone, loop, reading, unlink>>

TypeOK ==
  /\ stored \in SUBSET Keys
  /\ phase \in [Calls -> {"idle", "refused", "running", "done", "failed"}]
  /\ stream \in [Calls -> {"none", "paused", "scanning", "drained", "broken"}]
  /\ replies \in [Calls -> 0 .. MaxReplies]
  /\ due \in [Calls -> SUBSET Keys]
  /\ chunks \in [Calls -> Seq(SUBSET Keys)]
  /\ batch \in [Calls -> SUBSET Keys]
  /\ wire \in [Calls -> {"none", "sent", "executed"}]
  /\ answer \in [Calls -> Nat]
  /\ total \in [Calls -> Nat]
  /\ resends \in [Calls -> 0 .. MaxResends]
  /\ yielded \in [Calls -> SUBSET Keys]
  /\ gone \in [Calls -> SUBSET Keys]
  /\ removed \in [Calls -> Nat]
  /\ \A c \in Calls : Len(chunks[c]) <= ReadAhead
  /\ \A c \in Calls : stream[c] = "none" <=> phase[c] \in {"idle", "refused"}
  /\ \A c \in Calls : wire[c] # "none" <=> batch[c] # {}

Init ==
  /\ stored \in SUBSET Keys
  /\ phase = [c \in Calls |-> "idle"]
  /\ stream = [c \in Calls |-> "none"]
  /\ replies = [c \in Calls |-> 0]
  /\ due = [c \in Calls |-> {}]
  /\ chunks = [c \in Calls |-> <<>>]
  /\ batch = [c \in Calls |-> {}]
  /\ wire = [c \in Calls |-> "none"]
  /\ answer = [c \in Calls |-> 0]
  /\ total = [c \in Calls |-> 0]
  /\ resends = [c \in Calls |-> 0]
  /\ yielded = [c \in Calls |-> {}]
  /\ gone = [c \in Calls |-> {}]
  /\ removed = [c \in Calls |-> 0]

-----------------------------------------------------------------------------
(* The keyspace.                                                           *)

(* Keys leave it, for every iteration under way or over.                   *)
Lose(ks) ==
  /\ stored' = stored \ ks
  /\ due' = [c \in Calls |-> due[c] \ ks]
  /\ gone' = [c \in Calls |-> IF phase[c] = "idle" THEN {} ELSE gone[c] \union ks]

(* set, setNx, incr, hset or sadd of a key that is not there.              *)
Create(k) ==
  /\ k \notin stored
  /\ stored' = stored \union {k}
  /\ UNCHANGED <<gone, loop, reading, unlink>>

(* del, a TTL that elapses, an UNLINK whose flush gave it up.              *)
Delete(k) ==
  /\ k \in stored
  /\ Lose({k})
  /\ UNCHANGED <<loop, stream, replies, chunks, unlink>>

-----------------------------------------------------------------------------
(* The start of a call.                                                    *)

Goes(c, p) == phase' = [phase EXCEPT ![c] = p]

(* FLUSH_DISABLED_IN_PRODUCTION, when NODE_ENV is 'production' at the call *)
(* of a flush, or UNSUPPORTED_IN_CLUSTER.                                  *)
Refuse(c) ==
  /\ phase[c] = "idle"
  /\ Cluster \/ (c \in Flushes /\ ~AllowFlush)
  /\ Goes(c, "refused")
  /\ UNCHANGED <<stored, gone, total, yielded, reading, unlink>>

Start(c) ==
  /\ phase[c] = "idle"
  /\ ~Cluster
  /\ Goes(c, "running")
  /\ stream' = [stream EXCEPT ![c] = "scanning"]
  /\ gone' = [gone EXCEPT ![c] = Keys \ stored]
  /\ UNCHANGED <<stored, total, yielded, replies, due, chunks, unlink>>

-----------------------------------------------------------------------------
(* The SCAN stream.                                                        *)

Owed(c) == IF replies[c] = 0 THEN stored ELSE due[c]

(* A reply has any of the keys, also keys returned before, or none; the    *)
(* last one, whose cursor is 0, leaves no key owed.                        *)
ScanReplies(c) ==
  /\ stream[c] = "scanning"
  /\ phase[c] = "running"
  /\ replies[c] < MaxReplies
  /\ \E ks \in SUBSET stored :
       /\ due' = [due EXCEPT ![c] = Owed(c) \ ks]
       /\ chunks' = [chunks EXCEPT ![c] = Append(@, ks)]
       /\ replies' = [replies EXCEPT ![c] = @ + 1]
       /\ \/ replies'[c] < MaxReplies /\ stream' = [stream EXCEPT ![c] = "paused"]
          \/ due'[c] = {} /\ stream' = [stream EXCEPT ![c] = "drained"]
  /\ UNCHANGED <<stored, gone, loop, unlink>>

(* The stream reads ahead while its buffer has room.                       *)
ScanOn(c) ==
  /\ stream[c] = "paused"
  /\ phase[c] = "running"
  /\ Len(chunks[c]) < ReadAhead
  /\ stream' = [stream EXCEPT ![c] = "scanning"]
  /\ UNCHANGED <<stored, gone, loop, replies, due, chunks, unlink>>

(* SCAN is rejected: commandTimeout, a flush of the queues or a close.     *)
ScanFails(c) ==
  /\ stream[c] = "scanning"
  /\ phase[c] = "running"
  /\ stream' = [stream EXCEPT ![c] = "broken"]
  /\ UNCHANGED <<stored, gone, loop, replies, due, chunks, unlink>>

-----------------------------------------------------------------------------
(* The loop: for await (const chunk of stream).                            *)

Waiting(c) == phase[c] = "running" /\ wire[c] = "none"

(* scan yields the keys of the next chunk.                                 *)
Yield(c) ==
  /\ Waiting(c)
  /\ chunks[c] # <<>>
  /\ chunks' = [chunks EXCEPT ![c] = Tail(@)]
  /\ yielded' = [yielded EXCEPT ![c] = @ \union Head(chunks[c])]
  /\ UNCHANGED <<stored, gone, phase, total, stream, replies, due, unlink>>

(* Mutant: an empty chunk is taken for the end.                            *)
SkipStops(c) ==
  /\ Waiting(c)
  /\ chunks[c] # <<>>
  /\ Head(chunks[c]) = {}
  /\ Goes(c, "done")
  /\ UNCHANGED <<stored, gone, total, yielded, reading, unlink>>

(* keys.length > 0 is false.                                               *)
Skip(c) ==
  /\ Waiting(c)
  /\ chunks[c] # <<>>
  /\ Head(chunks[c]) = {}
  /\ chunks' = [chunks EXCEPT ![c] = Tail(@)]
  /\ UNCHANGED <<stored, gone, loop, stream, replies, due, unlink>>

Unlink(c) ==
  /\ Waiting(c)
  /\ chunks[c] # <<>>
  /\ Head(chunks[c]) # {}
  /\ chunks' = [chunks EXCEPT ![c] = Tail(@)]
  /\ batch' = [batch EXCEPT ![c] = Head(chunks[c])]
  /\ wire' = [wire EXCEPT ![c] = "sent"]
  /\ UNCHANGED <<stored, gone, loop, stream, replies, due, answer, resends, removed>>

(* The server executes UNLINK.                                             *)
UnlinkRuns(c) ==
  /\ wire[c] = "sent"
  /\ wire' = [wire EXCEPT ![c] = "executed"]
  /\ Lose(batch[c])
  /\ answer' = [answer EXCEPT ![c] = Cardinality(batch[c] \intersect stored)]
  /\ removed' = [removed EXCEPT ![c] = @ + Cardinality(batch[c] \intersect stored)]
  /\ UNCHANGED <<loop, stream, replies, chunks, batch, resends>>

(* Its reply is lost with the connection, and the driver sends it again.   *)
UnlinkResent(c) ==
  /\ wire[c] = "executed"
  /\ resends[c] < MaxResends
  /\ wire' = [wire EXCEPT ![c] = "sent"]
  /\ resends' = [resends EXCEPT ![c] = @ + 1]
  /\ UNCHANGED <<stored, gone, loop, reading, batch, answer, removed>>

(* Mutant: total counts the keys that were sent.                           *)
CountsSent(c) ==
  /\ wire[c] = "executed"
  /\ wire' = [wire EXCEPT ![c] = "none"]
  /\ batch' = [batch EXCEPT ![c] = {}]
  /\ answer' = [answer EXCEPT ![c] = 0]
  /\ total' = [total EXCEPT ![c] = @ + Cardinality(batch[c])]
  /\ UNCHANGED <<stored, gone, phase, yielded, reading, resends, removed>>

UnlinkReplies(c) ==
  /\ wire[c] = "executed"
  /\ wire' = [wire EXCEPT ![c] = "none"]
  /\ batch' = [batch EXCEPT ![c] = {}]
  /\ answer' = [answer EXCEPT ![c] = 0]
  /\ total' = [total EXCEPT ![c] = @ + answer[c]]
  /\ UNCHANGED <<stored, gone, phase, yielded, reading, resends, removed>>

(* A rejected UNLINK ends the loop; an execution after that is Delete.     *)
UnlinkFails(c) ==
  /\ wire[c] # "none"
  /\ wire' = [wire EXCEPT ![c] = "none"]
  /\ batch' = [batch EXCEPT ![c] = {}]
  /\ answer' = [answer EXCEPT ![c] = 0]
  /\ Goes(c, "failed")
  /\ UNCHANGED <<stored, gone, total, yielded, reading, resends, removed>>

(* Mutants: a broken stream is taken for one that ended; the loop scans    *)
(* again until it finds no keys.                                           *)
FinishAnyway(c) ==
  /\ Waiting(c)
  /\ chunks[c] = <<>>
  /\ stream[c] \in {"drained", "broken"}
  /\ Goes(c, "done")
  /\ UNCHANGED <<stored, gone, total, yielded, reading, unlink>>

FinishWhenEmpty(c) ==
  /\ Waiting(c)
  /\ chunks[c] = <<>>
  /\ stream[c] = "drained"
  /\ IF stored = {}
       THEN Goes(c, "done") /\ UNCHANGED <<stream, replies>>
       ELSE /\ stream' = [stream EXCEPT ![c] = "scanning"]
            /\ replies' = [replies EXCEPT ![c] = 0]
            /\ phase' = phase
  /\ UNCHANGED <<stored, gone, total, yielded, due, chunks, unlink>>

(* The stream ended and the loop has taken every chunk.                    *)
Finish(c) ==
  /\ Waiting(c)
  /\ chunks[c] = <<>>
  /\ stream[c] = "drained"
  /\ Goes(c, "done")
  /\ UNCHANGED <<stored, gone, total, yielded, reading, unlink>>

(* The loop throws what broke the stream.                                  *)
Break(c) ==
  /\ Waiting(c)
  /\ chunks[c] = <<>>
  /\ stream[c] = "broken"
  /\ Goes(c, "failed")
  /\ UNCHANGED <<stored, gone, total, yielded, reading, unlink>>

-----------------------------------------------------------------------------

(* A loop that threw has destroyed its stream.                             *)
ScanSettles(c) == ScanReplies(c) \/ ScanFails(c)

UnlinkSettles(c) == UnlinkReplies(c) \/ UnlinkFails(c)

(* What the loop and the stream do on their own.                           *)
LoopSteps(c) ==
  \/ ScanOn(c)
  \/ c \in Scans /\ Yield(c)
  \/ c \in Flushes /\ (Skip(c) \/ Unlink(c))
  \/ Finish(c)
  \/ Break(c)

Next ==
  \/ \E k \in Keys : Create(k) \/ Delete(k)
  \/ \E c \in Calls :
       \/ Refuse(c)
       \/ Start(c)
       \/ ScanSettles(c)
       \/ LoopSteps(c)
       \/ UnlinkRuns(c)
       \/ UnlinkResent(c)
       \/ UnlinkSettles(c)

Spec == Init /\ [][Next]_vars

(* A call goes on: commandTimeout bounds the wait for each command.        *)
Fairness == \A c \in Calls : WF_vars(ScanSettles(c) \/ UnlinkSettles(c) \/ LoopSteps(c))

FairSpec == Spec /\ Fairness

-----------------------------------------------------------------------------
(* Properties.                                                             *)

(* A flush that resolved has removed every key that was there when it was  *)
(* called: a key that is left was absent at some moment since, whatever    *)
(* empty chunks, repeated keys and concurrent flushes it met.              *)
FlushLeavesOnlyNew == \A c \in Flushes :
  phase[c] = "done" => stored \subseteq gone[c]

(* The number it resolves with is the number of keys it removed, whatever  *)
(* others delete meanwhile; only a lost reply makes it smaller.            *)
FlushCounts == \A c \in Flushes :
  /\ total[c] <= removed[c]
  /\ phase[c] = "done" /\ resends[c] = 0 => total[c] = removed[c]

(* A scan that ended normally has yielded every key that stayed, also when *)
(* the keys it yielded are deleted while it goes on.                       *)
ScanYieldsStable == \A c \in Scans :
  phase[c] = "done" => Keys \ gone[c] \subseteq yielded[c]

(* Every flush and scan ends, however fast keys are created behind it.     *)
IterationEnds == \A c \in Calls : phase[c] = "running" ~> phase[c] # "running"
=============================================================================
