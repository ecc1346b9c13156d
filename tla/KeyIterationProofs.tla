-------------------------- MODULE KeyIterationProofs --------------------------
(* Safety of KeyIteration for every set of keys and calls.                 *)
EXTENDS KeyIteration, FiniteSetTheorems, TLAPS

(* Where a key that stays may still be found: SCAN owes it, the stream     *)
(* buffers it, an UNLINK under way removes it, or scan has yielded it.     *)
Buffered(c) == UNION {chunks[c][i] : i \in 1 .. Len(chunks[c])}

Pending(c) == IF stream[c] = "drained" THEN {} ELSE Owed(c)

Unlinking(c) == IF wire[c] = "sent" THEN batch[c] ELSE {}

Found(c) == Pending(c) \union Buffered(c) \union Unlinking(c) \union yielded[c]

Covered(c) == phase[c] \in {"running", "done"} => Keys \ gone[c] \subseteq Found(c)

(* The stream and the loop agree on how far they are.                      *)
Progress(c) ==
  /\ stream[c] = "none" => replies[c] = 0 /\ chunks[c] = <<>>
  /\ stream[c] = "scanning" => Len(chunks[c]) < ReadAhead
  /\ phase[c] = "done" => stream[c] = "drained" /\ chunks[c] = <<>>
  /\ wire[c] # "none" => phase[c] = "running"
  /\ c \in Flushes => yielded[c] = {}
  /\ c \in Scans => wire[c] = "none"

(* What the answers to the UNLINKs add up to.                              *)
Counted(c) ==
  /\ total[c] <= removed[c]
  /\ wire[c] = "executed" => total[c] + answer[c] <= removed[c]
  /\ resends[c] = 0 /\ phase[c] # "failed" =>
       removed[c] = total[c] + (IF wire[c] = "executed" THEN answer[c] ELSE 0)

IInv ==
  /\ TypeOK
  /\ \A c \in Calls : Progress(c) /\ Covered(c) /\ Counted(c)

-------------------------------------------------------------------------------

LEMMA StepCases ==
  ASSUME Next
  PROVE  \/ \E k \in Keys : Create(k) \/ Delete(k)
         \/ \E c \in Calls : Refuse(c) \/ Start(c)
         \/ \E c \in Calls : ScanReplies(c) \/ ScanOn(c) \/ ScanFails(c)
         \/ \E c \in Scans : Yield(c)
         \/ \E c \in Flushes : Skip(c) \/ Unlink(c)
         \/ \E c \in Calls : Finish(c) \/ Break(c)
         \/ \E c \in Calls : UnlinkRuns(c)
         \/ \E c \in Calls : UnlinkResent(c) \/ UnlinkReplies(c) \/ UnlinkFails(c)
BY DEF Next, ScanSettles, UnlinkSettles, LoopSteps, Calls

LEMMA CallsApart ==
  /\ \A c \in Flushes : c \in Calls /\ c \notin Scans
  /\ \A c \in Scans : c \in Calls /\ c \notin Flushes
BY IterationAssumption DEF Calls

(* What taking the first chunk and adding one do to a sequence of chunks.  *)
LEMMA TailOfChunks ==
  ASSUME NEW q \in Seq(SUBSET Keys), q # <<>>
  PROVE  /\ Head(q) \in SUBSET Keys /\ Tail(q) \in Seq(SUBSET Keys)
         /\ Len(Tail(q)) = Len(q) - 1
         /\ UNION {q[i] : i \in 1 .. Len(q)} =
              Head(q) \union UNION {Tail(q)[i] : i \in 1 .. Len(Tail(q))}
<1>1. /\ Len(q) \in Nat \ {0} /\ Head(q) = q[1] /\ Head(q) \in SUBSET Keys
      /\ Tail(q) \in Seq(SUBSET Keys) /\ Len(Tail(q)) = Len(q) - 1
  OBVIOUS
<1>2. \A i \in 1 .. Len(q) - 1 : Tail(q)[i] = q[i + 1]
  OBVIOUS
<1>3. ASSUME NEW k, NEW i \in 1 .. Len(q), k \in q[i], k \notin Head(q)
      PROVE  k \in Tail(q)[i - 1] /\ i - 1 \in 1 .. Len(q) - 1
  <2>1. i # 1
    BY <1>1, <1>3
  <2>2. i - 1 \in 1 .. Len(q) - 1 /\ (i - 1) + 1 = i
    BY <1>1, <2>1
  <2>3. QED
    BY <1>2, <1>3, <2>2
<1>4. ASSUME NEW k, NEW i \in 1 .. Len(q) - 1, k \in Tail(q)[i]
      PROVE  i + 1 \in 1 .. Len(q) /\ k \in q[i + 1]
  BY <1>1, <1>2, <1>4
<1>5. 1 \in 1 .. Len(q)
  BY <1>1
<1>6. UNION {q[i] : i \in 1 .. Len(q)} \subseteq
        Head(q) \union UNION {Tail(q)[i] : i \in 1 .. Len(q) - 1}
  BY <1>3
<1>7. Head(q) \union UNION {Tail(q)[i] : i \in 1 .. Len(q) - 1} \subseteq
        UNION {q[i] : i \in 1 .. Len(q)}
  BY <1>1, <1>4, <1>5
<1>8. QED
  BY <1>1, <1>6, <1>7

LEMMA AppendOfChunks ==
  ASSUME NEW q \in Seq(SUBSET Keys), NEW ks \in SUBSET Keys
  PROVE  /\ Append(q, ks) \in Seq(SUBSET Keys)
         /\ Len(Append(q, ks)) = Len(q) + 1
         /\ UNION {Append(q, ks)[i] : i \in 1 .. Len(Append(q, ks))} =
              ks \union UNION {q[i] : i \in 1 .. Len(q)}
<1>1. /\ Len(q) \in Nat /\ Append(q, ks) \in Seq(SUBSET Keys)
      /\ Len(Append(q, ks)) = Len(q) + 1
  OBVIOUS
<1>2. /\ \A i \in 1 .. Len(q) : Append(q, ks)[i] = q[i]
      /\ Append(q, ks)[Len(q) + 1] = ks
  OBVIOUS
<1>3. \A i \in 1 .. Len(q) + 1 : i \in 1 .. Len(q) \/ i = Len(q) + 1
  BY <1>1
<1>4. \A i \in 1 .. Len(q) : i \in 1 .. Len(q) + 1
  BY <1>1
<1>5. Len(q) + 1 \in 1 .. Len(q) + 1
  BY <1>1
<1>6. QED
  BY <1>1, <1>2, <1>3, <1>4, <1>5

LEMMA NoChunks == Len(<<>>) = 0 /\ <<>> \in Seq(SUBSET Keys)
OBVIOUS

LEMMA KeysFinite ==
  ASSUME NEW S \in SUBSET Keys
  PROVE  Cardinality(S) \in Nat
BY IterationAssumption, FS_Subset, FS_CardinalityType

-------------------------------------------------------------------------------
(* Effects of the steps, call by call.                                     *)

(* The variables of a call that no other call changes.                     *)
Same(c) ==
  /\ phase'[c] = phase[c] /\ total'[c] = total[c] /\ yielded'[c] = yielded[c]
  /\ stream'[c] = stream[c] /\ replies'[c] = replies[c] /\ chunks'[c] = chunks[c]
  /\ batch'[c] = batch[c] /\ wire'[c] = wire[c] /\ answer'[c] = answer[c]
  /\ resends'[c] = resends[c] /\ removed'[c] = removed[c]

(* No key leaves, or the same keys leave Redis and what a call is owed.    *)
Kept(c) == stored \subseteq stored' /\ gone'[c] = gone[c] /\ due'[c] = due[c]

Lost(c, ks) ==
  /\ stored' = stored \ ks
  /\ due'[c] = due[c] \ ks
  /\ phase[c] # "idle" => gone'[c] = gone[c] \union ks

CallStep(c) ==
  \/ Refuse(c) \/ Start(c)
  \/ ScanReplies(c) \/ ScanOn(c) \/ ScanFails(c)
  \/ c \in Scans /\ Yield(c)
  \/ c \in Flushes /\ (Skip(c) \/ Unlink(c))
  \/ Finish(c) \/ Break(c)
  \/ UnlinkResent(c) \/ UnlinkReplies(c) \/ UnlinkFails(c)

LEMMA LosePointwise ==
  ASSUME TypeOK, NEW ks, Lose(ks), NEW c \in Calls
  PROVE  Lost(c, ks)
BY DEF Lose, Lost, TypeOK

LEMMA OtherCalls ==
  ASSUME TypeOK, NEW c \in Calls, NEW d \in Calls, d # c, CallStep(c)
  PROVE  Same(d) /\ Kept(d)
<1> USE DEF TypeOK, Same, Kept, loop, reading, unlink, Goes
<1>1. CASE Refuse(c) \/ Start(c)
  BY <1>1 DEF Refuse, Start
<1>2. CASE ScanReplies(c)
  BY <1>2 DEF ScanReplies
<1>3. CASE ScanOn(c) \/ ScanFails(c)
  BY <1>3 DEF ScanOn, ScanFails
<1>4. CASE Yield(c) \/ Skip(c) \/ Unlink(c)
  BY <1>4 DEF Yield, Skip, Unlink
<1>5. CASE Finish(c) \/ Break(c)
  BY <1>5 DEF Finish, Break
<1>6. CASE UnlinkResent(c) \/ UnlinkReplies(c) \/ UnlinkFails(c)
  BY <1>6 DEF UnlinkResent, UnlinkReplies, UnlinkFails
<1>7. QED
  BY <1>1, <1>2, <1>3, <1>4, <1>5, <1>6 DEF CallStep
-------------------------------------------------------------------------------
(* The type invariant needs the room the stream leaves in its buffer.      *)

LEMMA TypeStep ==
  ASSUME TypeOK, \A c \in Calls : Progress(c), [Next]_vars
  PROVE  TypeOK'
<1> USE IterationAssumption DEF TypeOK, loop, reading, unlink, Goes
<1>1. ASSUME NEW k \in Keys, Create(k) PROVE TypeOK'
  BY <1>1 DEF Create
<1>2. ASSUME NEW k \in Keys, Delete(k) PROVE TypeOK'
  BY <1>2 DEF Delete, Lose
<1>3. ASSUME NEW c \in Calls, Refuse(c) PROVE TypeOK'
  BY <1>3 DEF Refuse
<1>4. ASSUME NEW c \in Calls, Start(c) PROVE TypeOK'
  BY <1>4 DEF Start
<1>5. ASSUME NEW c \in Calls, ScanReplies(c) PROVE TypeOK'
  <2>1. PICK ks \in SUBSET stored :
          /\ due' = [due EXCEPT ![c] = Owed(c) \ ks]
          /\ chunks' = [chunks EXCEPT ![c] = Append(@, ks)]
    BY <1>5 DEF ScanReplies
  <2>2. Owed(c) \in SUBSET Keys /\ ks \in SUBSET Keys
    BY DEF Owed
  <2>3. Append(chunks[c], ks) \in Seq(SUBSET Keys) /\ Len(Append(chunks[c], ks)) <= ReadAhead
    <3>1. chunks[c] \in Seq(SUBSET Keys) /\ Len(chunks[c]) \in Nat /\ Len(chunks[c]) < ReadAhead
      BY <1>5 DEF ScanReplies, Progress
    <3>2. QED
      BY <2>2, <3>1, AppendOfChunks
  <2>4. /\ chunks' \in [Calls -> Seq(SUBSET Keys)]
        /\ \A d \in Calls : Len(chunks'[d]) <= ReadAhead
    BY <2>1, <2>3
  <2>5. due' \in [Calls -> SUBSET Keys]
    BY <2>1, <2>2
  <2>6. /\ replies' \in [Calls -> 0 .. MaxReplies]
        /\ \E p \in {"paused", "drained"} : stream' = [stream EXCEPT ![c] = p]
        /\ stream[c] = "scanning"
    <3>1. replies[c] + 1 \in 0 .. MaxReplies
      BY <1>5 DEF ScanReplies
    <3>2. replies' = [replies EXCEPT ![c] = replies[c] + 1] /\ stream[c] = "scanning"
      BY <1>5 DEF ScanReplies
    <3>3. \E p \in {"paused", "drained"} : stream' = [stream EXCEPT ![c] = p]
      BY <1>5 DEF ScanReplies
    <3>4. QED
      BY <3>1, <3>2, <3>3
  <2>7. /\ stream' \in [Calls -> {"none", "paused", "scanning", "drained", "broken"}]
        /\ \A d \in Calls : stream'[d] = "none" <=> stream[d] = "none"
    BY <2>6
  <2>8. QED
    BY <1>5, <2>4, <2>5, <2>6, <2>7 DEF ScanReplies
<1>6. ASSUME NEW c \in Calls, ScanOn(c) \/ ScanFails(c) PROVE TypeOK'
  BY <1>6 DEF ScanOn, ScanFails
<1>7. ASSUME NEW c \in Calls, Yield(c) \/ Skip(c) \/ Unlink(c) PROVE TypeOK'
  <2>1. chunks[c] # <<>> /\ chunks' = [chunks EXCEPT ![c] = Tail(@)]
    BY <1>7 DEF Yield, Skip, Unlink
  <2>2. /\ chunks[c] \in Seq(SUBSET Keys) /\ Len(chunks[c]) \in Nat
        /\ Len(chunks[c]) <= ReadAhead
    OBVIOUS
  <2>3. /\ Tail(chunks[c]) \in Seq(SUBSET Keys) /\ Head(chunks[c]) \in SUBSET Keys
        /\ Len(Tail(chunks[c])) <= ReadAhead
    BY <2>1, <2>2, TailOfChunks
  <2>4. /\ chunks' \in [Calls -> Seq(SUBSET Keys)]
        /\ \A d \in Calls : Len(chunks'[d]) <= ReadAhead
    BY <2>1, <2>3
  <2>5. /\ batch' \in [Calls -> SUBSET Keys] /\ wire' \in [Calls -> {"none", "sent", "executed"}]
        /\ yielded' \in [Calls -> SUBSET Keys]
        /\ \A d \in Calls : wire'[d] # "none" => batch'[d] # {}
    <3>1. CASE Yield(c)
      BY <2>3, <3>1 DEF Yield
    <3>2. CASE Skip(c)
      BY <3>2 DEF Skip
    <3>3. CASE Unlink(c)
      BY <2>3, <3>3 DEF Unlink
    <3>4. QED
      BY <1>7, <3>1, <3>2, <3>3
  <2>6. QED
    BY <1>7, <2>4, <2>5 DEF Yield, Skip, Unlink
<1>8. ASSUME NEW c \in Calls, UnlinkRuns(c) PROVE TypeOK'
  <2>1. Cardinality(batch[c] \intersect stored) \in Nat
    BY KeysFinite
  <2>2. /\ answer' \in [Calls -> Nat] /\ removed' \in [Calls -> Nat]
        /\ wire' \in [Calls -> {"none", "sent", "executed"}]
        /\ \A d \in Calls : wire'[d] # "none" => wire[d] # "none"
    BY <1>8, <2>1 DEF UnlinkRuns
  <2>3. /\ stored' \in SUBSET Keys /\ due' \in [Calls -> SUBSET Keys]
        /\ gone' \in [Calls -> SUBSET Keys]
    BY <1>8 DEF UnlinkRuns, Lose
  <2>4. QED
    BY <1>8, <2>2, <2>3 DEF UnlinkRuns
<1>9. ASSUME NEW c \in Calls, UnlinkResent(c) \/ UnlinkReplies(c) \/ UnlinkFails(c) PROVE TypeOK'
  <2>1. CASE UnlinkResent(c)
    <3>1. resends[c] \in 0 .. MaxResends /\ resends[c] < MaxResends
      BY <2>1 DEF UnlinkResent
    <3>2. resends[c] + 1 \in 0 .. MaxResends
      BY <3>1
    <3>3. wire[c] # "none"
      BY <2>1 DEF UnlinkResent
    <3>4. QED
      BY <2>1, <3>2, <3>3 DEF UnlinkResent
  <2>2. CASE UnlinkReplies(c)
    <3>1. total[c] + answer[c] \in Nat
      OBVIOUS
    <3>2. QED
      BY <2>2, <3>1 DEF UnlinkReplies
  <2>3. CASE UnlinkFails(c)
    BY <2>3 DEF UnlinkFails, Progress
  <2>4. QED
    BY <1>9, <2>1, <2>2, <2>3
<1>10. ASSUME NEW c \in Calls, Finish(c) \/ Break(c) PROVE TypeOK'
  BY <1>10 DEF Finish, Break, Waiting
<1>11. ASSUME UNCHANGED vars PROVE TypeOK'
  BY <1>11 DEF vars
<1>12. QED
  BY <1>1, <1>2, <1>3, <1>4, <1>5, <1>6, <1>7, <1>8, <1>9, <1>10, <1>11, StepCases, CallsApart

-------------------------------------------------------------------------------
(* Every step leaves a call alone, or is a step of that call.              *)

LEMMA Moves ==
  ASSUME TypeOK, [Next]_vars, NEW c \in Calls
  PROVE  \/ Same(c) /\ (Kept(c) \/ \E ks : Lost(c, ks))
         \/ CallStep(c)
         \/ UnlinkRuns(c)
<1> DEFINE Left == Same(c) /\ (Kept(c) \/ \E ks : Lost(c, ks))
<1>1. ASSUME NEW k \in Keys, Create(k) PROVE Left
  BY <1>1 DEF Create, Same, Kept, loop, reading, unlink
<1>2. ASSUME NEW k \in Keys, Delete(k) PROVE Left
  <2>1. Lost(c, {k})
    BY <1>2, LosePointwise DEF Delete
  <2>2. Same(c)
    BY <1>2 DEF Delete, Same, loop, unlink
  <2>3. QED
    BY <2>1, <2>2
<1>3. ASSUME NEW d \in Calls, UnlinkRuns(d) PROVE Left \/ UnlinkRuns(c)
  <2>1. CASE d = c
    BY <1>3, <2>1
  <2>2. CASE d # c
    <3>1. Lost(c, batch[d])
      BY <1>3, LosePointwise DEF UnlinkRuns
    <3>2. Same(c)
      BY <1>3, <2>2 DEF UnlinkRuns, Same, loop, TypeOK
    <3>3. QED
      BY <3>1, <3>2
  <2>3. QED
    BY <2>1, <2>2
<1>4. ASSUME NEW d \in Calls, CallStep(d), d # c PROVE Left
  BY <1>4, OtherCalls
<1>5. ASSUME UNCHANGED vars PROVE Left
  BY <1>5 DEF vars, Same, Kept, loop, reading, unlink
<1>6. ASSUME Next
      PROVE  \/ \E k \in Keys : Create(k) \/ Delete(k)
             \/ \E d \in Calls : UnlinkRuns(d) \/ CallStep(d)
  BY <1>6, StepCases, CallsApart DEF CallStep
<1>7. QED
  BY <1>1, <1>2, <1>3, <1>4, <1>5, <1>6

-------------------------------------------------------------------------------
(* The parts of the invariant, for one call at a time.                     *)

LEMMA TakenShortens ==
  ASSUME TypeOK, NEW c \in Calls, chunks[c] # <<>>,
         chunks' = [chunks EXCEPT ![c] = Tail(@)], Len(chunks[c]) < ReadAhead
  PROVE  Len(chunks'[c]) < ReadAhead
<1>1. chunks[c] \in Seq(SUBSET Keys) /\ chunks'[c] = Tail(chunks[c])
  BY DEF TypeOK
<1>2. Len(chunks[c]) \in Nat /\ ReadAhead \in Nat
  BY <1>1, IterationAssumption
<1>3. QED
  BY <1>1, <1>2, TailOfChunks

LEMMA ProgressStep ==
  ASSUME TypeOK, [Next]_vars, NEW c \in Calls, Progress(c)
  PROVE  Progress(c)'
<1> USE DEF Progress
<1>1. CASE Same(c)
  BY <1>1 DEF Same
<1>2. CASE CallStep(c)
  <2> USE DEF TypeOK, loop, reading, unlink, Goes, Waiting
  <2>1. CASE Refuse(c) \/ Start(c)
    <3>1. stream[c] = "none" /\ chunks[c] = <<>> /\ wire[c] = wire'[c]
      BY <2>1 DEF Refuse, Start
    <3>2. 0 < ReadAhead
      BY IterationAssumption
    <3>3. QED
      BY <2>1, <3>1, <3>2, NoChunks DEF Refuse, Start
  <2>2. CASE ScanReplies(c)
    BY <2>2 DEF ScanReplies
  <2>3. CASE ScanOn(c) \/ ScanFails(c)
    BY <2>3 DEF ScanOn, ScanFails
  <2>4. CASE c \in Scans /\ Yield(c)
    <3>1. stream[c] = "scanning" => Len(chunks'[c]) < ReadAhead
      BY <2>4, TakenShortens DEF Yield
    <3>2. QED
      BY <2>4, <3>1, CallsApart DEF Yield
  <2>5. CASE c \in Flushes /\ (Skip(c) \/ Unlink(c))
    <3>1. stream[c] = "scanning" => Len(chunks'[c]) < ReadAhead
      BY <2>5, TakenShortens DEF Skip, Unlink
    <3>2. QED
      BY <2>5, <3>1, CallsApart DEF Skip, Unlink
  <2>6. CASE Finish(c) \/ Break(c)
    BY <2>6 DEF Finish, Break
  <2>7. CASE UnlinkResent(c) \/ UnlinkReplies(c) \/ UnlinkFails(c)
    BY <2>7 DEF UnlinkResent, UnlinkReplies, UnlinkFails
  <2>8. QED
    BY <1>2, <2>1, <2>2, <2>3, <2>4, <2>5, <2>6, <2>7 DEF CallStep
<1>3. CASE UnlinkRuns(c)
  BY <1>3 DEF UnlinkRuns, TypeOK, loop
<1>4. QED
  BY <1>1, <1>2, <1>3, Moves

LEMMA CountedStep ==
  ASSUME TypeOK, [Next]_vars, NEW c \in Calls, Counted(c)
  PROVE  Counted(c)'
<1> USE DEF Counted
<1>1. CASE Same(c)
  BY <1>1 DEF Same
<1>2. CASE CallStep(c)
  <2> USE DEF TypeOK, loop, reading, unlink, Goes, Waiting
  <2>1. CASE Refuse(c) \/ Start(c)
    BY <2>1 DEF Refuse, Start
  <2>2. CASE ScanReplies(c) \/ ScanOn(c) \/ ScanFails(c)
    BY <2>2 DEF ScanReplies, ScanOn, ScanFails
  <2>3. CASE Yield(c) \/ Skip(c) \/ Unlink(c)
    BY <2>3 DEF Yield, Skip, Unlink
  <2>4. CASE Finish(c) \/ Break(c)
    BY <2>4 DEF Finish, Break
  <2>5. CASE UnlinkResent(c)
    BY <2>5 DEF UnlinkResent
  <2>6. CASE UnlinkReplies(c)
    BY <2>6 DEF UnlinkReplies
  <2>7. CASE UnlinkFails(c)
    BY <2>7 DEF UnlinkFails
  <2>8. QED
    BY <1>2, <2>1, <2>2, <2>3, <2>4, <2>5, <2>6, <2>7 DEF CallStep
<1>3. CASE UnlinkRuns(c)
  <2>1. Cardinality(batch[c] \intersect stored) \in Nat
    BY KeysFinite DEF TypeOK
  <2>2. QED
    BY <1>3, <2>1 DEF UnlinkRuns, TypeOK, loop
<1>4. QED
  BY <1>1, <1>2, <1>3, Moves

(* What the stream buffers when the loop takes a chunk or a reply comes.   *)
LEMMA BufferedTaken ==
  ASSUME TypeOK, NEW c \in Calls, chunks[c] # <<>>,
         chunks' = [chunks EXCEPT ![c] = Tail(@)]
  PROVE  Buffered(c) = Head(chunks[c]) \union Buffered(c)'
<1>1. chunks[c] \in Seq(SUBSET Keys) /\ chunks'[c] = Tail(chunks[c])
  BY DEF TypeOK
<1>2. Buffered(c)' = UNION {Tail(chunks[c])[i] : i \in 1 .. Len(Tail(chunks[c]))}
  BY <1>1 DEF Buffered
<1>3. QED
  BY <1>1, <1>2, TailOfChunks DEF Buffered

LEMMA BufferedAdded ==
  ASSUME TypeOK, NEW c \in Calls, NEW ks \in SUBSET Keys,
         chunks' = [chunks EXCEPT ![c] = Append(@, ks)]
  PROVE  Buffered(c)' = ks \union Buffered(c)
<1>1. chunks[c] \in Seq(SUBSET Keys) /\ chunks'[c] = Append(chunks[c], ks)
  BY DEF TypeOK
<1>2. QED
  BY <1>1, AppendOfChunks DEF Buffered

LEMMA BufferedSame ==
  ASSUME NEW c \in Calls, chunks'[c] = chunks[c]
  PROVE  Buffered(c)' = Buffered(c)
BY DEF Buffered

LEMMA CoveredStep ==
  ASSUME TypeOK, [Next]_vars, NEW c \in Calls, Progress(c), Covered(c)
  PROVE  Covered(c)'
<1> USE DEF Covered, Found, Pending, Unlinking, Owed
<1>1. CASE Same(c) /\ Kept(c)
  BY <1>1, BufferedSame DEF Same, Kept
<1>2. ASSUME Same(c), NEW ks, Lost(c, ks) PROVE Covered(c)'
  BY <1>2, BufferedSame DEF Same, Lost
<1>3. CASE CallStep(c)
  <2> USE DEF TypeOK, loop, reading, unlink, Goes, Waiting
  <2>1. CASE Refuse(c)
    BY <2>1 DEF Refuse
  <2>2. CASE Start(c)
    BY <2>2 DEF Start, Progress
  <2>3. CASE ScanReplies(c)
    <3>1. PICK ks \in SUBSET stored :
            /\ due'[c] = Owed(c) \ ks
            /\ chunks' = [chunks EXCEPT ![c] = Append(@, ks)]
            /\ stream'[c] = "drained" => due'[c] = {}
      BY <2>3 DEF ScanReplies
    <3>2. Buffered(c)' = ks \union Buffered(c)
      BY <3>1, BufferedAdded
    <3>3. /\ stored' = stored /\ gone' = gone /\ phase' = phase /\ yielded' = yielded
          /\ batch' = batch /\ wire' = wire /\ stream[c] # "drained"
          /\ replies'[c] # 0
      BY <2>3 DEF ScanReplies
    <3>4. QED
      BY <3>1, <3>2, <3>3
  <2>4. CASE ScanOn(c) \/ ScanFails(c)
    BY <2>4, BufferedSame DEF ScanOn, ScanFails
  <2>5. CASE Yield(c)
    BY <2>5, BufferedTaken DEF Yield
  <2>6. CASE Skip(c) \/ Unlink(c)
    <3>1. CASE Skip(c)
      BY <3>1, BufferedTaken DEF Skip
    <3>2. CASE Unlink(c)
      BY <3>2, BufferedTaken DEF Unlink
    <3>3. QED
      BY <2>6, <3>1, <3>2
  <2>7. CASE Finish(c) \/ Break(c)
    BY <2>7, BufferedSame DEF Finish, Break
  <2>8. CASE UnlinkResent(c) \/ UnlinkReplies(c) \/ UnlinkFails(c)
    BY <2>8, BufferedSame DEF UnlinkResent, UnlinkReplies, UnlinkFails
  <2>9. QED
    BY <1>3, <2>1, <2>2, <2>3, <2>4, <2>5, <2>6, <2>7, <2>8 DEF CallStep
<1>4. CASE UnlinkRuns(c)
  <2>1. Lost(c, batch[c])
    BY <1>4, LosePointwise DEF UnlinkRuns
  <2>2. QED
    BY <1>4, <2>1, BufferedSame DEF UnlinkRuns, Lost, loop
<1>5. QED
  BY <1>1, <1>2, <1>3, <1>4, Moves

-------------------------------------------------------------------------------

LEMMA InvInit == Init => IInv
BY IterationAssumption, NoChunks, CallsApart
   DEF Init, IInv, TypeOK, Progress, Covered, Counted

LEMMA InvStep == IInv /\ [Next]_vars => IInv'
BY TypeStep, ProgressStep, CoveredStep, CountedStep DEF IInv

THEOREM Invariance == Spec => []IInv
BY InvInit, InvStep, PTL DEF Spec

(* The state of every call, its stream and its UNLINK is well-typed, the   *)
(* stream never buffers more than it may, and no UNLINK is without keys    *)
(* (scan and flushNamespace, cache.service.ts:541-554 and 614-637).        *)
THEOREM TypeCorrect == Spec => []TypeOK
BY Invariance, PTL DEF IInv

(* A flush that resolved has removed what was there when it was called:    *)
(* the loop of flushNamespace loses no key (cache.service.ts:630-635).     *)
THEOREM FlushComplete == Spec => []FlushLeavesOnlyNew
<1>1. IInv => FlushLeavesOnlyNew
  <2> SUFFICES ASSUME IInv, NEW c \in Flushes, phase[c] = "done"
               PROVE  stored \subseteq gone[c]
    BY DEF FlushLeavesOnlyNew
  <2>1. Found(c) = {}
    BY CallsApart, NoChunks DEF IInv, Progress, Found, Pending, Unlinking, Buffered
  <2>2. QED
    BY <2>1, CallsApart DEF IInv, Covered, TypeOK
<1>2. QED
  BY <1>1, Invariance, PTL

(* The total of a flush is what its UNLINKs removed, or less when a reply  *)
(* was lost (cache.service.ts:633).                                        *)
THEOREM FlushCounted == Spec => []FlushCounts
<1>1. IInv => FlushCounts
  <2> SUFFICES ASSUME IInv, NEW c \in Flushes
               PROVE  /\ total[c] <= removed[c]
                      /\ phase[c] = "done" /\ resends[c] = 0 => total[c] = removed[c]
    BY DEF FlushCounts
  <2>1. total[c] \in Nat /\ removed[c] \in Nat /\ Counted(c) /\ Progress(c)
    BY CallsApart DEF IInv, TypeOK
  <2>2. QED
    BY <2>1 DEF Counted, Progress
<1>2. QED
  BY <1>1, Invariance, PTL

(* A scan that ended has yielded the keys that stayed: for-await loses no  *)
(* chunk the stream read ahead (cache.service.ts:548-553).                 *)
THEOREM ScanComplete == Spec => []ScanYieldsStable
<1>1. IInv => ScanYieldsStable
  <2> SUFFICES ASSUME IInv, NEW c \in Scans, phase[c] = "done"
               PROVE  Keys \ gone[c] \subseteq yielded[c]
    BY DEF ScanYieldsStable
  <2>1. Found(c) = yielded[c]
    BY CallsApart, NoChunks DEF IInv, Progress, Found, Pending, Unlinking, Buffered
  <2>2. QED
    BY <2>1, CallsApart DEF IInv, Covered
<1>2. QED
  BY <1>1, Invariance, PTL
===============================================================================
