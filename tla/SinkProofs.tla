----------------------------- MODULE SinkProofs -----------------------------
(***************************************************************************)
(* The sink's write path for every set of sessions, chunks and uploads.    *)
(* The first part holds whatever saves fail; the second is what the sink's *)
(* answers are worth when a snapshot is configured and each save that ends *)
(* has replaced it, also one that raises (Reliable);                       *)
(* the third is where the sink's transcripts come from, whatever saves     *)
(* fail, and what an acknowledged final chunk is owed. Nothing here looks  *)
(* into Assemble: the argument is about which logs it is applied to.       *)
(***************************************************************************)
EXTENDS Sink, StoreProofs

\* The handlers use the store through its operations only: every step of the
\* sink is a step of the store, or leaves the store alone.
LEMMA SinkStepIsStoreStep ==
  ASSUME [Next]_vars PROVE [StoreNext]_storeVars
<1>1. ASSUME NEW c \in Chunk, StoreLine(c) PROVE [StoreNext]_storeVars
  BY <1>1 DEF StoreLine, StoreNext
<1>2. ASSUME AckFinalLine PROVE [StoreNext]_storeVars
  BY <1>2 DEF AckFinalLine, StoreNext
<1>3. ASSUME NEW d, NEW signed \in BOOLEAN, PostNewTranscript(d, signed)
      PROVE  [StoreNext]_storeVars
  BY <1>3 DEF PostNewTranscript, StoreNext
<1>4. ASSUME AppendSaved \/ AssembledSaved \/ PostedSaved \/ SaveFails
      PROVE  [StoreNext]_storeVars
  BY <1>4 DEF AppendSaved, AssembledSaved, PostedSaved, SaveFails, SaveEnds, StoreNext
<1>5. ASSUME SinkCrash \/ SinkStart PROVE [StoreNext]_storeVars
  BY <1>5 DEF SinkCrash, SinkStart, StoreNext
<1>6. ASSUME \/ \E k \in Key, h \in Hive : OpenStream(k, h)
             \/ RejectHeader \/ RejectTranscript
             \/ RejectMalformedLine \/ RejectOutOfScopeLine \/ RejectOutOfOrderLine
             \/ \E c \in Chunk : ResendLine(c) \/ ConflictLine(c)
             \/ AckLine \/ AckFinalLineKnown \/ EndStream
             \/ \E d \in Upload : PostKnownTranscript(d)
      PROVE  UNCHANGED storeVars
  BY <1>6 DEF OpenStream, RejectHeader, RejectTranscript, RejectMalformedLine,
              RejectOutOfScopeLine, RejectOutOfOrderLine, RejectLine, ResendLine,
              ConflictLine, AckLine, AckFinalLineKnown, EndStream, PostKnownTranscript
<1>7. ASSUME UNCHANGED vars PROVE UNCHANGED storeVars
  BY <1>7 DEF vars
<1> QED BY <1>1, <1>2, <1>3, <1>4, <1>5, <1>6, <1>7 DEF Next, HandleStream

\* The sink's store is a Store, so every theorem about the store is one about
\* the sink.
THEOREM SinkUsesStore == Spec => StoreSpec
<1>1. Init => StoreInit
  BY DEF Init
<1>2. [Next]_vars => [StoreNext]_storeVars
  BY SinkStepIsStoreStep
<1> QED BY <1>1, <1>2, PTL DEF Spec, StoreSpec

\* In the sink, whatever saves fail and whenever it restarts: one chunk per seq
\* in every log, and a snapshot the process has caught up with.
THEOREM SinkLogUnambiguous == Spec => [](LogUnambiguous /\ DiskBehindMemory)
<1>1. StoreInv => LogUnambiguous /\ DiskBehindMemory
  BY DEF StoreInv
<1> QED BY <1>1, SinkUsesStore, StoreInvariant, PTL

\* And a snapshot that can be read has all that any readable one before it had.
THEOREM SinkDurable == Spec => ReadableAppendOnly
BY SinkUsesStore, StoreDurable

\* Where writes are whole, nothing ever leaves the snapshot.
THEOREM SinkWholeWritesDurable == "short" \notin SaveFaults /\ Spec => DurableAppendOnly
BY SinkUsesStore, WholeWritesDurable

-----------------------------------------------------------------------------
LEMMA MaxSeqType ==
  ASSUME StoreTypeOK, NEW k \in Key
  PROVE  /\ MaxSeq(k) \in Nat \cup {-1}
         /\ \A i \in DOMAIN chunks[k] : chunks[k][i].seq <= MaxSeq(k)
         /\ MaxSeq(k) # -1 => \E i \in DOMAIN chunks[k] : chunks[k][i].seq = MaxSeq(k)
<1> DEFINE n == Len(chunks[k])
           f == [i \in 1..n |-> chunks[k][i].seq]
           S == {-1} \cup {chunks[k][i].seq : i \in DOMAIN chunks[k]}
<1>1. n \in Nat /\ DOMAIN chunks[k] = 1..n
  BY DEF StoreTypeOK
<1>2. \A i \in 1..n : chunks[k][i].seq \in Nat
  BY <1>1, ChunkAssumption DEF StoreTypeOK
<1>3. f \in [1..n -> Int]
  BY <1>2
<1>4. S = {-1} \cup {f[i] : i \in 1..n}
  BY <1>1
<1>5. Max(S) \in S /\ \A x \in S : x <= Max(S)
  <2>1. n \in Nat /\ f \in [1..n -> Int] /\ -1 \in Int
    BY <1>1, <1>3
  <2> HIDE DEF f, S, n
  <2> QED BY <2>1, <1>4, MaxOfImage, Zenon
<1>6. MaxSeq(k) = Max(S)
  BY DEF MaxSeq
<1> QED BY <1>1, <1>2, <1>5, <1>6

\* The types of the sink, and what its handler has set where.
LEMMA TypeStep ==
  ASSUME TypeOK, [Next]_vars PROVE TypeOK'
<1>1. StoreTypeOK'
  BY SinkStepIsStoreStep, StoreTypeStep DEF TypeOK
<1> USE DEF TypeOK, PC
<1>2. ASSUME NEW c \in Chunk, StoreLine(c) PROVE TypeOK'
  BY <1>1, <1>2, ChunkAssumption DEF StoreLine, AppendChunk, InScope, clientVars
<1>3. ASSUME NEW c \in Chunk, ResendLine(c) \/ ConflictLine(c) PROVE TypeOK'
  BY <1>1, <1>3, ChunkAssumption
     DEF ResendLine, ConflictLine, InScope, Fail, HandlerIdle, clientVars, storeVars
<1>4. ASSUME AckLine \/ AckFinalLineKnown PROVE TypeOK'
  BY <1>1, <1>4 DEF AckLine, AckFinalLineKnown, clientVars, storeVars
<1>5. ASSUME AckFinalLine PROVE TypeOK'
  BY <1>1, <1>5 DEF AckFinalLine, PutTranscript, clientVars
<1>6. ASSUME AppendSaved \/ AssembledSaved \/ PostedSaved PROVE TypeOK'
  BY <1>1, <1>6 DEF AppendSaved, AssembledSaved, PostedSaved, Confirm, HandlerIdle,
                    SaveReturns, SaveTears, clientVars
<1>7. ASSUME EndStream PROVE TypeOK'
  <2>1. MaxSeq(key) \in Nat \cup {-1}
    BY <1>7, MaxSeqType DEF EndStream
  <2> QED BY <1>1, <1>7, <2>1 DEF EndStream, HandlerIdle, storeVars
<1>8. ASSUME \E k \in Key, h \in Hive : OpenStream(k, h) PROVE TypeOK'
  BY <1>1, <1>8 DEF OpenStream, storeVars
<1>9. ASSUME \/ RejectHeader \/ RejectTranscript
             \/ RejectMalformedLine \/ RejectOutOfScopeLine \/ RejectOutOfOrderLine
      PROVE  TypeOK'
  BY <1>1, <1>9 DEF RejectHeader, RejectTranscript, RejectMalformedLine,
                    RejectOutOfScopeLine, RejectOutOfOrderLine, RejectLine, Fail,
                    HandlerIdle, storeVars
<1>10. ASSUME NEW d, PostKnownTranscript(d) PROVE TypeOK'
  BY <1>1, <1>10 DEF PostKnownTranscript, Confirm, handlerVars, storeVars
<1>11. ASSUME NEW d, NEW signed \in BOOLEAN, PostNewTranscript(d, signed) PROVE TypeOK'
  BY <1>1, <1>11 DEF PostNewTranscript, PutTranscript
<1>12. ASSUME SaveFails \/ SinkCrash PROVE TypeOK'
  BY <1>1, <1>12 DEF SaveFails, SaveRaises, SaveRaisesLate, SinkCrash, Crash, Fail,
                     HandlerIdle
<1>13. ASSUME SinkStart PROVE TypeOK'
  BY <1>1, <1>13 DEF SinkStart, Start, handlerVars, clientVars
<1>14. ASSUME UNCHANGED vars PROVE TypeOK'
  BY <1>1, <1>14 DEF vars, storeVars, handlerVars, clientVars
<1> HIDE DEF TypeOK, PC
<1> QED BY <1>2, <1>3, <1>4, <1>5, <1>6, <1>7, <1>8, <1>9, <1>10, <1>11, <1>12, <1>13, <1>14
        DEF Next, HandleStream

\* The sink's type invariant.
THEOREM TypeCorrect == Spec => []TypeOK
<1>1. Init => TypeOK
  <2>1. Init => StoreTypeOK
    BY StoreInvInit DEF Init, StoreInv
  <2> QED BY <2>1 DEF Init, StoreInit, TypeOK, PC
<1>2. TypeOK /\ [Next]_vars => TypeOK'
  BY TypeStep
<1> QED BY <1>1, <1>2, PTL DEF Spec

-----------------------------------------------------------------------------
(***************************************************************************)
(* From here on a snapshot is configured and each save that ends has       *)
(* replaced it, though it may raise afterwards, which the client is told   *)
(* as a 500. Crashes remain, at any point of a save.                       *)
(***************************************************************************)
Reliable == Persistent /\ SaveFaults \subseteq {"late_error"}

InLog(logs, c) == \E i \in DOMAIN logs[c.key] : logs[c.key][i] = c

\* What the handler holds and has told: whatever it has collected to say is
\* durable, and X-Sink-Seq is the seq of a durable chunk.
HandlerInv ==
  /\ pc \in {"append", "chunkStored"} => InLog(chunks, current)
  /\ pc = "posted" => doc \in DOMAIN transcripts /\ doc \notin DOMAIN diskTranscripts
  /\ \A c \in acks : InLog(diskChunks, c) /\ c.key = key
  /\ \A c \in acked : InLog(diskChunks, c) /\ c.seq <= highWater[c.key]
  /\ \A d \in confirmed : d \in DOMAIN diskTranscripts
  /\ \A k \in Key : highWater[k] # -1 =>
       \E i \in DOMAIN diskChunks[k] : diskChunks[k][i].seq = highWater[k]

\* AckedDurable is not inductive: an acknowledgement is collected after the
\* chunk's save and sent later, and a resent chunk is acknowledged because
\* memory holds it. What makes both sound is that between saves memory and
\* snapshot agree.
Settled == up /\ ~saving => diskChunks = chunks /\ diskTranscripts = transcripts

ReliableInv == TypeOK /\ StoreInv /\ ~torn /\ Settled /\ HandlerInv

\* What is in a log is in every log that extends it.
LEMMA ExtendsKeeps ==
  ASSUME NEW logs \in [Key -> Seq(Chunk)], NEW logs2 \in [Key -> Seq(Chunk)],
         NEW docs, NEW docs2, Extends(logs, docs, logs2, docs2)
  PROVE  /\ \A k \in Key : \A i \in DOMAIN logs[k] :
              i \in DOMAIN logs2[k] /\ logs2[k][i] = logs[k][i]
         /\ \A c \in Chunk : InLog(logs, c) => InLog(logs2, c)
         /\ \A d \in DOMAIN docs : d \in DOMAIN docs2
<1>1. ASSUME NEW k \in Key, NEW i \in DOMAIN logs[k]
      PROVE  i \in DOMAIN logs2[k] /\ logs2[k][i] = logs[k][i]
  <2>1. logs[k] \in Seq(Chunk) /\ logs2[k] \in Seq(Chunk) /\ IsPrefix(logs[k], logs2[k])
    BY DEF Extends
  <2>2. Len(logs[k]) <= Len(logs2[k]) /\ \A j \in 1..Len(logs[k]) : logs[k][j] = logs2[k][j]
    BY <2>1, PrefixElements
  <2>3. /\ DOMAIN logs[k] = 1..Len(logs[k]) /\ DOMAIN logs2[k] = 1..Len(logs2[k])
        /\ Len(logs[k]) \in Nat /\ Len(logs2[k]) \in Nat
    BY <2>1
  <2> QED BY <2>2, <2>3
<1>2. ASSUME NEW c \in Chunk, InLog(logs, c) PROVE InLog(logs2, c)
  BY <1>1, <1>2, ChunkAssumption DEF InLog
<1>3. \A d \in DOMAIN docs : d \in DOMAIN docs2
  BY DEF Extends
<1> QED BY <1>1, <1>2, <1>3

\* Each save makes the snapshot the memory, also one that raises afterwards.
LEMMA ReliableSave ==
  ASSUME Reliable, SaveEnds \/ SaveReturns \/ SaveRaises \/ SaveRaisesLate \/ SaveTears
  PROVE  /\ diskChunks' = chunks /\ diskTranscripts' = transcripts /\ torn' = FALSE
         /\ UNCHANGED <<chunks, transcripts>>
BY DEF Reliable, SaveEnds, SaveReturns, SaveRaises, SaveRaisesLate, SaveTears,
       ReplaceSnapshot, memory

\* The store's part of ReliableInv.
LEMMA ReliableStoreStep ==
  ASSUME Reliable, ReliableInv, [Next]_vars
  PROVE  /\ TypeOK' /\ StoreInv'
         /\ ~torn' /\ Settled'
         /\ Extends(diskChunks, diskTranscripts, diskChunks', diskTranscripts')
<1>1. TypeOK' /\ StoreInv'
  BY TypeStep, SinkStepIsStoreStep, StoreInvStep DEF ReliableInv
<1>2. Extends(diskChunks, diskTranscripts, diskChunks', diskTranscripts')
  <2>1. "short" \notin SaveFaults
    BY DEF Reliable
  <2> QED BY <2>1, SinkStepIsStoreStep, DurableStep DEF ReliableInv
<1>3. ~torn' /\ Settled'
  <2> USE DEF Settled
  <2>1. [StoreNext]_storeVars
    BY SinkStepIsStoreStep
  <2>2. CASE SaveEnds
    BY <2>2, ReliableSave
  <2>3. CASE (\E c \in Chunk : AppendChunk(c))
             \/ (\E d : \E signed \in BOOLEAN : PutTranscript(d, signed))
    <3>1. saving' = TRUE /\ torn' = torn
      BY <2>3 DEF AppendChunk, PutTranscript, disk
    <3> QED BY <3>1 DEF ReliableInv
  <2>4. CASE Crash
    BY <2>4 DEF Crash, ReplaceSnapshot, disk, ReliableInv
  <2>5. CASE Start
    BY <2>5 DEF Start, disk, ReliableInv
  <2>6. CASE UNCHANGED storeVars
    BY <2>6 DEF storeVars, ReliableInv
  <2> QED BY <2>1, <2>2, <2>3, <2>4, <2>5, <2>6 DEF StoreNext
<1> QED BY <1>1, <1>2, <1>3

LEMMA AppendKeeps ==
  ASSUME StoreTypeOK, NEW c \in Chunk, AppendChunk(c)
  PROVE  InLog(chunks', c)
<1>1. c.key \in Key /\ chunks[c.key] \in Seq(Chunk)
  BY ChunkAssumption DEF StoreTypeOK
<1>2. chunks'[c.key] = Append(chunks[c.key], c)
  BY <1>1 DEF AppendChunk, StoreTypeOK
<1>3. /\ Len(chunks[c.key]) + 1 \in DOMAIN Append(chunks[c.key], c)
      /\ Append(chunks[c.key], c)[Len(chunks[c.key]) + 1] = c
  BY <1>1
<1> QED BY <1>2, <1>3 DEF InLog

\* A step that leaves the handler's collected answers and the history alone.
LEMMA HandlerQuiet ==
  ASSUME Reliable, ReliableInv, [Next]_vars,
         acks' = acks \/ acks' = {}, acks' = {} \/ key' = key,
         UNCHANGED <<acked, highWater>>,
         confirmed' = confirmed,
         pc' \in {"append", "chunkStored"} => InLog(chunks', current'),
         pc' = "posted" => doc' \in DOMAIN transcripts' /\ doc' \notin DOMAIN diskTranscripts'
  PROVE  HandlerInv'
<1>1. /\ diskChunks \in [Key -> Seq(Chunk)] /\ diskChunks' \in [Key -> Seq(Chunk)]
      /\ acks \subseteq Chunk /\ acked \subseteq Chunk
      /\ Extends(diskChunks, diskTranscripts, diskChunks', diskTranscripts')
  BY ReliableStoreStep DEF ReliableInv, StoreInv, StoreTypeOK, TypeOK
<1>2. /\ \A k \in Key : \A i \in DOMAIN diskChunks[k] :
           i \in DOMAIN diskChunks'[k] /\ diskChunks'[k][i] = diskChunks[k][i]
      /\ \A c \in Chunk : InLog(diskChunks, c) => InLog(diskChunks', c)
      /\ \A d \in DOMAIN diskTranscripts : d \in DOMAIN diskTranscripts'
  BY <1>1, ExtendsKeeps
<1>3. \A c \in acks' : InLog(diskChunks', c) /\ c.key = key'
  BY <1>1, <1>2 DEF ReliableInv, HandlerInv
<1>4. \A c \in acked' : InLog(diskChunks', c) /\ c.seq <= highWater'[c.key]
  BY <1>1, <1>2 DEF ReliableInv, HandlerInv
<1>5. \A d \in confirmed' : d \in DOMAIN diskTranscripts'
  BY <1>2 DEF ReliableInv, HandlerInv
<1>6. \A k \in Key : highWater'[k] # -1 =>
        \E i \in DOMAIN diskChunks'[k] : diskChunks'[k][i].seq = highWater'[k]
  BY <1>2 DEF ReliableInv, HandlerInv
<1> QED BY <1>3, <1>4, <1>5, <1>6 DEF HandlerInv, InLog

\* Each step keeps HandlerInv. Only AckLine, AckFinalLineKnown, AckFinalLine,
\* EndStream, PostKnownTranscript and PostedSaved add to what must be durable.
LEMMA HandlerStep ==
  ASSUME Reliable, ReliableInv, [Next]_vars
  PROVE  HandlerInv'
<1>1. /\ chunks \in [Key -> Seq(Chunk)] /\ chunks' \in [Key -> Seq(Chunk)]
      /\ diskChunks \in [Key -> Seq(Chunk)] /\ diskChunks' \in [Key -> Seq(Chunk)]
      /\ acks \subseteq Chunk /\ acked \subseteq Chunk
      /\ pc = "idle" \/ up
      /\ pc = "idle" => acks = {}
      /\ saving <=> pc \in {"append", "assembled", "posted"}
  BY ReliableStoreStep DEF ReliableInv, StoreInv, StoreTypeOK, TypeOK
<1>2. ASSUME NEW c \in Chunk, StoreLine(c) PROVE HandlerInv'
  <2>1. InLog(chunks', c)
    BY <1>2, AppendKeeps DEF StoreLine, ReliableInv, TypeOK
  <2> QED BY <1>2, <2>1, HandlerQuiet DEF StoreLine, clientVars
<1>3. ASSUME NEW c \in Chunk, ResendLine(c) PROVE HandlerInv'
  <2>1. InLog(chunks', c)
    BY <1>3 DEF ResendLine, Present, InLog, storeVars
  <2> QED BY <1>3, <2>1, HandlerQuiet DEF ResendLine, clientVars
<1>4. ASSUME AppendSaved PROVE HandlerInv'
  <2>1. UNCHANGED chunks /\ InLog(chunks, current)
    BY <1>4, ReliableSave DEF AppendSaved, ReliableInv, HandlerInv
  <2> QED BY <1>4, <2>1, HandlerQuiet DEF AppendSaved, clientVars, InLog
<1>5. ASSUME \/ \E c \in Chunk : ConflictLine(c)
             \/ RejectHeader \/ RejectTranscript \/ SaveFails \/ SinkCrash
             \/ RejectMalformedLine \/ RejectOutOfScopeLine \/ RejectOutOfOrderLine
      PROVE  HandlerInv'
  <2>1. acks' = {} /\ pc' = "idle" /\ UNCHANGED <<acked, confirmed, highWater>>
    BY <1>5 DEF ConflictLine, RejectHeader, RejectTranscript, SaveFails, SinkCrash,
                RejectMalformedLine, RejectOutOfScopeLine, RejectOutOfOrderLine,
                RejectLine, Fail, HandlerIdle
  <2> QED BY <2>1, HandlerQuiet
<1>6. ASSUME NEW k \in Key, NEW h \in Hive, OpenStream(k, h) PROVE HandlerInv'
  <2>1. acks = {} /\ acks' = {}
    BY <1>1, <1>6 DEF OpenStream
  <2> QED BY <1>6, <2>1, HandlerQuiet DEF OpenStream
<1>7. ASSUME AckLine \/ AckFinalLineKnown \/ AckFinalLine PROVE HandlerInv'
  <2>1. /\ acks' = acks \cup {current} /\ pc' \in {"lines", "assembled"} /\ key' = key
        /\ UNCHANGED <<chunks, diskChunks, diskTranscripts, acked, confirmed, highWater>>
        /\ pc = "chunkStored"
    BY <1>7 DEF AckLine, AckFinalLineKnown, AckFinalLine, PutTranscript, disk, storeVars,
                clientVars
  <2>2. current \in Chunk /\ current.key = key /\ InLog(chunks, current)
    BY <2>1 DEF ReliableInv, HandlerInv, TypeOK
  <2>3. InLog(diskChunks, current)
    BY <1>1, <2>1, <2>2 DEF ReliableInv, Settled
  <2>4. \A c \in acks' : InLog(diskChunks', c) /\ c.key = key'
    BY <2>1, <2>2, <2>3 DEF ReliableInv, HandlerInv, InLog
  <2> QED BY <2>1, <2>4 DEF ReliableInv, HandlerInv, InLog
<1>8. ASSUME AssembledSaved PROVE HandlerInv'
  <2>1. pc' = "lines" /\ UNCHANGED <<key, acks, acked, confirmed, highWater>>
    BY <1>8 DEF AssembledSaved, clientVars
  <2> QED BY <2>1, HandlerQuiet
<1>9. ASSUME EndStream PROVE HandlerInv'
  <2>1. /\ pc = "lines" /\ pc' = "idle" /\ acks' = {} /\ acked' = acked \cup acks
        /\ highWater' = [highWater EXCEPT ![key] = MaxSeq(key)]
        /\ UNCHANGED <<chunks, diskChunks, diskTranscripts, confirmed>>
    BY <1>9 DEF EndStream, HandlerIdle, storeVars
  <2>2. key \in Key /\ diskChunks = chunks
    BY <1>1, <2>1 DEF ReliableInv, TypeOK, Settled
  <2>3. /\ MaxSeq(key) \in Nat \cup {-1}
        /\ \A i \in DOMAIN chunks[key] : chunks[key][i].seq <= MaxSeq(key)
        /\ MaxSeq(key) # -1 => \E i \in DOMAIN chunks[key] : chunks[key][i].seq = MaxSeq(key)
    BY <2>2, MaxSeqType DEF ReliableInv, StoreInv
  <2>4. ASSUME NEW c \in acked' PROVE InLog(diskChunks', c) /\ c.seq <= highWater'[c.key]
    <3>1. c \in Chunk /\ c.key \in Key /\ InLog(diskChunks, c)
      BY <1>1, <2>1, <2>4, ChunkAssumption DEF ReliableInv, HandlerInv
    <3>2. InLog(diskChunks', c)
      BY <2>1, <3>1 DEF InLog
    <3>3. CASE c.key = key
      <4>1. highWater'[c.key] = MaxSeq(key)
        BY <2>1, <2>2, <3>3 DEF ReliableInv, TypeOK
      <4> QED BY <2>2, <2>3, <3>1, <3>2, <3>3, <4>1 DEF InLog
    <3>4. CASE c.key # key
      <4>1. c \in acked /\ highWater'[c.key] = highWater[c.key]
        BY <2>1, <2>4, <3>1, <3>4 DEF ReliableInv, HandlerInv, TypeOK
      <4> QED BY <3>2, <4>1 DEF ReliableInv, HandlerInv
    <3> QED BY <3>3, <3>4
  <2>5. ASSUME NEW k \in Key, highWater'[k] # -1
        PROVE  \E i \in DOMAIN diskChunks'[k] : diskChunks'[k][i].seq = highWater'[k]
    <3>1. CASE k = key
      BY <2>1, <2>2, <2>3, <2>5, <3>1 DEF ReliableInv, TypeOK
    <3>2. CASE k # key
      BY <2>1, <2>5, <3>2 DEF ReliableInv, HandlerInv, TypeOK
    <3> QED BY <3>1, <3>2
  <2> QED BY <2>1, <2>4, <2>5 DEF ReliableInv, HandlerInv
<1>10. ASSUME NEW d, PostKnownTranscript(d) PROVE HandlerInv'
  <2>1. /\ d \in DOMAIN transcripts /\ up /\ pc = "idle" /\ pc' = "idle"
        /\ confirmed' = confirmed \cup {d}
        /\ UNCHANGED <<diskChunks, diskTranscripts, chunks, transcripts, key, acks, acked,
                      highWater>>
    BY <1>10 DEF PostKnownTranscript, Confirm, HasTranscript, handlerVars, storeVars
  <2>2. d \in DOMAIN diskTranscripts
    BY <1>1, <2>1 DEF ReliableInv, Settled
  <2> QED BY <2>1, <2>2 DEF ReliableInv, HandlerInv, InLog
<1>11. ASSUME NEW d, NEW signed \in BOOLEAN, PostNewTranscript(d, signed)
       PROVE  HandlerInv'
  <2>1. /\ up /\ ~saving /\ d \notin DOMAIN transcripts /\ d \in DOMAIN transcripts'
        /\ diskTranscripts' = diskTranscripts /\ doc' = d /\ pc' = "posted"
        /\ UNCHANGED <<key, acks, acked, confirmed, highWater>>
    BY <1>11 DEF PostNewTranscript, PutTranscript, HasTranscript, disk
  <2>2. d \notin DOMAIN diskTranscripts
    BY <2>1 DEF ReliableInv, Settled
  <2> QED BY <2>1, <2>2, HandlerQuiet
<1>12. ASSUME PostedSaved PROVE HandlerInv'
  <2>1. /\ pc = "posted" /\ pc' = "idle" /\ acks' = {} /\ confirmed' = confirmed \cup {doc}
        /\ UNCHANGED <<acked, highWater>>
    BY <1>12 DEF PostedSaved, HandlerIdle, Confirm
  <2>2. diskTranscripts' = transcripts /\ diskChunks' = chunks
    BY <1>12, ReliableSave DEF PostedSaved
  <2>3. doc \in DOMAIN diskTranscripts'
    BY <2>1, <2>2 DEF ReliableInv, HandlerInv
  <2>4. /\ \A k \in Key : \A i \in DOMAIN diskChunks[k] :
             i \in DOMAIN diskChunks'[k] /\ diskChunks'[k][i] = diskChunks[k][i]
        /\ \A c \in Chunk : InLog(diskChunks, c) => InLog(diskChunks', c)
        /\ \A e \in DOMAIN diskTranscripts : e \in DOMAIN diskTranscripts'
    BY <1>1, ReliableStoreStep, ExtendsKeeps
  <2>5. \A c \in acked' : InLog(diskChunks', c) /\ c.seq <= highWater'[c.key]
    BY <1>1, <2>1, <2>4 DEF ReliableInv, HandlerInv
  <2>6. \A k \in Key : highWater'[k] # -1 =>
          \E i \in DOMAIN diskChunks'[k] : diskChunks'[k][i].seq = highWater'[k]
    BY <2>1, <2>4 DEF ReliableInv, HandlerInv
  <2>7. \A e \in confirmed' : e \in DOMAIN diskTranscripts'
    BY <2>1, <2>3, <2>4 DEF ReliableInv, HandlerInv
  <2> QED BY <2>1, <2>5, <2>6, <2>7 DEF HandlerInv
<1>13. ASSUME SinkStart \/ UNCHANGED vars PROVE HandlerInv'
  <2>1. /\ UNCHANGED <<pc, key, acks, current, doc, acked, confirmed, highWater>>
        /\ UNCHANGED <<diskChunks, diskTranscripts>>
    BY <1>13 DEF SinkStart, Start, vars, storeVars, handlerVars, clientVars, disk
  <2>2. pc \in {"append", "chunkStored", "posted"} => UNCHANGED <<chunks, transcripts>>
    BY <1>1, <1>13 DEF SinkStart, Start, vars, storeVars
  <2> QED BY <2>1, <2>2 DEF ReliableInv, HandlerInv, InLog
<1> QED BY <1>2, <1>3, <1>4, <1>5, <1>6, <1>7, <1>8, <1>9, <1>10, <1>11, <1>12, <1>13
        DEF Next, HandleStream

LEMMA ReliableInvariant ==
  ASSUME Reliable PROVE Spec => []ReliableInv
<1>1. Init => ReliableInv
  <2> SUFFICES ASSUME Init PROVE ReliableInv
    OBVIOUS
  <2>2. StoreInv
    BY StoreInvInit DEF Init
  <2>3. TypeOK
    BY <2>2 DEF Init, StoreInit, StoreInv, TypeOK, PC
  <2>4. ~torn /\ Settled
    BY DEF Init, StoreInit, Settled
  <2>5. HandlerInv
    BY DEF Init, HandlerInv
  <2> QED BY <2>2, <2>3, <2>4, <2>5 DEF ReliableInv
<1>2. ReliableInv /\ [Next]_vars => ReliableInv'
  BY ReliableStoreStep, HandlerStep DEF ReliableInv
<1> QED BY <1>1, <1>2, PTL DEF Spec

\* A chunk answered with stored: true is in the snapshot from then on.
THEOREM AckedDurability ==
  ASSUME Reliable PROVE Spec => []AckedDurable
<1>1. ReliableInv => AckedDurable
  BY DEF ReliableInv, HandlerInv, AckedDurable, Durable, InLog
<1> QED BY <1>1, ReliableInvariant, PTL

\* So is a transcript answered with 200 or 201.
THEOREM ConfirmedDurability ==
  ASSUME Reliable PROVE Spec => []ConfirmedDurable
<1>1. ReliableInv => ConfirmedDurable
  BY DEF ReliableInv, HandlerInv, ConfirmedDurable, DurableTranscript
<1> QED BY <1>1, ReliableInvariant, PTL

\* Acknowledgements sent by any two runs of the process agree on every seq.
THEOREM AcknowledgementsAgree ==
  ASSUME Reliable PROVE Spec => []AckedUnambiguous
<1>1. ASSUME ReliableInv PROVE AckedUnambiguous
  <2>1. SUFFICES ASSUME NEW c \in acked, NEW d \in acked, c.key = d.key, c.seq = d.seq
        PROVE  c = d
    BY DEF AckedUnambiguous
  <2>2. c.key \in Key /\ InLog(diskChunks, c) /\ InLog(diskChunks, d)
    BY <1>1, ChunkAssumption DEF ReliableInv, HandlerInv, TypeOK
  <2>3. Unambiguous(diskChunks)
    BY <1>1 DEF ReliableInv, StoreInv, LogUnambiguous
  <2> QED BY <2>1, <2>2, <2>3 DEF InLog, Unambiguous
<1> QED BY <1>1, ReliableInvariant, PTL

\* X-Sink-Seq covers the session's acknowledgements and names a durable chunk.
THEOREM HighWaterIsHonest ==
  ASSUME Reliable PROVE Spec => []HighWaterHonest
<1>1. ReliableInv => HighWaterHonest
  BY DEF ReliableInv, HandlerInv, HighWaterHonest
<1> QED BY <1>1, ReliableInvariant, PTL

\* X-Sink-Seq never goes down, although the code computes it afresh each time.
THEOREM HighWaterIsMonotonic ==
  ASSUME Reliable PROVE Spec => HighWaterMonotonic
<1>1. ASSUME ReliableInv, [Next]_vars, NEW k \in Key PROVE highWater[k] <= highWater'[k]
  <2>1. highWater[k] \in Nat \cup {-1}
    BY <1>1 DEF ReliableInv, TypeOK
  <2>2. CASE EndStream
    <3>1. /\ key \in Key /\ diskChunks = chunks
          /\ highWater' = [highWater EXCEPT ![key] = MaxSeq(key)]
      BY <1>1, <2>2 DEF EndStream, ReliableInv, TypeOK, Settled
    <3>2. CASE k # key
      BY <2>1, <3>1, <3>2 DEF ReliableInv, TypeOK
    <3>3. CASE k = key
      <4>1. /\ MaxSeq(k) \in Nat \cup {-1}
            /\ \A i \in DOMAIN chunks[k] : chunks[k][i].seq <= MaxSeq(k)
        BY <1>1, MaxSeqType DEF ReliableInv, StoreInv
      <4>2. highWater'[k] = MaxSeq(k)
        BY <1>1, <3>1, <3>3 DEF ReliableInv, TypeOK
      <4>3. highWater[k] # -1 =>
              \E i \in DOMAIN chunks[k] : chunks[k][i].seq = highWater[k]
        BY <1>1, <3>1 DEF ReliableInv, HandlerInv
      <4> QED BY <2>1, <4>1, <4>2, <4>3
    <3> QED BY <3>2, <3>3
  <2>3. CASE ~EndStream
    <3>1. highWater' = highWater
      BY <1>1, <2>3
         DEF Next, HandleStream, OpenStream, RejectHeader, RejectMalformedLine,
             RejectOutOfScopeLine, RejectOutOfOrderLine, RejectLine, StoreLine,
             ResendLine, ConflictLine, AppendSaved, AckLine, AckFinalLineKnown,
             AckFinalLine, AssembledSaved, RejectTranscript, PostKnownTranscript,
             PostNewTranscript, PostedSaved, SaveFails, SinkCrash, SinkStart, Fail,
             Confirm, clientVars, vars
    <3> QED BY <2>1, <3>1
  <2> QED BY <2>2, <2>3
<1>2. ReliableInv /\ [Next]_vars => [\A k \in Key : highWater[k] <= highWater'[k]]_vars
  BY <1>1
<1> QED BY <1>2, ReliableInvariant, PTL DEF Spec, HighWaterMonotonic

\* No transcript is reported created after any client was told it is stored.
THEOREM CreatedAtMostOnce ==
  ASSUME Reliable PROVE Spec => CreatedOnce
<1>1. ReliableInv => [pc = "posted" /\ reply'.status = 201 => doc \notin confirmed]_vars
  BY DEF ReliableInv, HandlerInv
<1> QED BY <1>1, ReliableInvariant, PTL DEF Spec, CreatedOnce

-----------------------------------------------------------------------------
(***************************************************************************)
(* Refinement: each step of the sink is one step of DurableLog or none.    *)
(***************************************************************************)

LEMMA InitRefines == Init => Promise!DLInit
BY DEF Init, StoreInit, NoTranscripts, NoChunks, Promise!DLInit

\* What a save in progress will add to the snapshot: exactly the change of the
\* handler's step before it.
PendingInv ==
  /\ pc = "append" =>
       /\ chunks = [diskChunks EXCEPT ![current.key] = Append(@, current)]
       /\ \A i \in DOMAIN diskChunks[current.key] :
            diskChunks[current.key][i].seq # current.seq
       /\ transcripts = diskTranscripts
  /\ pc = "assembled" =>
       /\ chunks = diskChunks
       /\ chunks[key] # <<>>
       /\ doc = Assemble(key, chunks[key])
       /\ DOMAIN transcripts = DOMAIN diskTranscripts \cup {doc}
  /\ pc = "posted" =>
       /\ chunks = diskChunks
       /\ doc \in Upload
       /\ DOMAIN transcripts = DOMAIN diskTranscripts \cup {doc}

LEMMA PendingStep ==
  ASSUME ReliableInv, PendingInv, [Next]_vars PROVE PendingInv'
<1>1. ASSUME NEW c \in Chunk, StoreLine(c) PROVE PendingInv'
  <2>1. /\ diskChunks = chunks /\ diskTranscripts = transcripts
    BY <1>1 DEF StoreLine, AppendChunk, ReliableInv, Settled
  <2> QED BY <1>1, <2>1 DEF StoreLine, AppendChunk, SeqTaken, disk, PendingInv
<1>2. ASSUME AckFinalLine PROVE PendingInv'
  <2>1. /\ diskChunks = chunks /\ diskTranscripts = transcripts
    BY <1>2 DEF AckFinalLine, PutTranscript, ReliableInv, Settled
  <2>2. current.key = key /\ InLog(chunks, current)
    BY <1>2 DEF AckFinalLine, ReliableInv, TypeOK, HandlerInv
  <2>3. chunks[key] # <<>>
    BY <2>2 DEF InLog
  <2>4. DOMAIN transcripts' = DOMAIN transcripts \cup {Assemble(key, chunks[key])}
    BY <1>2 DEF AckFinalLine, PutTranscript
  <2>5. /\ pc' = "assembled" /\ doc' = Assemble(key, chunks[key])
        /\ UNCHANGED <<chunks, diskChunks, diskTranscripts, key>>
    BY <1>2 DEF AckFinalLine, PutTranscript, disk
  <2>6. doc' = Assemble(key, chunks[key])'
    BY <2>5
  <2> QED BY <2>1, <2>3, <2>4, <2>5, <2>6 DEF PendingInv
<1>3. ASSUME NEW d \in Upload, NEW signed \in BOOLEAN, PostNewTranscript(d, signed)
      PROVE  PendingInv'
  <2>1. /\ diskChunks = chunks /\ diskTranscripts = transcripts
    BY <1>3 DEF PostNewTranscript, PutTranscript, ReliableInv, Settled
  <2>2. DOMAIN transcripts' = DOMAIN transcripts \cup {d}
    BY <1>3 DEF PostNewTranscript, PutTranscript
  <2> QED BY <1>3, <2>1, <2>2 DEF PostNewTranscript, PutTranscript, disk, PendingInv
<1>4. CASE UNCHANGED vars
  BY <1>4 DEF PendingInv, vars, storeVars, handlerVars
<1>5. CASE SinkStart
  <2>1. pc = "idle" /\ pc' = "idle"
    BY <1>5 DEF SinkStart, Start, handlerVars, ReliableInv, TypeOK
  <2> QED BY <2>1 DEF PendingInv
<1>6. ASSUME NEW d \in Upload, PostKnownTranscript(d) PROVE PendingInv'
  BY <1>6 DEF PostKnownTranscript, handlerVars, PendingInv
<1>7. ASSUME \/ \E k \in Key, h \in Hive : OpenStream(k, h)
             \/ RejectHeader \/ RejectTranscript
             \/ RejectMalformedLine \/ RejectOutOfScopeLine \/ RejectOutOfOrderLine
             \/ \E c \in Chunk : ResendLine(c) \/ ConflictLine(c)
             \/ AppendSaved \/ AssembledSaved \/ PostedSaved \/ SaveFails
             \/ AckLine \/ AckFinalLineKnown \/ EndStream \/ SinkCrash
      PROVE  PendingInv'
  <2>1. pc' \in {"idle", "lines", "chunkStored"}
    BY <1>7 DEF OpenStream, RejectHeader, RejectTranscript, RejectMalformedLine,
                RejectOutOfScopeLine, RejectOutOfOrderLine, RejectLine, ResendLine,
                ConflictLine, AppendSaved, AssembledSaved, PostedSaved, SaveFails,
                AckLine, AckFinalLineKnown, EndStream, SinkCrash, Fail, HandlerIdle
  <2> QED BY <2>1 DEF PendingInv
<1> QED BY <1>1, <1>2, <1>3, <1>4, <1>5, <1>6, <1>7 DEF Next, HandleStream

LEMMA PendingInvariant ==
  ASSUME Reliable PROVE Spec => []PendingInv
<1>1. Init => PendingInv
  BY DEF Init, PendingInv
<1>2. ReliableInv /\ PendingInv /\ [Next]_vars => PendingInv'
  BY PendingStep
<1> QED BY <1>1, <1>2, ReliableInvariant, PTL DEF Spec

\* The save of a step, or an error or a crash after its rename, is the abstract
\* step.
LEMMA SaveRefines ==
  ASSUME ReliableInv, PendingInv, saving, pc \in {"append", "assembled", "posted"},
         diskChunks' = chunks, diskTranscripts' = transcripts,
         UNCHANGED <<acked, confirmed>>
  PROVE  Promise!DLNext
<1>1. CASE pc = "append"
  <2>1. current \in Chunk
    BY <1>1 DEF ReliableInv, TypeOK
  <2>2. Promise!Commit(current)
    BY <1>1 DEF PendingInv, Promise!Commit
  <2> QED BY <2>1, <2>2 DEF Promise!DLNext
<1>2. CASE pc = "assembled"
  <2>1. key \in Key
    BY <1>2 DEF ReliableInv, TypeOK
  <2>2. Promise!PublishSession(key)
    BY <1>2 DEF PendingInv, Promise!PublishSession, Promise!Publish
  <2> QED BY <2>1, <2>2 DEF Promise!DLNext
<1>3. CASE pc = "posted"
  <2>1. doc \in Upload /\ Promise!Publish(doc)
    BY <1>3 DEF PendingInv, Promise!Publish
  <2> QED BY <2>1 DEF Promise!DLNext, Promise!PublishUpload
<1> QED BY <1>1, <1>2, <1>3

LEMMA StepRefines ==
  ASSUME Reliable, ReliableInv, PendingInv, [Next]_vars
  PROVE  [Promise!DLNext]_(Promise!dlVars)
<1>1. pc \in {"append", "assembled", "posted"} <=> saving
  BY DEF ReliableInv, TypeOK
<1>2. ASSUME AppendSaved \/ AssembledSaved PROVE Promise!DLNext
  BY <1>1, <1>2, ReliableSave, SaveRefines DEF AppendSaved, AssembledSaved, clientVars
<1>3. ASSUME PostedSaved PROVE Promise!DLNext
  <2>1. /\ pc = "posted" /\ confirmed' = confirmed \cup {doc} /\ acked' = acked
        /\ diskChunks' = chunks /\ diskTranscripts' = transcripts
    BY <1>3, ReliableSave DEF PostedSaved, Confirm
  <2>2. doc \in Upload /\ Promise!PublishAndConfirm(doc)
    BY <2>1 DEF PendingInv, Promise!PublishAndConfirm
  <2> QED BY <2>2 DEF Promise!DLNext
<1>4. ASSUME SaveFails PROVE Promise!DLNext
  <2>1. UNCHANGED <<acked, confirmed>> /\ saving
    BY <1>1, <1>4 DEF SaveFails, Fail
  <2> QED BY <1>4, <2>1, ReliableSave, SaveRefines DEF SaveFails
<1>5. ASSUME SinkCrash PROVE [Promise!DLNext]_(Promise!dlVars)
  <2>1. UNCHANGED <<acked, confirmed>>
    BY <1>5 DEF SinkCrash
  <2>2. CASE UNCHANGED disk
    BY <2>1, <2>2 DEF disk, Promise!dlVars
  <2>3. CASE saving /\ ReplaceSnapshot
    <3>1. diskChunks' = chunks /\ diskTranscripts' = transcripts
      BY <2>3 DEF ReplaceSnapshot, Reliable
    <3> QED BY <1>1, <2>1, <2>3, <3>1, SaveRefines
  <2> QED BY <1>5, <2>2, <2>3 DEF SinkCrash, Crash
<1>6. ASSUME EndStream PROVE Promise!DLNext
  <2>1. acks \in SUBSET Chunk
    BY DEF ReliableInv, TypeOK
  <2>2. Promise!Acknowledge(acks)
    BY <1>6 DEF EndStream, storeVars, ReliableInv, HandlerInv, InLog, Promise!Acknowledge
  <2> QED BY <2>1, <2>2 DEF Promise!DLNext
<1>7. ASSUME NEW d \in Upload, PostKnownTranscript(d) PROVE Promise!DLNext
  <2>1. /\ d \in DOMAIN transcripts /\ up /\ pc = "idle"
        /\ confirmed' = confirmed \cup {d}
        /\ UNCHANGED <<diskChunks, diskTranscripts, acked>>
    BY <1>7 DEF PostKnownTranscript, HasTranscript, Confirm, storeVars
  <2>2. d \in DOMAIN diskTranscripts
    BY <1>1, <2>1 DEF ReliableInv, Settled
  <2>3. Promise!ConfirmKnown(d)
    BY <2>1, <2>2 DEF Promise!ConfirmKnown
  <2> QED BY <2>3 DEF Promise!DLNext
<1>8. ASSUME \/ \E k \in Key, h \in Hive : OpenStream(k, h)
             \/ RejectHeader \/ RejectTranscript
             \/ RejectMalformedLine \/ RejectOutOfScopeLine \/ RejectOutOfOrderLine
             \/ \E c \in Chunk : StoreLine(c) \/ ResendLine(c) \/ ConflictLine(c)
             \/ AckLine \/ AckFinalLineKnown \/ AckFinalLine
             \/ \E d \in Upload : \E signed \in BOOLEAN : PostNewTranscript(d, signed)
             \/ SinkStart \/ UNCHANGED vars
      PROVE  UNCHANGED Promise!dlVars
  <2>1. UNCHANGED <<diskChunks, diskTranscripts, acked, confirmed>>
    BY <1>8 DEF OpenStream, RejectHeader, RejectTranscript, RejectMalformedLine,
                RejectOutOfScopeLine, RejectOutOfOrderLine, RejectLine, StoreLine,
                AppendChunk, ResendLine, ConflictLine, AckLine, AckFinalLineKnown,
                AckFinalLine, PostNewTranscript, PutTranscript, SinkStart, Start, Fail,
                vars, storeVars, clientVars, disk
  <2> QED BY <2>1 DEF Promise!dlVars
<1> QED BY <1>2, <1>3, <1>4, <1>5, <1>6, <1>7, <1>8 DEF Next, HandleStream

\* The sink implements DurableLog: what clients see is a durable log per session
\* and durable transcripts, as if memory, saves and crashes did not exist.
THEOREM Refinement ==
  ASSUME Reliable PROVE Spec => ImplementsDurableLog
<1>1. ReliableInv /\ PendingInv /\ [Next]_vars => [Promise!DLNext]_(Promise!dlVars)
  BY StepRefines
<1> QED BY <1>1, InitRefines, ReliableInvariant, PendingInvariant, PTL
        DEF Spec, ImplementsDurableLog, Promise!DLSpec

-----------------------------------------------------------------------------
\* A part of a log is a part of every log that extends it.
LEMMA ExtendsParts ==
  ASSUME NEW logs \in [Key -> Seq(Chunk)], NEW logs2 \in [Key -> Seq(Chunk)],
         NEW docs, NEW docs2, Extends(logs, docs, logs2, docs2),
         NEW k \in Key, NEW n \in DOMAIN logs[k]
  PROVE  n \in DOMAIN logs2[k] /\ SubSeq(logs2[k], 1, n) = SubSeq(logs[k], 1, n)
<1>1. \A i \in DOMAIN logs[k] : i \in DOMAIN logs2[k] /\ logs2[k][i] = logs[k][i]
  BY ExtendsKeeps
<1>2. /\ logs[k] \in Seq(Chunk) /\ logs2[k] \in Seq(Chunk)
      /\ DOMAIN logs[k] = 1..Len(logs[k]) /\ Len(logs[k]) \in Nat
      /\ DOMAIN logs2[k] = 1..Len(logs2[k]) /\ Len(logs2[k]) \in Nat
  OBVIOUS
<1>3. ASSUME NEW i \in 1..n PROVE i \in DOMAIN logs[k]
  <2>1. n \in 1..Len(logs[k])
    BY <1>2
  <2> QED BY <1>2, <2>1
<1>4. \A i \in 1..n : logs2[k][i] = logs[k][i]
  BY <1>1, <1>3
<1> DEFINE a == logs[k]
           b == logs2[k]
<1>5. a \in Seq(Chunk) /\ b \in Seq(Chunk) /\ n \in 1..Len(a) /\ n \in 1..Len(b)
  BY <1>1, <1>2
<1>6. \A i \in 1..n : b[i] = a[i]
  BY <1>4
<1> HIDE DEF a, b
<1>7. SubSeq(a, 1, n) = [i \in 1..n |-> a[i]]
  BY <1>5
<1>8. SubSeq(b, 1, n) = [i \in 1..n |-> b[i]]
  BY <1>5
<1>9. SubSeq(b, 1, n) = SubSeq(a, 1, n)
  BY <1>6, <1>7, <1>8
<1> QED BY <1>1, <1>9 DEF a, b

LEMMA ExplainedByMore ==
  ASSUME NEW logs \in [Key -> Seq(Chunk)], NEW logs2 \in [Key -> Seq(Chunk)],
         NEW docs, NEW docs2, Extends(logs, docs, logs2, docs2), Explained(docs, logs)
  PROVE  Explained(docs, logs2)
<1> SUFFICES ASSUME NEW d \in DOMAIN docs, d \notin Upload
    PROVE  \E k \in Key : \E n \in DOMAIN logs2[k] : d = Assemble(k, SubSeq(logs2[k], 1, n))
  BY DEF Explained
<1>0. PICK k \in Key : \E n \in DOMAIN logs[k] : d = Assemble(k, SubSeq(logs[k], 1, n))
  BY DEF Explained
<1>1. PICK n \in DOMAIN logs[k] : d = Assemble(k, SubSeq(logs[k], 1, n))
  BY <1>0
<1>2. n \in DOMAIN logs2[k] /\ SubSeq(logs2[k], 1, n) = SubSeq(logs[k], 1, n)
  BY ExtendsParts
<1>3. d = Assemble(k, SubSeq(logs2[k], 1, n))
  BY <1>1, <1>2
<1> QED BY <1>2, <1>3

\* A whole log is one of its parts.
LEMMA WholeLog ==
  ASSUME NEW log \in Seq(Chunk), log # <<>>
  PROVE  Len(log) \in DOMAIN log /\ SubSeq(log, 1, Len(log)) = log
<1>1. Len(log) \in Nat /\ Len(log) # 0 /\ DOMAIN log = 1..Len(log)
  BY EmptySeq
<1> QED BY <1>1

LEMMA AppendExtends ==
  ASSUME StoreTypeOK, NEW c \in Chunk, AppendChunk(c)
  PROVE  Extends(chunks, transcripts, chunks', transcripts)
<1>1. SUFFICES ASSUME NEW k \in Key PROVE IsPrefix(chunks[k], chunks'[k])
  BY DEF Extends
<1>2. chunks[k] \in Seq(Chunk) /\ IsPrefix(chunks[k], chunks[k])
  BY PrefixReflexive DEF StoreTypeOK
<1>3. chunks'[k] = chunks[k] \/ chunks'[k] = Append(chunks[k], c)
  BY DEF AppendChunk, StoreTypeOK
<1> QED BY <1>2, <1>3, PrefixOfAppend

\* A handler that stores or acknowledges a chunk has a log that is not empty.
LogStarted == pc \in {"append", "chunkStored"} => chunks[key] # <<>>

LEMMA LogStartedStep ==
  ASSUME TypeOK, LogStarted, [Next]_vars PROVE LogStarted'
<1>1. ASSUME NEW c \in Chunk, StoreLine(c) PROVE LogStarted'
  <2>1. key' = key /\ c.key = key /\ key \in Key /\ chunks[key] \in Seq(Chunk)
    BY <1>1, ChunkAssumption DEF StoreLine, InScope, TypeOK, StoreTypeOK
  <2>2. chunks'[key] = Append(chunks[key], c)
    BY <1>1, <2>1 DEF StoreLine, AppendChunk, TypeOK, StoreTypeOK
  <2> QED BY <2>1, <2>2 DEF LogStarted
<1>2. ASSUME NEW c \in Chunk, ResendLine(c) PROVE LogStarted'
  <2>1. key' = key /\ c.key = key /\ chunks' = chunks /\ chunks[key] \in Seq(Chunk)
    BY <1>2, ChunkAssumption DEF ResendLine, InScope, storeVars, TypeOK, StoreTypeOK
  <2>2. \E i \in DOMAIN chunks[key] : chunks[key][i] = c
    BY <1>2, <2>1 DEF ResendLine, Present
  <2> QED BY <2>1, <2>2 DEF LogStarted
<1>3. ASSUME AppendSaved PROVE LogStarted'
  BY <1>3 DEF AppendSaved, SaveReturns, SaveTears, memory, LogStarted
<1>4. ASSUME pc' \notin {"append", "chunkStored"} PROVE LogStarted'
  BY <1>4 DEF LogStarted
<1>5. ASSUME \/ \E k \in Key, h \in Hive : OpenStream(k, h)
             \/ RejectHeader \/ RejectTranscript \/ SaveFails \/ SinkCrash
             \/ RejectMalformedLine \/ RejectOutOfScopeLine \/ RejectOutOfOrderLine
             \/ \E c \in Chunk : ConflictLine(c)
             \/ AckLine \/ AckFinalLineKnown \/ AckFinalLine \/ AssembledSaved
             \/ EndStream \/ PostedSaved
             \/ \E d \in Upload :
                  PostKnownTranscript(d) \/ \E s \in BOOLEAN : PostNewTranscript(d, s)
      PROVE  pc' \notin {"append", "chunkStored"}
  BY <1>5 DEF OpenStream, RejectHeader, RejectTranscript, SaveFails, SinkCrash,
              RejectMalformedLine, RejectOutOfScopeLine, RejectOutOfOrderLine, RejectLine,
              ConflictLine, Fail, HandlerIdle, AckLine, AckFinalLineKnown, AckFinalLine,
              AssembledSaved, EndStream, PostedSaved, PostKnownTranscript,
              PostNewTranscript, handlerVars
<1>6. ASSUME SinkStart PROVE pc' \notin {"append", "chunkStored"}
  BY <1>6 DEF SinkStart, Start, handlerVars, TypeOK
<1>7. ASSUME UNCHANGED vars PROVE LogStarted'
  BY <1>7 DEF vars, storeVars, handlerVars, LogStarted
<1> QED BY <1>1, <1>2, <1>3, <1>4, <1>5, <1>6, <1>7 DEF Next, HandleStream

ProvenanceInv == TypeOK /\ LogStarted /\ Provenance

\* Only three actions store a transcript, and each has its reason at hand.
LEMMA ProvenanceStep ==
  ASSUME ProvenanceInv, [Next]_vars PROVE Provenance'
<1>1. /\ chunks \in [Key -> Seq(Chunk)] /\ diskChunks \in [Key -> Seq(Chunk)]
      /\ StoreTypeOK /\ StoreTypeOK' /\ TypeOK /\ LogStarted /\ Provenance
      /\ chunks' \in [Key -> Seq(Chunk)] /\ diskChunks' \in [Key -> Seq(Chunk)]
  BY TypeStep DEF ProvenanceInv, TypeOK, StoreTypeOK
<1>2. ASSUME NEW c \in Chunk, StoreLine(c) PROVE Provenance'
  <2>1. AppendChunk(c) /\ UNCHANGED <<transcripts, diskTranscripts, diskChunks>>
    BY <1>2 DEF StoreLine, AppendChunk, disk
  <2>2. Explained(transcripts, chunks')
    BY <1>1, <2>1, AppendExtends, ExplainedByMore DEF Provenance
  <2> QED BY <1>1, <2>1, <2>2 DEF Provenance, Explained
<1>3. ASSUME NEW d, NEW signed \in BOOLEAN, PutTranscript(d, signed),
             \/ d \in Upload
             \/ \E k \in Key : \E n \in DOMAIN chunks[k] :
                  d = Assemble(k, SubSeq(chunks[k], 1, n))
      PROVE  Provenance'
  <2>1. /\ UNCHANGED <<chunks, diskTranscripts, diskChunks>>
        /\ DOMAIN transcripts' = DOMAIN transcripts \cup {d}
    BY <1>3 DEF PutTranscript, disk
  <2> QED BY <1>1, <1>3, <2>1 DEF Provenance, Explained
<1>4. ASSUME AckFinalLine PROVE Provenance'
  <2>1. key \in Key /\ PutTranscript(Assemble(key, chunks[key]), FALSE)
    BY <1>1, <1>4 DEF AckFinalLine, TypeOK
  <2>2. chunks[key] \in Seq(Chunk) /\ chunks[key] # <<>>
    BY <1>1, <1>4, <2>1 DEF AckFinalLine, LogStarted
  <2>3. /\ Len(chunks[key]) \in DOMAIN chunks[key]
        /\ SubSeq(chunks[key], 1, Len(chunks[key])) = chunks[key]
    BY <2>2, WholeLog
  <2>4. \E k \in Key : \E n \in DOMAIN chunks[k] :
          Assemble(key, chunks[key]) = Assemble(k, SubSeq(chunks[k], 1, n))
    BY <2>1, <2>3
  <2> QED BY <1>3, <2>1, <2>4
<1>5. ASSUME NEW d \in Upload, NEW signed \in BOOLEAN, PostNewTranscript(d, signed)
      PROVE  Provenance'
  BY <1>3, <1>5 DEF PostNewTranscript
<1>6. ASSUME \/ UNCHANGED <<diskChunks, diskTranscripts>>
             \/ diskChunks' = chunks /\ diskTranscripts' = transcripts
             \/ diskTranscripts' = NoTranscripts,
             \/ UNCHANGED <<chunks, transcripts>>
             \/ chunks' = diskChunks /\ transcripts' = diskTranscripts
             \/ transcripts' = NoTranscripts
      PROVE  Provenance'
  BY <1>1, <1>6 DEF Provenance, Explained, NoTranscripts
<1>7. ASSUME SaveEnds \/ Crash \/ Start \/ UNCHANGED storeVars PROVE Provenance'
  BY <1>6, <1>7 DEF SaveEnds, SaveReturns, SaveRaises, SaveRaisesLate, SaveTears,
                    ReplaceSnapshot, Crash, LoseMemory, Start, memory, disk, storeVars
<1>8. ASSUME \/ AppendSaved \/ AssembledSaved \/ PostedSaved \/ SaveFails
             \/ SinkCrash \/ SinkStart
      PROVE  SaveEnds \/ Crash \/ Start
  BY <1>8 DEF AppendSaved, AssembledSaved, PostedSaved, SaveFails, SinkCrash, SinkStart,
              SaveEnds
<1>9. ASSUME \/ \E k \in Key, h \in Hive : OpenStream(k, h)
             \/ RejectHeader \/ RejectTranscript
             \/ RejectMalformedLine \/ RejectOutOfScopeLine \/ RejectOutOfOrderLine
             \/ \E c \in Chunk : ResendLine(c) \/ ConflictLine(c)
             \/ AckLine \/ AckFinalLineKnown \/ EndStream
             \/ \E d \in Upload : PostKnownTranscript(d)
      PROVE  UNCHANGED storeVars
  BY <1>9 DEF OpenStream, RejectHeader, RejectTranscript, RejectMalformedLine,
              RejectOutOfScopeLine, RejectOutOfOrderLine, RejectLine, ResendLine,
              ConflictLine, AckLine, AckFinalLineKnown, EndStream, PostKnownTranscript
<1>10. UNCHANGED vars => UNCHANGED storeVars
  BY DEF vars
<1> QED BY <1>2, <1>4, <1>5, <1>7, <1>8, <1>9, <1>10 DEF Next, HandleStream

\* Every stored transcript was posted by a client or is what a session's log,
\* which still is in the store, once was. This holds whatever saves fail.
THEOREM ProvenanceHolds == Spec => []Provenance
<1>1. Init => ProvenanceInv
  <2>1. Init => StoreTypeOK
    BY StoreInvInit DEF Init, StoreInv
  <2> QED BY <2>1 DEF Init, StoreInit, TypeOK, PC, ProvenanceInv, LogStarted, Provenance,
                      Explained, NoTranscripts
<1>2. ProvenanceInv /\ [Next]_vars => ProvenanceInv'
  BY TypeStep, LogStartedStep, ProvenanceStep DEF ProvenanceInv
<1>3. ProvenanceInv => Provenance
  BY DEF ProvenanceInv
<1> QED BY <1>1, <1>2, <1>3, PTL DEF Spec

-----------------------------------------------------------------------------
(***************************************************************************)
(* What an acknowledged final chunk is owed, when a snapshot is configured *)
(* and its saves replace it.                                               *)
(***************************************************************************)
Assembled(c, logs, docs) ==
  \E n \in DOMAIN logs[c.key] :
    /\ Contains(SubSeq(logs[c.key], 1, n), c)
    /\ Assemble(c.key, SubSeq(logs[c.key], 1, n)) \in DOMAIN docs

\* FinalAckedAssembled speaks of what was sent and of the snapshot. What makes
\* it inductive is the same of what the handler has collected and of memory.
FinalsInv ==
  /\ \A c \in acks : c.final => Assembled(c, chunks, transcripts)
  /\ \A c \in acked : c.final => Assembled(c, diskChunks, diskTranscripts)

LEMMA AssembledByMore ==
  ASSUME NEW logs \in [Key -> Seq(Chunk)], NEW logs2 \in [Key -> Seq(Chunk)],
         NEW docs, NEW docs2, Extends(logs, docs, logs2, docs2),
         NEW c \in Chunk, Assembled(c, logs, docs)
  PROVE  Assembled(c, logs2, docs2)
<1>1. c.key \in Key
  BY ChunkAssumption
<1>2. PICK n \in DOMAIN logs[c.key] :
        /\ Contains(SubSeq(logs[c.key], 1, n), c)
        /\ Assemble(c.key, SubSeq(logs[c.key], 1, n)) \in DOMAIN docs
  BY DEF Assembled
<1>3. n \in DOMAIN logs2[c.key] /\ SubSeq(logs2[c.key], 1, n) = SubSeq(logs[c.key], 1, n)
  BY <1>1, ExtendsParts
<1>4. \A d \in DOMAIN docs : d \in DOMAIN docs2
  BY DEF Extends
<1> QED BY <1>2, <1>3, <1>4 DEF Assembled

\* While a handler has acknowledgements to send, memory only grows.
LEMMA MemoryExtends ==
  ASSUME TypeOK, TypeOK', [Next]_vars, acks # {}, acks' # {}
  PROVE  Extends(chunks, transcripts, chunks', transcripts')
<1>1. [StoreNext]_storeVars /\ up /\ up'
  BY SinkStepIsStoreStep DEF TypeOK
<1>2. StoreTypeOK /\ chunks \in [Key -> Seq(Chunk)]
  BY DEF TypeOK, StoreTypeOK
<1>3. Extends(chunks, transcripts, chunks, transcripts)
  BY <1>2, ExtendsReflexive
<1>4. ASSUME NEW c \in Chunk, AppendChunk(c)
      PROVE  Extends(chunks, transcripts, chunks', transcripts')
  <2>1. transcripts' = transcripts
    BY <1>4 DEF AppendChunk
  <2> QED BY <1>2, <1>4, <2>1, AppendExtends
<1>5. ASSUME NEW d, NEW signed \in BOOLEAN, PutTranscript(d, signed)
      PROVE  Extends(chunks, transcripts, chunks', transcripts')
  BY <1>3, <1>5 DEF PutTranscript, HasTranscript, Extends
<1>6. ASSUME SaveEnds \/ UNCHANGED storeVars
      PROVE  Extends(chunks, transcripts, chunks', transcripts')
  <2>1. UNCHANGED <<chunks, transcripts>>
    BY <1>6 DEF SaveEnds, SaveReturns, SaveRaises, SaveRaisesLate, SaveTears, memory, storeVars
  <2> QED BY <1>3, <2>1
<1>7. ~Crash /\ ~Start
  BY <1>1 DEF Crash, Start
<1> QED BY <1>1, <1>4, <1>5, <1>6, <1>7 DEF StoreNext

\* A final chunk whose transcript is, or comes to be, that of the whole log.
LEMMA WholeLogAssembled ==
  ASSUME NEW logs \in [Key -> Seq(Chunk)], NEW docs,
         NEW c \in Chunk, InLog(logs, c), Assemble(c.key, logs[c.key]) \in DOMAIN docs
  PROVE  Assembled(c, logs, docs)
<1>1. c.key \in Key /\ logs[c.key] \in Seq(Chunk)
  BY ChunkAssumption
<1>2. PICK i \in DOMAIN logs[c.key] : logs[c.key][i] = c
  BY DEF InLog
<1>3. logs[c.key] # <<>>
  BY <1>1, <1>2
<1>4. /\ Len(logs[c.key]) \in DOMAIN logs[c.key]
      /\ SubSeq(logs[c.key], 1, Len(logs[c.key])) = logs[c.key]
  BY <1>1, <1>3, WholeLog
<1>5. Contains(logs[c.key], c)
  BY <1>1, <1>2 DEF Contains
<1> QED BY <1>4, <1>5 DEF Assembled

LEMMA FinalsStep ==
  ASSUME Reliable, ReliableInv, FinalsInv, [Next]_vars PROVE FinalsInv'
<1>1. /\ chunks \in [Key -> Seq(Chunk)] /\ chunks' \in [Key -> Seq(Chunk)]
      /\ diskChunks \in [Key -> Seq(Chunk)] /\ diskChunks' \in [Key -> Seq(Chunk)]
      /\ acks \subseteq Chunk /\ acked \subseteq Chunk
      /\ TypeOK /\ TypeOK'
      /\ Extends(diskChunks, diskTranscripts, diskChunks', diskTranscripts')
  BY ReliableStoreStep DEF ReliableInv, StoreInv, StoreTypeOK, TypeOK
<1>2. \A c \in acked : c.final => Assembled(c, diskChunks', diskTranscripts')
  BY <1>1, AssembledByMore DEF FinalsInv
<1>3. ASSUME NEW c \in acks, c.final, acks' # {}
      PROVE  Assembled(c, chunks', transcripts')
  BY <1>1, <1>3, MemoryExtends, AssembledByMore DEF FinalsInv
<1>4. ASSUME UNCHANGED acked, acks' = acks \/ acks' = {} PROVE FinalsInv'
  <2>1. \A c \in acked' : c.final => Assembled(c, diskChunks', diskTranscripts')
    BY <1>2, <1>4
  <2>2. \A c \in acks' : c.final => Assembled(c, chunks', transcripts')
    BY <1>3, <1>4
  <2> QED BY <2>1, <2>2 DEF FinalsInv, Assembled
<1>5. ASSUME AckLine \/ AckFinalLineKnown \/ AckFinalLine PROVE FinalsInv'
  <2>1. /\ UNCHANGED <<acked, chunks>> /\ acks' = acks \cup {current} /\ pc = "chunkStored"
    BY <1>5 DEF AckLine, AckFinalLineKnown, AckFinalLine, PutTranscript, storeVars, clientVars
  <2>2. current \in Chunk /\ current.key = key /\ InLog(chunks, current)
    BY <2>1 DEF ReliableInv, HandlerInv, TypeOK
  <2>3. ASSUME current.final
        PROVE  Assemble(current.key, chunks[current.key]) \in DOMAIN transcripts'
    BY <1>5, <2>2, <2>3
       DEF AckLine, AckFinalLineKnown, AckFinalLine, HasTranscript, PutTranscript, storeVars
  <2>4. current.final => Assembled(current, chunks, transcripts')
    BY <1>1, <2>2, <2>3, WholeLogAssembled
  <2>5. \A c \in acks' : c.final => Assembled(c, chunks', transcripts')
    BY <1>3, <2>1, <2>4
  <2>6. \A c \in acked' : c.final => Assembled(c, diskChunks', diskTranscripts')
    BY <1>2, <2>1
  <2> QED BY <2>5, <2>6 DEF FinalsInv, Assembled
<1>6. ASSUME EndStream PROVE FinalsInv'
  <2>1. /\ pc = "lines" /\ up /\ acks' = {} /\ acked' = acked \cup acks
        /\ UNCHANGED <<diskChunks, diskTranscripts>>
    BY <1>6 DEF EndStream, HandlerIdle, storeVars, disk
  <2>2. diskChunks = chunks /\ diskTranscripts = transcripts
    BY <1>1, <2>1 DEF ReliableInv, Settled, TypeOK
  <2>3. \A c \in acked' : c.final => Assembled(c, diskChunks', diskTranscripts')
    BY <2>1, <2>2 DEF FinalsInv
  <2> QED BY <2>1, <2>3 DEF FinalsInv, Assembled
<1>7. ASSUME \/ \E k \in Key, h \in Hive : OpenStream(k, h)
             \/ RejectHeader \/ RejectTranscript \/ SaveFails \/ SinkCrash \/ SinkStart
             \/ RejectMalformedLine \/ RejectOutOfScopeLine \/ RejectOutOfOrderLine
             \/ \E c \in Chunk : StoreLine(c) \/ ResendLine(c) \/ ConflictLine(c)
             \/ AppendSaved \/ AssembledSaved \/ PostedSaved
             \/ \E d \in Upload :
                  PostKnownTranscript(d) \/ \E s \in BOOLEAN : PostNewTranscript(d, s)
             \/ UNCHANGED vars
      PROVE  UNCHANGED acked /\ (acks' = acks \/ acks' = {})
  BY <1>7 DEF OpenStream, RejectHeader, RejectTranscript, SaveFails, SinkCrash, SinkStart,
              RejectMalformedLine, RejectOutOfScopeLine, RejectOutOfOrderLine, RejectLine,
              StoreLine, ResendLine, ConflictLine, Fail, HandlerIdle, AppendSaved,
              AssembledSaved, PostedSaved, Confirm, PostKnownTranscript, PostNewTranscript,
              handlerVars, clientVars, vars
<1> QED BY <1>4, <1>5, <1>6, <1>7 DEF Next, HandleStream

\* A client told that its final chunk is stored can rely on the transcript: one
\* assembled from a part of the log with that chunk in it is in the snapshot.
THEOREM FinalChunkAssembled ==
  ASSUME Reliable PROVE Spec => []FinalAckedAssembled
<1>1. Init => FinalsInv
  BY DEF Init, FinalsInv
<1>2. ReliableInv /\ FinalsInv /\ [Next]_vars => FinalsInv'
  BY FinalsStep
<1>3. ReliableInv /\ FinalsInv => FinalAckedAssembled
  BY DEF ReliableInv, FinalsInv, Assembled, FinalAckedAssembled, DurableTranscript
<1>4. Spec => []ReliableInv
  BY ReliableInvariant
<1> QED BY <1>1, <1>2, <1>3, <1>4, PTL DEF Spec
=============================================================================
