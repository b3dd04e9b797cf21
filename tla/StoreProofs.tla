---------------------------- MODULE StoreProofs -----------------------------
(***************************************************************************)
(* Safety of the store for every set of keys and chunks, every kind of     *)
(* save failure and every pattern of crashes.                              *)
(***************************************************************************)
EXTENDS Store, SequenceTheorems, NumberLemmas

-----------------------------------------------------------------------------
\* IsPrefix, element by element.
LEMMA PrefixElements ==
  ASSUME NEW S, NEW s \in Seq(S), NEW t \in Seq(S)
  PROVE  IsPrefix(s, t) <=> Len(s) <= Len(t) /\ \A i \in 1..Len(s) : s[i] = t[i]
<1>1. ASSUME IsPrefix(s, t)
      PROVE  Len(s) <= Len(t) /\ \A i \in 1..Len(s) : s[i] = t[i]
  <2>1. Len(s) <= Len(t) /\ SubSeq(s, 1, Len(s)) = SubSeq(t, 1, Len(s))
    BY <1>1 DEF IsPrefix
  <2>2. ASSUME NEW i \in 1..Len(s) PROVE s[i] = t[i]
    <3>1. SubSeq(s, 1, Len(s))[i] = s[i] /\ SubSeq(t, 1, Len(s))[i] = t[i]
      BY <2>1
    <3> QED BY <2>1, <3>1
  <2> QED BY <2>1, <2>2
<1>2. ASSUME Len(s) <= Len(t), \A i \in 1..Len(s) : s[i] = t[i]
      PROVE  IsPrefix(s, t)
  <2>1. SubSeq(s, 1, Len(s)) = SubSeq(t, 1, Len(s))
    BY <1>2
  <2> QED BY <1>2, <2>1 DEF IsPrefix
<1> QED BY <1>1, <1>2

LEMMA PrefixReflexive ==
  ASSUME NEW S, NEW s \in Seq(S) PROVE IsPrefix(s, s)
BY PrefixElements

LEMMA PrefixOfAppend ==
  ASSUME NEW S, NEW s \in Seq(S), NEW t \in Seq(S), NEW e \in S, IsPrefix(s, t)
  PROVE  IsPrefix(s, Append(t, e))
<1>1. Append(t, e) \in Seq(S) /\ Len(Append(t, e)) = Len(t) + 1
  OBVIOUS
<1>2. \A i \in 1..Len(t) : Append(t, e)[i] = t[i]
  OBVIOUS
<1>3. Len(s) <= Len(t) /\ \A i \in 1..Len(s) : s[i] = t[i]
  BY PrefixElements
<1>4. Len(s) <= Len(Append(t, e)) /\ \A i \in 1..Len(s) : s[i] = Append(t, e)[i]
  BY <1>1, <1>2, <1>3
<1> QED BY <1>1, <1>4, PrefixElements

-----------------------------------------------------------------------------
\* The store.

\* Every step keeps the types of the store's variables.
LEMMA StoreTypeStep ==
  ASSUME StoreTypeOK, [StoreNext]_storeVars PROVE StoreTypeOK'
<1> USE DEF StoreTypeOK
<1>0. /\ NoTranscripts \in [DOMAIN NoTranscripts -> BOOLEAN]
      /\ NoChunks \in [Key -> Seq(Chunk)]
  BY DEF NoTranscripts, NoChunks
<1>1. ASSUME NEW c \in Chunk, AppendChunk(c) PROVE StoreTypeOK'
  BY <1>1, ChunkAssumption DEF AppendChunk, disk
<1>2. ASSUME NEW d, NEW signed \in BOOLEAN, PutTranscript(d, signed)
      PROVE  StoreTypeOK'
  BY <1>2 DEF PutTranscript, disk
<1>3. ASSUME SaveEnds PROVE StoreTypeOK'
  BY <1>0, <1>3 DEF SaveEnds, SaveReturns, SaveRaises, SaveRaisesLate, SaveTears,
              ReplaceSnapshot, memory, disk
<1>4. ASSUME Crash PROVE StoreTypeOK'
  BY <1>0, <1>4 DEF Crash, LoseMemory, ReplaceSnapshot, disk
<1>5. ASSUME Start PROVE StoreTypeOK'
  BY <1>5 DEF Start, disk
<1>6. ASSUME UNCHANGED storeVars PROVE StoreTypeOK'
  BY <1>6 DEF storeVars
<1> QED BY <1>1, <1>2, <1>3, <1>4, <1>5, <1>6 DEF StoreNext

\* Appending a chunk of a free seq to its own log keeps the logs unambiguous.
LEMMA AppendUnambiguous ==
  ASSUME chunks \in [Key -> Seq(Chunk)], Unambiguous(chunks),
         NEW c \in Chunk, AppendChunk(c)
  PROVE  Unambiguous(chunks')
<1> DEFINE log == chunks[c.key]
<1>1. c.key \in Key /\ log \in Seq(Chunk)
  BY ChunkAssumption
<1>2. chunks' = [chunks EXCEPT ![c.key] = Append(log, c)]
  BY DEF AppendChunk
<1>3. \A i \in DOMAIN log : log[i].seq # c.seq
  BY DEF AppendChunk, SeqTaken
<1>4. SUFFICES ASSUME NEW k \in Key
      PROVE  /\ \A i \in DOMAIN chunks'[k] : chunks'[k][i].key = k
             /\ \A i, j \in DOMAIN chunks'[k] :
                  chunks'[k][i].seq = chunks'[k][j].seq => i = j
  BY DEF Unambiguous
<1>5. CASE k # c.key
  BY <1>1, <1>2, <1>5 DEF Unambiguous
<1>6. CASE k = c.key
  <2>1. chunks'[k] = Append(log, c)
    BY <1>1, <1>2, <1>6
  <2>2. /\ DOMAIN Append(log, c) = DOMAIN log \cup {Len(log) + 1}
        /\ Append(log, c)[Len(log) + 1] = c
        /\ \A i \in DOMAIN log : Append(log, c)[i] = log[i]
    BY <1>1
  <2>3. \A i, j \in DOMAIN log : log[i].key = k /\ (log[i].seq = log[j].seq => i = j)
    BY <1>6 DEF Unambiguous
  <2> QED BY <1>3, <1>6, <2>1, <2>2, <2>3
<1> QED BY <1>5, <1>6

\* Every step keeps one chunk per seq, in memory and in the snapshot.
LEMMA LogUnambiguousStep ==
  ASSUME StoreTypeOK, LogUnambiguous, [StoreNext]_storeVars PROVE LogUnambiguous'
<1> USE DEF LogUnambiguous
<1>0. Unambiguous(NoChunks)
  BY DEF Unambiguous, NoChunks
<1>1. ASSUME NEW c \in Chunk, AppendChunk(c) PROVE LogUnambiguous'
  <2>1. Unambiguous(chunks')
    BY <1>1, AppendUnambiguous DEF StoreTypeOK
  <2>2. diskChunks' = diskChunks
    BY <1>1 DEF AppendChunk, disk
  <2> QED BY <2>1, <2>2 DEF Unambiguous
<1>2. ASSUME NEW d, NEW signed \in BOOLEAN, PutTranscript(d, signed)
      PROVE  LogUnambiguous'
  BY <1>2 DEF PutTranscript, disk, Unambiguous
<1>3. ASSUME SaveEnds PROVE LogUnambiguous'
  BY <1>0, <1>3 DEF SaveEnds, SaveReturns, SaveRaises, SaveRaisesLate, SaveTears,
                    ReplaceSnapshot, memory, disk, Unambiguous
<1>4. ASSUME Crash PROVE LogUnambiguous'
  BY <1>0, <1>4 DEF Crash, LoseMemory, ReplaceSnapshot, disk, Unambiguous
<1>5. ASSUME Start PROVE LogUnambiguous'
  BY <1>5 DEF Start, disk, Unambiguous
<1>6. ASSUME UNCHANGED storeVars PROVE LogUnambiguous'
  BY <1>6 DEF storeVars, Unambiguous
<1> QED BY <1>1, <1>2, <1>3, <1>4, <1>5, <1>6 DEF StoreNext

\* What can be read back from the snapshot: nothing of a torn one, and otherwise
\* what the history says.
SnapshotHeld ==
  IF torn THEN Persistent /\ diskTranscripts = NoTranscripts /\ diskChunks = NoChunks
          ELSE diskTranscripts = lastTranscripts /\ diskChunks = lastChunks

\* So it is behind the memory of a running process, too.
LEMMA SnapshotBehindMemory ==
  ASSUME StoreTypeOK, SnapshotHeld,
         Extends(lastChunks, lastTranscripts, chunks, transcripts)
  PROVE  Extends(diskChunks, diskTranscripts, chunks, transcripts)
<1>1. CASE torn
  <2>1. ASSUME NEW k \in Key PROVE IsPrefix(diskChunks[k], chunks[k])
    <3>1. /\ diskChunks[k] = <<>> /\ diskChunks[k] \in Seq(Chunk)
          /\ chunks[k] \in Seq(Chunk)
      BY <1>1 DEF SnapshotHeld, NoChunks, StoreTypeOK
    <3>2. Len(diskChunks[k]) <= Len(chunks[k])
      BY <3>1
    <3>3. \A i \in 1..Len(diskChunks[k]) : diskChunks[k][i] = chunks[k][i]
      BY <3>1
    <3> QED BY <3>1, <3>2, <3>3, PrefixElements
  <2>2. DOMAIN diskTranscripts = {}
    BY <1>1 DEF SnapshotHeld, NoTranscripts
  <2> QED BY <2>1, <2>2 DEF Extends
<1>2. CASE ~torn
  BY <1>2 DEF SnapshotHeld
<1> QED BY <1>1, <1>2

LEMMA ExtendsReflexive ==
  ASSUME NEW logs \in [Key -> Seq(Chunk)], NEW docs
  PROVE  Extends(logs, docs, logs, docs)
BY PrefixReflexive DEF Extends

\* Every step keeps the last readable snapshot behind the memory of a running
\* process.
LEMMA DiskBehindMemoryStep ==
  ASSUME StoreTypeOK, DiskBehindMemory, SnapshotHeld, [StoreNext]_storeVars
  PROVE  DiskBehindMemory'
<1>0. SUFFICES ASSUME up'
      PROVE  Extends(lastChunks', lastTranscripts', chunks', transcripts')
  BY DEF DiskBehindMemory
<1>1. ASSUME NEW c \in Chunk, AppendChunk(c)
      PROVE  Extends(lastChunks', lastTranscripts', chunks', transcripts')
  <2>1. /\ up /\ UNCHANGED <<transcripts, lastTranscripts, lastChunks>>
        /\ chunks' = [chunks EXCEPT ![c.key] = Append(@, c)]
    BY <1>1 DEF AppendChunk, disk
  <2>2. Extends(lastChunks, lastTranscripts, chunks, transcripts)
    BY <2>1 DEF DiskBehindMemory
  <2>3. ASSUME NEW k \in Key PROVE IsPrefix(lastChunks[k], chunks'[k])
    <3>1. /\ lastChunks[k] \in Seq(Chunk) /\ chunks[k] \in Seq(Chunk)
          /\ IsPrefix(lastChunks[k], chunks[k])
      BY <2>2 DEF StoreTypeOK, Extends
    <3>2. chunks'[k] = chunks[k] \/ chunks'[k] = Append(chunks[k], c)
      BY <2>1 DEF StoreTypeOK
    <3> QED BY <3>1, <3>2, PrefixOfAppend
  <2> QED BY <2>1, <2>2, <2>3 DEF Extends
<1>2. ASSUME NEW d, NEW signed \in BOOLEAN, PutTranscript(d, signed)
      PROVE  Extends(lastChunks', lastTranscripts', chunks', transcripts')
  BY <1>2 DEF PutTranscript, HasTranscript, disk, DiskBehindMemory, Extends
<1>3. ASSUME SaveEnds
      PROVE  Extends(lastChunks', lastTranscripts', chunks', transcripts')
  <2>1. Extends(chunks, transcripts, chunks, transcripts)
    BY ExtendsReflexive DEF StoreTypeOK
  <2>2. up /\ Extends(lastChunks, lastTranscripts, chunks, transcripts)
    BY <1>0, <1>3 DEF SaveEnds, SaveReturns, SaveRaises, SaveRaisesLate, SaveTears,
                      DiskBehindMemory
  <2>3. UNCHANGED memory
    BY <1>3 DEF SaveEnds, SaveReturns, SaveRaises, SaveRaisesLate, SaveTears
  <2>4. \/ lastChunks' = chunks /\ lastTranscripts' = transcripts
        \/ lastChunks' = diskChunks /\ lastTranscripts' = diskTranscripts
        \/ lastChunks' = lastChunks /\ lastTranscripts' = lastTranscripts
    BY <1>3, PersistentAssumption
       DEF SaveEnds, SaveReturns, SaveRaises, SaveRaisesLate, SaveTears,
           ReplaceSnapshot, disk
  <2>5. Extends(diskChunks, diskTranscripts, chunks, transcripts)
    BY <2>2, SnapshotBehindMemory
  <2> QED BY <2>1, <2>2, <2>3, <2>4, <2>5 DEF memory, Extends
<1>4. ASSUME Crash PROVE FALSE
  BY <1>0, <1>4 DEF Crash
<1>5. ASSUME Start
      PROVE  Extends(lastChunks', lastTranscripts', chunks', transcripts')
  <2>1. /\ lastChunks' = diskChunks /\ lastTranscripts' = diskTranscripts
        /\ chunks' = diskChunks /\ transcripts' = diskTranscripts
    BY <1>5 DEF Start, disk, SnapshotHeld
  <2> QED BY <2>1, ExtendsReflexive DEF StoreTypeOK
<1>6. ASSUME UNCHANGED storeVars
      PROVE  Extends(lastChunks', lastTranscripts', chunks', transcripts')
  BY <1>0, <1>6 DEF storeVars, DiskBehindMemory, Extends
<1> QED BY <1>1, <1>2, <1>3, <1>4, <1>5, <1>6 DEF StoreNext

\* Every step keeps what can be read back what the history says it is.
LEMMA SnapshotHeldStep ==
  ASSUME SnapshotHeld, [StoreNext]_storeVars PROVE SnapshotHeld'
<1>1. UNCHANGED disk => SnapshotHeld'
  BY DEF SnapshotHeld, disk
<1>2. ReplaceSnapshot => SnapshotHeld'
  BY DEF SnapshotHeld, ReplaceSnapshot
<1>3. SaveTears => SnapshotHeld'
  BY PersistentAssumption DEF SnapshotHeld, SaveTears
<1>4. UNCHANGED disk \/ ReplaceSnapshot \/ SaveTears
  BY DEF StoreNext, AppendChunk, PutTranscript, SaveEnds, SaveReturns, SaveRaises,
         SaveRaisesLate, Crash, Start, disk, storeVars
<1> QED BY <1>1, <1>2, <1>3, <1>4

\* The invariant of the store. Its last part, that only a running process saves,
\* is what makes DiskBehindMemory bear on the snapshot a save writes.
StoreInv ==
  /\ StoreTypeOK
  /\ LogUnambiguous
  /\ DiskBehindMemory
  /\ SnapshotHeld
  /\ saving => up

LEMMA StoreInvInit == StoreInit => StoreInv
<1> SUFFICES ASSUME StoreInit PROVE StoreInv
  OBVIOUS
<1>1. NoTranscripts \in [DOMAIN NoTranscripts -> BOOLEAN]
  BY DEF NoTranscripts
<1>2. NoChunks \in [Key -> Seq(Chunk)]
  BY DEF NoChunks
<1>3. StoreTypeOK
  BY <1>1, <1>2 DEF StoreInit, StoreTypeOK
<1>4. LogUnambiguous
  BY DEF StoreInit, LogUnambiguous, Unambiguous, NoChunks
<1>5. DiskBehindMemory /\ SnapshotHeld
  BY <1>2, ExtendsReflexive DEF StoreInit, DiskBehindMemory, SnapshotHeld
<1> QED BY <1>3, <1>4, <1>5 DEF StoreInv, StoreInit

LEMMA StoreInvStep == StoreInv /\ [StoreNext]_storeVars => StoreInv'
<1> SUFFICES ASSUME StoreInv, [StoreNext]_storeVars PROVE StoreInv'
  OBVIOUS
<1>1. /\ StoreTypeOK' /\ LogUnambiguous' /\ DiskBehindMemory' /\ SnapshotHeld'
  BY StoreTypeStep, LogUnambiguousStep, DiskBehindMemoryStep, SnapshotHeldStep
     DEF StoreInv
<1>2. (saving => up)'
  BY DEF StoreInv, StoreTypeOK, StoreNext, AppendChunk, PutTranscript, SaveEnds,
         SaveReturns, SaveRaises, SaveRaisesLate, SaveTears, Crash, Start, storeVars
<1> QED BY <1>1, <1>2 DEF StoreInv

\* The store's invariants hold whatever its callers do, whichever saves fail and
\* whenever the process crashes and restarts.
THEOREM StoreInvariant == StoreSpec => []StoreInv
BY StoreInvInit, StoreInvStep, PTL DEF StoreSpec

\* The four ways a step can treat the snapshot.
LEMMA SnapshotStep ==
  ASSUME StoreInv, [StoreNext]_storeVars
  PROVE  \/ UNCHANGED disk
         \/ ~Persistent /\ ~torn /\ diskChunks' = diskChunks /\ diskTranscripts' = diskTranscripts
         \/ up /\ diskChunks' = chunks /\ diskTranscripts' = transcripts
         \/ torn' /\ "short" \in SaveFaults
<1> USE DEF StoreInv, ReplaceSnapshot, SnapshotHeld
<1>1. ASSUME NEW c \in Chunk, AppendChunk(c) PROVE UNCHANGED disk
  BY <1>1 DEF AppendChunk, disk
<1>2. ASSUME NEW d, NEW signed \in BOOLEAN, PutTranscript(d, signed) PROVE UNCHANGED disk
  BY <1>2 DEF PutTranscript, disk
<1>3. CASE SaveReturns
  BY <1>3, PersistentAssumption DEF SaveReturns
<1>4. CASE SaveRaises
  BY <1>4 DEF SaveRaises
<1>5. CASE SaveRaisesLate
  BY <1>5, PersistentAssumption DEF SaveRaisesLate
<1>6. CASE SaveTears
  BY <1>6 DEF SaveTears
<1>7. CASE Crash
  BY <1>7, PersistentAssumption DEF Crash
<1>8. CASE Start
  BY <1>8 DEF Start
<1>9. CASE UNCHANGED storeVars
  BY <1>9 DEF storeVars, disk
<1> QED BY <1>1, <1>2, <1>3, <1>4, <1>5, <1>6, <1>7, <1>8, <1>9 DEF StoreNext, SaveEnds

LEMMA ReadableStep ==
  ASSUME StoreInv, [StoreNext]_storeVars, ~torn'
  PROVE  Extends(lastChunks, lastTranscripts, diskChunks', diskTranscripts')
<1>1. Extends(lastChunks, lastTranscripts, lastChunks, lastTranscripts)
  BY ExtendsReflexive DEF StoreInv, StoreTypeOK
<1>2. CASE UNCHANGED disk
  BY <1>1, <1>2 DEF disk, StoreInv, SnapshotHeld
<1>3. CASE ~torn /\ diskChunks' = diskChunks /\ diskTranscripts' = diskTranscripts
  BY <1>1, <1>3 DEF StoreInv, SnapshotHeld
<1>4. CASE up /\ diskChunks' = chunks /\ diskTranscripts' = transcripts
  BY <1>4 DEF StoreInv, DiskBehindMemory
<1> QED BY <1>2, <1>3, <1>4, SnapshotStep

\* Neither a save that fails or tears the snapshot, nor a crash during one, nor a
\* restart makes a snapshot that can be read lack what an earlier one had.
THEOREM StoreDurable == StoreSpec => ReadableAppendOnly
<1>1. StoreInv /\ [StoreNext]_storeVars
      => [~torn' => Extends(lastChunks, lastTranscripts, diskChunks', diskTranscripts')]_storeVars
  BY ReadableStep
<1> QED BY <1>1, StoreInvariant, PTL DEF StoreSpec, ReadableAppendOnly

LEMMA DurableStep ==
  ASSUME "short" \notin SaveFaults, StoreInv, [StoreNext]_storeVars
  PROVE  Extends(diskChunks, diskTranscripts, diskChunks', diskTranscripts')
<1>1. Extends(diskChunks, diskTranscripts, diskChunks, diskTranscripts)
  BY ExtendsReflexive DEF StoreInv, StoreTypeOK
<1>2. up => Extends(diskChunks, diskTranscripts, chunks, transcripts)
  BY SnapshotBehindMemory DEF StoreInv, DiskBehindMemory
<1>3. \/ UNCHANGED <<diskChunks, diskTranscripts>>
      \/ up /\ diskChunks' = chunks /\ diskTranscripts' = transcripts
  BY SnapshotStep DEF disk
<1> QED BY <1>1, <1>2, <1>3 DEF Extends

\* Where os.write() writes all it is given, nothing ever leaves the snapshot: a
\* short write is the only step of _save() that is not durable.
THEOREM WholeWritesDurable == "short" \notin SaveFaults /\ StoreSpec => DurableAppendOnly
<1> SUFFICES ASSUME "short" \notin SaveFaults PROVE StoreSpec => DurableAppendOnly
  OBVIOUS
<1>1. StoreInv /\ [StoreNext]_storeVars
      => [Extends(diskChunks, diskTranscripts, diskChunks', diskTranscripts')]_storeVars
  BY DurableStep
<1> QED BY <1>1, StoreInvariant, PTL DEF StoreSpec, DurableAppendOnly
=============================================================================
