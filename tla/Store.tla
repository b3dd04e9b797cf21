------------------------------- MODULE Store --------------------------------
(***************************************************************************)
(* The sink's store (voxterm_transcript_sink/store.py): transcripts by     *)
(* content id, an append-only chunk log per (session_id, author), and a    *)
(* JSON snapshot of both that every change rewrites.                       *)
(*                                                                         *)
(* A change is made in memory first and saved afterwards, so a crash or an *)
(* error of the save separates the two. _save() itself (temporary file,    *)
(* fsync, rename, fsync of the directory) is abstracted to its outcomes:   *)
(* the snapshot is replaced as a whole, or an exception is raised before   *)
(* or after the rename, or a short write puts a truncated file in its      *)
(* place, which holds nothing that can be read back (os.write's count is   *)
(* ignored, store.py:179).                                                 *)
(*                                                                         *)
(* A transcript is its content, which also stands for its id: content_id() *)
(* is taken to be collision-free. Whether the stored copy carries the      *)
(* author's signature is kept beside it, since the id leaves it out.       *)
(***************************************************************************)
EXTENDS Integers, SequencesExt

CONSTANTS
  Key,         \* (session_id, author) pairs
  Chunk,       \* chunks: records with fields key and seq, among others
  Persistent,  \* whether a snapshot path is configured
  SaveFaults   \* what may go wrong with a save

ASSUME ChunkAssumption == \A c \in Chunk : c.key \in Key /\ c.seq \in Nat
ASSUME PersistentAssumption == Persistent \in BOOLEAN
ASSUME SaveFaultsAssumption == SaveFaults \subseteq {"error", "late_error", "short"}

VARIABLES
  transcripts,      \* in memory: stored content -> whether it carries a signature
  chunks,           \* in memory: key -> chunk log, in order of arrival
  diskTranscripts,  \* what can be read back from the snapshot file of each:
  diskChunks,       \* nothing while it is torn
  torn,             \* the snapshot file is a truncated JSON document
  lastTranscripts,  \* history: what the last snapshot that was not torn holds
  lastChunks,       \* or held of each
  saving,           \* a change is in memory and its _save() has not returned
  up                \* the process runs

memory == <<transcripts, chunks>>
disk == <<diskTranscripts, diskChunks, torn, lastTranscripts, lastChunks>>
storeVars == <<transcripts, chunks, diskTranscripts, diskChunks, torn, lastTranscripts,
               lastChunks, saving, up>>

NoTranscripts == [d \in {} |-> FALSE]
NoChunks == [k \in Key |-> <<>>]

StoreInit ==
  /\ transcripts = NoTranscripts
  /\ chunks = NoChunks
  /\ diskTranscripts = NoTranscripts
  /\ diskChunks = NoChunks
  /\ torn = FALSE
  /\ lastTranscripts = NoTranscripts
  /\ lastChunks = NoChunks
  /\ saving = FALSE
  /\ up = TRUE

-----------------------------------------------------------------------------
\* Queries.

HasTranscript(d) == d \in DOMAIN transcripts

\* A log holds a chunk of this seq already, the same one or another one.
SeqTaken(c) == \E i \in DOMAIN chunks[c.key] : chunks[c.key][i].seq = c.seq
Present(c) == \E i \in DOMAIN chunks[c.key] : chunks[c.key][i] = c

\* max_seq(): -1 for an empty log. (SeqOfLast and the other definitions that
\* stand before the one they resemble are faulty variants: the properties are
\* tested against them, nothing uses them.)
SeqOfLast(k) == IF chunks[k] = <<>> THEN -1 ELSE Last(chunks[k]).seq
MaxSeq(k) == Max({-1} \cup {chunks[k][i].seq : i \in DOMAIN chunks[k]})

-----------------------------------------------------------------------------
\* Changes. Each one ends in a _save(), which the actions after it complete.

\* append_chunk() of a seq that is not in the log. A chunk already present
\* returns False and another chunk of a taken seq raises ChunkConflict: neither
\* changes the store.
AppendAnyway(c) ==
  /\ up /\ ~saving
  /\ ~Present(c)
  /\ chunks' = [chunks EXCEPT ![c.key] = Append(@, c)]
  /\ saving' = TRUE
  /\ UNCHANGED <<transcripts, disk, up>>
AppendChunk(c) ==
  /\ up /\ ~saving
  /\ ~SeqTaken(c)
  /\ chunks' = [chunks EXCEPT ![c.key] = Append(@, c)]
  /\ saving' = TRUE
  /\ UNCHANGED <<transcripts, disk, up>>

\* put_transcript() of a content that is not stored; one that is returns False
\* whatever signature it carries.
PutAnyway(d, signed) ==
  /\ up /\ ~saving
  /\ transcripts' = [e \in DOMAIN transcripts \cup {d} |->
                       IF e = d THEN signed ELSE transcripts[e]]
  /\ saving' = TRUE
  /\ UNCHANGED <<chunks, disk, up>>
PutTranscript(d, signed) ==
  /\ up /\ ~saving
  /\ ~HasTranscript(d)
  /\ transcripts' = [e \in DOMAIN transcripts \cup {d} |->
                       IF e = d THEN signed ELSE transcripts[e]]
  /\ saving' = TRUE
  /\ UNCHANGED <<chunks, disk, up>>

\* _save(): the snapshot becomes the memory, or nothing happens without a path.
ReplaceSnapshot ==
  /\ diskTranscripts' = IF Persistent THEN transcripts ELSE diskTranscripts
  /\ diskChunks' = IF Persistent THEN chunks ELSE diskChunks
  /\ torn' = FALSE
  /\ lastTranscripts' = diskTranscripts'
  /\ lastChunks' = diskChunks'

SaveReturnsEarly ==
  /\ saving
  /\ saving' = FALSE
  /\ UNCHANGED <<memory, disk, up>>
SaveReturns ==
  /\ saving
  /\ ReplaceSnapshot
  /\ saving' = FALSE
  /\ UNCHANGED <<memory, up>>

\* os.open, os.write or os.fsync of the temporary file raises: the snapshot is
\* the old one and the change stays in memory.
SaveRaises ==
  /\ saving /\ Persistent /\ "error" \in SaveFaults
  /\ saving' = FALSE
  /\ UNCHANGED <<memory, disk, up>>

\* The rename is done and opening or syncing the directory raises.
SaveRaisesLate ==
  /\ saving /\ Persistent /\ "late_error" \in SaveFaults
  /\ ReplaceSnapshot
  /\ saving' = FALSE
  /\ UNCHANGED <<memory, up>>

\* os.write() writes less than it was given and the truncated file is renamed
\* over the snapshot, whose content is gone; _save() returns normally.
SaveTears ==
  /\ saving /\ Persistent /\ "short" \in SaveFaults
  /\ diskTranscripts' = NoTranscripts
  /\ diskChunks' = NoChunks
  /\ torn' = TRUE
  /\ saving' = FALSE
  /\ UNCHANGED <<memory, lastTranscripts, lastChunks, up>>

-----------------------------------------------------------------------------
\* The process.

\* A crash loses the memory. One during a save leaves the snapshot as it was or
\* as it was to be.
LoseMemory ==
  /\ transcripts' = NoTranscripts
  /\ chunks' = NoChunks
CrashInPlace ==
  /\ up
  /\ up' = FALSE
  /\ saving' = FALSE
  /\ LoseMemory
  /\ diskTranscripts' = IF saving /\ Persistent THEN NoTranscripts ELSE diskTranscripts
  /\ diskChunks' = IF saving /\ Persistent THEN NoChunks ELSE diskChunks
  /\ UNCHANGED <<torn, lastTranscripts, lastChunks>>
Crash ==
  /\ up
  /\ up' = FALSE
  /\ saving' = FALSE
  /\ LoseMemory
  /\ \/ UNCHANGED disk
     \/ saving /\ ReplaceSnapshot

\* __init__() and _load(): the snapshot, or nothing where there is none. A
\* truncated snapshot raises, and the process does not come up.
StartTranscriptsOnly ==
  /\ ~up /\ ~torn
  /\ up' = TRUE
  /\ transcripts' = diskTranscripts
  /\ UNCHANGED <<chunks, disk, saving>>
Start ==
  /\ ~up /\ ~torn
  /\ up' = TRUE
  /\ transcripts' = diskTranscripts
  /\ chunks' = diskChunks
  /\ UNCHANGED <<disk, saving>>

SaveEnds == SaveReturns \/ SaveRaises \/ SaveRaisesLate \/ SaveTears

StoreNext ==
  \/ \E c \in Chunk : AppendChunk(c)
  \/ \E d : \E signed \in BOOLEAN : PutTranscript(d, signed)
  \/ SaveEnds
  \/ Crash
  \/ Start

StoreSpec == StoreInit /\ [][StoreNext]_storeVars

-----------------------------------------------------------------------------
\* Properties.

\* The types of the store's variables (store.py:37-45).
StoreTypeOK ==
  /\ transcripts \in [DOMAIN transcripts -> BOOLEAN]
  /\ diskTranscripts \in [DOMAIN diskTranscripts -> BOOLEAN]
  /\ chunks \in [Key -> Seq(Chunk)]
  /\ diskChunks \in [Key -> Seq(Chunk)]
  /\ torn \in BOOLEAN
  /\ lastTranscripts \in [DOMAIN lastTranscripts -> BOOLEAN]
  /\ lastChunks \in [Key -> Seq(Chunk)]
  /\ saving \in BOOLEAN
  /\ up \in BOOLEAN

\* A log is unambiguous if it holds one chunk per seq, each in its own log.
Unambiguous(logs) ==
  \A k \in Key :
    /\ \A i \in DOMAIN logs[k] : logs[k][i].key = k
    /\ \A i, j \in DOMAIN logs[k] : logs[k][i].seq = logs[k][j].seq => i = j

\* "One unambiguous chunk per seq" (store.py:10), in memory and in the snapshot,
\* whatever saves fail and whenever the process restarts.
LogUnambiguous == Unambiguous(chunks) /\ Unambiguous(diskChunks)

\* One state of the logs and transcripts extends another one.
Extends(logs, docs, logs2, docs2) ==
  /\ \A k \in Key : IsPrefix(logs[k], logs2[k])
  /\ \A d \in DOMAIN docs : d \in DOMAIN docs2 /\ docs2[d] = docs[d]

\* A running process knows all that the last readable snapshot holds or held,
\* in the same order: the next save only ever adds to it (store.py:168-174,
\* 190-195).
DiskBehindMemory ==
  up => Extends(lastChunks, lastTranscripts, chunks, transcripts)

\* Whatever saves fail and whenever the process crashes, a snapshot that can be
\* read has all that any readable one before it had, in the same order: a save
\* that tears the snapshot is made good by the next one that does not, and where
\* none follows the process never comes up with less (store.py:165-195).
ReadableAppendOnly ==
  [][~torn' => Extends(lastChunks, lastTranscripts, diskChunks', diskTranscripts')]_storeVars

\* "Durable atomic replace" (store.py:176): no save takes anything out of the
\* snapshot, reorders it or changes it.
DurableAppendOnly ==
  [][Extends(diskChunks, diskTranscripts, diskChunks', diskTranscripts')]_storeVars
=============================================================================
