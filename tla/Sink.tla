-------------------------------- MODULE Sink --------------------------------
(***************************************************************************)
(* The write path of the sink (voxterm_transcript_sink/app.py): the        *)
(* handlers of POST /v1/transcript/stream and POST /v1/transcript over the *)
(* Store.                                                                  *)
(*                                                                         *)
(* Handlers are coroutines of one event loop and await nothing once the    *)
(* body is read, so from there to the response a handler runs alone: what  *)
(* can come between two of its steps is a crash, and an exception out of a *)
(* save ends it with a 500. A handler is a program counter, pc, and the    *)
(* local variables below.                                                  *)
(*                                                                         *)
(* The body of a request is not fixed when the request opens: its lines    *)
(* are chosen one by one as the handler reaches them, which covers every   *)
(* body. A response is sent when the handler returns; whether the client   *)
(* receives it makes no difference here, since a client may send anything  *)
(* at any time, and so may one that retries.                               *)
(***************************************************************************)
EXTENDS Store, Assembly

CONSTANTS
  Hive,       \* hivemind ids
  Upload,     \* contents clients post as finished transcripts
  NoKey, NoHive, NoChunk, NoDocument  \* "no value" of handler variables

ASSUME ChunkFieldsAssumption ==
  \A c \in Chunk : c.hive \in Hive /\ c.final \in BOOLEAN
ASSUME AbsentAssumption ==
  NoKey \notin Key /\ NoHive \notin Hive /\ NoChunk \notin Chunk

VARIABLES
  pc,        \* where the handler is: see PC
  key,       \* the StreamHeader's (session_id, author)
  hive,      \* and its hivemind_id
  prevSeq,   \* seq of the line before, -1 before the first
  acks,      \* the acknowledgements collected so far
  current,   \* the chunk or the transcript being stored
  doc,
  reply,     \* the last response: [status, doc]
  \* History: what clients have been told.
  acked,     \* chunks acknowledged with stored: true
  confirmed, \* transcripts answered with 200 or 201
  highWater  \* key -> the last X-Sink-Seq sent

handlerVars == <<pc, key, hive, prevSeq, acks, current, doc>>
clientVars == <<reply, acked, confirmed, highWater>>
vars == <<storeVars, handlerVars, clientVars>>

\* idle: no request in progress. lines: between two lines of a stream. append,
\* assembled: saving a line's chunk, the transcript assembled from the log.
\* chunkStored: the line's chunk is in the log. posted: saving a posted
\* transcript.
PC == {"idle", "lines", "append", "chunkStored", "assembled", "posted"}

NoReply == [status |-> 0, doc |-> NoDocument]

HandlerIdle ==
  /\ pc' = "idle"
  /\ key' = NoKey
  /\ hive' = NoHive
  /\ prevSeq' = -1
  /\ acks' = {}
  /\ current' = NoChunk
  /\ doc' = NoDocument

\* The handler returns an error response; nothing it stored is undone.
Fail(status) ==
  /\ HandlerIdle
  /\ reply' = [status |-> status, doc |-> NoDocument]
  /\ UNCHANGED <<acked, confirmed, highWater>>

Init ==
  /\ StoreInit
  /\ pc = "idle"
  /\ key = NoKey
  /\ hive = NoHive
  /\ prevSeq = -1
  /\ acks = {}
  /\ current = NoChunk
  /\ doc = NoDocument
  /\ reply = NoReply
  /\ acked = {}
  /\ confirmed = {}
  /\ highWater = [k \in Key |-> -1]

-----------------------------------------------------------------------------
\* POST /v1/transcript/stream.

\* The body is read and its header line is valid and names this sink.
OpenStream(k, h) ==
  /\ up /\ pc = "idle"
  /\ pc' = "lines"
  /\ key' = k
  /\ hive' = h
  /\ reply' = NoReply
  /\ UNCHANGED <<storeVars, prevSeq, acks, current, doc, acked, confirmed, highWater>>

\* An empty body, a first line that is no StreamHeader, another sink's header.
RejectHeader ==
  /\ up /\ pc = "idle"
  /\ Fail(400)
  /\ UNCHANGED storeVars

\* What a line must satisfy beside being a well-formed, correctly signed chunk.
InScope(c) == c.key = key /\ c.hive = hive
InOrder(c) == c.seq > prevSeq

\* A line that is no chunk the sink takes: oversized (413), not a valid chunk,
\* outside the header's scope, out of order, or wrongly signed (400).
RejectLine(status) ==
  /\ up /\ pc = "lines"
  /\ Fail(status)
  /\ UNCHANGED storeVars
RejectMalformedLine == RejectLine(413) \/ RejectLine(400)
RejectOutOfScopeLine == (\E c \in Chunk : ~InScope(c)) /\ RejectLine(400)
RejectOutOfOrderLine == (\E c \in Chunk : InScope(c) /\ ~InOrder(c)) /\ RejectLine(400)

\* A line's chunk enters the log; append_chunk() is saving it. (StoreLineUnawaited
\* and the other definitions that stand before the one they resemble are faulty
\* variants: the properties are tested against them, nothing uses them.)
StoreLineUnawaited(c) ==
  /\ pc = "lines" /\ InScope(c) /\ InOrder(c)
  /\ AppendChunk(c)
  /\ pc' = "chunkStored"
  /\ prevSeq' = c.seq
  /\ current' = c
  /\ UNCHANGED <<key, hive, acks, doc, clientVars>>
StoreLine(c) ==
  /\ pc = "lines" /\ InScope(c) /\ InOrder(c)
  /\ AppendChunk(c)
  /\ pc' = "append"
  /\ prevSeq' = c.seq
  /\ current' = c
  /\ UNCHANGED <<key, hive, acks, doc, clientVars>>

AppendSaved ==
  /\ pc = "append"
  /\ (SaveReturns \/ SaveTears)
  /\ pc' = "chunkStored"
  /\ UNCHANGED <<key, hive, prevSeq, acks, current, doc, clientVars>>

\* A line that repeats a chunk of the log: append_chunk() returns False.
ResendLine(c) ==
  /\ up /\ pc = "lines" /\ InScope(c) /\ InOrder(c)
  /\ Present(c)
  /\ pc' = "chunkStored"
  /\ prevSeq' = c.seq
  /\ current' = c
  /\ UNCHANGED <<storeVars, key, hive, acks, doc, clientVars>>

\* Another chunk has the line's seq: ChunkConflict.
ConflictLine(c) ==
  /\ up /\ pc = "lines" /\ InScope(c) /\ InOrder(c)
  /\ SeqTaken(c) /\ ~Present(c)
  /\ Fail(409)
  /\ UNCHANGED storeVars

\* The chunk is acknowledged, and a final one has the session assembled:
\* put_transcript() is saving the result, or finds it stored.
AckLine ==
  /\ up /\ pc = "chunkStored" /\ ~current.final
  /\ acks' = acks \cup {current}
  /\ pc' = "lines"
  /\ current' = NoChunk
  /\ UNCHANGED <<storeVars, key, hive, prevSeq, doc, clientVars>>

AckFinalLineOnce ==
  /\ up /\ pc = "chunkStored" /\ current.final
  /\ \E d \in DOMAIN transcripts : d.key = key
  /\ acks' = acks \cup {current}
  /\ pc' = "lines"
  /\ current' = NoChunk
  /\ UNCHANGED <<storeVars, key, hive, prevSeq, doc, clientVars>>
AckFinalLineKnown ==
  /\ up /\ pc = "chunkStored" /\ current.final
  /\ HasTranscript(Assemble(key, chunks[key]))
  /\ acks' = acks \cup {current}
  /\ pc' = "lines"
  /\ current' = NoChunk
  /\ UNCHANGED <<storeVars, key, hive, prevSeq, doc, clientVars>>

AckFinalLine ==
  /\ pc = "chunkStored" /\ current.final
  /\ PutTranscript(Assemble(key, chunks[key]), FALSE)
  /\ acks' = acks \cup {current}
  /\ pc' = "assembled"
  /\ current' = NoChunk
  /\ doc' = Assemble(key, chunks[key])
  /\ UNCHANGED <<key, hive, prevSeq, clientVars>>

AssembledSaved ==
  /\ pc = "assembled"
  /\ (SaveReturns \/ SaveTears)
  /\ pc' = "lines"
  /\ doc' = NoDocument
  /\ UNCHANGED <<key, hive, prevSeq, acks, current, clientVars>>

\* No line is left: the acknowledgements go out, with the X-Sink-Seq header.
EndStreamAtLine ==
  /\ up /\ pc = "lines"
  /\ HandlerIdle
  /\ reply' = [status |-> 200, doc |-> NoDocument]
  /\ acked' = acked \cup acks
  /\ highWater' = [highWater EXCEPT ![key] = prevSeq]
  /\ UNCHANGED <<storeVars, confirmed>>
EndStream ==
  /\ up /\ pc = "lines"
  /\ HandlerIdle
  /\ reply' = [status |-> 200, doc |-> NoDocument]
  /\ acked' = acked \cup acks
  /\ highWater' = [highWater EXCEPT ![key] = MaxSeq(key)]
  /\ UNCHANGED <<storeVars, confirmed>>

-----------------------------------------------------------------------------
\* POST /v1/transcript.

\* An oversized body (413), a schema, sink or signature error (400), an id that
\* is not the content's (409).
RejectTranscript ==
  /\ up /\ pc = "idle"
  /\ \E status \in {400, 409, 413} : Fail(status)
  /\ UNCHANGED storeVars

Confirm(status, d) ==
  /\ reply' = [status |-> status, doc |-> d]
  /\ confirmed' = confirmed \cup {d}
  /\ UNCHANGED <<acked, highWater>>

PostKnownTranscript(d) ==
  /\ up /\ pc = "idle"
  /\ HasTranscript(d)
  /\ Confirm(200, d)
  /\ UNCHANGED <<storeVars, handlerVars>>

PostNewTranscript(d, signed) ==
  /\ pc = "idle"
  /\ PutTranscript(d, signed)
  /\ pc' = "posted"
  /\ doc' = d
  /\ reply' = NoReply
  /\ UNCHANGED <<key, hive, prevSeq, acks, current, acked, confirmed, highWater>>

PostedSaved ==
  /\ pc = "posted"
  /\ (SaveReturns \/ SaveTears)
  /\ HandlerIdle
  /\ Confirm(201, doc)

-----------------------------------------------------------------------------
\* A save raises: the exception leaves the handler, the framework answers 500.
SaveFails ==
  /\ pc \in {"append", "assembled", "posted"}
  /\ (SaveRaises \/ SaveRaisesLate)
  /\ Fail(500)

\* No response is sent.
SinkCrash ==
  /\ Crash
  /\ HandlerIdle
  /\ reply' = NoReply
  /\ UNCHANGED <<acked, confirmed, highWater>>

SinkStart == Start /\ UNCHANGED <<handlerVars, clientVars>>

HandleStream ==
  \/ RejectMalformedLine \/ RejectOutOfScopeLine \/ RejectOutOfOrderLine
  \/ \E c \in Chunk : StoreLine(c) \/ ResendLine(c) \/ ConflictLine(c)
  \/ AppendSaved
  \/ AckLine \/ AckFinalLineKnown \/ AckFinalLine \/ AssembledSaved
  \/ EndStream

Next ==
  \/ \E k \in Key, h \in Hive : OpenStream(k, h)
  \/ RejectHeader
  \/ HandleStream
  \/ RejectTranscript
  \/ \E d \in Upload :
       PostKnownTranscript(d) \/ \E signed \in BOOLEAN : PostNewTranscript(d, signed)
  \/ PostedSaved
  \/ SaveFails
  \/ SinkCrash
  \/ SinkStart

Spec == Init /\ [][Next]_vars

-----------------------------------------------------------------------------
\* Properties.

\* The types of the variables, what the handler has set at each place, and that
\* a save lasts from the change it saves to the handler's next step: the handler
\* waits for it (store.py:68, 143).
TypeOK ==
  /\ StoreTypeOK
  /\ pc \in PC
  /\ key \in Key \cup {NoKey}
  /\ hive \in Hive \cup {NoHive}
  /\ prevSeq \in Nat \cup {-1}
  /\ acks \subseteq Chunk
  /\ current \in Chunk \cup {NoChunk}
  /\ acked \subseteq Chunk
  /\ highWater \in [Key -> Nat \cup {-1}]
  /\ pc = "idle" \/ up
  /\ saving <=> pc \in {"append", "assembled", "posted"}
  /\ pc = "idle" => acks = {}
  /\ pc \in {"lines", "append", "chunkStored", "assembled"} => key \in Key
  /\ pc \in {"append", "chunkStored"} => current \in Chunk /\ current.key = key

\* What is durable: what a restart would find.
Durable(c) == ~torn /\ \E i \in DOMAIN diskChunks[c.key] : diskChunks[c.key][i] = c
DurableTranscript(d) == ~torn /\ d \in DOMAIN diskTranscripts

\* "Durably stored (or already present)" (app.py:279): a chunk acknowledged with
\* stored: true survives every crash.
AckedDurable == \A c \in acked : Durable(c)

\* A transcript answered with 200 or 201 survives every crash (app.py:211-216).
ConfirmedDurable == \A d \in confirmed : DurableTranscript(d)

\* Two chunks of one seq are never both acknowledged, however far apart and
\* whatever restarts lie between them (store.py:8-10, app.py:277).
AckedUnambiguous ==
  \A c, d \in acked : c.key = d.key /\ c.seq = d.seq => c = d

\* An acknowledged final chunk has left a durable transcript, assembled from a
\* part of the session's log that contains it (app.py:282-285).
FinalAckedAssembled ==
  \A c \in acked : c.final =>
    \E n \in DOMAIN diskChunks[c.key] :
      LET log == SubSeq(diskChunks[c.key], 1, n)
      IN  Contains(log, c) /\ DurableTranscript(Assemble(c.key, log))

\* Every stored transcript was posted, or is what the session's log was at some
\* point: none is made of chunks the log lost (app.py:283-285).
Explained(docs, logs) ==
  \A d \in DOMAIN docs :
    \/ d \in Upload
    \/ \E k \in Key : \E n \in DOMAIN logs[k] : d = Assemble(k, SubSeq(logs[k], 1, n))
Provenance ==
  Explained(transcripts, chunks) /\ Explained(diskTranscripts, diskChunks)

\* X-Sink-Seq never falls behind the acknowledgements of its session, nor runs
\* ahead of the durable log (app.py:288).
HighWaterHonest ==
  /\ \A c \in acked : c.seq <= highWater[c.key]
  /\ \A k \in Key : highWater[k] # -1 =>
       \E i \in DOMAIN diskChunks[k] : diskChunks[k][i].seq = highWater[k]

\* X-Sink-Seq is monotonic per session, across restarts too (spec 7.1).
HighWaterMonotonic == [][\A k \in Key : highWater[k] <= highWater'[k]]_vars

\* 201 says "created": it is sent once for a transcript at most, and never for
\* one a client was already told is stored (app.py:211-216).
CreatedOnce ==
  [][pc = "posted" /\ reply'.status = 201 => doc \notin confirmed]_vars

\* With a snapshot whose saves do not fail, the sink implements DurableLog: the
\* snapshot file is the durable log, and a session's transcript is Assemble's.
Promise == INSTANCE DurableLog WITH
  log <- diskChunks, published <- DOMAIN diskTranscripts, Result <- Assemble
ImplementsDurableLog == Promise!DLSpec
=============================================================================
