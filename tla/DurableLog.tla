----------------------------- MODULE DurableLog -----------------------------
(***************************************************************************)
(* What the sink promises its clients, with no memory, no handlers, no     *)
(* saves and no crashes (spec 7.1, 7.4, 7.5, 9.1): one durable log per     *)
(* session that grows a chunk at a time and holds one chunk per seq,       *)
(* durable transcripts, and answers about nothing but these.               *)
(***************************************************************************)
EXTENDS Integers, Sequences, SequencesExt

CONSTANTS Key, Chunk,
          Upload,         \* contents clients post
          Result(_, _)    \* the transcript a session's log amounts to

VARIABLES log,        \* key -> durable chunk log
          published,  \* durable transcripts
          acked,      \* chunks acknowledged
          confirmed   \* transcripts answered with 200 or 201

dlVars == <<log, published, acked, confirmed>>

DLInit ==
  /\ log = [k \in Key |-> <<>>]
  /\ published = {}
  /\ acked = {}
  /\ confirmed = {}

\* A chunk becomes durable if its seq is free.
Commit(c) ==
  /\ \A i \in DOMAIN log[c.key] : log[c.key][i].seq # c.seq
  /\ log' = [log EXCEPT ![c.key] = Append(@, c)]
  /\ UNCHANGED <<published, acked, confirmed>>

\* A posted transcript, or the whole of a session's log, becomes durable.
Publish(d) ==
  /\ published' = published \cup {d}
  /\ UNCHANGED <<log, acked, confirmed>>
PublishUpload == \E d \in Upload : Publish(d)
PublishSession(k) == log[k] # <<>> /\ Publish(Result(k, log[k]))

\* Answers. A 201 is sent in the step that publishes; acknowledgements of a
\* stream go out together.
Acknowledge(S) ==
  /\ \A c \in S : \E i \in DOMAIN log[c.key] : log[c.key][i] = c
  /\ acked' = acked \cup S
  /\ UNCHANGED <<log, published, confirmed>>

ConfirmKnown(d) ==
  /\ d \in published
  /\ confirmed' = confirmed \cup {d}
  /\ UNCHANGED <<log, published, acked>>

PublishAndConfirm(d) ==
  /\ published' = published \cup {d}
  /\ confirmed' = confirmed \cup {d}
  /\ UNCHANGED <<log, acked>>

DLNext ==
  \/ \E c \in Chunk : Commit(c)
  \/ PublishUpload
  \/ \E k \in Key : PublishSession(k)
  \/ \E S \in SUBSET Chunk : Acknowledge(S)
  \/ \E d \in Upload : ConfirmKnown(d) \/ PublishAndConfirm(d)

DLSpec == DLInit /\ [][DLNext]_dlVars
=============================================================================
