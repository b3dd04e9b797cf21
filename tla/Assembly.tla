------------------------------ MODULE Assembly ------------------------------
(***************************************************************************)
(* Server-side assembly of a transcript from a retained chunk log          *)
(* (voxterm_transcript_sink/assembly.py, spec 9.4).                        *)
(*                                                                         *)
(* A chunk is a record with at least the fields                            *)
(*                                                                         *)
(*    seq      its position in the session, a natural number               *)
(*    revises  the seq it corrects, or NoRev                               *)
(*    hive     the hivemind it names                                       *)
(*    speaker  the speaker's local_id                                      *)
(*    text     everything else the chunk says (text, times, label, lang,   *)
(*             confidence, created_at)                                     *)
(*    final    is_final                                                    *)
(*                                                                         *)
(* and a log is a sequence of chunks in the order they arrived.            *)
(***************************************************************************)
EXTENDS Integers, SequencesExt

\* The absent revises_seq.
NoRev == -1

\* The effective seq a chunk speaks for: revises_seq redirects, once.
Target(c) == IF c.revises # NoRev THEN c.revises ELSE c.seq

Targets(log) == {Target(log[i]) : i \in DOMAIN log}

\* The index of the chunk that stands for an effective seq: a later arrival
\* overwrites an earlier one in the dictionary the code fills.
FirstFor(log, t) == Min({i \in DOMAIN log : Target(log[i]) = t})
LatestFor(log, t) == Max({i \in DOMAIN log : Target(log[i]) = t})

\* sorted() of a finite set of numbers: the nth is the one with n up to itself.
Increasing(S) ==
  [n \in 1..Cardinality(S) |-> CHOOSE t \in S : Cardinality({u \in S : u <= t}) = n]

\* The chunks the transcript is made of, by effective seq. (OrderedByArrival
\* and the other definitions that stand before the one they resemble are
\* faulty variants: the properties are tested against them, nothing uses them.)
OrderedByArrival(log) ==
  LET order == Increasing({LatestFor(log, t) : t \in Targets(log)})
  IN  [i \in DOMAIN order |-> log[order[i]]]
Ordered(log) ==
  LET order == Increasing(Targets(log))
  IN  [i \in DOMAIN order |-> log[LatestFor(log, order[i])]]

\* One step of the grouping loop: a chunk by the speaker of the last segment
\* extends that segment, any other chunk starts a segment of its own.
ExtendLast(segs, c) == [segs EXCEPT ![Len(segs)].texts = Append(@, c.text)]
StartSegment(segs, c) ==
  Append(segs, [speaker |-> c.speaker, texts |-> <<c.text>>])

GroupAnywhere(segs, c) ==
  IF \E i \in DOMAIN segs : segs[i].speaker = c.speaker
  THEN LET i == CHOOSE j \in DOMAIN segs : segs[j].speaker = c.speaker
       IN  [segs EXCEPT ![i].texts = Append(@, c.text)]
  ELSE StartSegment(segs, c)
Group(segs, c) ==
  IF segs # <<>> /\ Last(segs).speaker = c.speaker
  THEN ExtendLast(segs, c)
  ELSE StartSegment(segs, c)

Segments(log) == FoldLeft(Group, <<>>, Ordered(log))

\* The chunk that dates the transcript: the last final chunk to arrive, or the
\* last chunk when none is final.
ClosingChunk(log) ==
  LET finals == {i \in DOMAIN log : log[i].final}
  IN  log[IF finals = {} THEN Len(log) ELSE Max(finals)]

\* assemble(): the content of the transcript, which also is its identity, since
\* transcripts are content-addressed. The rendered markdown is a function of
\* the segments; the constant fields are left out. Defined for a nonempty log:
\* the code raises ValueError on an empty one.
Assemble(key, log) ==
  [key      |-> key,
   hive     |-> Ordered(log)[1].hive,
   created  |-> ClosingChunk(log).text,
   segments |-> Segments(log),
   count    |-> Len(log)]
=============================================================================
