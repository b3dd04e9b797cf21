----------------------------- MODULE MCAssembly -----------------------------
(***************************************************************************)
(* Assembly over every chunk log append_chunk can produce from a small     *)
(* stock of chunks: any arrival order, revisions of anything (earlier or   *)
(* later seqs, other revisions, seqs nobody sent). No chunk is final: which *)
(* chunk is matters to the transcript's date alone, never to its text.     *)
(***************************************************************************)
EXTENDS Assembly

CONSTANTS MaxSeq,    \* bound: seqs are 0..MaxSeq
          Speaker    \* speakers' local_ids

ASSUME MaxSeqAssumption == MaxSeq \in Nat

VARIABLE log

\* A chunk's text names the chunk, so a transcript shows what it came from.
Chunk == {[seq |-> q, revises |-> r, speaker |-> s, hive |-> "hive",
           text |-> <<q, r>>, final |-> FALSE] :
            q \in 0..MaxSeq, r \in {NoRev} \cup 0..MaxSeq, s \in Speaker}

Init == log = <<>>

\* A chunk of a new seq arrives.
Arrive(c) ==
  /\ \A i \in DOMAIN log : log[i].seq # c.seq
  /\ log' = Append(log, c)

Next == \E c \in Chunk : Arrive(c)

Spec == Init /\ [][Next]_log

-----------------------------------------------------------------------------
\* The texts of the transcript, segment after segment.
Flat(segs) == FlattenSeq([i \in DOMAIN segs |-> segs[i].texts])

Texts(cs) == [i \in DOMAIN cs |-> cs[i].text]

BySeq(cs) ==
  LET order == Increasing({cs[i].seq : i \in DOMAIN cs})
  IN  [n \in DOMAIN order |-> cs[CHOOSE i \in DOMAIN cs : cs[i].seq = order[n]]]

\* A chunk that corrects another one, by the docstring's words: "a chunk
\* revising seq K supersedes K's content".
Superseded(i) == \E j \in DOMAIN log : log[j].revises = log[i].seq

\* Corrections as an ASR client makes them: of a chunk that was sent before
\* and is not itself a correction.
RevisesOriginals ==
  \A j \in DOMAIN log : log[j].revises # NoRev =>
    \E i \in 1..(j - 1) : log[i].seq = log[j].revises /\ log[i].revises = NoRev

\* Grouping neither loses, repeats nor reorders what the chunks say: read from
\* start to end, the segments are the chosen chunks by effective seq, one for
\* every effective seq; and a turn is one segment, no two neighbouring ones have
\* the same speaker (assembly.py:27-49).
SegmentsPreserveOrder ==
  log # <<>> =>
    /\ Flat(Segments(log)) = Texts(Ordered(log))
    /\ Len(Ordered(log)) = Cardinality(Targets(log))
    /\ \A i, j \in DOMAIN Ordered(log) :
         i < j => Target(Ordered(log)[i]) < Target(Ordered(log)[j])
    /\ \A i \in 1..(Len(Segments(log)) - 1) :
         Segments(log)[i].speaker # Segments(log)[i + 1].speaker

\* When corrections are of original chunks that arrived earlier, no corrected
\* text survives in the transcript, and the last correction of each chunk does
\* (assembly.py:22-25).
CorrectionsApply ==
  RevisesOriginals =>
    /\ \A i \in DOMAIN log :
         Superseded(i) => ~Contains(Flat(Segments(log)), log[i].text)
    /\ \A i \in DOMAIN log :
         (\A j \in (i + 1)..Len(log) : Target(log[j]) # Target(log[i])
                                       /\ log[j].revises # log[i].seq)
           => Contains(Flat(Segments(log)), log[i].text)

\* Two streams may deliver the chunks of a session in any order: if no two of
\* them speak for the same effective seq, the transcript's text does not depend
\* on the order they arrived in ("Deterministic", assembly.py:6).
ArrivalOrderIrrelevant ==
  (\A i, j \in DOMAIN log : i # j => Target(log[i]) # Target(log[j]))
    => Segments(log) = Segments(BySeq(log))

\* A well-behaved live stream: seqs 0, 1, 2 ... in order, and each correction
\* names a chunk sent before it.
LiveStream ==
  \A j \in DOMAIN log : log[j].seq = j - 1 /\ log[j].revises < log[j].seq

\* The docstring without the condition of CorrectionsApply: in a well-behaved
\* stream too, the content of a chunk that a later chunk revises is not in the
\* transcript (assembly.py:3-4). A correction of a correction breaks it.
SupersededNeverAssembled ==
  LiveStream =>
    \A i \in DOMAIN log :
      Superseded(i) => ~Contains(Flat(Segments(log)), log[i].text)
=============================================================================
