--------------------------- MODULE ReadingProofs ----------------------------
(***************************************************************************)
(* What a reader gets, for any sessions, chunks, transcripts, stamps,      *)
(* tokens and limits, and any order of reads, writes and crashes: first    *)
(* what holds whatever saves fail, then what holds where each save that    *)
(* ends has replaced the snapshot (Reliable).                              *)
(***************************************************************************)
EXTENDS Reading, SinkProofs, FiniteSetTheorems

\* The reader changes nothing of the sink, and the sink goes on as before.
LEMMA ReadStepIsSinkStep ==
  ASSUME [ReadNext]_readVars PROVE [Next]_vars
<1>1. ASSUME NEW tk \in Token, Authenticate(tk) \/ Unauthorized(tk) PROVE UNCHANGED vars
  BY <1>1 DEF Authenticate, Unauthorized
<1>2. ASSUME ReadStep PROVE UNCHANGED vars
  BY <1>2 DEF ReadStep, GetTranscript, GetChunks, OpenList, NextPage
<1>3. ASSUME TimePasses PROVE UNCHANGED vars
  BY <1>3 DEF TimePasses
<1>4. ASSUME WriteStep PROVE Next
  BY <1>4 DEF WriteStep
<1> QED BY <1>1, <1>2, <1>3, <1>4 DEF ReadNext, readVars

\* What is proved of the write path holds beside readers (app.py:292-338).
THEOREM ReadUsesSink == ReadSpec => Spec
<1>1. ReadInit => Init
  BY DEF ReadInit
<1>2. [ReadNext]_readVars => [Next]_vars
  BY ReadStepIsSinkStep
<1> QED BY <1>1, <1>2, PTL DEF ReadSpec, Spec

-----------------------------------------------------------------------------
\* Tokens: one that was refused is not in the dictionary, and is not issued again.

RefusedUnknown == refused \cap DOMAIN tokens = {}

LEMMA RefusedStep ==
  ASSUME RefusedUnknown, [ReadNext]_readVars PROVE RefusedUnknown'
<1> USE DEF RefusedUnknown
<1>1. CASE UNCHANGED readVars
  BY <1>1 DEF readVars, tokenVars
<1>2. CASE WriteStep
  BY <1>2 DEF WriteStep, NoTokens
<1>3. ASSUME NEW tk \in Token, Authenticate(tk) PROVE RefusedUnknown'
  BY <1>3 DEF Authenticate, Issue
<1>4. ASSUME NEW tk \in Token, Unauthorized(tk) PROVE RefusedUnknown'
  BY <1>4 DEF Unauthorized, Refuse
<1>5. CASE ReadStep
  BY <1>5 DEF ReadStep, GetTranscript, GetChunks, OpenList, NextPage, tokenVars
<1>6. CASE TimePasses
  BY <1>6 DEF TimePasses, ClockMoves
<1> QED BY <1>1, <1>2, <1>3, <1>4, <1>5, <1>6 DEF ReadNext

\* Once a token was refused, no setting of the clock revives it (auth.py:56-58).
THEOREM RefusalIsFinal == ReadSpec => []RefusedStaysRefused
<1>1. ReadInit => RefusedUnknown
  BY DEF ReadInit, TokensInit, RefusedUnknown
<1>2. RefusedUnknown => RefusedStaysRefused
  BY DEF RefusedUnknown, RefusedStaysRefused, Valid
<1> QED BY <1>1, <1>2, RefusedStep, PTL DEF ReadSpec

-----------------------------------------------------------------------------
\* What is stored can be listed: it is of a session and has a stamp, and there is
\* a finite number of it.

DocOK(d) == d.key \in Key /\ d.created.at \in Stamp

LEMMA ClosingIsChunk ==
  ASSUME NEW log \in Seq(Chunk), log # <<>>
  PROVE  ClosingChunk(log) \in Chunk
<1> DEFINE finals == {i \in DOMAIN log : log[i].final}
<1>1. /\ Len(log) \in Nat /\ DOMAIN log = 1..Len(log) /\ Len(log) # 0
      /\ \A i \in DOMAIN log : log[i] \in Chunk
  BY EmptySeq
<1>2. CASE finals = {}
  <2>1. ClosingChunk(log) = log[Len(log)]
    BY <1>2 DEF ClosingChunk
  <2> QED BY <1>1, <2>1
<1>3. CASE finals # {}
  <2>1. finals \in SUBSET Int /\ \A i \in finals : i <= Len(log)
    BY <1>1
  <2>2. Max(finals) \in finals
    <3>1. PICK b \in Int : \A i \in finals : i <= b
      BY <1>1, <2>1
    <3> HIDE DEF finals
    <3> QED BY <1>3, <2>1, <3>1, MaxOfBounded
  <2>3. ClosingChunk(log) = log[Max(finals)]
    BY <1>3 DEF ClosingChunk
  <2> QED BY <1>1, <2>2, <2>3
<1> QED BY <1>2, <1>3

LEMMA StoredDocOK ==
  ASSUME TypeOK, Provenance
  PROVE  \A d \in DOMAIN transcripts \cup DOMAIN diskTranscripts : DocOK(d)
<1>1. ASSUME NEW logs \in [Key -> Seq(Chunk)], NEW docs, Explained(docs, logs), NEW d \in DOMAIN docs
      PROVE  DocOK(d)
  <2>1. CASE d \in Upload
    BY <2>1, ContentAssumption DEF DocOK
  <2>2. CASE d \notin Upload
    <3>0. PICK k \in Key : \E n \in DOMAIN logs[k] : d = Assemble(k, SubSeq(logs[k], 1, n))
      BY <1>1, <2>2 DEF Explained
    <3>1. PICK n \in DOMAIN logs[k] : d = Assemble(k, SubSeq(logs[k], 1, n))
      BY <3>0
    <3>2. SubSeq(logs[k], 1, n) \in Seq(Chunk) /\ SubSeq(logs[k], 1, n) # <<>>
      <4>1. logs[k] \in Seq(Chunk) /\ n \in 1..Len(logs[k]) /\ Len(logs[k]) \in Nat
        OBVIOUS
      <4>2. Len(SubSeq(logs[k], 1, n)) = n
        BY <4>1
      <4> QED BY <4>1, <4>2
    <3>3. ClosingChunk(SubSeq(logs[k], 1, n)) \in Chunk
      BY <3>2, ClosingIsChunk
    <3>4. d.key = k /\ d.created = ClosingChunk(SubSeq(logs[k], 1, n)).text
      BY <3>1 DEF Assemble
    <3> QED BY <3>3, <3>4, ContentAssumption DEF DocOK
  <2> QED BY <2>1, <2>2
<1> QED BY <1>1 DEF TypeOK, StoreTypeOK, Provenance

DocsFinite == IsFiniteSet(DOMAIN transcripts) /\ IsFiniteSet(DOMAIN diskTranscripts)

LEMMA FiniteStep ==
  ASSUME DocsFinite, [ReadNext]_readVars PROVE DocsFinite'
<1> USE DEF DocsFinite
<1>0. IsFiniteSet(DOMAIN NoTranscripts)
  BY FS_EmptySet DEF NoTranscripts
<1>1. [StoreNext]_storeVars
  BY ReadStepIsSinkStep, SinkStepIsStoreStep
<1>2. ASSUME NEW d, NEW signed \in BOOLEAN, PutTranscript(d, signed) PROVE DocsFinite'
  <2>1. DOMAIN transcripts' = DOMAIN transcripts \cup {d} /\ diskTranscripts' = diskTranscripts
    BY <1>2 DEF PutTranscript, disk
  <2> QED BY <2>1, FS_AddElement
<1>3. ASSUME \/ \E c \in Chunk : AppendChunk(c)
             \/ UNCHANGED storeVars
      PROVE  DocsFinite'
  BY <1>3 DEF AppendChunk, disk, storeVars
<1>4. CASE SaveEnds
  BY <1>0, <1>4 DEF SaveEnds, SaveReturns, SaveRaises, SaveRaisesLate, SaveTears,
                    ReplaceSnapshot, memory, disk
<1>5. CASE Crash
  BY <1>0, <1>5 DEF Crash, LoseMemory, ReplaceSnapshot, disk
<1>6. CASE Start
  BY <1>6 DEF Start, disk
<1> QED BY <1>1, <1>2, <1>3, <1>4, <1>5, <1>6 DEF StoreNext

\* What the reads need of the sink.
SinkFacts == TypeOK /\ Provenance /\ DocsFinite

LEMMA SinkFactsHold == ReadSpec => []SinkFacts
<1>1. ReadInit => DocsFinite
  BY FS_EmptySet DEF ReadInit, Init, StoreInit, NoTranscripts, DocsFinite
<1>2. ReadSpec => []DocsFinite
  BY <1>1, FiniteStep, PTL DEF ReadSpec
<1> QED BY <1>2, ReadUsesSink, TypeCorrect, ProvenanceHolds, PTL DEF SinkFacts

LEMMA TextType == ASSUME NEW s \in Stamp PROVE Text(s) \in Nat
<1>1. s.second \in Nat /\ s.tenth \in Nat
  BY StampAssumption DEF Stamps
<1>2. Mark(s) \in Nat
  BY DEF Mark
<1> DEFINE sec == s.second  tenth == s.tenth  mark == Mark(s)
           z == IF s.utc = "Z" THEN 1 ELSE 0
<1>3. z \in Nat /\ sec \in Nat /\ tenth \in Nat /\ mark \in Nat
  BY <1>1, <1>2
<1>4. Text(s) = 2 * (10 * (3 * sec + mark) + tenth) + z
  BY DEF Text
<1> HIDE DEF sec, tenth, mark, z
<1> QED BY <1>3, <1>4

LEMMA CreatedTextType ==
  ASSUME SinkFacts PROVE \A d \in DOMAIN transcripts : CreatedText(d) \in Nat
BY StoredDocOK, TextType DEF SinkFacts, DocOK, CreatedText

-----------------------------------------------------------------------------
\* The order of texts against the order of times.

LEMMA TextOrder ==
  ASSUME NEW s \in Stamp, NEW t \in Stamp
  PROVE  /\ Alike(s, t) => (Text(s) <= Text(t) <=> Time(s) <= Time(t))
         /\ s.second < t.second => Text(s) <= Text(t)
         /\ Text(s) <= Text(t) => s.second <= t.second
<1> DEFINE a == s.second  b == t.second  x == s.tenth  y == t.tenth
           mx == Mark(s)  my == Mark(t)
           zx == IF s.utc = "Z" THEN 1 ELSE 0
           zy == IF t.utc = "Z" THEN 1 ELSE 0
<1>1. a \in Nat /\ b \in Nat /\ x \in 0..9 /\ y \in 0..9
  BY StampAssumption DEF Stamps
<1>2. mx \in 0..2 /\ my \in 0..2 /\ zx \in 0..1 /\ zy \in 0..1
  BY DEF Mark
<1>3. Alike(s, t) => mx = my /\ zx = zy
  BY DEF Alike
<1>4. /\ Text(s) = 2 * (10 * (3 * a + mx) + x) + zx
      /\ Text(t) = 2 * (10 * (3 * b + my) + y) + zy
  BY DEF Text
<1>5. Time(s) = 10 * a + x /\ Time(t) = 10 * b + y
  BY DEF Time
<1> HIDE DEF a, b, x, y, mx, my, zx, zy
<1>6. Alike(s, t) => (Text(s) <= Text(t) <=> Time(s) <= Time(t))
  BY <1>1, <1>2, <1>3, <1>4, <1>5
<1>7. /\ a < b => Text(s) <= Text(t)
      /\ Text(s) <= Text(t) => a <= b
  BY <1>1, <1>2, <1>4
<1> QED BY <1>6, <1>7 DEF a, b

\* A window is right up to the second in which its bounds lie, whatever is stored
\* and however it was stored (store.py:97-101).
THEOREM WindowsAreRight == ReadSpec => []WindowRight
<1>1. ASSUME SinkFacts, NEW since \in Stamp, NEW until \in Stamp, NEW d \in DOMAIN transcripts
      PROVE  LET at == d.created.at
                 selected == d \in Matching(NoKey, Text(since), Text(until))
             IN  /\ Alike(at, since) /\ Alike(at, until) =>
                      (selected <=> Time(since) <= Time(at) /\ Time(at) <= Time(until))
                 /\ since.second < at.second /\ at.second < until.second => selected
                 /\ selected => since.second <= at.second /\ at.second <= until.second
  <2> DEFINE at == d.created.at
             selected == d \in Matching(NoKey, Text(since), Text(until))
  <2>1. at \in Stamp
    BY <1>1, StoredDocOK DEF SinkFacts, DocOK
  <2>2. /\ Text(since) \in Nat /\ Text(until) \in Nat /\ Text(at) \in Nat
    BY <2>1, TextType
  <2>3. selected <=> Text(since) <= Text(at) /\ Text(at) <= Text(until)
    BY <1>1, <2>2 DEF Matching, NoBound, CreatedText
  <2>4. Alike(at, since) => Alike(since, at)
    BY DEF Alike
  <2> QED BY <2>1, <2>3, <2>4, TextOrder
<1>2. SinkFacts => WindowRight
  BY <1>1 DEF WindowRight
<1> QED BY <1>2, SinkFactsHold, PTL

-----------------------------------------------------------------------------
\* Tailing a session.

\* What Poll() adds: the new mark is the highest seq of what the reader has.
LEMMA PollMark ==
  ASSUME TypeOK, NEW k \in Key, NEW mark \in Nat \cup {-1}
  PROVE  LET news == AfterSeq(k, mark)
             m == Max({mark} \cup {c.seq : c \in news})
         IN  /\ news \subseteq Chunk
             /\ m \in Nat \cup {-1} /\ mark <= m
             /\ \A c \in news : c.seq <= m
             /\ m = mark \/ \E c \in news : c.seq = m
<1> DEFINE log == chunks[k]
           n == Len(log)
           f == [i \in 1..n |-> log[i].seq]
           news == AfterSeq(k, mark)
           S == {mark} \cup {c.seq : c \in news}
<1>1. /\ log \in Seq(Chunk) /\ n \in Nat /\ DOMAIN log = 1..n
      /\ \A i \in 1..n : log[i] \in Chunk /\ log[i].seq \in Nat
  BY ChunkAssumption DEF TypeOK, StoreTypeOK
<1>2. news = {c \in {log[i] : i \in 1..n} : c.seq > mark}
  BY <1>1 DEF AfterSeq, Range
<1>3. f \in [1..n -> Int]
  BY <1>1
<1>4. PICK b \in Nat : \A i \in 1..n : f[i] <= b
  <2> HIDE DEF f, n
  <2> QED BY <1>1, <1>3, FiniteImageBounded
<1>5. \A i \in 1..n : log[i].seq <= b
  BY <1>4
<1>6. news \subseteq Chunk /\ \A c \in news : c.seq \in Nat /\ c.seq <= b /\ c.seq > mark
  BY <1>1, <1>2, <1>5
<1>7. PICK e \in Nat : b <= e /\ mark <= e
  <2>1. CASE mark <= b
    BY <2>1
  <2>2. CASE mark > b
    BY <2>2
  <2> QED BY <2>1, <2>2
<1>8. S \in SUBSET Int /\ S # {} /\ \A x \in S : x <= e
  BY <1>6, <1>7
<1>9. Max(S) \in S /\ \A x \in S : x <= Max(S)
  <2> HIDE DEF S
  <2> QED BY <1>8, MaxOfBounded
<1> QED BY <1>6, <1>9

\* A reader who tails a log has of it what MissesOnlyLate says, and knows no seq
\* above its mark.
TailOf(log, mark, seen, polled) ==
  /\ polled \in Nat /\ polled <= Len(log)
  /\ \A c \in seen : \E i \in DOMAIN log : log[i] = c
  /\ \A i \in 1..polled :
       /\ log[i].seq <= mark
       /\ log[i] \in seen \/ \E j \in 1..(i - 1) : log[j].seq > log[i].seq
  /\ mark = -1 \/ \E i \in 1..polled : log[i].seq = mark

LEMMA PollTails ==
  ASSUME TypeOK, Unambiguous(chunks), NEW k \in Key, NEW mark \in Nat \cup {-1},
         NEW seen, NEW polled, TailOf(chunks[k], mark, seen, polled)
  PROVE  LET news == AfterSeq(k, mark)
         IN  TailOf(chunks[k], Max({mark} \cup {c.seq : c \in news}), seen \cup news,
                    Len(chunks[k]))
<1> DEFINE log == chunks[k]
           n == Len(log)
           news == AfterSeq(k, mark)
           m == Max({mark} \cup {c.seq : c \in news})
<1>1. /\ log \in Seq(Chunk) /\ n \in Nat /\ DOMAIN log = 1..n
      /\ \A i \in 1..n : log[i] \in Chunk /\ log[i].seq \in Nat
  BY ChunkAssumption DEF TypeOK, StoreTypeOK
<1>2. news = {c \in {log[i] : i \in 1..n} : c.seq > mark}
  BY <1>1 DEF AfterSeq, Range
<1>3. /\ m \in Nat \cup {-1} /\ mark <= m
      /\ \A c \in news : c.seq <= m
      /\ m = mark \/ \E c \in news : c.seq = m
  BY PollMark
<1> HIDE DEF m
<1>4. ASSUME NEW i \in 1..n
      PROVE  /\ log[i].seq <= m
             /\ log[i] \in seen \cup news \/ \E j \in 1..(i - 1) : log[j].seq > log[i].seq
  <2>1. CASE log[i].seq > mark
    BY <1>2, <1>3, <2>1
  <2>2. CASE ~(log[i].seq > mark) /\ i <= polled
    <3>1. i \in 1..polled
      BY <2>2 DEF TailOf
    <3>2. log[i] \in seen \/ \E j \in 1..(i - 1) : log[j].seq > log[i].seq
      BY <3>1 DEF TailOf
    <3> QED BY <1>1, <1>3, <2>2, <3>2
  <2>3. CASE ~(log[i].seq > mark) /\ ~(i <= polled)
    <3>1. mark # -1
      BY <1>1, <2>3
    <3>2. PICK j \in 1..polled : log[j].seq = mark
      BY <3>1 DEF TailOf
    <3>3. j \in 1..n /\ j < i /\ polled \in Nat
      BY <1>1, <2>3 DEF TailOf
    <3>4. log[j].seq # log[i].seq
      BY <1>1, <3>3 DEF Unambiguous
    <3>5. log[j].seq > log[i].seq /\ j \in 1..(i - 1)
      BY <1>1, <2>3, <3>2, <3>3, <3>4
    <3> QED BY <1>1, <1>3, <2>3, <3>5
  <2> QED BY <2>1, <2>2, <2>3
<1>5. m = -1 \/ \E i \in 1..n : log[i].seq = m
  <2>1. CASE m = mark
    <3>1. mark = -1 \/ \E i \in 1..polled : log[i].seq = mark
      BY DEF TailOf
    <3>2. polled \in Nat /\ polled <= n
      BY DEF TailOf
    <3> QED BY <1>1, <2>1, <3>1, <3>2
  <2>2. CASE \E c \in news : c.seq = m
    BY <1>2, <2>2
  <2> QED BY <1>3, <2>1, <2>2
<1>6. \A c \in seen \cup news : \E i \in DOMAIN log : log[i] = c
  BY <1>1, <1>2 DEF TailOf
<1>7. TailOf(log, m, seen \cup news, n)
  BY <1>1, <1>4, <1>5, <1>6 DEF TailOf
<1> QED BY <1>7 DEF m

\* A log that grows keeps what the reader has of it.
LEMMA TailKeeps ==
  ASSUME NEW log \in Seq(Chunk), NEW log2 \in Seq(Chunk), Len(log) <= Len(log2),
         \A i \in DOMAIN log : i \in DOMAIN log2 /\ log2[i] = log[i],
         NEW mark, NEW seen, NEW polled, TailOf(log, mark, seen, polled)
  PROVE  TailOf(log2, mark, seen, polled)
<1>1. /\ DOMAIN log = 1..Len(log) /\ Len(log) \in Nat /\ Len(log2) \in Nat
      /\ polled \in Nat /\ polled <= Len(log)
  BY DEF TailOf
<1>2. \A i \in 1..polled : log2[i] = log[i] /\ \A j \in 1..(i - 1) : log2[j] = log[j]
  BY <1>1
<1>3. \A c \in seen : \E i \in DOMAIN log2 : log2[i] = c
  BY DEF TailOf
<1>4. ASSUME NEW i \in 1..polled
      PROVE  /\ log2[i].seq <= mark
             /\ log2[i] \in seen \/ \E j \in 1..(i - 1) : log2[j].seq > log2[i].seq
  BY <1>2 DEF TailOf
<1>5. mark = -1 \/ \E i \in 1..polled : log2[i].seq = mark
  BY <1>2 DEF TailOf
<1> QED BY <1>1, <1>3, <1>4, <1>5 DEF TailOf

-----------------------------------------------------------------------------
\* A page. Nothing is assumed of the ids but that they have an order.

Ranked ==
  \A d : d \in Upload \/ (\E k \in Key, log \in Seq(Chunk) : d = Assemble(k, log)) =>
           IdRank(d) \in Nat

LEMMA StoredRanked ==
  ASSUME TypeOK, Provenance, Ranked PROVE \A d \in DOMAIN transcripts : IdRank(d) \in Nat
<1> SUFFICES ASSUME NEW d \in DOMAIN transcripts, d \notin Upload PROVE IdRank(d) \in Nat
  BY DEF Ranked
<1>1. PICK k \in Key : \E n \in DOMAIN chunks[k] : d = Assemble(k, SubSeq(chunks[k], 1, n))
  BY DEF Provenance, Explained
<1>2. PICK n \in DOMAIN chunks[k] : d = Assemble(k, SubSeq(chunks[k], 1, n))
  BY <1>1
<1>3. chunks[k] \in Seq(Chunk) /\ n \in 1..Len(chunks[k])
  BY DEF TypeOK, StoreTypeOK
<1>4. SubSeq(chunks[k], 1, n) \in Seq(Chunk)
  BY <1>3
<1> QED BY <1>2, <1>4 DEF Ranked

\* The transcripts of found can be put in order.
Listable(found) ==
  IsFiniteSet(found) /\ \A d \in found : CreatedText(d) \in Nat /\ IdRank(d) \in Nat

Rank(found, d) == Cardinality({e \in found : Before(e, d)})

LEMMA RankType ==
  ASSUME NEW found, Listable(found), NEW d
  PROVE  /\ {e \in found : Before(e, d)} \in SUBSET found
         /\ IsFiniteSet({e \in found : Before(e, d)})
         /\ Rank(found, d) \in Nat
<1>1. {e \in found : Before(e, d)} \in SUBSET found
  OBVIOUS
<1> QED BY <1>1, FS_Subset, FS_CardinalityType DEF Rank, Listable

LEMMA FewerBefore ==
  ASSUME NEW found, Listable(found), NEW d \in found, NEW e \in found, Before(d, e)
  PROVE  Rank(found, d) < Rank(found, e)
<1> DEFINE D == {x \in found : Before(x, d)}
           E == {x \in found : Before(x, e)}
<1>1. ~Before(d, d) /\ \A x \in found : Before(x, d) => Before(x, e)
  BY DEF Before, Listable
<1>2. D \in SUBSET E /\ d \in E /\ d \notin D
  BY <1>1
<1>3. IsFiniteSet(E) /\ Cardinality(E) \in Nat /\ Cardinality(D) \in Nat
  BY RankType DEF Rank
<1>4. Cardinality(D) <= Cardinality(E) /\ (Cardinality(E) = Cardinality(D) => E = D)
  <2> HIDE DEF D, E
  <2> QED BY <1>2, <1>3, FS_Subset
<1>5. Cardinality(D) < Cardinality(E)
  BY <1>2, <1>3, <1>4
<1> QED BY <1>5 DEF Rank

\* Of n transcripts at least k have fewer than k before them.
LEMMA EnoughFirst ==
  ASSUME NEW found, Listable(found), NEW k \in Nat, k <= Cardinality(found)
  PROVE  Cardinality({d \in found : Rank(found, d) < k}) >= k
<1> DEFINE I(j) == {d \in found : Rank(found, d) < j}
           S == {j \in Nat : j <= Cardinality(found) => Cardinality(I(j)) >= j}
<1>0. ASSUME NEW j \in Nat PROVE I(j) \in SUBSET found /\ IsFiniteSet(I(j)) /\ Cardinality(I(j)) \in Nat
  <2>1. I(j) \in SUBSET found
    OBVIOUS
  <2> HIDE DEF I
  <2> QED BY <2>1, FS_Subset, FS_CardinalityType DEF Listable
<1>1. 0 \in S
  BY <1>0
<1>2. ASSUME NEW j \in Nat, j \in S PROVE j + 1 \in S
  <2>1. SUFFICES ASSUME j + 1 <= Cardinality(found) PROVE Cardinality(I(j + 1)) >= j + 1
    BY <1>2
  <2>2. Cardinality(found) \in Nat /\ IsFiniteSet(found)
    BY FS_CardinalityType DEF Listable
  <2>3. Cardinality(I(j)) >= j
    BY <1>2, <2>1, <2>2
  <2>4. I(j) \in SUBSET I(j + 1)
    <3>1. ASSUME NEW d \in found PROVE Rank(found, d) \in Nat
      BY RankType
    <3>2. ASSUME NEW d \in found, Rank(found, d) < j PROVE Rank(found, d) < j + 1
      BY <3>1, <3>2
    <3> QED BY <3>2
  <2>5. IsFiniteSet(I(j + 1)) /\ Cardinality(I(j + 1)) \in Nat
    BY <1>0
  <2>6. /\ IsFiniteSet(I(j)) /\ Cardinality(I(j)) \in Nat
        /\ Cardinality(I(j)) <= Cardinality(I(j + 1))
    <3> HIDE DEF I
    <3> QED BY <1>0, <2>4, <2>5, FS_Subset
  <2>7. CASE Cardinality(I(j)) >= j + 1
    BY <2>5, <2>6, <2>7
  <2>8. CASE Cardinality(I(j)) = j
    <3> DEFINE R == found \ I(j)
               T == {Rank(found, x) : x \in R}
    <3>1. R # {}
      <4>1. I(j) # found
        BY <2>1, <2>2, <2>8
      <4> QED BY <4>1
    <3>2. T \subseteq Nat /\ T # {}
      BY <3>1, RankType
    <3>3. PICK r \in T : \A y \in T : ~(<<y, r>> \in OpToRel(<, Nat))
      <4> HIDE DEF T
      <4> QED BY <3>2, NatLessThanWellFounded, WFMin
    <3>4. PICK d \in R : r = Rank(found, d)
      OBVIOUS
    <3>5. ASSUME NEW e \in found, Before(e, d) PROVE e \in I(j)
      <4>1. Rank(found, e) < Rank(found, d) /\ Rank(found, e) \in Nat /\ Rank(found, d) \in Nat
        BY <3>5, FewerBefore, RankType
      <4>2. <<Rank(found, e), r>> \in OpToRel(<, Nat)
        BY <3>4, <4>1 DEF OpToRel
      <4>3. Rank(found, e) \notin T
        BY <3>3, <4>2
      <4> QED BY <4>3
    <3>6. {e \in found : Before(e, d)} \in SUBSET I(j)
      BY <3>5
    <3>7. Rank(found, d) <= Cardinality(I(j))
      <4> HIDE DEF I
      <4> QED BY <2>6, <3>6, FS_Subset DEF Rank
    <3>8. d \in I(j + 1) /\ d \notin I(j)
      <4>1. Rank(found, d) \in Nat
        BY RankType
      <4>2. Rank(found, d) < j + 1
        <5> HIDE DEF I
        <5> QED BY <2>8, <3>7, <4>1
      <4> QED BY <4>2
    <3>9. I(j) \cup {d} \in SUBSET I(j + 1)
      BY <2>4, <3>8
    <3>10. Cardinality(I(j) \cup {d}) = j + 1
      <4> HIDE DEF I
      <4> QED BY <2>6, <2>8, <3>8, FS_AddElement
    <3>11. Cardinality(I(j) \cup {d}) <= Cardinality(I(j + 1))
      <4> HIDE DEF I
      <4> QED BY <2>5, <3>9, FS_Subset
    <3> QED BY <2>5, <3>10, <3>11
  <2> QED BY <2>3, <2>6, <2>7, <2>8
<1> HIDE DEF S
<1>3. k \in S
  BY <1>1, <1>2, SetInduction
<1> QED BY <1>3 DEF S

LEMMA ClampedType == Clamped \in Nat /\ Clamped >= 1
BY LimitAssumption DEF Clamped

\* A page that is not full holds all that was found; a full one holds all of it
\* that comes before its last stamp.
LEMMA PageOf ==
  ASSUME NEW found, Listable(found)
  PROVE  LET items == Items(found)
             last == Max({CreatedText(d) : d \in items})
         IN  /\ items \in SUBSET found
             /\ Size(Cardinality(found)) < Clamped => items = found
             /\ ~(Size(Cardinality(found)) < Clamped) =>
                  /\ Cardinality(items) >= Clamped
                  /\ last \in Nat
                  /\ \A d \in items : CreatedText(d) <= last
                  /\ \A d \in found : CreatedText(d) < last => d \in items
<1> DEFINE n == Cardinality(found)
           items == Items(found)
           texts == {CreatedText(d) : d \in items}
           last == Max(texts)
<1>1. n \in Nat /\ IsFiniteSet(found) /\ Clamped \in Nat /\ Clamped >= 1
  BY FS_CardinalityType, ClampedType DEF Listable
<1>2. /\ Size(n) \in Nat /\ Size(n) <= n /\ Size(n) <= Clamped
      /\ Size(n) < Clamped => Size(n) = n
  BY <1>1 DEF Size
<1>3. items = {d \in found : Rank(found, d) < Size(n)}
  BY DEF Items, Rank
<1>4. ASSUME Size(n) < Clamped PROVE items = found
  <2>1. ASSUME NEW d \in found PROVE Rank(found, d) < n
    <3> DEFINE D == {e \in found : Before(e, d)}
    <3>1. D \in SUBSET found /\ d \notin D
      BY DEF Before, Listable
    <3>2. Cardinality(D) <= n /\ (n = Cardinality(D) => found = D) /\ Cardinality(D) \in Nat
      <4>1. Cardinality(D) \in Nat
        BY RankType DEF Rank
      <4> HIDE DEF D
      <4> QED BY <1>1, <3>1, <4>1, FS_Subset
    <3>3. Cardinality(D) < n
      BY <1>1, <3>1, <3>2
    <3> QED BY <3>3 DEF Rank
  <2> QED BY <1>2, <1>3, <1>4, <2>1
<1>5. ASSUME ~(Size(n) < Clamped)
      PROVE  /\ Cardinality(items) >= Clamped
             /\ last \in Nat
             /\ \A d \in items : CreatedText(d) <= last
             /\ \A d \in found : CreatedText(d) < last => d \in items
  <2>1. Size(n) = Clamped
    BY <1>1, <1>2, <1>5
  <2>2. Cardinality(items) >= Clamped
    BY <1>1, <1>2, <1>3, <2>1, EnoughFirst
  <2>3. items # {}
    BY <1>1, <2>2, FS_EmptySet
  <2>4. items \in SUBSET found /\ IsFiniteSet(items) /\ Cardinality(items) \in Nat
    <3>1. items \in SUBSET found
      BY <1>3
    <3> HIDE DEF items
    <3> QED BY <1>1, <3>1, FS_Subset, FS_CardinalityType
  <2>5. texts \in SUBSET Int /\ texts # {} /\ \A x \in texts : x \in Nat
    BY <2>3, <2>4 DEF Listable
  <2>6. PICK b \in Nat : \A x \in texts : x <= b
    <3> DEFINE m == Cardinality(items)
    <3>1. PICK g : g \in Bijection(1..m, items)
      BY <2>4, FS_CardinalityType DEF ExistsBijection
    <3>2. /\ g \in [1..m -> items]
          /\ \A d \in items : \E i \in 1..m : g[i] = d
      BY <3>1 DEF Bijection, Surjection
    <3> DEFINE f == [i \in 1..m |-> CreatedText(g[i])]
    <3>3. f \in [1..m -> Int]
      BY <2>4, <3>2 DEF Listable
    <3>4. PICK b \in Nat : \A i \in 1..m : f[i] <= b
      <4> HIDE DEF f, m
      <4>1. m \in Nat
        BY <2>4 DEF m
      <4> QED BY <3>3, <4>1, FiniteImageBounded
    <3>5. \A d \in items : CreatedText(d) <= b
      BY <3>2, <3>4
    <3> QED BY <3>5
  <2>7. last \in texts /\ \A x \in texts : x <= last
    <3>1. b \in Int
      OBVIOUS
    <3> HIDE DEF texts
    <3> QED BY <2>5, <2>6, <3>1, MaxOfBounded
  <2>8. last \in Nat /\ \A d \in items : CreatedText(d) <= last
    BY <2>5, <2>7
  <2>9. ASSUME NEW d \in found, CreatedText(d) < last PROVE d \in items
    <3>1. PICK e \in items : CreatedText(e) = last
      BY <2>7
    <3>2. e \in found /\ Before(d, e)
      BY <2>4, <2>9, <3>1 DEF Before
    <3>3. Rank(found, d) < Rank(found, e) /\ Rank(found, e) < Size(n)
      BY <1>3, <3>1, <3>2, FewerBefore
    <3>4. Rank(found, d) \in Nat /\ Rank(found, e) \in Nat
      BY RankType
    <3> QED BY <1>2, <1>3, <3>3, <3>4
  <2> QED BY <2>2, <2>8, <2>9
<1>6. items \in SUBSET found
  BY <1>3
<1> QED BY <1>4, <1>5, <1>6

\* What a reader who turns pages has, given the transcripts docs.
Paged(r, docs) ==
  /\ r.session \in Key \cup {NoKey}
  /\ r.since \in Nat \cup {NoBound}
  /\ r.state \in {"more", "done", "stuck"}
  /\ r.got \subseteq docs
  /\ \A d \in r.start : d \in docs /\ (r.session = NoKey \/ d.key = r.session)
  /\ r.state = "more" => \A d \in r.start : CreatedText(d) < r.since => d \in r.got
  /\ r.state = "done" => r.start \subseteq r.got
  /\ r.state = "stuck" => Cardinality({d \in r.got : CreatedText(d) = r.since}) >= Clamped

LEMMA FoundListable ==
  ASSUME SinkFacts, Ranked, NEW session, NEW since
  PROVE  /\ Matching(session, since, NoBound) \in SUBSET DOMAIN transcripts
         /\ Listable(Matching(session, since, NoBound))
<1>1. Matching(session, since, NoBound) \in SUBSET DOMAIN transcripts
  BY DEF Matching
<1>2. IsFiniteSet(Matching(session, since, NoBound))
  BY <1>1, FS_Subset DEF SinkFacts, DocsFinite
<1> QED BY <1>1, <1>2, StoredRanked, CreatedTextType DEF SinkFacts, Listable

LEMMA TurnPages ==
  ASSUME SinkFacts, Ranked, NEW session \in Key \cup {NoKey}, NEW since \in Nat \cup {NoBound},
         NEW got, NEW start, got \subseteq DOMAIN transcripts,
         \A d \in start : d \in DOMAIN transcripts /\ (session = NoKey \/ d.key = session),
         \A d \in start : CreatedText(d) < since => d \in got
  PROVE  /\ Turn(session, since, got, start).mode = "pages"
         /\ Paged(Turn(session, since, got, start), DOMAIN transcripts)
<1> DEFINE found == Matching(session, since, NoBound)
           items == Items(found)
           last == Max({CreatedText(d) : d \in items})
           r == Turn(session, since, got, start)
<1>1. found \in SUBSET DOMAIN transcripts /\ Listable(found)
  BY FoundListable
<1>2. /\ items \in SUBSET found
      /\ Size(Cardinality(found)) < Clamped => items = found
      /\ ~(Size(Cardinality(found)) < Clamped) =>
           /\ Cardinality(items) >= Clamped
           /\ last \in Nat
           /\ \A d \in items : CreatedText(d) <= last
           /\ \A d \in found : CreatedText(d) < last => d \in items
  BY <1>1, PageOf
<1>3. \A d \in start : d \in found \/ d \in got
  <2>1. ASSUME NEW d \in start, d \notin got PROVE d \in found
    <3>1. d \in DOMAIN transcripts /\ (session = NoKey \/ d.key = session)
          /\ CreatedText(d) \in Nat /\ ~(CreatedText(d) < since)
      BY <2>1, CreatedTextType
    <3> QED BY <3>1 DEF Matching, NoBound
  <2> QED BY <2>1
<1>4. \A d \in items : CreatedText(d) \in Nat /\ (since = NoBound \/ CreatedText(d) >= since)
  BY <1>1, <1>2, CreatedTextType DEF Matching
<1>5. CASE Size(Cardinality(found)) < Clamped
  <2>1. r = Paging(session, since, got \cup items, start, "done")
    BY <1>5 DEF Turn
  <2> QED BY <1>1, <1>2, <1>3, <1>5, <2>1 DEF Paging, Paged
<1>6. CASE ~(Size(Cardinality(found)) < Clamped) /\ last = since
  <2>1. r = Paging(session, since, got \cup items, start, "stuck")
    BY <1>6 DEF Turn
  <2> DEFINE stuck == {d \in got \cup items : CreatedText(d) = since}
  <2>2. \A d \in items : CreatedText(d) = since
    BY <1>2, <1>4, <1>6 DEF NoBound
  <2>3. items \in SUBSET stuck /\ stuck \in SUBSET DOMAIN transcripts
    BY <1>1, <1>2, <2>2
  <2>4. IsFiniteSet(DOMAIN transcripts)
    BY DEF SinkFacts, DocsFinite
  <2>5. IsFiniteSet(stuck) /\ IsFiniteSet(items) /\ Cardinality(stuck) \in Nat
        /\ Cardinality(items) \in Nat /\ Cardinality(items) <= Cardinality(stuck)
    <3> HIDE DEF stuck, items
    <3> QED BY <2>3, <2>4, FS_Subset, FS_CardinalityType
  <2>6. Cardinality(stuck) >= Clamped
    BY <1>2, <1>6, <2>5, ClampedType
  <2> QED BY <1>1, <1>2, <2>1, <2>6 DEF Paging, Paged
<1>7. CASE ~(Size(Cardinality(found)) < Clamped) /\ last # since
  <2>1. r = Paging(session, last, got \cup items, start, "more")
    BY <1>7 DEF Turn
  <2> QED BY <1>1, <1>2, <1>3, <1>7, <2>1 DEF Paging, Paged
<1> QED BY <1>5, <1>6, <1>7

\* The first page and the ones after it.
LEMMA ListPages ==
  ASSUME SinkFacts, Ranked,
         reader.mode = "pages" => Paged(reader, DOMAIN transcripts),
         (\E session \in Key \cup {NoKey} : OpenList(session)) \/ NextPage
  PROVE  reader'.mode = "pages" /\ Paged(reader', DOMAIN transcripts)
<1>1. ASSUME NEW session \in Key \cup {NoKey}, OpenList(session)
      PROVE  reader'.mode = "pages" /\ Paged(reader', DOMAIN transcripts)
  <2> DEFINE start == {d \in DOMAIN transcripts : session = NoKey \/ d.key = session}
  <2>1. reader' = Turn(session, NoBound, {}, start)
    BY <1>1 DEF OpenList
  <2>2. \A d \in start : d \in DOMAIN transcripts /\ (session = NoKey \/ d.key = session)
                         /\ ~(CreatedText(d) < NoBound)
    BY CreatedTextType DEF NoBound
  <2> HIDE DEF start
  <2> QED BY <2>1, <2>2, TurnPages
<1>2. ASSUME NextPage
      PROVE  reader'.mode = "pages" /\ Paged(reader', DOMAIN transcripts)
  <2>1. /\ reader' = Turn(reader.session, reader.since, reader.got, reader.start)
        /\ reader.state = "more" /\ Paged(reader, DOMAIN transcripts)
    BY <1>2 DEF NextPage
  <2>2. /\ reader.session \in Key \cup {NoKey} /\ reader.since \in Nat \cup {NoBound}
        /\ reader.got \subseteq DOMAIN transcripts
        /\ \A d \in reader.start :
             /\ d \in DOMAIN transcripts /\ (reader.session = NoKey \/ d.key = reader.session)
             /\ CreatedText(d) < reader.since => d \in reader.got
    BY <2>1 DEF Paged
  <2> QED BY <2>1, <2>2, TurnPages
<1> QED BY <1>1, <1>2

-----------------------------------------------------------------------------
(***************************************************************************)
(* From here on a snapshot is configured and saves replace it. A route     *)
(* that reads then finds in memory what is in the snapshot.                *)
(***************************************************************************)

TokensOK ==
  /\ tokens \in [DOMAIN tokens -> Nat]
  /\ DOMAIN tokens \subseteq Token
  /\ clock \in 0 .. LastTick
  /\ refused \subseteq Token
  /\ ~up => tokens = NoTokens

LEMMA TokensStep ==
  ASSUME TypeOK, TokensOK, [ReadNext]_readVars PROVE TokensOK'
<1> USE DEF TokensOK
<1>1. CASE UNCHANGED readVars
  BY <1>1 DEF readVars, tokenVars, vars, storeVars
<1>2. CASE WriteStep
  <2>1. NoTokens \in [DOMAIN NoTokens -> Nat] /\ DOMAIN NoTokens \subseteq Token
    BY DEF NoTokens
  <2>2. /\ tokens' = IF up' THEN tokens ELSE NoTokens
        /\ UNCHANGED <<clock, refused>>
    BY <1>2 DEF WriteStep
  <2>3. CASE up'
    BY <2>2, <2>3
  <2>4. CASE ~up'
    BY <2>1, <2>2, <2>4
  <2> QED BY <2>3, <2>4
<1>3. ASSUME NEW tk \in Token, Authenticate(tk) PROVE TokensOK'
  <2>1. /\ up' = up /\ up /\ UNCHANGED <<clock, refused>>
        /\ tokens' = [t \in DOMAIN tokens \cup {tk} |->
                        IF t = tk THEN clock + Lifetime ELSE tokens[t]]
    BY <1>3 DEF Authenticate, Free, Issue, vars, storeVars
  <2>2. clock + Lifetime \in Nat
    BY ClockAssumption
  <2> QED BY <2>1, <2>2
<1>4. ASSUME NEW tk \in Token, Unauthorized(tk) PROVE TokensOK'
  <2>1. /\ up' = up /\ up /\ clock' = clock /\ refused' = refused \cup {tk}
        /\ tokens' = [t \in DOMAIN tokens \ {tk} |-> tokens[t]]
    BY <1>4 DEF Unauthorized, Free, Refuse, vars, storeVars
  <2> QED BY <2>1
<1>5. CASE ReadStep
  BY <1>5 DEF ReadStep, GetTranscript, GetChunks, OpenList, NextPage, tokenVars, vars, storeVars
<1>6. CASE TimePasses
  BY <1>6 DEF TimePasses, ClockMoves, vars, storeVars
<1> QED BY <1>1, <1>2, <1>3, <1>4, <1>5, <1>6 DEF ReadNext

\* What the reader has, against the snapshot. ShownDurable is part of it, and the
\* rest makes it inductive: the next answer is compared with the last one.
ReaderOK ==
  /\ reader.mode \in {"idle", "holds", "tails", "pages"}
  /\ reader.mode = "holds" => reader.doc \in DOMAIN diskTranscripts
  /\ reader.mode = "tails" =>
       /\ reader.key \in Key /\ reader.seen \subseteq Chunk
       /\ reader.mark \in Nat \cup {-1}
       /\ TailOf(diskChunks[reader.key], reader.mark, reader.seen, reader.polled)
  /\ reader.mode = "pages" => Paged(reader, DOMAIN diskTranscripts)

LEMMA ReaderKept ==
  ASSUME Reliable, ReliableInv, ReaderOK, [Next]_vars, reader' = reader PROVE ReaderOK'
<1>1. /\ diskChunks \in [Key -> Seq(Chunk)] /\ diskChunks' \in [Key -> Seq(Chunk)]
      /\ Extends(diskChunks, diskTranscripts, diskChunks', diskTranscripts')
  BY ReliableStoreStep DEF ReliableInv, TypeOK, StoreTypeOK
<1>2. /\ \A k \in Key : \A i \in DOMAIN diskChunks[k] :
           i \in DOMAIN diskChunks'[k] /\ diskChunks'[k][i] = diskChunks[k][i]
      /\ \A d \in DOMAIN diskTranscripts : d \in DOMAIN diskTranscripts'
  BY <1>1, ExtendsKeeps
<1>3. ASSUME reader.mode = "tails"
      PROVE  TailOf(diskChunks'[reader.key], reader.mark, reader.seen, reader.polled)
  <2> DEFINE k == reader.key
  <2>1. k \in Key /\ TailOf(diskChunks[k], reader.mark, reader.seen, reader.polled)
    BY <1>3 DEF ReaderOK
  <2>2. diskChunks[k] \in Seq(Chunk) /\ diskChunks'[k] \in Seq(Chunk)
    BY <1>1, <2>1
  <2>3. IsPrefix(diskChunks[k], diskChunks'[k])
    BY <1>1, <2>1 DEF Extends
  <2>4. Len(diskChunks[k]) <= Len(diskChunks'[k])
    BY <2>2, <2>3, PrefixElements
  <2> QED BY <1>2, <2>1, <2>2, <2>4, TailKeeps
<1>4. ASSUME reader.mode = "pages" PROVE Paged(reader, DOMAIN diskTranscripts')
  BY <1>2, <1>4 DEF ReaderOK, Paged
<1> QED BY <1>2, <1>3, <1>4 DEF ReaderOK, Paged, CreatedText, TailOf

LEMMA ReaderStep ==
  ASSUME Reliable, ReliableInv, SinkFacts, Ranked, ReaderOK, [ReadNext]_readVars
  PROVE  ReaderOK'
<1>1. [Next]_vars
  BY ReadStepIsSinkStep
<1>2. ASSUME reader' = reader PROVE ReaderOK'
  BY <1>1, <1>2, ReaderKept
<1>3. CASE \/ UNCHANGED readVars \/ WriteStep \/ TimePasses
           \/ \E tk \in Token : Authenticate(tk) \/ Unauthorized(tk)
  BY <1>2, <1>3 DEF readVars, WriteStep, TimePasses, Authenticate, Unauthorized
<1>4. ASSUME ReadStep PROVE ReaderOK'
  <2>1. /\ diskChunks = chunks /\ diskTranscripts = transcripts
        /\ diskChunks' = diskChunks /\ diskTranscripts' = diskTranscripts
    BY <1>4 DEF ReadStep, GetTranscript, GetChunks, OpenList, NextPage, Authorized, Free,
                ReliableInv, TypeOK, Settled, vars, storeVars
  <2>2. ASSUME NEW d \in DOMAIN transcripts, GetTranscript(d) PROVE ReaderOK'
    <3>1. reader' = [mode |-> "holds", doc |-> d]
      BY <2>2 DEF GetTranscript, Holding
    <3> QED BY <2>1, <3>1 DEF ReaderOK
  <2>3. ASSUME NEW d \in DOMAIN transcripts, GetChunks(d) PROVE ReaderOK'
    <3>0. d.key \in Key
      BY StoredDocOK DEF SinkFacts, DocOK
    <3>1. ASSUME NEW k \in Key, NEW mark \in Nat \cup {-1}, NEW seen, seen \subseteq Chunk,
                 NEW polled, TailOf(chunks[k], mark, seen, polled), reader' = Poll(k, mark, seen)
          PROVE  ReaderOK'
      <4> DEFINE news == AfterSeq(k, mark)
                 m == Max({mark} \cup {c.seq : c \in news})
      <4>1. reader' = [mode |-> "tails", key |-> k, mark |-> m, seen |-> seen \cup news,
                       polled |-> Len(chunks[k])]
        BY <3>1 DEF Poll, Tailing
      <4>2. TailOf(chunks[k], m, seen \cup news, Len(chunks[k]))
        BY <3>1, PollTails DEF ReliableInv, StoreInv, LogUnambiguous
      <4>3. news \subseteq Chunk /\ m \in Nat \cup {-1}
        BY PollMark DEF ReliableInv
      <4> HIDE DEF m, news
      <4> QED BY <2>1, <3>1, <4>1, <4>2, <4>3 DEF ReaderOK
    <3>2. CASE reader.mode = "tails" /\ reader.key = d.key
      <4>1. reader' = Poll(reader.key, reader.mark, reader.seen)
        BY <2>3, <3>2 DEF GetChunks
      <4> QED BY <2>1, <3>1, <3>2, <4>1 DEF ReaderOK
    <3>3. CASE ~(reader.mode = "tails" /\ reader.key = d.key)
      <4>1. reader' = Poll(d.key, -1, {})
        BY <2>3, <3>3 DEF GetChunks
      <4>2. TailOf(chunks[d.key], -1, {}, 0)
        <5>1. chunks[d.key] \in Seq(Chunk) /\ Len(chunks[d.key]) \in Nat
          BY <3>0 DEF ReliableInv, TypeOK, StoreTypeOK
        <5> QED BY <5>1 DEF TailOf
      <4> QED BY <3>0, <3>1, <4>1, <4>2
    <3> QED BY <3>2, <3>3
  <2>4. ASSUME (\E session \in Key \cup {NoKey} : OpenList(session)) \/ NextPage PROVE ReaderOK'
    <3>1. reader'.mode = "pages" /\ Paged(reader', DOMAIN transcripts)
      BY <2>1, <2>4, ListPages DEF ReaderOK
    <3> QED BY <2>1, <3>1 DEF ReaderOK, Paged, CreatedText
  <2> QED BY <1>4, <2>2, <2>3, <2>4 DEF ReadStep
<1> QED BY <1>3, <1>4 DEF ReadNext

ReadInv == ReliableInv /\ SinkFacts /\ TokensOK /\ ReaderOK

LEMMA ReadInvariant == ASSUME Reliable, Ranked PROVE ReadSpec => []ReadInv
<1>1. ReadInit => TokensOK /\ ReaderOK
  <2> SUFFICES ASSUME ReadInit PROVE TokensOK /\ ReaderOK
    OBVIOUS
  <2>1. TokensOK
    BY ClockAssumption DEF ReadInit, TokensInit, TokensOK, NoTokens
  <2>2. ReaderOK
    BY DEF ReadInit, IdleReader, ReaderOK
  <2> QED BY <2>1, <2>2
<1>2. ReliableInv /\ SinkFacts /\ TokensOK /\ ReaderOK /\ [ReadNext]_readVars
        => TokensOK' /\ ReaderOK'
  BY TokensStep, ReaderStep DEF ReliableInv
<1>3. ReadSpec => []ReliableInv
  BY ReadUsesSink, ReliableInvariant, PTL
<1> QED BY <1>1, <1>2, <1>3, SinkFactsHold, PTL DEF ReadSpec, ReadInv

\* Type correctness of the read routes and their reader.
THEOREM ReadTypesHold == ASSUME Reliable, Ranked PROVE ReadSpec => []ReadTypeOK
<1>1. ReadInv => ReadTypeOK
  BY DEF ReadInv, TokensOK, ReaderOK, ReadTypeOK, TailOf, Paged
<1> QED BY <1>1, ReadInvariant, PTL

\* Nothing a reader was shown is lost in a crash (store.py:68, 143).
THEOREM ShownIsDurable == ASSUME Reliable, Ranked PROVE ReadSpec => []ShownDurable
<1>1. ASSUME ReadInv PROVE ShownDurable
  <2>1. ~torn /\ ReaderOK /\ Unambiguous(diskChunks) /\ diskChunks \in [Key -> Seq(Chunk)]
    BY <1>1 DEF ReadInv, ReliableInv, StoreInv, LogUnambiguous, TypeOK, StoreTypeOK
  <2>2. CASE reader.mode = "idle"
    BY <2>2 DEF ShownDurable
  <2>3. CASE reader.mode = "holds"
    BY <2>1, <2>3 DEF ShownDurable, DurableTranscript, ReaderOK
  <2>4. CASE reader.mode = "tails"
    <3>1. ASSUME NEW c \in reader.seen PROVE Durable(c)
      <4>1. PICK i \in DOMAIN diskChunks[reader.key] : diskChunks[reader.key][i] = c
        BY <2>1, <2>4, <3>1 DEF ReaderOK, TailOf
      <4>2. c.key = reader.key
        BY <2>1, <2>4, <4>1 DEF Unambiguous, ReaderOK
      <4> QED BY <2>1, <4>1, <4>2 DEF Durable
    <3> QED BY <2>4, <3>1 DEF ShownDurable
  <2>5. CASE reader.mode = "pages"
    BY <2>1, <2>5 DEF ShownDurable, DurableTranscript, ReaderOK, Paged
  <2> QED BY <2>1, <2>2, <2>3, <2>4, <2>5 DEF ReaderOK
<1> QED BY <1>1, ReadInvariant, PTL

\* since_seq hides from a reader who tails a session only what arrived after a
\* chunk of a higher seq (app.py:335).
THEOREM TailMissesOnlyLate == ASSUME Reliable, Ranked PROVE ReadSpec => []MissesOnlyLate
<1>1. ReadInv => MissesOnlyLate
  BY DEF ReadInv, ReaderOK, TailOf, MissesOnlyLate
<1> QED BY <1>1, ReadInvariant, PTL

\* Turning pages by created_at finds all there was when it began, whatever limit
\* is asked for, or ends on a stamp that more transcripts have than fit on a page
\* (app.py:311).
THEOREM PagesAreComplete == ASSUME Reliable, Ranked PROVE ReadSpec => []PagedAll
<1>1. ReadInv => PagedAll
  BY DEF ReadInv, ReaderOK, Paged, PagedAll
<1> QED BY <1>1, ReadInvariant, PTL
=============================================================================
