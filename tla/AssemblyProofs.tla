--------------------------- MODULE AssemblyProofs ---------------------------
(***************************************************************************)
(* What assembly makes of a chunk log, for logs of any length, any number  *)
(* of seqs and speakers, and revisions of anything: the sorting, the fold  *)
(* that groups segments and the flattening of their texts are each proved  *)
(* by induction over the length of their argument (SetInduction).          *)
(***************************************************************************)
EXTENDS MCAssembly, SequenceTheorems, FiniteSetTheorems, NumberLemmas

-----------------------------------------------------------------------------
\* Increasing: ranks are a bijection between a finite set and 1..Cardinality.
Rank(S, t) == Cardinality({u \in S : u <= t})

LEMMA RankBounds ==
  ASSUME NEW S \in SUBSET Nat, IsFiniteSet(S), NEW t \in S
  PROVE  Rank(S, t) \in 1..Cardinality(S)
<1> DEFINE U == {u \in S : u <= t}
<1>1. U \in SUBSET S /\ t \in U
  OBVIOUS
<1>2. IsFiniteSet(U) /\ Cardinality(U) <= Cardinality(S) /\ Cardinality(U) \in Nat
      /\ Cardinality(S) \in Nat
  BY <1>1, FS_Subset, FS_CardinalityType
<1>3. Cardinality(U) # 0
  BY <1>1, <1>2, FS_EmptySet
<1> QED BY <1>2, <1>3 DEF Rank

LEMMA RankIncreases ==
  ASSUME NEW S \in SUBSET Nat, IsFiniteSet(S), NEW s \in S, NEW t \in S, s < t
  PROVE  Rank(S, s) < Rank(S, t)
<1> DEFINE U == {u \in S : u <= s}
           V == {u \in S : u <= t}
<1>1. U \in SUBSET V /\ V \in SUBSET S /\ t \in V /\ t \notin U
  <2>1. s \in Nat /\ t \in Nat /\ \A u \in S : u \in Nat
    OBVIOUS
  <2>2. \A u \in S : u <= s => u <= t
    BY <2>1
  <2>3. t <= t /\ ~(t <= s)
    BY <2>1
  <2> QED BY <2>2, <2>3
<1>2. IsFiniteSet(V)
  BY <1>1, FS_Subset
<1>3. /\ IsFiniteSet(U) /\ Cardinality(U) <= Cardinality(V)
      /\ Cardinality(V) = Cardinality(U) => V = U
  BY <1>1, <1>2, FS_Subset
<1>4. Cardinality(U) \in Nat /\ Cardinality(V) \in Nat
  BY <1>2, <1>3, FS_CardinalityType
<1>5. Cardinality(V) # Cardinality(U)
  BY <1>1, <1>3
<1> QED BY <1>3, <1>4, <1>5 DEF Rank

\* Every rank has its element.
LEMMA RankTaken ==
  ASSUME NEW S \in SUBSET Nat, IsFiniteSet(S), NEW n \in 1..Cardinality(S)
  PROVE  \E t \in S : Rank(S, t) = n
<1> DEFINE R == 1..Cardinality(S)
           f == [t \in S |-> Rank(S, t)]
<1>1. Cardinality(S) \in Nat
  BY FS_CardinalityType
<1>2. f \in [S -> R]
  BY RankBounds
<1>3. \A s, t \in S : s # t => f[s] # f[t]
  <2> SUFFICES ASSUME NEW s \in S, NEW t \in S, s # t PROVE f[s] # f[t]
    OBVIOUS
  <2>1. s \in Nat /\ t \in Nat /\ f[s] = Rank(S, s) /\ f[t] = Rank(S, t)
    OBVIOUS
  <2>2. Rank(S, s) \in Nat /\ Rank(S, t) \in Nat
    BY <1>1, RankBounds
  <2>3. s < t => Rank(S, s) < Rank(S, t)
    BY RankIncreases
  <2>4. t < s => Rank(S, t) < Rank(S, s)
    BY RankIncreases
  <2> QED BY <2>1, <2>2, <2>3, <2>4
<1> HIDE DEF f
<1>4. f \in Injection(S, R)
  BY <1>2, <1>3 DEF Injection, IsInjective
<1>5. IsFiniteSet(R) /\ Cardinality(R) = Cardinality(S)
  <2>1. IsFiniteSet(1..Cardinality(S))
        /\ Cardinality(1..Cardinality(S))
             = IF 1 > Cardinality(S) THEN 0 ELSE Cardinality(S) - 1 + 1
    BY <1>1, FS_Interval
  <2> QED BY <1>1, <2>1
<1>6. f \in Surjection(S, R)
  BY <1>4, <1>5, FS_Injection
<1>7. \E t \in S : f[t] = n
  BY <1>6 DEF Surjection
<1> QED BY <1>7 DEF f

LEMMA IncreasingSorts ==
  ASSUME NEW S \in SUBSET Nat, IsFiniteSet(S)
  PROVE  /\ Cardinality(S) \in Nat
         /\ Increasing(S) \in [1..Cardinality(S) -> S]
         /\ \A m, n \in 1..Cardinality(S) : m < n => Increasing(S)[m] < Increasing(S)[n]
         /\ \A t \in S : \E n \in 1..Cardinality(S) : Increasing(S)[n] = t
<1>1. Cardinality(S) \in Nat
  BY FS_CardinalityType
<1>2. Increasing(S) = [n \in 1..Cardinality(S) |-> CHOOSE t \in S : Rank(S, t) = n]
  BY DEF Increasing, Rank
<1>3. ASSUME NEW n \in 1..Cardinality(S)
      PROVE  Increasing(S)[n] \in S /\ Rank(S, Increasing(S)[n]) = n
  <2>1. \E t \in S : Rank(S, t) = n
    BY RankTaken
  <2> QED BY <1>2, <2>1
<1>4. Increasing(S) \in [1..Cardinality(S) -> S]
  BY <1>2, <1>3
<1>5. ASSUME NEW s \in S, NEW t \in S, Rank(S, s) <= Rank(S, t) PROVE s <= t
  <2>1. Rank(S, s) \in Nat /\ Rank(S, t) \in Nat
    BY <1>1, RankBounds
  <2>2. t < s => Rank(S, t) < Rank(S, s)
    BY RankIncreases
  <2> QED BY <1>5, <2>1, <2>2
<1>6. ASSUME NEW m \in 1..Cardinality(S), NEW n \in 1..Cardinality(S), m < n
      PROVE  Increasing(S)[m] < Increasing(S)[n]
  <2> DEFINE s == Increasing(S)[m]
             t == Increasing(S)[n]
  <2>1. s \in S /\ t \in S /\ Rank(S, s) = m /\ Rank(S, t) = n
    BY <1>3
  <2> HIDE DEF s, t
  <2>2. s <= t
    BY <1>1, <1>5, <1>6, <2>1
  <2>3. s # t
    BY <1>1, <1>6, <2>1
  <2>4. s \in Nat /\ t \in Nat
    BY <2>1
  <2>5. s < t
    BY <2>2, <2>3, <2>4
  <2> QED BY <2>5 DEF s, t
<1>7. ASSUME NEW t \in S PROVE \E n \in 1..Cardinality(S) : Increasing(S)[n] = t
  <2>1. Rank(S, t) \in 1..Cardinality(S)
    BY RankBounds
  <2> DEFINE s == Increasing(S)[Rank(S, t)]
  <2>2. s \in S /\ Rank(S, s) = Rank(S, t)
    BY <1>3, <2>1
  <2> HIDE DEF s
  <2>3. Rank(S, t) \in Nat /\ s \in Nat /\ t \in Nat
    BY <1>1, <2>1, <2>2
  <2>4. Rank(S, s) <= Rank(S, t) /\ Rank(S, t) <= Rank(S, s)
    BY <2>2, <2>3
  <2>5. s <= t /\ t <= s
    BY <1>5, <2>2, <2>4
  <2>6. s = t
    BY <2>3, <2>5
  <2> QED BY <2>1, <2>6 DEF s
<1> QED BY <1>1, <1>4, <1>6, <1>7

-----------------------------------------------------------------------------
\* Ordered: the latest chunk of each effective seq, by effective seq.
Text == (0..MaxSeq) \X ({NoRev} \cup 0..MaxSeq)

LEMMA ChunkFields ==
  ASSUME NEW c \in Chunk
  PROVE  /\ c.seq \in Nat /\ c.revises \in {NoRev} \cup Nat /\ Target(c) \in Nat
         /\ c.speaker \in Speaker
         /\ c.text = <<c.seq, c.revises>> /\ c.text \in Text
<1>1. PICK q \in 0..MaxSeq, r \in {NoRev} \cup 0..MaxSeq, s \in Speaker :
        c = [seq |-> q, revises |-> r, speaker |-> s, hive |-> "hive",
             text |-> <<q, r>>, final |-> FALSE]
  BY DEF Chunk
<1>2. c.seq = q /\ c.revises = r /\ c.speaker = s /\ c.text = <<q, r>>
  BY <1>1
<1>3. q \in Nat /\ (r = NoRev \/ r \in Nat)
  BY MaxSeqAssumption
<1>4. Target(c) \in Nat
  BY <1>2, <1>3 DEF Target
<1> QED BY <1>2, <1>3, <1>4 DEF Text

LEMMA TargetsFinite ==
  ASSUME NEW l \in Seq(Chunk)
  PROVE  Targets(l) \in SUBSET Nat /\ IsFiniteSet(Targets(l))
<1> DEFINE n == Len(l)
           f == [i \in 1..n |-> Target(l[i])]
<1>1. n \in Nat /\ DOMAIN l = 1..n /\ \A i \in 1..n : l[i] \in Chunk
  OBVIOUS
<1> HIDE DEF n
<1>2. Targets(l) \in SUBSET Nat
  BY <1>1, ChunkFields DEF Targets
<1>3. f \in Surjection(1..n, Targets(l))
  BY <1>1 DEF Surjection, Targets
<1>4. ExistsSurjection(1..n, Targets(l))
  BY <1>3 DEF ExistsSurjection
<1> QED BY <1>1, <1>2, <1>4, FS_NatSurjection

LEMMA LatestForIs ==
  ASSUME NEW l \in Seq(Chunk), NEW t \in Targets(l)
  PROVE  /\ LatestFor(l, t) \in DOMAIN l /\ Target(l[LatestFor(l, t)]) = t
         /\ \A i \in DOMAIN l : Target(l[i]) = t => i <= LatestFor(l, t)
<1> DEFINE S == {i \in DOMAIN l : Target(l[i]) = t}
<1>1. DOMAIN l = 1..Len(l) /\ Len(l) \in Nat
  OBVIOUS
<1>2. S \in SUBSET Int /\ Len(l) \in Int /\ \A i \in S : i <= Len(l)
  BY <1>1
<1>3. S # {}
  BY DEF Targets
<1> HIDE DEF S
<1>4. Max(S) \in S /\ \A i \in S : i <= Max(S)
  BY <1>1, <1>2, <1>3, MaxOfBounded
<1>5. LatestFor(l, t) = Max(S)
  BY DEF LatestFor, S
<1> QED BY <1>4, <1>5 DEF S

\* One chunk per effective seq, in increasing order of effective seq.
LEMMA OrderedIs ==
  ASSUME NEW l \in Seq(Chunk)
  PROVE  /\ Ordered(l) \in Seq(Chunk) /\ Len(Ordered(l)) = Cardinality(Targets(l))
         /\ DOMAIN Ordered(l) = 1..Cardinality(Targets(l))
         /\ \A m, n \in DOMAIN Ordered(l) : m < n => Target(Ordered(l)[m]) < Target(Ordered(l)[n])
         /\ \A n \in DOMAIN Ordered(l) :
              /\ Target(Ordered(l)[n]) \in Targets(l)
              /\ Ordered(l)[n] = l[LatestFor(l, Target(Ordered(l)[n]))]
         /\ \A t \in Targets(l) : \E n \in DOMAIN Ordered(l) : Ordered(l)[n] = l[LatestFor(l, t)]
<1> DEFINE S == Targets(l)
           k == Cardinality(S)
           order == Increasing(S)
<1>1. S \in SUBSET Nat /\ IsFiniteSet(S)
  BY TargetsFinite
<1>2. /\ k \in Nat /\ order \in [1..k -> S]
      /\ \A m, n \in 1..k : m < n => order[m] < order[n]
      /\ \A t \in S : \E n \in 1..k : order[n] = t
  BY <1>1, IncreasingSorts
<1>3. Ordered(l) = [n \in 1..k |-> l[LatestFor(l, order[n])]]
  BY <1>2 DEF Ordered
<1>4. \A t \in S : l[LatestFor(l, t)] \in Chunk /\ Target(l[LatestFor(l, t)]) = t
  BY LatestForIs
<1> HIDE DEF k, order, S
<1>5. Ordered(l) \in [1..k -> Chunk] /\ \A n \in 1..k : Target(Ordered(l)[n]) = order[n]
  BY <1>2, <1>3, <1>4
<1>6. Ordered(l) \in Seq(Chunk) /\ Len(Ordered(l)) = k /\ DOMAIN Ordered(l) = 1..k
  BY <1>2, <1>5
<1>7. \A m, n \in 1..k : m < n => Target(Ordered(l)[m]) < Target(Ordered(l)[n])
  BY <1>2, <1>5
<1>8. \A n \in 1..k : /\ Target(Ordered(l)[n]) \in S
                      /\ Ordered(l)[n] = l[LatestFor(l, Target(Ordered(l)[n]))]
  BY <1>2, <1>3, <1>5
<1>9. \A t \in S : \E n \in 1..k : Ordered(l)[n] = l[LatestFor(l, t)]
  BY <1>2, <1>3
<1> QED BY <1>6, <1>7, <1>8, <1>9 DEF k, S

-----------------------------------------------------------------------------
\* FoldLeft of Group: there are intermediate results, one per chunk read.
Steps(cs, n, f) ==
  /\ DOMAIN f = 0..n /\ f[0] = <<>>
  /\ \A i \in 1..n : f[i] = Group(f[i - 1], cs[i])

\* The fold's recursive function over the sets of indices up to n.
IsFold(cs, n, g) ==
  g = [s \in SUBSET (1..n) |->
         IF s = {} THEN <<>> ELSE Group(g[s \ {Max(s)}], cs[Max(s)])]

LEMMA MaxUpTo ==
  ASSUME NEW n \in Nat, NEW s \in SUBSET (1..n), s # {}
  PROVE  Max(s) \in s /\ \A i \in s : i <= Max(s)
<1>1. s \in SUBSET Int /\ n \in Int /\ \A i \in s : i <= n
  OBVIOUS
<1> QED BY <1>1, MaxOfBounded

LEMMA FoldExists ==
  ASSUME NEW cs, NEW n \in Nat PROVE \E g : IsFold(cs, n, g)
<1> DEFINE S == {m \in Nat : \E g : IsFold(cs, m, g)}
<1>1. 0 \in S
  <2> DEFINE g == [s \in SUBSET (1..0) |-> <<>>]
  <2>1. \A s \in SUBSET (1..0) : s = {}
    OBVIOUS
  <2>2. IsFold(cs, 0, g)
    BY <2>1 DEF IsFold
  <2> QED BY <2>2
<1>2. ASSUME NEW m \in Nat, m \in S PROVE m + 1 \in S
  <2>1. PICK g : IsFold(cs, m, g)
    BY <1>2
  <2> DEFINE h == [s \in SUBSET (1..(m + 1)) |->
                     IF m + 1 \in s THEN Group(g[s \ {m + 1}], cs[m + 1]) ELSE g[s]]
  <2>2. ASSUME NEW s \in SUBSET (1..(m + 1))
        PROVE  h[s] = IF s = {} THEN <<>> ELSE Group(h[s \ {Max(s)}], cs[Max(s)])
    <3>1. CASE m + 1 \in s
      <4>1. Max(s) = m + 1
        <5>1. m + 1 \in Nat /\ s # {}
          BY <3>1
        <5>2. Max(s) \in s /\ m + 1 <= Max(s)
          BY <3>1, <5>1, MaxUpTo
        <5>3. Max(s) \in 1..(m + 1)
          BY <5>2
        <5> QED BY <5>2, <5>3
      <4>2. s \ {m + 1} \in SUBSET (1..(m + 1)) /\ m + 1 \notin s \ {m + 1}
        OBVIOUS
      <4>3. h[s \ {m + 1}] = g[s \ {m + 1}]
        BY <4>2
      <4> QED BY <3>1, <4>1, <4>3
    <3>2. CASE m + 1 \notin s
      <4>1. s \in SUBSET (1..m)
        BY <3>2
      <4>2. g[s] = IF s = {} THEN <<>> ELSE Group(g[s \ {Max(s)}], cs[Max(s)])
        BY <2>1, <4>1 DEF IsFold
      <4>3. s \ {Max(s)} \in SUBSET (1..(m + 1)) /\ m + 1 \notin s \ {Max(s)}
        BY <3>2
      <4>4. h[s] = g[s] /\ h[s \ {Max(s)}] = g[s \ {Max(s)}]
        BY <3>2, <4>3
      <4> QED BY <4>2, <4>4
    <3> QED BY <3>1, <3>2
  <2>3. DOMAIN h = SUBSET (1..(m + 1))
    OBVIOUS
  <2>4. h = [s \in DOMAIN h |-> h[s]]
    OBVIOUS
  <2> HIDE DEF h
  <2>5. IsFold(cs, m + 1, h)
    BY <2>2, <2>3, <2>4 DEF IsFold
  <2> QED BY <2>5
<1>3. Nat \subseteq S
  BY <1>1, <1>2, SetInduction
<1> QED BY <1>3

LEMMA FoldSteps ==
  ASSUME NEW cs, NEW n \in Nat, DOMAIN cs = 1..n
  PROVE  \E f : Steps(cs, n, f) /\ f[n] = FoldLeft(Group, <<>>, cs)
<1> DEFINE g == CHOOSE h : IsFold(cs, n, h)
<1>1. IsFold(cs, n, g)
  BY FoldExists
<1>2. FoldLeft(Group, <<>>, cs) = g[1..n]
  BY DEF FoldLeft, MapThenFoldSet, IsFold
<1> HIDE DEF g
<1> DEFINE f == [i \in 0..n |-> g[1..i]]
<1>3. f[0] = <<>>
  <2>1. 1..0 = {} /\ {} \in SUBSET (1..n)
    OBVIOUS
  <2>2. g[{}] = <<>>
    BY <1>1, <2>1 DEF IsFold
  <2> QED BY <2>1, <2>2
<1>4. ASSUME NEW i \in 1..n PROVE f[i] = Group(f[i - 1], cs[i])
  <2>1. 1..i \in SUBSET (1..n) /\ 1..i # {} /\ i \in 1..i /\ i \in Nat
    OBVIOUS
  <2>2. Max(1..i) = i
    <3>1. Max(1..i) \in 1..i /\ i <= Max(1..i)
      BY <2>1, MaxUpTo
    <3> QED BY <3>1
  <2>3. (1..i) \ {i} = 1..(i - 1)
    OBVIOUS
  <2>4. g[1..i] = Group(g[(1..i) \ {Max(1..i)}], cs[Max(1..i)])
    BY <1>1, <2>1 DEF IsFold
  <2>5. f[i] = g[1..i] /\ f[i - 1] = g[1..(i - 1)]
    OBVIOUS
  <2> HIDE DEF f
  <2> QED BY <2>2, <2>3, <2>4, <2>5
<1>5. f[n] = g[1..n] /\ DOMAIN f = 0..n
  OBVIOUS
<1> HIDE DEF f
<1> QED BY <1>2, <1>3, <1>4, <1>5 DEF Steps

-----------------------------------------------------------------------------
\* FlattenSeq: the concatenation of the first i sequences, for every i.
Joins(seqs, n, g) ==
  g = [i \in 1..n |-> IF i = 1 THEN seqs[i] ELSE g[i - 1] \o seqs[i]]

LEMMA JoinsExist ==
  ASSUME NEW seqs, NEW n \in Nat PROVE \E g : Joins(seqs, n, g)
<1> DEFINE S == {m \in Nat : \E g : Joins(seqs, m, g)}
<1>1. 0 \in S
  <2> DEFINE g == [i \in 1..0 |-> <<>>]
  <2>1. Joins(seqs, 0, g)
    BY DEF Joins
  <2> QED BY <2>1
<1>2. ASSUME NEW m \in Nat, m \in S PROVE m + 1 \in S
  <2>1. PICK g : Joins(seqs, m, g)
    BY <1>2
  <2> DEFINE h == [i \in 1..(m + 1) |->
                     IF i = m + 1
                     THEN IF i = 1 THEN seqs[i] ELSE g[i - 1] \o seqs[i]
                     ELSE g[i]]
  <2>2. ASSUME NEW i \in 1..(m + 1)
        PROVE  h[i] = IF i = 1 THEN seqs[i] ELSE h[i - 1] \o seqs[i]
    <3>1. CASE i = m + 1
      <4>1. i # 1 => i - 1 \in 1..(m + 1) /\ i - 1 # m + 1
        BY <3>1
      <4> QED BY <3>1, <4>1
    <3>2. CASE i # m + 1
      <4>1. i \in 1..m
        BY <3>2
      <4>2. g[i] = IF i = 1 THEN seqs[i] ELSE g[i - 1] \o seqs[i]
        BY <2>1, <4>1 DEF Joins
      <4>3. i # 1 => i - 1 \in 1..(m + 1) /\ i - 1 # m + 1
        BY <3>2
      <4> QED BY <3>2, <4>2, <4>3
    <3> QED BY <3>1, <3>2
  <2>3. h = [i \in 1..(m + 1) |-> h[i]]
    OBVIOUS
  <2> HIDE DEF h
  <2>4. Joins(seqs, m + 1, h)
    BY <2>2, <2>3 DEF Joins
  <2> QED BY <2>4
<1>3. Nat \subseteq S
  BY <1>1, <1>2, SetInduction
<1> QED BY <1>3

LEMMA FlattenJoins ==
  ASSUME NEW seqs, Len(seqs) \in Nat \ {0}
  PROVE  \E g : Joins(seqs, Len(seqs), g) /\ FlattenSeq(seqs) = g[Len(seqs)]
<1> DEFINE g == CHOOSE h : Joins(seqs, Len(seqs), h)
<1>1. Joins(seqs, Len(seqs), g)
  BY JoinsExist
<1>2. FlattenSeq(seqs) = g[Len(seqs)]
  BY DEF FlattenSeq, Joins
<1> HIDE DEF g
<1> QED BY <1>1, <1>2

\* Two families of joins agree as far as their sequences do.
Agree(s, t, k) == \A i \in 1..k : s[i] = t[i]

LEMMA JoinsAgree ==
  ASSUME NEW s, NEW t, NEW m \in Nat, NEW n \in Nat, NEW k \in Nat, k <= m, k <= n,
         Agree(s, t, k), NEW g, Joins(s, m, g), NEW h, Joins(t, n, h)
  PROVE  Agree(g, h, k)
<1> DEFINE S == {i \in Nat : i \in 1..k => g[i] = h[i]}
<1>1. 0 \in S
  OBVIOUS
<1>2. ASSUME NEW i \in Nat, i \in S PROVE i + 1 \in S
  <2>1. SUFFICES ASSUME i + 1 \in 1..k PROVE g[i + 1] = h[i + 1]
    OBVIOUS
  <2>2. i + 1 \in 1..m /\ i + 1 \in 1..n /\ (i + 1) - 1 = i /\ (i + 1 # 1 => i \in 1..k)
    BY <2>1
  <2>3. g[i + 1] = IF i + 1 = 1 THEN s[i + 1] ELSE g[i] \o s[i + 1]
    BY <2>2 DEF Joins
  <2>4. h[i + 1] = IF i + 1 = 1 THEN t[i + 1] ELSE h[i] \o t[i + 1]
    BY <2>2 DEF Joins
  <2>5. s[i + 1] = t[i + 1]
    BY <2>1 DEF Agree
  <2> QED BY <1>2, <2>2, <2>3, <2>4, <2>5
<1>3. Nat \subseteq S
  BY <1>1, <1>2, SetInduction
<1> QED BY <1>3 DEF Agree

\* What a family of joins consists of.
LEMMA JoinsType ==
  ASSUME NEW T, NEW s \in Seq(Seq(T)), NEW g, Joins(s, Len(s), g)
  PROVE  \A i \in 1..Len(s) : g[i] \in Seq(T)
<1> DEFINE S == {i \in Nat : i \in 1..Len(s) => g[i] \in Seq(T)}
<1>1. 0 \in S
  OBVIOUS
<1>2. ASSUME NEW i \in Nat, i \in S PROVE i + 1 \in S
  <2>1. SUFFICES ASSUME i + 1 \in 1..Len(s) PROVE g[i + 1] \in Seq(T)
    OBVIOUS
  <2>2. (i + 1) - 1 = i /\ (i + 1 # 1 => i \in 1..Len(s)) /\ s[i + 1] \in Seq(T)
    BY <2>1
  <2>3. g[i + 1] = IF i + 1 = 1 THEN s[i + 1] ELSE g[i] \o s[i + 1]
    BY <2>1, <2>2 DEF Joins
  <2>4. i + 1 # 1 => g[i] \in Seq(T)
    BY <1>2, <2>2
  <2> QED BY <2>2, <2>3, <2>4
<1>3. Nat \subseteq S
  BY <1>1, <1>2, SetInduction
<1> QED BY <1>3

\* Flattening one sequence more, and flattening a last one that is longer by one.
LEMMA FlattenAppend ==
  ASSUME NEW T, NEW s \in Seq(Seq(T)), NEW x \in Seq(T)
  PROVE  FlattenSeq(Append(s, x)) = FlattenSeq(s) \o x /\ FlattenSeq(s) \in Seq(T)
<1> DEFINE n == Len(s)
           t == Append(s, x)
<1>1. /\ n \in Nat /\ t \in Seq(Seq(T)) /\ Len(t) = n + 1 /\ t[n + 1] = x
      /\ \A i \in 1..n : t[i] = s[i]
  BY AppendProperties
<1> HIDE DEF n, t
<1>2. PICK h : Joins(t, n + 1, h) /\ FlattenSeq(t) = h[n + 1]
  <2>1. Len(t) \in Nat \ {0}
    BY <1>1
  <2>2. \E h : Joins(t, Len(t), h) /\ FlattenSeq(t) = h[Len(t)]
    BY <2>1, FlattenJoins
  <2> QED BY <1>1, <2>2
<1>3. h[n + 1] = IF n + 1 = 1 THEN x ELSE h[n] \o x
  <2>1. n + 1 \in 1..(n + 1) /\ (n + 1) - 1 = n
    BY <1>1
  <2> QED BY <1>1, <1>2, <2>1 DEF Joins
<1>4. CASE n = 0
  <2>1. s = <<>>
    BY <1>4 DEF n
  <2>2. FlattenSeq(s) = <<>>
    BY <2>1 DEF FlattenSeq
  <2> QED BY <1>2, <1>3, <1>4, <2>2 DEF t
<1>5. CASE n # 0
  <2>1. PICK g : Joins(s, n, g) /\ FlattenSeq(s) = g[n]
    BY <1>1, <1>5, FlattenJoins DEF n
  <2>2. \A i \in 1..n : g[i] = h[i]
    <3> DEFINE m == n + 1
    <3>1. m \in Nat /\ n <= m /\ n <= n
      BY <1>1
    <3>2. Agree(s, t, n)
      BY <1>1 DEF Agree
    <3>3. n \in Nat /\ Joins(s, n, g) /\ Joins(t, m, h)
      BY <1>1, <1>2, <2>1
    <3> HIDE DEF m
    <3>4. Agree(g, h, n)
      BY <3>1, <3>2, <3>3, JoinsAgree
    <3> QED BY <3>4 DEF Agree
  <2>3. n \in 1..n /\ g[n] \in Seq(T)
    BY <1>1, <1>5, <2>1, JoinsType DEF n
  <2>4. h[n + 1] = h[n] \o x /\ h[n] = g[n]
    BY <1>1, <1>3, <1>5, <2>2, <2>3
  <2>5. FlattenSeq(t) = g[n] \o x
    BY <1>2, <2>4
  <2> QED BY <2>1, <2>3, <2>5 DEF t
<1> QED BY <1>4, <1>5

LEMMA FlattenLonger ==
  ASSUME NEW T, NEW s \in Seq(Seq(T)), Len(s) # 0, NEW e \in T
  PROVE  FlattenSeq([s EXCEPT ![Len(s)] = Append(@, e)]) = Append(FlattenSeq(s), e)
<1> DEFINE n == Len(s)
           t == [s EXCEPT ![n] = Append(@, e)]
<1>1. /\ n \in Nat \ {0} /\ n \in 1..n /\ s[n] \in Seq(T) /\ DOMAIN s = 1..n
      /\ \A i \in 1..n : s[i] \in Seq(T)
  OBVIOUS
<1>2. Append(s[n], e) \in Seq(T)
  BY <1>1
<1>3. /\ t \in Seq(Seq(T)) /\ Len(t) = n /\ t[n] = Append(s[n], e)
      /\ \A i \in 1..(n - 1) : t[i] = s[i]
  <2>1. DOMAIN t = 1..n /\ t[n] = Append(s[n], e) /\ \A i \in 1..(n - 1) : t[i] = s[i]
    <3>1. t = [i \in 1..n |-> IF i = n THEN Append(s[n], e) ELSE s[i]]
      BY <1>1
    <3> HIDE DEF t
    <3> HIDE DEF n
    <3>2. \A i \in 1..(n - 1) : i \in 1..n /\ i # n
      BY <1>1
    <3> QED BY <1>1, <3>1, <3>2
  <2>2. \A i \in 1..n : t[i] \in Seq(T)
    BY <1>1, <1>2, <2>1
  <2>3. t = [i \in 1..n |-> t[i]]
    BY <2>1
  <2> HIDE DEF t
  <2>4. t \in [1..n -> Seq(T)]
    BY <2>2, <2>3
  <2> HIDE DEF n
  <2>5. t \in Seq(Seq(T)) /\ Len(t) = n
    BY <1>1, <2>4
  <2> QED BY <2>1, <2>5
<1> HIDE DEF n, t
<1>4. PICK g : Joins(s, n, g) /\ FlattenSeq(s) = g[n]
  BY <1>1, FlattenJoins DEF n
<1>5. PICK h : Joins(t, n, h) /\ FlattenSeq(t) = h[n]
  BY <1>1, <1>3, FlattenJoins
<1>6. \A i \in 1..(n - 1) : g[i] = h[i]
  <2> DEFINE k == n - 1
  <2>1. k \in Nat /\ k <= n /\ n \in Nat
    BY <1>1
  <2>2. Agree(s, t, k)
    BY <1>3 DEF Agree
  <2> HIDE DEF k
  <2>3. Agree(g, h, k)
    BY <1>4, <1>5, <2>1, <2>2, JoinsAgree
  <2> QED BY <2>3 DEF Agree, k
<1>7. /\ g[n] = IF n = 1 THEN s[n] ELSE g[n - 1] \o s[n]
      /\ h[n] = IF n = 1 THEN t[n] ELSE h[n - 1] \o t[n]
  BY <1>1, <1>4, <1>5 DEF Joins
<1>8. CASE n = 1
  BY <1>3, <1>4, <1>5, <1>7, <1>8 DEF t, n
<1>9. CASE n # 1
  <2>1. n - 1 \in 1..(n - 1) /\ n - 1 \in 1..n
    BY <1>1, <1>9
  <2>2. g[n - 1] \in Seq(T) /\ h[n - 1] = g[n - 1]
    BY <1>4, <1>6, <2>1, JoinsType DEF n
  <2>3. \A a, b \in Seq(T) : a \o Append(b, e) = Append(a \o b, e)
    OBVIOUS
  <2>4. h[n] = Append(g[n], e)
    BY <1>1, <1>3, <1>7, <1>9, <2>2, <2>3
  <2> QED BY <1>4, <1>5, <2>4 DEF t, n
<1> QED BY <1>8, <1>9

-----------------------------------------------------------------------------
\* The grouping loop: what a step does to the segments so far.
Segment == [speaker : Speaker, texts : Seq(Text)]
TextsOf(segs) == [i \in DOMAIN segs |-> segs[i].texts]
TurnsAlternate(segs) ==
  \A i \in 1..(Len(segs) - 1) : segs[i].speaker # segs[i + 1].speaker

LEMMA TextsOfType ==
  ASSUME NEW segs \in Seq(Segment)
  PROVE  TextsOf(segs) \in Seq(Seq(Text)) /\ Len(TextsOf(segs)) = Len(segs)
<1> DEFINE n == Len(segs)
<1>1. n \in Nat /\ DOMAIN segs = 1..n /\ \A i \in 1..n : segs[i] \in Segment
  OBVIOUS
<1> HIDE DEF n
<1>2. TextsOf(segs) \in [1..n -> Seq(Text)]
  BY <1>1 DEF TextsOf, Segment
<1>3. TextsOf(segs) \in Seq(Seq(Text)) /\ Len(TextsOf(segs)) = n
  BY <1>1, <1>2
<1> QED BY <1>3 DEF n

LEMMA StartSays ==
  ASSUME NEW segs \in Seq(Segment), NEW c \in Chunk
  PROVE  /\ StartSegment(segs, c) \in Seq(Segment)
         /\ Flat(StartSegment(segs, c)) = Append(Flat(segs), c.text)
<1> DEFINE x == [speaker |-> c.speaker, texts |-> <<c.text>>]
           t == Append(segs, x)
<1>1. c.text \in Text /\ c.speaker \in Speaker /\ <<c.text>> \in Seq(Text)
  BY ChunkFields
<1>2. x \in Segment /\ x.texts = <<c.text>>
  BY <1>1 DEF Segment
<1> HIDE DEF x
<1>3. /\ t \in Seq(Segment) /\ Len(t) = Len(segs) + 1 /\ t[Len(segs) + 1] = x
      /\ \A i \in 1..Len(segs) : t[i] = segs[i]
  BY <1>2, AppendProperties
<1>4. TextsOf(segs) \in Seq(Seq(Text)) /\ Len(TextsOf(segs)) = Len(segs)
  BY TextsOfType
<1>5. TextsOf(t) = Append(TextsOf(segs), x.texts)
  <2> DEFINE n == Len(segs)
  <2>1. n \in Nat /\ DOMAIN t = 1..(n + 1) /\ DOMAIN segs = 1..n
    BY <1>3
  <2>2. DOMAIN TextsOf(segs) = 1..n /\ Len(TextsOf(segs)) = n
    BY <1>4, <2>1
  <2>3. Append(TextsOf(segs), x.texts)
          = [i \in 1..(n + 1) |-> IF i = n + 1 THEN x.texts ELSE TextsOf(segs)[i]]
    BY <1>4, <2>2
  <2>4. \A i \in 1..(n + 1) :
          t[i].texts = IF i = n + 1 THEN x.texts ELSE TextsOf(segs)[i]
    BY <1>3, <2>1 DEF TextsOf
  <2>5. TextsOf(t) = [i \in 1..(n + 1) |-> t[i].texts]
    BY <2>1 DEF TextsOf
  <2> HIDE DEF n, t
  <2> QED BY <2>3, <2>4, <2>5
<1>6. /\ FlattenSeq(Append(TextsOf(segs), <<c.text>>)) = FlattenSeq(TextsOf(segs)) \o <<c.text>>
      /\ FlattenSeq(TextsOf(segs)) \in Seq(Text)
  BY <1>1, <1>4, FlattenAppend
<1>7. FlattenSeq(TextsOf(segs)) \o <<c.text>> = Append(FlattenSeq(TextsOf(segs)), c.text)
  BY <1>1, <1>6
<1> QED BY <1>2, <1>3, <1>5, <1>6, <1>7 DEF StartSegment, Flat, TextsOf, x

LEMMA ExtendSays ==
  ASSUME NEW segs \in Seq(Segment), segs # <<>>, NEW c \in Chunk
  PROVE  /\ ExtendLast(segs, c) \in Seq(Segment) /\ Len(ExtendLast(segs, c)) = Len(segs)
         /\ \A i \in 1..Len(segs) : ExtendLast(segs, c)[i].speaker = segs[i].speaker
         /\ Flat(ExtendLast(segs, c)) = Append(Flat(segs), c.text)
<1> DEFINE n == Len(segs)
           t == ExtendLast(segs, c)
           x == [segs[n] EXCEPT !.texts = Append(@, c.text)]
<1>1. n \in Nat \ {0} /\ DOMAIN segs = 1..n /\ n \in 1..n
  OBVIOUS
<1>2. \A i \in 1..n : segs[i] \in Segment
  OBVIOUS
<1>3. c.text \in Text
  BY ChunkFields
<1>4. x \in Segment /\ x.speaker = segs[n].speaker /\ x.texts = Append(segs[n].texts, c.text)
  <2>1. PICK sp \in Speaker, ts \in Seq(Text) : segs[n] = [speaker |-> sp, texts |-> ts]
    BY <1>1, <1>2 DEF Segment
  <2>2. Append(ts, c.text) \in Seq(Text)
    BY <1>3
  <2>3. x = [speaker |-> sp, texts |-> Append(ts, c.text)]
    BY <2>1
  <2>4. segs[n].speaker = sp /\ segs[n].texts = ts
    BY <2>1
  <2> HIDE DEF x
  <2> QED BY <2>2, <2>3, <2>4 DEF Segment
<1>5. t = [segs EXCEPT ![n] = x]
  BY DEF ExtendLast
<1> HIDE DEF x, t
<1>6. DOMAIN t = 1..n /\ \A i \in 1..n : t[i] = IF i = n THEN x ELSE segs[i]
  BY <1>1, <1>5
<1> HIDE DEF n
<1>7. \A i \in 1..n : t[i] \in Segment /\ t[i].speaker = segs[i].speaker
  BY <1>1, <1>2, <1>4, <1>6
<1>8. t = [i \in 1..n |-> t[i]]
  BY <1>1, <1>5, <1>6
<1>9. t \in [1..n -> Segment]
  BY <1>7, <1>8
<1>10. t \in Seq(Segment) /\ Len(t) = n
  BY <1>1, <1>9
<1>11. /\ TextsOf(segs) \in Seq(Seq(Text)) /\ Len(TextsOf(segs)) = n
       /\ DOMAIN TextsOf(segs) = 1..n
  BY <1>1, TextsOfType DEF n, TextsOf
<1>12. TextsOf(t) = [TextsOf(segs) EXCEPT ![n] = Append(@, c.text)]
  BY <1>1, <1>4, <1>6, <1>11 DEF TextsOf
<1>13. FlattenSeq([TextsOf(segs) EXCEPT ![n] = Append(@, c.text)])
         = Append(FlattenSeq(TextsOf(segs)), c.text)
  BY <1>1, <1>3, <1>11, FlattenLonger
<1> QED BY <1>7, <1>10, <1>12, <1>13 DEF Flat, TextsOf, t, n

LEMMA GroupSays ==
  ASSUME NEW segs \in Seq(Segment), TurnsAlternate(segs), NEW c \in Chunk
  PROVE  /\ Group(segs, c) \in Seq(Segment) /\ TurnsAlternate(Group(segs, c))
         /\ Flat(Group(segs, c)) = Append(Flat(segs), c.text)
<1>1. CASE segs # <<>> /\ Last(segs).speaker = c.speaker
  <2> DEFINE t == ExtendLast(segs, c)
             n == Len(segs)
  <2>1. /\ t \in Seq(Segment) /\ Len(t) = n
        /\ \A i \in 1..n : t[i].speaker = segs[i].speaker
        /\ Flat(t) = Append(Flat(segs), c.text)
    BY <1>1, ExtendSays
  <2>2. Group(segs, c) = t
    BY <1>1 DEF Group
  <2>3. n \in Nat
    OBVIOUS
  <2> HIDE DEF t, n
  <2>4. \A i \in 1..(n - 1) : i \in 1..n /\ i + 1 \in 1..n
    BY <2>3
  <2>5. TurnsAlternate(t)
    BY <2>1, <2>4 DEF TurnsAlternate, n
  <2> QED BY <2>1, <2>2, <2>5
<1>2. CASE ~(segs # <<>> /\ Last(segs).speaker = c.speaker)
  <2> DEFINE x == [speaker |-> c.speaker, texts |-> <<c.text>>]
             t == StartSegment(segs, c)
             n == Len(segs)
  <2>1. t \in Seq(Segment) /\ Flat(t) = Append(Flat(segs), c.text)
    BY StartSays
  <2>2. Group(segs, c) = t
    BY <1>2 DEF Group
  <2>3. x \in Segment
    <3>1. c.text \in Text /\ c.speaker \in Speaker
      BY ChunkFields
    <3> QED BY <3>1 DEF Segment
  <2>4. x.speaker = c.speaker /\ t = Append(segs, x)
    BY DEF StartSegment
  <2> HIDE DEF x, t
  <2>5. n \in Nat /\ Len(t) = n + 1 /\ t[n + 1] = x /\ \A i \in 1..n : t[i] = segs[i]
    BY <2>3, <2>4, AppendProperties
  <2>6. n # 0 => segs # <<>> /\ Last(segs) = segs[n]
    BY DEF Last
  <2> HIDE DEF n
  <2>7. ASSUME NEW i \in 1..n PROVE t[i].speaker # t[i + 1].speaker
    <3>1. CASE i = n
      <4>1. segs[n].speaker # c.speaker
        BY <1>2, <2>5, <2>6, <3>1
      <4> QED BY <2>4, <2>5, <3>1, <4>1
    <3>2. CASE i # n
      <4>1. i \in 1..(n - 1) /\ i + 1 \in 1..n
        BY <2>5, <3>2
      <4>2. segs[i].speaker # segs[i + 1].speaker
        BY <4>1 DEF TurnsAlternate, n
      <4> QED BY <2>5, <4>1, <4>2
    <3> QED BY <3>1, <3>2
  <2>8. TurnsAlternate(t)
    <3>1. Len(t) - 1 = n
      BY <2>5
    <3> QED BY <2>7, <3>1 DEF TurnsAlternate
  <2> QED BY <2>1, <2>2, <2>8
<1> QED BY <1>1, <1>2

\* The loop as a whole: the texts of its chunks one after the other, in
\* segments whose speakers alternate.
LEMMA GroupingSays ==
  ASSUME NEW cs \in Seq(Chunk)
  PROVE  /\ FoldLeft(Group, <<>>, cs) \in Seq(Segment)
         /\ TurnsAlternate(FoldLeft(Group, <<>>, cs))
         /\ Flat(FoldLeft(Group, <<>>, cs)) = Texts(cs)
<1> DEFINE n == Len(cs)
<1>1. n \in Nat /\ DOMAIN cs = 1..n /\ \A i \in 1..n : cs[i] \in Chunk
  OBVIOUS
<1> HIDE DEF n
<1>2. PICK f : Steps(cs, n, f) /\ f[n] = FoldLeft(Group, <<>>, cs)
  BY <1>1, FoldSteps
<1> DEFINE Said(i) == [k \in 1..i |-> cs[k].text]
           Good(i) == /\ f[i] \in Seq(Segment) /\ TurnsAlternate(f[i])
                      /\ Flat(f[i]) = Said(i)
           S == {i \in Nat : i \in 0..n => Good(i)}
<1>3. 0 \in S
  <2>1. f[0] = <<>>
    BY <1>2 DEF Steps
  <2>2. <<>> \in Seq(Segment) /\ TurnsAlternate(<<>>)
    BY DEF TurnsAlternate
  <2>3. Flat(<<>>) = <<>>
    <3>1. [i \in DOMAIN <<>> |-> <<>>[i].texts] = <<>>
      OBVIOUS
    <3> QED BY <3>1 DEF Flat, FlattenSeq
  <2>4. Said(0) = <<>>
    OBVIOUS
  <2> QED BY <2>1, <2>2, <2>3, <2>4
<1>4. ASSUME NEW i \in Nat, i \in S PROVE i + 1 \in S
  <2>1. SUFFICES ASSUME i + 1 \in 0..n PROVE Good(i + 1)
    OBVIOUS
  <2>2. i \in 0..n /\ i + 1 \in 1..n /\ (i + 1) - 1 = i
    BY <1>1, <2>1
  <2>3. Good(i)
    BY <1>4, <2>2
  <2>4. f[i + 1] = Group(f[i], cs[i + 1])
    BY <1>2, <2>2 DEF Steps
  <2>5. cs[i + 1] \in Chunk
    BY <1>1, <2>2
  <2>6. /\ f[i + 1] \in Seq(Segment) /\ TurnsAlternate(f[i + 1])
        /\ Flat(f[i + 1]) = Append(Said(i), cs[i + 1].text)
    BY <2>3, <2>4, <2>5, GroupSays
  <2>7. Append(Said(i), cs[i + 1].text) = Said(i + 1)
    <3>1. \A k \in 1..i : cs[k].text \in Text
      BY <1>1, <2>2, ChunkFields
    <3>2. Said(i) \in Seq(Text) /\ Len(Said(i)) = i
      <4>1. Said(i) \in [1..i -> Text]
        BY <3>1
      <4> HIDE DEF Said
      <4> QED BY <4>1
    <3>3. Append(Said(i), cs[i + 1].text)
            = [k \in 1..(i + 1) |-> IF k = i + 1 THEN cs[i + 1].text ELSE Said(i)[k]]
      <4> HIDE DEF Said
      <4> QED BY <3>2
    <3>4. \A k \in 1..(i + 1) : k # i + 1 => k \in 1..i
      OBVIOUS
    <3> QED BY <3>3, <3>4
  <2> HIDE DEF Said
  <2> QED BY <2>6, <2>7
<1>5. Nat \subseteq S
  <2> HIDE DEF S
  <2> QED BY <1>3, <1>4, SetInduction
<1>6. Good(n)
  BY <1>1, <1>5
<1>7. Said(n) = Texts(cs)
  BY <1>1 DEF Texts
<1> QED BY <1>2, <1>6, <1>7

\* A transcript says what its chosen chunks say, in their order.
LEMMA SegmentsSay ==
  ASSUME NEW l \in Seq(Chunk)
  PROVE  TurnsAlternate(Segments(l)) /\ Flat(Segments(l)) = Texts(Ordered(l))
BY OrderedIs, GroupingSays DEF Segments

-----------------------------------------------------------------------------
\* The log as append_chunk leaves it: chunks, no two of one seq.
LogType == log \in Seq(Chunk)
SeqsDiffer == \A i, j \in DOMAIN log : log[i].seq = log[j].seq => i = j
LogInv == LogType /\ SeqsDiffer

\* A stream's chunks have one seq each, whatever arrives: append_chunk turns a
\* second chunk of a seq into a duplicate and leaves the log alone.
LEMMA LogIsInvariant == Spec => []LogInv
<1>1. Init => LogInv
  BY DEF Init, LogInv, LogType, SeqsDiffer
<1>2. LogInv /\ [Next]_log => LogInv'
  <2>1. SUFFICES ASSUME LogInv, [Next]_log PROVE LogInv'
    OBVIOUS
  <2>2. CASE UNCHANGED log
    BY <2>1, <2>2 DEF LogInv, LogType, SeqsDiffer
  <2>3. CASE Next
    <3>1. PICK c \in Chunk : Arrive(c)
      BY <2>3 DEF Next
    <3> DEFINE n == Len(log)
    <3>2. log \in Seq(Chunk) /\ n \in Nat /\ DOMAIN log = 1..n
      BY <2>1 DEF LogInv, LogType
    <3>3. /\ log' \in Seq(Chunk) /\ DOMAIN log' = 1..(n + 1) /\ log'[n + 1] = c
          /\ \A i \in 1..n : log'[i] = log[i]
      BY <3>1, <3>2, AppendProperties DEF Arrive
    <3>4. \A i \in 1..n : log[i].seq # c.seq
      BY <3>1, <3>2 DEF Arrive
    <3>5. \A i, j \in 1..n : log[i].seq = log[j].seq => i = j
      BY <2>1, <3>2 DEF LogInv, SeqsDiffer
    <3> HIDE DEF n
    <3>6. ASSUME NEW i \in 1..(n + 1), NEW j \in 1..(n + 1), log'[i].seq = log'[j].seq
          PROVE  i = j
      <4>1. (i = n + 1 \/ i \in 1..n) /\ (j = n + 1 \/ j \in 1..n)
        BY <3>2
      <4> QED BY <3>3, <3>4, <3>5, <3>6, <4>1
    <3> QED BY <3>3, <3>6 DEF LogInv, LogType, SeqsDiffer
  <2> QED BY <2>1, <2>2, <2>3
<1> QED BY <1>1, <1>2, PTL DEF Spec

\* Assembling any log loses, repeats and reorders nothing of the chosen chunks,
\* and puts each turn in one segment (assembly.py:27-49).
THEOREM TranscriptKeepsOrder == Spec => []SegmentsPreserveOrder
<1>1. LogInv => SegmentsPreserveOrder
  BY SegmentsSay, OrderedIs DEF LogInv, LogType, SegmentsPreserveOrder, TurnsAlternate
<1> QED BY <1>1, LogIsInvariant, PTL

-----------------------------------------------------------------------------
\* A chunk's text is in the transcript exactly when no later arrival speaks for
\* the same effective seq.
LEMMA OnlyLatestSurvive ==
  ASSUME LogInv, NEW i \in DOMAIN log
  PROVE  Contains(Flat(Segments(log)), log[i].text) <=> LatestFor(log, Target(log[i])) = i
<1> DEFINE o == Ordered(log)
<1>1. log \in Seq(Chunk)
  BY DEF LogInv, LogType
<1>2. /\ o \in Seq(Chunk) /\ DOMAIN o = 1..Len(o)
      /\ \A n \in DOMAIN o : /\ Target(o[n]) \in Targets(log)
                             /\ o[n] = log[LatestFor(log, Target(o[n]))]
      /\ \A t \in Targets(log) : \E n \in DOMAIN o : o[n] = log[LatestFor(log, t)]
  BY <1>1, OrderedIs
<1> HIDE DEF o
<1>3. Contains(Flat(Segments(log)), log[i].text)
        <=> \E n \in DOMAIN o : o[n].text = log[i].text
  <2>1. Flat(Segments(log)) = [n \in DOMAIN o |-> o[n].text]
    BY <1>1, SegmentsSay DEF Texts, o
  <2>2. Len([n \in DOMAIN o |-> o[n].text]) = Len(o)
    BY <1>2
  <2> QED BY <1>2, <2>1, <2>2 DEF Contains
<1>4. Target(log[i]) \in Targets(log)
  BY DEF Targets
<1>5. ASSUME NEW n \in DOMAIN o, o[n].text = log[i].text
      PROVE  LatestFor(log, Target(log[i])) = i
  <2> DEFINE m == LatestFor(log, Target(o[n]))
  <2>1. m \in DOMAIN log /\ o[n] = log[m]
    BY <1>1, <1>2, LatestForIs
  <2> HIDE DEF m
  <2>2. log[m] \in Chunk /\ log[i] \in Chunk
    BY <1>1, <2>1
  <2>3. log[m].text = <<log[m].seq, log[m].revises>>
        /\ log[i].text = <<log[i].seq, log[i].revises>>
    BY <2>2, ChunkFields
  <2>4. m = i
    BY <1>5, <2>1, <2>3 DEF LogInv, SeqsDiffer
  <2> QED BY <2>1, <2>4 DEF m
<1> QED BY <1>2, <1>3, <1>4, <1>5

\* Corrections of original chunks apply: in a log of any length the corrected
\* text is gone and the last correction is there (assembly.py:22-25).
THEOREM CorrectionsAlwaysApply == Spec => []CorrectionsApply
<1>1. LogInv => CorrectionsApply
  <2>1. SUFFICES ASSUME LogInv, RevisesOriginals PROVE CorrectionsApply
    BY DEF CorrectionsApply
  <2>2. /\ log \in Seq(Chunk) /\ DOMAIN log = 1..Len(log) /\ Len(log) \in Nat
        /\ \A i \in DOMAIN log : log[i] \in Chunk
    BY <2>1 DEF LogInv, LogType
  <2>3. \A i \in DOMAIN log :
          /\ Target(log[i]) \in Targets(log)
          /\ log[i].seq \in Nat /\ log[i].seq # NoRev
    BY <2>2, ChunkFields DEF Targets, NoRev
  <2>4. ASSUME NEW i \in DOMAIN log, Superseded(i)
        PROVE  LatestFor(log, Target(log[i])) # i
    <3>1. PICK j \in DOMAIN log : log[j].revises = log[i].seq
      BY <2>4 DEF Superseded
    <3>2. PICK k \in 1..(j - 1) : log[k].seq = log[j].revises /\ log[k].revises = NoRev
      BY <2>1, <2>3, <3>1 DEF RevisesOriginals
    <3>3. k \in DOMAIN log /\ k < j
      BY <2>2
    <3>4. k = i
      BY <2>1, <3>1, <3>2, <3>3 DEF LogInv, SeqsDiffer
    <3>5. Target(log[i]) = log[i].seq /\ Target(log[j]) = log[i].seq
      BY <2>3, <3>1, <3>2, <3>4 DEF Target
    <3>6. j <= LatestFor(log, Target(log[i])) /\ LatestFor(log, Target(log[i])) \in DOMAIN log
      BY <2>2, <2>3, <3>5, LatestForIs
    <3> QED BY <2>2, <3>3, <3>4, <3>6
  <2>5. ASSUME NEW i \in DOMAIN log,
               \A j \in (i + 1)..Len(log) : Target(log[j]) # Target(log[i])
        PROVE  LatestFor(log, Target(log[i])) = i
    <3> DEFINE m == LatestFor(log, Target(log[i]))
    <3>1. m \in DOMAIN log /\ Target(log[m]) = Target(log[i]) /\ i <= m
      BY <2>2, <2>3, LatestForIs
    <3> HIDE DEF m
    <3>2. m = i \/ m \in (i + 1)..Len(log)
      BY <2>2, <3>1
    <3>3. m = i
      BY <2>5, <3>1, <3>2
    <3> QED BY <3>3 DEF m
  <2> QED BY <2>1, <2>4, <2>5, OnlyLatestSurvive DEF CorrectionsApply
<1> QED BY <1>1, LogIsInvariant, PTL

-----------------------------------------------------------------------------
\* Two logs of the same chunks, in which a chunk is told by its effective seq,
\* make the same transcript.
Chunks(l) == {l[i] : i \in DOMAIN l}
OnePerTarget(l) == \A i, j \in DOMAIN l : Target(l[i]) = Target(l[j]) => l[i] = l[j]

LEMMA SameChunksSameOrder ==
  ASSUME NEW l \in Seq(Chunk), NEW m \in Seq(Chunk), Chunks(l) = Chunks(m), OnePerTarget(m)
  PROVE  Ordered(l) = Ordered(m)
<1>1. Targets(l) = Targets(m)
  <2>1. \A k \in Seq(Chunk) : Targets(k) = {Target(c) : c \in Chunks(k)}
    BY DEF Targets, Chunks
  <2> QED BY <2>1
<1>2. ASSUME NEW t \in Targets(l) PROVE l[LatestFor(l, t)] = m[LatestFor(m, t)]
  <2>1. /\ LatestFor(l, t) \in DOMAIN l /\ Target(l[LatestFor(l, t)]) = t
        /\ LatestFor(m, t) \in DOMAIN m /\ Target(m[LatestFor(m, t)]) = t
    BY <1>1, LatestForIs
  <2>2. l[LatestFor(l, t)] \in Chunks(m)
    BY <2>1 DEF Chunks
  <2>3. PICK k \in DOMAIN m : m[k] = l[LatestFor(l, t)]
    BY <2>2 DEF Chunks
  <2> QED BY <2>1, <2>3 DEF OnePerTarget
<1> DEFINE order == Increasing(Targets(l))
<1>3. \A n \in DOMAIN order : order[n] \in Targets(l)
  <2>1. Targets(l) \in SUBSET Nat /\ IsFiniteSet(Targets(l))
    BY TargetsFinite
  <2>2. order \in [1..Cardinality(Targets(l)) -> Targets(l)]
    BY <2>1, IncreasingSorts
  <2> QED BY <2>2
<1>4. /\ Ordered(l) = [n \in DOMAIN order |-> l[LatestFor(l, order[n])]]
      /\ Ordered(m) = [n \in DOMAIN order |-> m[LatestFor(m, order[n])]]
  BY <1>1 DEF Ordered
<1> HIDE DEF order
<1> QED BY <1>2, <1>3, <1>4

LEMMA BySeqSameChunks ==
  ASSUME LogInv PROVE BySeq(log) \in Seq(Chunk) /\ Chunks(BySeq(log)) = Chunks(log)
<1> DEFINE n == Len(log)
           S == {log[i].seq : i \in 1..n}
           k == Cardinality(S)
           order == Increasing(S)
           at(q) == CHOOSE i \in 1..n : log[i].seq = q
<1>1. /\ n \in Nat /\ DOMAIN log = 1..n /\ \A i \in 1..n : log[i] \in Chunk
      /\ \A i, j \in 1..n : log[i].seq = log[j].seq => i = j
  BY DEF LogInv, LogType, SeqsDiffer
<1> HIDE DEF n
<1>2. S \in SUBSET Nat /\ IsFiniteSet(S)
  <2>1. S \in SUBSET Nat
    BY <1>1, ChunkFields
  <2> DEFINE f == [i \in 1..n |-> log[i].seq]
  <2>2. f \in Surjection(1..n, S)
    BY DEF Surjection
  <2>3. ExistsSurjection(1..n, S)
    BY <2>2 DEF ExistsSurjection
  <2> HIDE DEF S
  <2> QED BY <1>1, <2>1, <2>3, FS_NatSurjection
<1>3. BySeq(log) = [m \in DOMAIN order |-> log[at(order[m])]]
  BY <1>1 DEF BySeq
<1>4. ASSUME NEW q \in S PROVE at(q) \in 1..n /\ log[at(q)].seq = q
  OBVIOUS
<1>5. \A i \in 1..n : at(log[i].seq) = i /\ log[i].seq \in S
  BY <1>1
<1> HIDE DEF S, at
<1>6. /\ k \in Nat /\ order \in [1..k -> S]
      /\ \A q \in S : \E m \in 1..k : order[m] = q
  BY <1>2, IncreasingSorts
<1> HIDE DEF order, k
<1>7. \A m \in 1..k : order[m] \in S
  BY <1>6
<1>8. BySeq(log) = [m \in 1..k |-> log[at(order[m])]]
  BY <1>3, <1>6
<1>9. BySeq(log) \in [1..k -> Chunk]
  BY <1>1, <1>4, <1>7, <1>8
<1>10. BySeq(log) \in Seq(Chunk)
  BY <1>6, <1>9
<1>11. Chunks(BySeq(log)) \subseteq Chunks(log)
  BY <1>1, <1>4, <1>7, <1>8 DEF Chunks
<1>12. Chunks(log) \subseteq Chunks(BySeq(log))
  <2>1. ASSUME NEW i \in 1..n PROVE \E m \in 1..k : log[at(order[m])] = log[i]
    BY <1>5, <1>6
  <2> QED BY <1>1, <1>8, <2>1 DEF Chunks
<1> QED BY <1>10, <1>11, <1>12

\* The transcript of a session without corrections does not depend on the order
\* its chunks arrived in, however many they are (assembly.py:6).
THEOREM TranscriptIgnoresArrival == Spec => []ArrivalOrderIrrelevant
<1>1. LogInv => ArrivalOrderIrrelevant
  <2>1. SUFFICES ASSUME LogInv,
                        \A i, j \in DOMAIN log : i # j => Target(log[i]) # Target(log[j])
                 PROVE  Segments(log) = Segments(BySeq(log))
    BY DEF ArrivalOrderIrrelevant
  <2>2. log \in Seq(Chunk) /\ BySeq(log) \in Seq(Chunk) /\ Chunks(BySeq(log)) = Chunks(log)
    BY <2>1, BySeqSameChunks DEF LogInv, LogType
  <2>3. OnePerTarget(log)
    BY <2>1 DEF OnePerTarget
  <2>4. Ordered(BySeq(log)) = Ordered(log)
    BY <2>2, <2>3, SameChunksSameOrder
  <2> QED BY <2>4 DEF Segments
<1> QED BY <1>1, LogIsInvariant, PTL
=============================================================================
