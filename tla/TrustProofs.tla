---------------------------- MODULE TrustProofs -----------------------------
(***************************************************************************)
(* The trust store for any number of URLs, keys and releases. The first    *)
(* part holds for any number of processes at a time; the second is what a  *)
(* user can rely on who runs one command at a time, however many of them   *)
(* are killed; the third is what a verification is worth, for any number   *)
(* of machines, commands, keys, apps and releases.                         *)
(***************************************************************************)
EXTENDS Attestation, NumberLemmas, TLAPS

LEMMA PartialType ==
  ASSUME NEW S, NEW T, NEW f
  PROVE  f \in Partial(S, T) <=>
           f \in [DOMAIN f -> T] /\ DOMAIN f \subseteq S
BY DEF Partial

LEMMA WithType ==
  ASSUME NEW S, NEW T, NEW f, f \in Partial(S, T), NEW x, x \in S, NEW y, y \in T
  PROVE  With(f, x, y) \in Partial(S, T)
<1>1. f \in [DOMAIN f -> T] /\ DOMAIN f \subseteq S
  BY PartialType
<1>2. /\ DOMAIN With(f, x, y) = DOMAIN f \cup {x}
      /\ With(f, x, y) \in [DOMAIN f \cup {x} -> T]
  BY <1>1 DEF With
<1> QED BY <1>1, <1>2, PartialType

LEMMA WithoutType ==
  ASSUME NEW S, NEW T, NEW f, f \in Partial(S, T), NEW x
  PROVE  Without(f, x) \in Partial(S, T)
<1>1. f \in [DOMAIN f -> T] /\ DOMAIN f \subseteq S
  BY PartialType
<1>2. /\ DOMAIN Without(f, x) = DOMAIN f \ {x}
      /\ Without(f, x) \in [DOMAIN f \ {x} -> T]
  BY <1>1 DEF Without
<1> QED BY <1>1, <1>2, PartialType

Sink == [app : App, regs : Regs, urls : SUBSET Url]

LEMMA EmptyDataType == EmptyData \in TrustData /\ CoherentData(EmptyData)
<1>1. EmptyData.index \in Partial(Url, PubKey) /\ EmptyData.sinks \in Partial(PubKey, Sink)
  BY PartialType DEF EmptyData, Sink
<1>2. EmptyData \in TrustData
  BY <1>1 DEF TrustData, EmptyData, Sink
<1> QED BY <1>2 DEF EmptyData, CoherentData

\* apply() yields a store, keeps its indexes in agreement, pins the URL, and
\* leaves every other URL as it was.
LEMMA AppliedCorrect ==
  ASSUME NEW d \in TrustData, NEW u \in Url, NEW v \in Deployment, ~Mismatch(d, u, v)
  PROVE  /\ Applied(d, u, v) \in TrustData
         /\ CoherentData(d) => CoherentData(Applied(d, u, v))
         /\ Pinned(Applied(d, u, v), u, v)
         /\ \A w \in Url \ {u}, x \in Deployment :
              Pinned(d, w, x) => Pinned(Applied(d, u, v), w, x)
<1> DEFINE known == IF v.key \in DOMAIN d.sinks THEN d.sinks[v.key].urls ELSE {}
           rec == [app |-> v.app, regs |-> v.regs, urls |-> known \cup {u}]
           e == Applied(d, u, v)
<1>1. /\ d.index \in Partial(Url, PubKey) /\ d.sinks \in Partial(PubKey, Sink)
      /\ v.key \in PubKey /\ v.app \in App /\ v.regs \in Regs
  BY DEF TrustData, Sink, Deployment
<1>2. /\ d.index \in [DOMAIN d.index -> PubKey] /\ d.sinks \in [DOMAIN d.sinks -> Sink]
  BY <1>1, PartialType
<1>3. known \subseteq Url /\ rec \in Sink
  BY <1>1, <1>2 DEF Sink
<1>4. e.index = With(d.index, u, v.key) /\ e.sinks = With(d.sinks, v.key, rec)
  BY DEF Applied
<1>5. /\ e.index \in Partial(Url, PubKey) /\ DOMAIN e.index = DOMAIN d.index \cup {u}
      /\ e.index[u] = v.key /\ \A w \in DOMAIN d.index : w # u => e.index[w] = d.index[w]
  <2> HIDE DEF e
  <2>1. With(d.index, u, v.key) \in Partial(Url, PubKey)
    BY <1>1, WithType
  <2> QED BY <1>4, <2>1 DEF With
<1>6. /\ e.sinks \in Partial(PubKey, Sink) /\ DOMAIN e.sinks = DOMAIN d.sinks \cup {v.key}
      /\ e.sinks[v.key] = rec /\ \A k \in DOMAIN d.sinks : k # v.key => e.sinks[k] = d.sinks[k]
  <2> HIDE DEF rec, e, known
  <2>1. With(d.sinks, v.key, rec) \in Partial(PubKey, Sink)
    BY <1>1, <1>3, WithType
  <2> QED BY <1>4, <2>1 DEF With
<1>7. e \in TrustData
  <2>1. e = [index |-> e.index, sinks |-> e.sinks]
    BY DEF Applied
  <2> QED BY <1>5, <1>6, <2>1 DEF TrustData, Sink
<1>8. ASSUME CoherentData(d) PROVE CoherentData(e)
  <2>1. u \in DOMAIN d.index => d.index[u] = v.key
    BY DEF Mismatch
  <2>2. rec.urls = known \cup {u}
    OBVIOUS
  <2>3. ASSUME NEW w \in DOMAIN e.index
        PROVE  e.index[w] \in DOMAIN e.sinks /\ w \in e.sinks[e.index[w]].urls
    <3>1. CASE w = u
      BY <1>5, <1>6, <2>2, <3>1
    <3>2. CASE w # u
      <4>1. w \in DOMAIN d.index /\ e.index[w] = d.index[w]
        BY <1>5, <2>3, <3>2
      <4>2. d.index[w] \in DOMAIN d.sinks /\ w \in d.sinks[d.index[w]].urls
        BY <1>8, <4>1 DEF CoherentData
      <4>3. CASE d.index[w] = v.key
        BY <1>6, <2>2, <4>1, <4>2, <4>3
      <4>4. CASE d.index[w] # v.key
        BY <1>6, <4>1, <4>2, <4>4
      <4> QED BY <4>3, <4>4
    <3> QED BY <3>1, <3>2
  <2>4. ASSUME NEW k \in DOMAIN e.sinks
        PROVE  /\ e.sinks[k].urls # {}
               /\ \A w \in e.sinks[k].urls : w \in DOMAIN e.index /\ e.index[w] = k
    <3>1. CASE k = v.key
      <4>1. e.sinks[k].urls = known \cup {u}
        BY <1>6, <2>2, <3>1
      <4>2. ASSUME NEW w \in known PROVE w \in DOMAIN d.index /\ d.index[w] = v.key
        BY <1>8, <4>2 DEF CoherentData
      <4> QED BY <1>5, <3>1, <4>1, <4>2
    <3>2. CASE k # v.key
      <4>1. k \in DOMAIN d.sinks /\ e.sinks[k] = d.sinks[k]
        BY <1>6, <2>4, <3>2
      <4>2. /\ d.sinks[k].urls # {}
            /\ \A w \in d.sinks[k].urls : w \in DOMAIN d.index /\ d.index[w] = k
        BY <1>8, <4>1 DEF CoherentData
      <4> QED BY <1>5, <2>1, <3>2, <4>1, <4>2
    <3> QED BY <3>1, <3>2
  <2> QED BY <2>3, <2>4 DEF CoherentData
<1>9. Pinned(e, u, v)
  BY <1>5, <1>6 DEF Pinned
<1>10. ASSUME NEW w \in Url \ {u}, NEW x \in Deployment, Pinned(d, w, x)
       PROVE  Pinned(e, w, x)
  <2>1. v.key \in DOMAIN d.sinks => d.sinks[v.key].app = v.app /\ d.sinks[v.key].regs = v.regs
    BY DEF Mismatch, Changed
  <2>2. rec.app = v.app /\ rec.regs = v.regs
    OBVIOUS
  <2> HIDE DEF e, rec
  <2>3. w \in DOMAIN e.index /\ e.index[w] = x.key /\ x.key \in DOMAIN e.sinks
    BY <1>5, <1>6, <1>10 DEF Pinned
  <2>4. CASE x.key = v.key
    BY <1>6, <1>10, <2>1, <2>2, <2>3, <2>4 DEF Pinned
  <2>5. CASE x.key # v.key
    BY <1>6, <1>10, <2>3, <2>5 DEF Pinned
  <2> QED BY <2>4, <2>5
<1> QED BY <1>7, <1>8, <1>9, <1>10

\* reset_url() yields a store, keeps its indexes in agreement, and leaves every
\* other URL as it was.
LEMMA ResetCorrect ==
  ASSUME NEW d \in TrustData, CoherentData(d), NEW u \in Url
  PROVE  /\ ResetUrl(d, u) \in TrustData
         /\ CoherentData(ResetUrl(d, u))
         /\ \A w \in Url \ {u}, x \in Deployment :
              Pinned(d, w, x) => Pinned(ResetUrl(d, u), w, x)
<1> DEFINE e == ResetUrl(d, u)
<1>1. /\ d.index \in Partial(Url, PubKey) /\ d.sinks \in Partial(PubKey, Sink)
  BY DEF TrustData, Sink
<1>2. /\ d.index \in [DOMAIN d.index -> PubKey] /\ d.sinks \in [DOMAIN d.sinks -> Sink]
  BY <1>1, PartialType
<1>3. CASE u \notin DOMAIN d.index
  BY <1>3 DEF ResetUrl
<1>4. CASE u \in DOMAIN d.index
  <2> DEFINE k == d.index[u]
             left == d.sinks[k].urls \ {u}
  <2>1. k \in DOMAIN d.sinks /\ u \in d.sinks[k].urls /\ k \in PubKey
    BY <1>2, <1>4 DEF CoherentData
  <2>2. /\ e.index = Without(d.index, u)
        /\ e.sinks = IF left = {} THEN Without(d.sinks, k)
                     ELSE [d.sinks EXCEPT ![k].urls = left]
        /\ e = [index |-> e.index, sinks |-> e.sinks]
    BY <1>4, <2>1 DEF ResetUrl
  <2>3. /\ e.index \in Partial(Url, PubKey) /\ DOMAIN e.index = DOMAIN d.index \ {u}
        /\ \A w \in DOMAIN d.index : w # u => e.index[w] = d.index[w]
    <3> HIDE DEF e
    <3>1. Without(d.index, u) \in Partial(Url, PubKey)
      BY <1>1, WithoutType
    <3> QED BY <2>2, <3>1 DEF Without
  <2>4. /\ e.sinks \in Partial(PubKey, Sink)
        /\ DOMAIN e.sinks = IF left = {} THEN DOMAIN d.sinks \ {k} ELSE DOMAIN d.sinks
        /\ \A j \in DOMAIN e.sinks :
             /\ e.sinks[j].app = d.sinks[j].app /\ e.sinks[j].regs = d.sinks[j].regs
             /\ \/ e.sinks[j].urls = d.sinks[j].urls \ {u}
                \/ j # k /\ e.sinks[j] = d.sinks[j]
    <3>1. CASE left = {}
      <4>1. e.sinks = Without(d.sinks, k)
        BY <2>2, <3>1
      <4>2. Without(d.sinks, k) \in Partial(PubKey, Sink)
        BY <1>1, WithoutType
      <4> QED BY <3>1, <4>1, <4>2 DEF Without
    <3>2. CASE left # {}
      <4>1. e.sinks = [d.sinks EXCEPT ![k].urls = left]
        BY <2>2, <3>2
      <4>2. /\ e.sinks \in [DOMAIN d.sinks -> Sink] /\ DOMAIN e.sinks = DOMAIN d.sinks
            /\ e.sinks[k].app = d.sinks[k].app /\ e.sinks[k].regs = d.sinks[k].regs
            /\ e.sinks[k].urls = d.sinks[k].urls \ {u}
            /\ \A j \in DOMAIN d.sinks : j # k => e.sinks[j] = d.sinks[j]
        BY <1>2, <2>1, <4>1 DEF Sink
      <4>3. e.sinks \in Partial(PubKey, Sink)
        BY <1>1, <4>2, PartialType
      <4> QED BY <3>2, <4>2, <4>3
    <3> QED BY <3>1, <3>2
  <2>5. e \in TrustData
    BY <2>2, <2>3, <2>4 DEF TrustData, Sink
  <2> HIDE DEF e
  <2>6. ASSUME NEW w \in DOMAIN d.index \ {u}
        PROVE  /\ w \in DOMAIN e.index /\ e.index[w] = d.index[w]
               /\ d.index[w] \in DOMAIN e.sinks
               /\ w \in e.sinks[d.index[w]].urls
    <3>1. d.index[w] \in DOMAIN d.sinks /\ w \in d.sinks[d.index[w]].urls
      BY <2>6 DEF CoherentData
    <3>2. d.index[w] \in DOMAIN e.sinks
      BY <2>4, <2>6, <3>1
    <3> QED BY <2>3, <2>4, <2>6, <3>1, <3>2
  <2>7. ASSUME NEW j \in DOMAIN e.sinks
        PROVE  /\ e.sinks[j].urls # {}
               /\ \A w \in e.sinks[j].urls : w \in DOMAIN e.index /\ e.index[w] = j
    <3>1. /\ j \in DOMAIN d.sinks /\ d.sinks[j].urls # {}
          /\ \A w \in d.sinks[j].urls : w \in DOMAIN d.index /\ d.index[w] = j
      <4>1. j \in DOMAIN d.sinks
        BY <2>4, <2>7
      <4> QED BY <4>1 DEF CoherentData
    <3>2. CASE j = k
      BY <2>3, <2>4, <3>1, <3>2
    <3>3. CASE j # k
      <4>1. u \notin d.sinks[j].urls
        BY <3>1, <3>3
      <4>2. e.sinks[j].urls = d.sinks[j].urls
        BY <2>4, <2>7, <4>1
      <4> QED BY <2>3, <3>1, <4>1, <4>2
    <3> QED BY <3>2, <3>3
  <2>8. CoherentData(e)
    <3>1. \A w \in DOMAIN e.index : e.index[w] \in DOMAIN e.sinks /\ w \in e.sinks[e.index[w]].urls
      BY <2>3, <2>6
    <3> QED BY <2>7, <3>1 DEF CoherentData
  <2>9. ASSUME NEW w \in Url \ {u}, NEW x \in Deployment, Pinned(d, w, x)
        PROVE  Pinned(e, w, x)
    <3>1. w \in DOMAIN d.index \ {u} /\ d.index[w] = x.key
      BY <2>9 DEF Pinned
    <3>2. w \in DOMAIN e.index /\ e.index[w] = x.key /\ x.key \in DOMAIN e.sinks
      BY <2>6, <3>1
    <3> QED BY <2>4, <2>9, <3>2 DEF Pinned
  <2> QED BY <2>5, <2>8, <2>9 DEF e
<1> QED BY <1>3, <1>4

LEMMA ContentType ==
  /\ {Absent, Empty, Garbled} \subseteq Content
  /\ \A d \in TrustData : Holding(d) \in Content
  /\ \A c \in Content : c.data \in TrustData
  /\ \A c, d : Overwritten(c, d) \subseteq {Holding(d), Garbled}
<1>1. /\ {Absent, Empty, Garbled} \subseteq Content
      /\ \A d \in TrustData : Holding(d) \in Content
  BY DEF Content, Holding
<1>2. ASSUME NEW c \in Content PROVE c.data \in TrustData
  BY EmptyDataType DEF Content, Absent, Empty, Garbled, Holding
<1>3. \A c, d : Overwritten(c, d) \subseteq {Holding(d), Garbled}
  BY DEF Overwritten
<1> QED BY <1>1, <1>2, <1>3

LEMMA CoherentContent ==
  /\ CoherentData(Absent.data) /\ CoherentData(Empty.data) /\ CoherentData(Garbled.data)
  /\ \A d : Holding(d).data = d
BY EmptyDataType DEF Absent, Empty, Garbled, Holding

-----------------------------------------------------------------------------
\* Any number of processes.

LEMMA ExitType ==
  ASSUME TypeOK, NEW p \in Proc, Exit(p)
  PROVE  /\ data' \in [Proc -> TrustData]
         /\ pc' \in [Proc -> PC] /\ pc' = [pc EXCEPT ![p] = "idle"]
         /\ cmd' \in [Proc -> Command \cup {NoCommand}]
         /\ verified' \in [Proc -> Deployment \cup {NoDeployment}]
         /\ pc'[p] = "idle"
         /\ \A q \in Proc \ {p} :
              /\ pc'[q] = pc[q] /\ cmd'[q] = cmd[q] /\ verified'[q] = verified[q]
              /\ data'[q] = data[q]
BY EmptyDataType DEF TypeOK, Exit, Goto, PC

LEMMA NextType == TypeOK /\ Coherent /\ [Next]_vars => TypeOK'
<1> SUFFICES ASSUME TypeOK, Coherent, [Next]_vars PROVE TypeOK'
  OBVIOUS
<1> USE ContentType
<1>1. CASE UNCHANGED vars
  BY <1>1 DEF TypeOK, vars, trustVars
<1>2. ASSUME NEW p \in Proc, NEW u \in Url, StartReset(p, u)
      PROVE  TypeOK'
  <2>1. ResetUrl(file.data, u) \in TrustData
    BY ResetCorrect DEF TypeOK, Coherent
  <2> QED BY <1>2, <2>1 DEF TypeOK, StartReset, Goto, PC, Command
<1>3. ASSUME NEW p \in Proc, NEW u \in Url, NEW policy \in Policy, StartVerify(p, u, policy)
      PROVE  TypeOK'
  <2>1. [name |-> "verify", url |-> u, policy |-> policy] \in Command
    BY PolicyAssumption DEF Command
  <2> QED BY <1>3, <2>1 DEF TypeOK, StartVerify, Goto, PC
<1>4. ASSUME NEW p \in Proc, StartRaises(p)
      PROVE  TypeOK'
  BY <1>1, <1>4 DEF StartRaises
<1>5. ASSUME NEW p \in Proc, NEW v \in Deployment, Attest(p, v)
      PROVE  TypeOK'
  BY <1>5 DEF TypeOK, Attest, Goto, PC, trustVars
<1>6. ASSUME NEW p \in Proc, NEW v \in Deployment, Info(p, v)
      PROVE  TypeOK'
  BY <1>6 DEF TypeOK, Info, Goto, PC, trustVars
<1>7. ASSUME NEW p \in Proc, VerificationFails(p)
      PROVE  TypeOK'
  BY <1>7, ExitType DEF TypeOK, VerificationFails
<1>8. ASSUME NEW p \in Proc, Apply(p)
      PROVE  TypeOK'
  <2>1. cmd[p] \in Command /\ cmd[p].url \in Url /\ verified[p] \in Deployment
    BY <1>8 DEF TypeOK, Apply, Command
  <2>2. Applied(data[p], cmd[p].url, verified[p]) \in TrustData
    BY <1>8, <2>1, AppliedCorrect DEF TypeOK, Apply
  <2> QED BY <1>8, <2>1, <2>2 DEF TypeOK, Apply, Goto, PC
<1>9. ASSUME NEW p \in Proc, ApplyRaises(p)
      PROVE  TypeOK'
  BY <1>9, ExitType DEF TypeOK, ApplyRaises
<1>10. ASSUME NEW p \in Proc, SaveOpens(p)
       PROVE  TypeOK'
  <2>1. tmp' = Empty /\ file' = file /\ Empty \in Content
    BY <1>10 DEF SaveOpens, OpenTmp
  <2> QED BY <1>10, <2>1 DEF TypeOK, SaveOpens, OpenTmp, Goto, PC
<1>11. ASSUME NEW p \in Proc, SaveWrites(p)
       PROVE  TypeOK'
  <2>1. file' \in Content /\ tmp' \in Content
    BY <1>11 DEF TypeOK, SaveWrites, WriteTmp
  <2> QED BY <1>11, <2>1 DEF TypeOK, SaveWrites, WriteTmp, Goto, PC
<1>12. ASSUME NEW p \in Proc, SaveRenames(p)
       PROVE  TypeOK'
  <2>1. accepted' \in Partial(Url, Deployment)
    <3>1. cmd[p] \in Command /\ cmd[p].url \in Url
      BY <1>12 DEF TypeOK, SaveRenames, Command
    <3>2. CASE cmd[p].name = "verify"
      BY <1>12, <3>1, <3>2, WithType DEF TypeOK, SaveRenames
    <3>3. CASE cmd[p].name # "verify"
      BY <1>12, <3>1, <3>3, WithoutType DEF TypeOK, SaveRenames
    <3> QED BY <3>2, <3>3
  <2>2. file' \in Content /\ tmp' \in Content
    BY <1>12 DEF TypeOK, SaveRenames, RenameTmp
  <2>3. /\ fd' \in [Proc -> {"none", "tmp", "file", "gone"}]
        /\ \A q \in Proc : fd'[q] # "none" <=> fd[q] # "none"
    BY <1>12 DEF TypeOK, SaveRenames, RenameTmp
  <2> QED BY <1>12, <2>1, <2>2, <2>3, ExitType DEF TypeOK, SaveRenames
<1>13. ASSUME NEW p \in Proc, RenameRaises(p)
       PROVE  TypeOK'
  BY <1>13, ExitType DEF TypeOK, RenameRaises
<1>14. ASSUME NEW p \in Proc, Kill(p)
       PROVE  TypeOK'
  BY <1>14, ExitType DEF TypeOK, Kill
<1> QED BY <1>1, <1>2, <1>3, <1>4, <1>5, <1>6, <1>7, <1>8, <1>9, <1>10, <1>11, <1>12,
          <1>13, <1>14 DEF Next

LEMMA InitType == Init => TypeOK /\ Coherent
<1> SUFFICES ASSUME Init PROVE TypeOK /\ Coherent
  OBVIOUS
<1>1. accepted \in Partial(Url, Deployment)
  BY PartialType DEF Init
<1> QED BY <1>1, ContentType, CoherentContent, EmptyDataType
        DEF Init, TrustInit, TypeOK, Coherent, PC

LEMMA NextCoherent == TypeOK /\ Coherent /\ [Next]_vars => Coherent'
<1> SUFFICES ASSUME TypeOK, Coherent, [Next]_vars PROVE Coherent'
  OBVIOUS
<1>0. \A p \in Proc : data[p] \in TrustData /\ CoherentData(data[p])
  BY DEF TypeOK, Coherent
<1>1. CASE UNCHANGED vars
  BY <1>1 DEF Coherent, vars, trustVars
<1>2. ASSUME NEW p \in Proc, NEW d, CoherentData(d), data' = [data EXCEPT ![p] = d],
             UNCHANGED <<file, tmp>>
      PROVE  Coherent'
  BY <1>2 DEF Coherent, TypeOK
<1>3. ASSUME NEW p \in Proc, Exit(p), UNCHANGED <<file, tmp>>
      PROVE  Coherent'
  BY <1>2, <1>3, EmptyDataType DEF Exit
<1>4. ASSUME NEW p \in Proc, NEW u \in Url, StartReset(p, u)
      PROVE  Coherent'
  <2>1. CoherentData(ResetUrl(file.data, u))
    BY ContentType, ResetCorrect DEF TypeOK, Coherent
  <2> QED BY <1>2, <1>4, <2>1 DEF StartReset
<1>5. ASSUME NEW p \in Proc, NEW u \in Url, NEW policy \in Policy, StartVerify(p, u, policy)
      PROVE  Coherent'
  BY <1>2, <1>5 DEF StartVerify, Coherent
<1>6. ASSUME NEW p \in Proc, Apply(p)
      PROVE  Coherent'
  <2>1. cmd[p].url \in Url /\ verified[p] \in Deployment
    BY <1>6 DEF TypeOK, Apply, Command
  <2>2. CoherentData(Applied(data[p], cmd[p].url, verified[p]))
    BY <1>0, <1>6, <2>1, AppliedCorrect DEF Apply
  <2> QED BY <1>2, <1>6, <2>2 DEF Apply
<1>7. ASSUME NEW p \in Proc, SaveWrites(p)
      PROVE  Coherent'
  <2>1. CoherentData(file'.data) /\ CoherentData(tmp'.data)
    BY <1>0, <1>7, ContentType, CoherentContent DEF SaveWrites, WriteTmp, Coherent
  <2> QED BY <1>7, <2>1 DEF SaveWrites, Coherent
<1>8. ASSUME NEW p \in Proc, SaveRenames(p)
      PROVE  Coherent'
  <2>1. CoherentData(file'.data) /\ CoherentData(tmp'.data)
    BY <1>8, CoherentContent DEF SaveRenames, RenameTmp, Coherent
  <2>2. \A q \in Proc : CoherentData(data'[q])
    BY <1>0, <1>8, EmptyDataType DEF SaveRenames, Exit, TypeOK
  <2> QED BY <2>1, <2>2 DEF Coherent
<1>9. ASSUME NEW p \in Proc, SaveOpens(p)
      PROVE  Coherent'
  BY <1>9, CoherentContent DEF SaveOpens, OpenTmp, Coherent
<1>10. ASSUME NEW p \in Proc, NEW v \in Deployment,
              StartRaises(p) \/ Attest(p, v) \/ Info(p, v)
       PROVE  Coherent'
  BY <1>10 DEF StartRaises, Attest, Info, vars, trustVars, Coherent
<1>11. ASSUME NEW p \in Proc,
              VerificationFails(p) \/ ApplyRaises(p) \/ RenameRaises(p) \/ Kill(p)
       PROVE  Coherent'
  BY <1>3, <1>11 DEF VerificationFails, ApplyRaises, RenameRaises, Kill
<1>12. ASSUME NEW p \in Proc, StartRaises(p) PROVE Coherent'
  BY <1>1, <1>12 DEF StartRaises
<1> QED BY <1>1, <1>4, <1>5, <1>6, <1>7, <1>8, <1>9, <1>10, <1>11, <1>12 DEF Next

\* The variables have their types, and a command holds the temporary file open
\* only while it writes, with any number of commands at a time and wherever they
\* are killed.
THEOREM TypesHold == Spec => []TypeOK
<1>1. Spec => [](TypeOK /\ Coherent)
  BY InitType, NextType, NextCoherent, PTL DEF Spec
<1> QED BY <1>1, PTL

\* What any number of commands leave in the trust store, if it can be loaded, has
\* url_index and sinks in agreement: no interleaving and no kill tears one from the
\* other (trust.py:44-94).
THEOREM StoreCoherent == Spec => []Coherent
<1>1. Spec => [](TypeOK /\ Coherent)
  BY InitType, NextType, NextCoherent, PTL DEF Spec
<1> QED BY <1>1, PTL

-----------------------------------------------------------------------------
\* One command at a time: a single process, which Exit makes start anew.

Alone == \A p, q \in Proc : p = q

\* What the data of a process is while it runs, and what the temporary file is
\* while it saves.
Progress(p) ==
  LET d == file.data
      u == cmd[p].url
  IN  /\ pc[p] \in {"attest", "info", "apply"} => cmd[p].name = "verify" /\ data[p] = d
      /\ pc[p] \in {"open", "write", "rename"} =>
           \/ /\ cmd[p].name = "verify"
              /\ ~Mismatch(d, u, verified[p]) /\ data[p] = Applied(d, u, verified[p])
           \/ cmd[p].name = "reset" /\ data[p] = ResetUrl(d, u)
      /\ pc[p] = "write" => fd[p] = "tmp" /\ tmp = Empty
      /\ pc[p] = "rename" => tmp = Holding(data[p])

AloneInv == Loadable /\ AcceptedPinned /\ \A p \in Proc : Progress(p)

\* What is pinned does not mismatch itself only.
LEMMA PinnedMismatch ==
  ASSUME NEW d, NEW u, NEW x \in Deployment, NEW v \in Deployment,
         Pinned(d, u, x), ~Mismatch(d, u, v)
  PROVE  x = v
<1>1. x.key = v.key /\ x.app = v.app /\ x.regs = v.regs
  BY DEF Pinned, Mismatch, Changed
<1> QED BY <1>1 DEF Deployment

LEMMA InitAlone == Init => AloneInv
BY PartialType DEF Init, TrustInit, AloneInv, Loadable, Absent, AcceptedPinned, Progress

\* The rename, the one step that changes the file and what was accepted.
LEMMA RenamePins ==
  ASSUME Alone, TypeOK, Coherent, AloneInv, NEW p \in Proc, SaveRenames(p)
  PROVE  /\ Loadable' /\ AcceptedPinned'
         /\ \A u \in DOMAIN accepted \cap DOMAIN accepted' : accepted'[u] = accepted[u]
<1> DEFINE d == file.data
           u == cmd[p].url
           v == verified[p]
<1>1. /\ pc[p] = "rename" /\ cmd[p] \in Command /\ u \in Url
      /\ tmp = Holding(data[p]) /\ file' = tmp
  BY DEF SaveRenames, RenameTmp, TypeOK, Command, AloneInv, Progress
<1>2. Loadable' /\ file'.data = data[p]
  BY <1>1 DEF Loadable, Holding
<1>3. d \in TrustData /\ CoherentData(d)
  BY ContentType DEF TypeOK, Coherent
<1>4. /\ \A w \in DOMAIN accepted : w \in Url /\ accepted[w] \in Deployment
      /\ \A w \in DOMAIN accepted : Pinned(d, w, accepted[w])
  BY PartialType DEF TypeOK, AloneInv, AcceptedPinned
<1>5. CASE cmd[p].name = "verify"
  <2>1. v \in Deployment /\ ~Mismatch(d, u, v) /\ data[p] = Applied(d, u, v)
    BY <1>1, <1>5 DEF TypeOK, AloneInv, Progress
  <2>2. accepted' = With(accepted, u, v)
    BY <1>5 DEF SaveRenames
  <2>3. /\ DOMAIN accepted' = DOMAIN accepted \cup {u} /\ accepted'[u] = v
        /\ \A w \in DOMAIN accepted : w # u => accepted'[w] = accepted[w]
    BY <2>2 DEF With
  <2>4. u \in DOMAIN accepted => accepted[u] = v
    BY <1>4, <2>1, PinnedMismatch
  <2>5. /\ Pinned(data[p], u, v)
        /\ \A w \in Url \ {u}, x \in Deployment : Pinned(d, w, x) => Pinned(data[p], w, x)
    BY <1>1, <1>3, <2>1, AppliedCorrect
  <2>6. ASSUME NEW w \in DOMAIN accepted' PROVE Pinned(data[p], w, accepted'[w])
    BY <1>4, <2>3, <2>5
  <2> QED BY <1>2, <2>3, <2>4, <2>6 DEF AcceptedPinned
<1>6. CASE cmd[p].name # "verify"
  <2>1. data[p] = ResetUrl(d, u)
    BY <1>1, <1>6 DEF AloneInv, Progress
  <2>2. accepted' = Without(accepted, u)
    BY <1>6 DEF SaveRenames
  <2>3. /\ DOMAIN accepted' = DOMAIN accepted \ {u}
        /\ \A w \in DOMAIN accepted : w # u => accepted'[w] = accepted[w]
    BY <2>2 DEF Without
  <2>4. \A w \in Url \ {u}, x \in Deployment : Pinned(d, w, x) => Pinned(data[p], w, x)
    BY <1>1, <1>3, <2>1, ResetCorrect
  <2>5. ASSUME NEW w \in DOMAIN accepted' PROVE Pinned(data[p], w, accepted'[w])
    BY <1>4, <2>3, <2>4
  <2> QED BY <1>2, <2>3, <2>5 DEF AcceptedPinned
<1> QED BY <1>5, <1>6

LEMMA NextAlone ==
  ASSUME Alone, TypeOK, Coherent, AloneInv, [Next]_vars
  PROVE  AloneInv'
<1>1. ASSUME NEW p \in Proc, Progress(p)', Loadable', AcceptedPinned'
      PROVE  AloneInv'
  BY <1>1 DEF Alone, AloneInv
<1>2. ASSUME file' = file, accepted' = accepted
      PROVE  Loadable' /\ AcceptedPinned'
  BY <1>2 DEF AloneInv, Loadable, AcceptedPinned
<1>3. CASE UNCHANGED vars
  BY <1>2, <1>3 DEF AloneInv, Progress, vars, trustVars
<1>4. ASSUME NEW p \in Proc, Exit(p) PROVE Progress(p)'
  BY <1>4 DEF Exit, Goto, Progress, TypeOK
<1>5. ASSUME NEW p \in Proc, NEW u \in Url, StartReset(p, u)
      PROVE  AloneInv'
  <2>1. Progress(p)'
    BY <1>5 DEF StartReset, Goto, Progress, TypeOK
  <2> QED BY <1>1, <1>2, <1>5, <2>1 DEF StartReset
<1>6. ASSUME NEW p \in Proc, NEW u \in Url, NEW policy \in Policy, StartVerify(p, u, policy)
      PROVE  AloneInv'
  <2>1. Progress(p)'
    BY <1>6 DEF StartVerify, Goto, Progress, TypeOK
  <2> QED BY <1>1, <1>2, <1>6, <2>1 DEF StartVerify
<1>7. ASSUME NEW p \in Proc, NEW v \in Deployment, Attest(p, v) \/ Info(p, v)
      PROVE  AloneInv'
  <2>1. Progress(p)'
    BY <1>7 DEF Attest, Info, Goto, Progress, TypeOK, AloneInv, trustVars
  <2> QED BY <1>1, <1>2, <1>7, <2>1 DEF Attest, Info, trustVars
<1>8. ASSUME NEW p \in Proc,
             VerificationFails(p) \/ ApplyRaises(p) \/ RenameRaises(p) \/ Kill(p)
      PROVE  AloneInv'
  <2>1. Exit(p) /\ file' = file /\ accepted' = accepted
    BY <1>8 DEF VerificationFails, ApplyRaises, RenameRaises, Kill
  <2> QED BY <1>1, <1>2, <1>4, <2>1
<1>9. ASSUME NEW p \in Proc, Apply(p)
      PROVE  AloneInv'
  <2>1. cmd[p].name = "verify" /\ data[p] = file.data
    BY <1>9 DEF Apply, AloneInv, Progress
  <2>2. Progress(p)'
    BY <1>9, <2>1 DEF Apply, Goto, Progress, TypeOK
  <2> QED BY <1>1, <1>2, <1>9, <2>2 DEF Apply
<1>10. ASSUME NEW p \in Proc, SaveOpens(p)
       PROVE  AloneInv'
  <2>1. Progress(p)'
    BY <1>10 DEF SaveOpens, OpenTmp, Goto, Progress, TypeOK, AloneInv
  <2> QED BY <1>1, <1>2, <1>10, <2>1 DEF SaveOpens, OpenTmp
<1>11. ASSUME NEW p \in Proc, SaveWrites(p)
       PROVE  AloneInv'
  <2>1. fd[p] = "tmp" /\ tmp = Empty
    BY <1>11 DEF SaveWrites, AloneInv, Progress
  <2>2. tmp' = Holding(data[p]) /\ file' = file
    BY <1>11, <2>1 DEF SaveWrites, WriteTmp, Overwritten
  <2>3. Progress(p)'
    BY <1>11, <2>2 DEF SaveWrites, Goto, Progress, TypeOK, AloneInv
  <2> QED BY <1>1, <1>2, <1>11, <2>2, <2>3 DEF SaveWrites
<1>12. ASSUME NEW p \in Proc, SaveRenames(p)
       PROVE  AloneInv'
  BY <1>1, <1>4, <1>12, RenamePins DEF SaveRenames
<1>13. ASSUME NEW p \in Proc, StartRaises(p) PROVE AloneInv'
  BY <1>3, <1>13 DEF StartRaises
<1> QED BY <1>3, <1>5, <1>6, <1>7, <1>8, <1>9, <1>10, <1>11, <1>12, <1>13 DEF Next

LEMMA AloneInvariant == ASSUME Alone PROVE Spec => [](TypeOK /\ Coherent /\ AloneInv)
<1>1. Init => TypeOK /\ Coherent /\ AloneInv
  BY InitType, InitAlone
<1>2. TypeOK /\ Coherent /\ AloneInv /\ [Next]_vars => (TypeOK /\ Coherent /\ AloneInv)'
  BY NextType, NextCoherent, NextAlone
<1> QED BY <1>1, <1>2, PTL DEF Spec

\* For a user who runs one command at a time, a sink that was accepted and not
\* reset stays pinned, however often commands are killed (trust.py:44-94).
THEOREM AcceptedStaysPinned == ASSUME Alone PROVE Spec => []AcceptedPinned
<1>1. AloneInv => AcceptedPinned
  BY DEF AloneInv
<1> QED BY <1>1, AloneInvariant, PTL

\* One command at a time: the store can always be loaded again (trust.py:34-38).
THEOREM KillLeavesLoadable == ASSUME Alone PROVE Spec => []AlwaysLoadable
<1>1. AloneInv => AlwaysLoadable
  BY DEF AloneInv, AlwaysLoadable
<1> QED BY <1>1, AloneInvariant, PTL

\* One command at a time: only trust reset makes the client accept another
\* deployment under a URL (upload-cli specification, line 396).
THEOREM ResetOnlyRebinds == ASSUME Alone PROVE Spec => OnlyResetRebinds
<1>1. TypeOK /\ Coherent /\ AloneInv /\ [Next]_vars =>
        [\A u \in DOMAIN accepted \cap DOMAIN accepted' : accepted'[u] = accepted[u]]_vars
  <2> SUFFICES ASSUME TypeOK, Coherent, AloneInv, [Next]_vars
               PROVE  \A u \in DOMAIN accepted \cap DOMAIN accepted' :
                        accepted'[u] = accepted[u]
    OBVIOUS
  <2>1. CASE accepted' = accepted
    BY <2>1
  <2>2. ASSUME NEW p \in Proc, SaveRenames(p)
        PROVE  \A u \in DOMAIN accepted \cap DOMAIN accepted' : accepted'[u] = accepted[u]
    BY <2>2, RenamePins
  <2> QED BY <2>1, <2>2 DEF Next, vars, StartReset, StartVerify, StartRaises, Attest, Info,
            VerificationFails, Apply, ApplyRaises, SaveOpens, SaveWrites, RenameRaises, Kill
<1> QED BY <1>1, AloneInvariant, PTL DEF Spec, OnlyResetRebinds

-----------------------------------------------------------------------------
\* What the file pins, and no more, was accepted.
AllAccepted == DOMAIN file.data.index \subseteq DOMAIN accepted

\* The file changes in the rename of a save only, and so does what was accepted.
LEMMA FileStep ==
  ASSUME Alone, TypeOK, AloneInv, [Next]_vars
  PROVE  \/ file' = file /\ accepted' = accepted
         \/ \E p \in Proc : SaveRenames(p)
<1>1. ASSUME NEW p \in Proc, SaveWrites(p) PROVE file' = file /\ accepted' = accepted
  BY <1>1 DEF SaveWrites, WriteTmp, AloneInv, Progress
<1>2. ASSUME NEW p \in Proc, StartRaises(p) PROVE file' = file /\ accepted' = accepted
  BY <1>2 DEF StartRaises, vars, trustVars
<1>3. ASSUME NEW p \in Proc,
             \/ \E u \in Url : StartReset(p, u) \/ \E policy \in Policy : StartVerify(p, u, policy)
             \/ \E v \in Deployment : Attest(p, v) \/ Info(p, v)
             \/ VerificationFails(p) \/ Apply(p) \/ ApplyRaises(p)
             \/ SaveOpens(p) \/ RenameRaises(p) \/ Kill(p)
      PROVE  file' = file /\ accepted' = accepted
  BY <1>3 DEF StartReset, StartVerify, Attest, Info, VerificationFails, Apply, ApplyRaises,
              SaveOpens, OpenTmp, RenameRaises, Kill, trustVars
<1>4. CASE UNCHANGED vars
  BY <1>4 DEF vars, trustVars
<1> QED BY <1>1, <1>2, <1>3, <1>4 DEF Next

LEMMA RenameAllAccepted ==
  ASSUME TypeOK, AloneInv, AllAccepted, NEW p \in Proc, SaveRenames(p)
  PROVE  AllAccepted'
<1> DEFINE d == file.data
           u == cmd[p].url
           v == verified[p]
<1>1. pc[p] = "rename" /\ tmp = Holding(data[p]) /\ file' = tmp
  BY DEF SaveRenames, RenameTmp, AloneInv, Progress
<1>2. file'.data = data[p]
  BY <1>1 DEF Holding
<1>3. CASE cmd[p].name = "verify"
  <2>1. data[p] = Applied(d, u, v) /\ accepted' = With(accepted, u, v)
    BY <1>1, <1>3 DEF AloneInv, Progress, SaveRenames
  <2>2. /\ DOMAIN data[p].index = DOMAIN d.index \cup {u}
        /\ DOMAIN accepted' = DOMAIN accepted \cup {u}
    BY <2>1 DEF Applied, With
  <2> QED BY <1>2, <2>2 DEF AllAccepted
<1>4. CASE cmd[p].name # "verify"
  <2>1. data[p] = ResetUrl(d, u) /\ accepted' = Without(accepted, u)
    BY <1>1, <1>4 DEF AloneInv, Progress, SaveRenames
  <2>2. data[p].index = IF u \in DOMAIN d.index THEN Without(d.index, u) ELSE d.index
    <3>1. u \notin DOMAIN d.index => ResetUrl(d, u) = d
      BY DEF ResetUrl
    <3>2. u \in DOMAIN d.index => ResetUrl(d, u).index = Without(d.index, u)
      BY DEF ResetUrl
    <3> QED BY <2>1, <3>1, <3>2
  <2>3. /\ DOMAIN data[p].index = DOMAIN d.index \ {u}
        /\ DOMAIN accepted' = DOMAIN accepted \ {u}
    BY <2>1, <2>2 DEF Without
  <2> QED BY <1>2, <2>3 DEF AllAccepted
<1> QED BY <1>3, <1>4

LEMMA AllAcceptedInvariant == ASSUME Alone PROVE Spec => []AllAccepted
<1>1. Init => AllAccepted
  BY DEF Init, TrustInit, Absent, EmptyData, AllAccepted
<1>2. TypeOK /\ Coherent /\ AloneInv /\ AllAccepted /\ [Next]_vars => AllAccepted'
  <2> SUFFICES ASSUME TypeOK, AloneInv, AllAccepted, [Next]_vars PROVE AllAccepted'
    OBVIOUS
  <2>1. CASE file' = file /\ accepted' = accepted
    BY <2>1 DEF AllAccepted
  <2> QED BY <2>1, FileStep, RenameAllAccepted
<1> QED BY <1>1, <1>2, AloneInvariant, PTL DEF Spec

\* One command at a time: a changed sink is refused only for what the user
\* accepted and has not reset (trust.py:83-94).
THEOREM RefusalHasReason == ASSUME Alone PROVE Spec => []RefusedOnlyByPin
<1>1. TypeOK /\ Coherent /\ AloneInv /\ AllAccepted => RefusedOnlyByPin
  <2> SUFFICES ASSUME TypeOK, Coherent, AloneInv, AllAccepted,
                      NEW p \in Proc, pc[p] = "apply", Mismatch(data[p], cmd[p].url, verified[p])
               PROVE  \E u \in DOMAIN accepted :
                        /\ accepted[u] # verified[p]
                        /\ u = cmd[p].url \/ accepted[u].key = verified[p].key
    BY DEF RefusedOnlyByPin
  <2> DEFINE d == file.data
             u == cmd[p].url
             v == verified[p]
  <2>1. Mismatch(d, u, v) /\ CoherentData(d)
    BY DEF AloneInv, Progress, Coherent
  <2>2. \A w \in DOMAIN d.index : w \in DOMAIN accepted /\ Pinned(d, w, accepted[w])
    BY DEF AllAccepted, AloneInv, AcceptedPinned
  <2>3. CASE u \in DOMAIN d.index /\ d.index[u] # v.key
    <3>1. u \in DOMAIN accepted /\ accepted[u].key # v.key
      BY <2>2, <2>3 DEF Pinned
    <3> QED BY <3>1
  <2>4. CASE Changed(d, v)
    <3>1. PICK w \in d.sinks[v.key].urls : TRUE
      BY <2>1, <2>4 DEF Changed, CoherentData
    <3>2. w \in DOMAIN d.index /\ d.index[w] = v.key
      BY <2>1, <2>4, <3>1 DEF Changed, CoherentData
    <3>3. /\ w \in DOMAIN accepted /\ accepted[w].key = v.key
          /\ d.sinks[v.key].app = accepted[w].app /\ d.sinks[v.key].regs = accepted[w].regs
      BY <2>2, <3>2 DEF Pinned
    <3>4. accepted[w] # v
      BY <2>4, <3>3 DEF Changed
    <3> QED BY <3>3, <3>4
  <2> QED BY <2>1, <2>3, <2>4 DEF Mismatch
<1> QED BY <1>1, AloneInvariant, AllAcceptedInvariant, PTL

\* One command at a time: the file, its temporary copy and the kills that may come
\* between are invisible, what a user sees is a board of pins.
THEOREM Refinement == ASSUME Alone PROVE Spec => ImplementsPinBoard
<1>1. Init => Board!PBInit
  BY DEF Init, Board!PBInit
<1>2. ASSUME TypeOK, Coherent, AloneInv, NEW p \in Proc, SaveRenames(p)
      PROVE  Board!PBNext
  <2> DEFINE d == file.data
             u == cmd[p].url
             v == verified[p]
  <2>1. pc[p] = "rename" /\ u \in Url
    BY <1>2 DEF SaveRenames, TypeOK, Command
  <2>2. CASE cmd[p].name = "verify"
    <3>1. v \in Deployment /\ ~Mismatch(d, u, v) /\ accepted' = With(accepted, u, v)
      BY <1>2, <2>1, <2>2 DEF SaveRenames, TypeOK, AloneInv, Progress
    <3>2. ASSUME NEW w \in DOMAIN accepted, w = u \/ accepted[w].key = v.key
          PROVE  accepted[w] = v
      <4>1. accepted[w] \in Deployment /\ Pinned(d, w, accepted[w])
        BY <1>2, PartialType DEF TypeOK, AloneInv, AcceptedPinned
      <4>2. CASE w = u
        BY <3>1, <4>1, <4>2, PinnedMismatch
      <4>3. CASE accepted[w].key = v.key
        <5>1. accepted[w].app = v.app /\ accepted[w].regs = v.regs
          BY <3>1, <4>1, <4>3 DEF Mismatch, Changed, Pinned
        <5> QED BY <3>1, <4>1, <4>3, <5>1 DEF Deployment
      <4> QED BY <3>2, <4>2, <4>3
    <3>3. Board!PBAccept(u, v)
      BY <3>1, <3>2 DEF Board!PBAccept, Board!Consistent, With
    <3> QED BY <2>1, <3>1, <3>3 DEF Board!PBNext
  <2>3. CASE cmd[p].name # "verify"
    <3>1. Board!PBReset(u)
      BY <1>2, <2>3 DEF SaveRenames, Without, Board!PBReset
    <3> QED BY <2>1, <3>1 DEF Board!PBNext
  <2> QED BY <2>2, <2>3
<1>3. TypeOK /\ Coherent /\ AloneInv /\ [Next]_vars => [Board!PBNext]_accepted
  BY <1>2, FileStep
<1> QED BY <1>1, <1>3, AloneInvariant, PTL DEF Spec, ImplementsPinBoard, Board!PBSpec

-----------------------------------------------------------------------------
\* Attestation. A nonce is no other command's and in no bundle made before it, so
\* that the bundle that passes was made by a sink that has served since; a sink of
\* genuine hardware signs with the derived key; and the log says what the bundle
\* says. Evidence is looked into for that only: what the replay computes makes no
\* difference.

\* The machines start with these keys, and no others.
Keys == \A m \in Machine : ~Down(m) => identity[m] = SigningKey(m)

\* Who serves is seen by the commands that wait for a bundle.
SeenServing ==
  \A p \in Proc : pc[p] = "attest" => {m \in Machine : Serving(m)} \subseteq seen[p]

\* A bundle is what some machine said of itself ...
MadeBy(b, m) == b.quote.genuine = Genuine(m) /\ (Genuine(m) => Established(b) = Truth(m))

\* ... and if a command waits for it, one that has served since it began; no other
\* command waits for the same.
Fresh ==
  /\ \A b \in bundles : \E m \in Machine :
       /\ MadeBy(b, m)
       /\ \A p \in Proc : pc[p] = "attest" /\ b.nonce = nonce[p] => m \in seen[p]
  /\ \A p, q \in Proc : p # q /\ pc[p] = "attest" => nonce[p] # nonce[q]

\* Before the attestation nothing is verified.
Unverified == \A p \in Proc : pc[p] \in {"idle", "attest"} => verified[p] = NoDeployment

AttestInv ==
  /\ AttestTypeOK /\ Coherent
  /\ Keys /\ SeenServing /\ Fresh /\ Unverified /\ VerifiedHasServed

LEMMA TruthType ==
  ASSUME NEW m \in Machine
  PROVE  /\ Truth(m) \in Deployment
         /\ Truth(m).app = Measured(m) /\ Truth(m).key = DerivedKey(Built[m].app)
         /\ Truth(m).key = DerivedKey(Truth(m).app.id) /\ Truth(m).app.compose # ""
BY BuiltAssumption, KeyAssumption DEF Truth, Build, Measured, Deployment

\* The bundle that passes was made for this request, by a sink that has served since.
LEMMA AttestedReal ==
  ASSUME AttestInv, NEW p \in Proc, Attested(p)
  PROVE  \E m \in Machine :
           m \in seen[p] /\ Genuine(m) /\ Attest(p, Truth(m)) /\ verified'[p] = Truth(m)
<1>1. PICK b \in bundles : Verified(b, nonce[p]) /\ Attest(p, Established(b))
  BY DEF Attested
<1>2. b.nonce = nonce[p] /\ b.quote.genuine /\ pc[p] = "attest"
  BY <1>1 DEF Verified, Bound, Attest
<1>3. PICK m \in Machine : MadeBy(b, m) /\ m \in seen[p]
  BY <1>2 DEF AttestInv, Fresh
<1>4. Genuine(m) /\ Established(b) = Truth(m)
  BY <1>2, <1>3 DEF MadeBy
<1>5. verified'[p] = Truth(m)
  BY <1>1, <1>4 DEF Attest, AttestInv, AttestTypeOK, TypeOK
<1> QED BY <1>1, <1>3, <1>4, <1>5

\* What /v1/info has to say to pass is what was attested.
LEMMA InfoReal ==
  ASSUME AttestInv, NEW p \in Proc, InfoAnswered(p)
  PROVE  verified[p] \in Deployment /\ Info(p, verified[p])
BY DEF InfoAnswered, Info, AttestInv, AttestTypeOK, TypeOK

\* The client does what VerifyCli says.
LEMMA AttestStepIsStep ==
  ASSUME AttestInv, [AttestNext]_attestVars PROVE [Next]_vars
<1>1. CASE UNCHANGED attestVars
  BY <1>1 DEF attestVars
<1>2. ASSUME NEW m \in Machine, MachineStep(m) \/ \E n \in Nonce : Serve(m, n)
      PROVE  UNCHANGED vars
  BY <1>2 DEF MachineStep, Serve
<1>3. ASSUME NEW p \in Proc, Begin(p) PROVE Next
  BY <1>3 DEF Begin, Next
<1>4. ASSUME NEW p \in Proc, Attested(p) PROVE Next
  BY <1>4, AttestedReal, TruthType DEF Next
<1>5. ASSUME NEW p \in Proc, InfoAnswered(p) PROVE Next
  BY <1>5, InfoReal DEF Next
<1>6. ASSUME NEW p \in Proc, OtherStep(p) PROVE Next
  BY <1>6 DEF OtherStep, Next
<1> QED BY <1>1, <1>2, <1>3, <1>4, <1>5, <1>6 DEF AttestNext

-----------------------------------------------------------------------------
\* The machines.

LEMMA MachineInvStep ==
  ASSUME AttestInv, NEW m \in Machine, MachineStep(m)
  PROVE  AttestInv'
<1>1. /\ UNCHANGED <<vars, nonce, bundles>>
      /\ identity \in [Machine -> PubKey \cup {NoIdentity}]
      /\ DOMAIN advertised = Machine /\ seen \in [Proc -> SUBSET Machine]
      /\ seen' = [p \in Proc |-> IF pc[p] = "attest"
                                 THEN seen[p] \cup {n \in Machine : advertised'[n] # NoInfo}
                                 ELSE seen[p]]
  BY DEF MachineStep, AttestInv, AttestTypeOK
<1>2. /\ \A n \in Machine : n # m => identity'[n] = identity[n] /\ advertised'[n] = advertised[n]
      /\ \/ identity'[m] = NoIdentity /\ advertised'[m] = NoInfo
         \/ identity'[m] = identity[m] /\ advertised'[m] = advertised[m]
         \/ /\ identity'[m] = SeedKey /\ ~Genuine(m)
            /\ advertised'[m] = Fallback(SeedKey)
         \/ /\ identity'[m] = DerivedKey(Built[m].app) /\ Genuine(m)
            /\ advertised'[m] = advertised[m] /\ Down(m)
         \/ /\ identity'[m] = identity[m] /\ ~Down(m)
            /\ advertised'[m] \in {Measured(m), Fallback(identity[m])}
      /\ DOMAIN identity' = Machine /\ DOMAIN advertised' = Machine
  <2>1. CASE StartDev(m)
    BY <1>1, <2>1 DEF StartDev
  <2>2. CASE DeriveKey(m)
    BY <1>1, <2>2 DEF DeriveKey, MayStart
  <2>3. CASE DeriveFails(m)
    BY <1>1, <2>3 DEF DeriveFails, machineVars
  <2>4. CASE ReadInfo(m) \/ ReadInfoFails(m)
    BY <1>1, <2>4 DEF ReadInfo, ReadInfoFails
  <2>5. CASE Stop(m)
    BY <1>1, <2>5 DEF Stop
  <2> QED BY <2>1, <2>2, <2>3, <2>4, <2>5 DEF MachineStep
<1>3. TypeOK' /\ Coherent' /\ Unverified'
  BY <1>1 DEF AttestInv, AttestTypeOK, TypeOK, Coherent, CoherentData, Unverified, vars,
              trustVars
<1>4. /\ SeedKey \in PubKey /\ DerivedKey(Built[m].app) \in PubKey
      /\ NoIdentity \notin PubKey /\ Measured(m) # NoInfo
      /\ \A k \in PubKey : Fallback(k) # NoInfo
  BY KeyAssumption, NoValueAssumption, BuiltAssumption DEF Build, Measured, Fallback
<1>5. identity' \in [Machine -> PubKey \cup {NoIdentity}]
  <2>1. identity'[m] \in PubKey \cup {NoIdentity}
    BY <1>1, <1>2, <1>4
  <2>2. \A n \in Machine : identity'[n] \in PubKey \cup {NoIdentity}
    BY <1>1, <1>2, <2>1
  <2>3. identity' = [n \in Machine |-> identity'[n]]
    BY <1>1 DEF MachineStep, StartDev, DeriveKey, DeriveFails, ReadInfo, ReadInfoFails, Stop,
                machineVars
  <2> QED BY <2>2, <2>3
<1> DEFINE Said2 == {NoInfo} \cup {Measured(n) : n \in Machine} \cup {Fallback(k) : k \in PubKey}
<1>6. advertised' \in [Machine -> Said2]
  <2>1. advertised \in [Machine -> Said2]
    BY DEF AttestInv, AttestTypeOK
  <2>2. advertised'[m] \in Said2
    BY <1>1, <1>2, <1>4, <2>1 DEF Down
  <2>3. \A n \in Machine : advertised'[n] \in Said2
    BY <1>2, <2>1, <2>2
  <2>4. advertised' = [n \in Machine |-> advertised'[n]]
    BY <2>1 DEF MachineStep, StartDev, DeriveKey, DeriveFails, ReadInfo, ReadInfoFails, Stop,
                machineVars
  <2> QED BY <2>3, <2>4
<1>7. ASSUME NEW n \in Machine, Serving(n)'
      PROVE  ~Down(n)' /\ advertised'[n] \in {Measured(n), Fallback(identity'[n])}
  <2>1. Serving(n) => ~Down(n) /\ advertised[n] \in {Measured(n), Fallback(identity[n])}
    BY DEF AttestInv, AttestTypeOK
  <2> QED BY <1>2, <1>4, <1>7, <2>1 DEF Serving, Down
<1>8. Keys'
  <2> SUFFICES ASSUME NEW n \in Machine, ~Down(n)' PROVE identity'[n] = SigningKey(n)
    BY DEF Keys, SigningKey, Genuine
  <2>1. ~Down(n) => identity[n] = SigningKey(n)
    BY DEF AttestInv, Keys
  <2> QED BY <1>2, <2>1 DEF Down, SigningKey
<1>9. /\ nonce' \in [Proc -> Nonce \cup {NoNonce}]
      /\ \A p \in Proc : nonce'[p] # NoNonce <=> pc'[p] = "attest"
      /\ \A b \in bundles' : b.key \in PubKey /\ b.nonce \in Nonce
  BY <1>1 DEF AttestInv, AttestTypeOK, vars
<1>10. /\ seen' \in [Proc -> SUBSET Machine]
       /\ \A p \in Proc : seen[p] \subseteq seen'[p]
  BY <1>1
<1>11. AttestTypeOK'
  BY <1>3, <1>5, <1>6, <1>7, <1>9, <1>10 DEF AttestTypeOK, Measured, Fallback
<1>12. SeenServing'
  BY <1>1 DEF SeenServing, Serving, vars
<1>13. Fresh' /\ VerifiedHasServed'
  <2>1. /\ bundles' = bundles /\ nonce' = nonce /\ pc' = pc /\ verified' = verified
    BY <1>1 DEF vars
  <2>2. Fresh'
    BY <1>10, <2>1 DEF AttestInv, Fresh, MadeBy, Established, Truth, Measured, Genuine
  <2>3. VerifiedHasServed'
    BY <1>10, <2>1 DEF AttestInv, VerifiedHasServed, Truth, Measured, Genuine
  <2> QED BY <2>2, <2>3
<1> QED BY <1>3, <1>8, <1>11, <1>12, <1>13 DEF AttestInv

\* What a machine says of itself, to whom it says it.
LEMMA ServeInvStep ==
  ASSUME AttestInv, NEW m \in Machine, NEW n \in Nonce, Serve(m, n)
  PROVE  AttestInv'
<1>1. /\ UNCHANGED <<vars, machineVars, nonce, seen>> /\ Serving(m)
      /\ \A b \in bundles' : b \in bundles \/ b = Bundle(m, n)
  BY DEF Serve
<1>2. identity[m] \in PubKey /\ identity[m] = SigningKey(m)
  BY <1>1 DEF AttestInv, AttestTypeOK, Keys, Down
<1>3. Bundle(m, n).key = identity[m] /\ Bundle(m, n).nonce = n
  BY DEF Bundle
<1>4. MadeBy(Bundle(m, n), m)
  BY <1>2 DEF MadeBy, Bundle, Established, Truth, Measured, SigningKey
<1>5. \A p \in Proc : pc[p] = "attest" => m \in seen[p]
  BY <1>1 DEF AttestInv, SeenServing
<1>6. /\ identity' = identity /\ advertised' = advertised /\ nonce' = nonce /\ seen' = seen
      /\ pc' = pc /\ verified' = verified
  BY <1>1 DEF vars, machineVars
<1>7. AttestTypeOK'
  <2>1. TypeOK'
    BY <1>1 DEF AttestInv, AttestTypeOK, TypeOK, vars, trustVars
  <2>2. \A b \in bundles' : b.key \in PubKey /\ b.nonce \in Nonce
    BY <1>1, <1>2, <1>3 DEF AttestInv, AttestTypeOK
  <2> QED BY <1>6, <2>1, <2>2 DEF AttestInv, AttestTypeOK, Measured, Fallback, Serving, Down
<1>8. Coherent' /\ Keys' /\ SeenServing' /\ Unverified' /\ VerifiedHasServed'
  BY <1>1, <1>6 DEF AttestInv, Coherent, CoherentData, Keys, SeenServing, Unverified, SigningKey,
     VerifiedHasServed, Truth, Measured, Genuine, Down, Serving, vars, trustVars
<1>9. Fresh'
  <2>1. ASSUME NEW b \in bundles'
        PROVE  \E k \in Machine :
                 /\ MadeBy(b, k)
                 /\ \A p \in Proc : pc[p] = "attest" /\ b.nonce = nonce[p] => k \in seen[p]
    BY <1>1, <1>4, <1>5 DEF AttestInv, Fresh
  <2> QED BY <1>6, <2>1 DEF AttestInv, Fresh, MadeBy, Established, Truth, Measured, Genuine
<1> QED BY <1>7, <1>8, <1>9 DEF AttestInv

-----------------------------------------------------------------------------
\* The commands.

\* How the steps of a command move it, in as far as the machines and the nonces
\* go.
LEMMA CommandMoves ==
  ASSUME AttestInv, NEW p \in Proc, OtherStep(p)
  PROVE  /\ \A q \in Proc : q # p => pc'[q] = pc[q] /\ verified'[q] = verified[q]
         /\ pc'[p] \notin {"attest", "info"}
         /\ pc'[p] = "idle" => verified'[p] = NoDeployment
         /\ pc'[p] # "idle" => verified'[p] = verified[p] /\ (pc[p] = "idle" => verified[p] = NoDeployment)
<1>1. /\ pc \in [Proc -> PC] /\ verified \in [Proc -> Deployment \cup {NoDeployment}]
      /\ \A q \in Proc : pc[q] = "idle" => verified[q] = NoDeployment
  BY DEF AttestInv, AttestTypeOK, TypeOK, Unverified
<1>2. CASE VerificationFails(p) \/ Kill(p) \/ ApplyRaises(p) \/ RenameRaises(p) \/ SaveRenames(p)
  BY <1>1, <1>2 DEF VerificationFails, Kill, ApplyRaises, RenameRaises, SaveRenames, Exit, Goto
<1>3. CASE StartRaises(p)
  BY <1>1, <1>3 DEF StartRaises, vars
<1>4. CASE (\E u \in Url : StartReset(p, u)) \/ Apply(p) \/ SaveOpens(p) \/ SaveWrites(p)
  BY <1>1, <1>4 DEF StartReset, Apply, SaveOpens, SaveWrites, Goto
<1> QED BY <1>2, <1>3, <1>4 DEF OtherStep

LEMMA TypesKept == ASSUME AttestInv, [AttestNext]_attestVars PROVE TypeOK' /\ Coherent'
BY AttestStepIsStep, NextType, NextCoherent DEF AttestInv, AttestTypeOK

\* No step of a command touches the machines or their bundles.
LEMMA MachinesKept ==
  ASSUME AttestInv, [AttestNext]_attestVars, UNCHANGED <<machineVars, bundles>>,
         nonce' \in [Proc -> Nonce \cup {NoNonce}],
         \A p \in Proc : nonce'[p] # NoNonce <=> pc'[p] = "attest",
         seen' \in [Proc -> SUBSET Machine],
         SeenServing', Fresh', Unverified', VerifiedHasServed'
  PROVE  AttestInv'
<1>1. identity' = identity /\ advertised' = advertised /\ bundles' = bundles
  BY DEF machineVars
<1>2. Keys'
  BY <1>1 DEF AttestInv, Keys, Down, SigningKey, Genuine
<1>3. AttestTypeOK'
  BY <1>1, TypesKept DEF AttestInv, AttestTypeOK, Measured, Fallback, Serving, Down
<1> QED BY <1>2, <1>3, TypesKept DEF AttestInv

\* What is known of the processes before a step.
LEMMA ProcessTypes ==
  ASSUME AttestInv
  PROVE  /\ pc \in [Proc -> PC] /\ nonce \in [Proc -> Nonce \cup {NoNonce}]
         /\ verified \in [Proc -> Deployment \cup {NoDeployment}]
         /\ seen \in [Proc -> SUBSET Machine]
         /\ \A q \in Proc : nonce[q] # NoNonce <=> pc[q] = "attest"
         /\ \A m \in Machine : Truth(m) # NoDeployment
<1>1. \A m \in Machine : Truth(m) # NoDeployment
  BY TruthType, AbsentAssumption
<1> QED BY <1>1 DEF AttestInv, AttestTypeOK, TypeOK

LEMMA BeginInv == ASSUME AttestInv, NEW p \in Proc, Begin(p) PROVE AttestInv'
<1>1. PICK u \in Url, policy \in Policy, n \in Nonce :
        /\ StartVerify(p, u, policy)
        /\ n \notin Range(nonce) \cup {b.nonce : b \in bundles}
        /\ nonce' = [nonce EXCEPT ![p] = n]
        /\ seen' = [seen EXCEPT ![p] = {m \in Machine : Serving(m)}]
        /\ UNCHANGED <<machineVars, bundles>>
  BY DEF Begin
<1>2. /\ pc[p] = "idle" /\ pc' = [pc EXCEPT ![p] = "attest"] /\ verified' = verified
      /\ n # NoNonce /\ advertised' = advertised /\ bundles' = bundles
  BY <1>1, NoValueAssumption DEF StartVerify, Goto, machineVars
<1>3. \A q \in Proc : nonce[q] # n
  BY <1>1, ProcessTypes DEF Range
<1>4. Fresh'
  <2>1. ASSUME NEW b \in bundles
        PROVE  \E m \in Machine :
                 /\ MadeBy(b, m)
                 /\ \A q \in Proc : pc'[q] = "attest" /\ b.nonce = nonce'[q] => m \in seen'[q]
    <3>1. PICK m \in Machine :
            /\ MadeBy(b, m)
            /\ \A q \in Proc : pc[q] = "attest" /\ b.nonce = nonce[q] => m \in seen[q]
      BY DEF AttestInv, Fresh
    <3>2. b.nonce # n
      BY <1>1
    <3> QED BY <1>1, <1>2, <3>1, <3>2, ProcessTypes
  <2>2. \A q, r \in Proc : q # r /\ pc'[q] = "attest" => nonce'[q] # nonce'[r]
    BY <1>1, <1>2, <1>3, ProcessTypes DEF AttestInv, Fresh
  <2> QED BY <1>2, <2>1, <2>2 DEF Fresh, MadeBy, Established, Truth, Measured, Genuine
<1>5. SeenServing'
  BY <1>1, <1>2, ProcessTypes DEF AttestInv, SeenServing, Serving
<1>6. Unverified'
  BY <1>2, ProcessTypes DEF AttestInv, Unverified
<1>7. VerifiedHasServed'
  BY <1>1, <1>2, ProcessTypes DEF AttestInv, Unverified, VerifiedHasServed, Truth, Measured, Genuine
<1>8. /\ nonce' \in [Proc -> Nonce \cup {NoNonce}] /\ seen' \in [Proc -> SUBSET Machine]
      /\ \A q \in Proc : nonce'[q] # NoNonce <=> pc'[q] = "attest"
  BY <1>1, <1>2, ProcessTypes
<1> QED BY <1>1, <1>4, <1>5, <1>6, <1>7, <1>8, MachinesKept DEF AttestNext

LEMMA AttestedInv == ASSUME AttestInv, NEW p \in Proc, Attested(p) PROVE AttestInv'
<1>1. PICK m \in Machine :
        m \in seen[p] /\ Genuine(m) /\ Attest(p, Truth(m)) /\ verified'[p] = Truth(m)
  BY AttestedReal
<1>2. /\ pc[p] = "attest" /\ pc' = [pc EXCEPT ![p] = "info"]
      /\ verified' = [verified EXCEPT ![p] = Truth(m)]
      /\ nonce' = [nonce EXCEPT ![p] = NoNonce]
      /\ UNCHANGED <<machineVars, bundles>> /\ seen' = seen /\ advertised' = advertised
  BY <1>1 DEF Attest, Goto, Attested, machineVars
<1>3. Fresh'
  BY <1>2, ProcessTypes DEF AttestInv, Fresh, MadeBy, Established, Truth, Measured, Genuine
<1>4. SeenServing'
  BY <1>2, ProcessTypes DEF AttestInv, SeenServing, Serving
<1>5. Unverified'
  BY <1>2, ProcessTypes DEF AttestInv, Unverified
<1>6. VerifiedHasServed'
  BY <1>1, <1>2, ProcessTypes DEF AttestInv, VerifiedHasServed, Truth, Measured, Genuine
<1>7. /\ nonce' \in [Proc -> Nonce \cup {NoNonce}] /\ seen' \in [Proc -> SUBSET Machine]
      /\ \A q \in Proc : nonce'[q] # NoNonce <=> pc'[q] = "attest"
  BY <1>2, ProcessTypes
<1> QED BY <1>2, <1>3, <1>4, <1>5, <1>6, <1>7, MachinesKept DEF AttestNext

LEMMA InfoInv == ASSUME AttestInv, NEW p \in Proc, InfoAnswered(p) PROVE AttestInv'
<1>1. /\ UNCHANGED <<machineVars, bundles>> /\ nonce' = nonce /\ seen' = seen
      /\ bundles' = bundles /\ advertised' = advertised
      /\ pc[p] = "info" /\ pc' = [pc EXCEPT ![p] = "apply"] /\ verified' = verified
  BY DEF InfoAnswered, Info, Goto, machineVars
<1>2. Fresh' /\ SeenServing'
  BY <1>1, ProcessTypes DEF AttestInv, Fresh, SeenServing, Serving,
                            MadeBy, Established, Truth, Measured, Genuine
<1>3. Unverified' /\ VerifiedHasServed'
  BY <1>1, ProcessTypes DEF AttestInv, Unverified, VerifiedHasServed, Truth, Measured, Genuine
<1>4. /\ nonce' \in [Proc -> Nonce \cup {NoNonce}] /\ seen' \in [Proc -> SUBSET Machine]
      /\ \A q \in Proc : nonce'[q] # NoNonce <=> pc'[q] = "attest"
  BY <1>1, ProcessTypes
<1> QED BY <1>1, <1>2, <1>3, <1>4, MachinesKept DEF AttestNext

LEMMA OtherInv == ASSUME AttestInv, NEW p \in Proc, OtherStep(p) PROVE AttestInv'
<1>1. /\ \A q \in Proc : q # p => pc'[q] = pc[q] /\ verified'[q] = verified[q]
      /\ pc'[p] \notin {"attest", "info"}
      /\ pc'[p] = "idle" => verified'[p] = NoDeployment
      /\ pc'[p] # "idle" => /\ verified'[p] = verified[p]
                            /\ pc[p] = "idle" => verified[p] = NoDeployment
  BY CommandMoves
<1>2. /\ UNCHANGED <<machineVars, bundles>> /\ bundles' = bundles /\ advertised' = advertised
      /\ nonce' = [nonce EXCEPT ![p] = NoNonce]
      /\ seen' = [seen EXCEPT ![p] = IF pc'[p] = "idle" THEN {} ELSE @]
  BY DEF OtherStep, machineVars
<1>3. Fresh' /\ SeenServing'
  BY <1>1, <1>2, ProcessTypes DEF AttestInv, Fresh, SeenServing, Serving,
                                  MadeBy, Established, Truth, Measured, Genuine
<1>4. Unverified'
  BY <1>1 DEF AttestInv, Unverified
<1>5. VerifiedHasServed'
  BY <1>1, <1>2, ProcessTypes DEF AttestInv, VerifiedHasServed, Truth, Measured, Genuine
<1>6. /\ nonce' \in [Proc -> Nonce \cup {NoNonce}] /\ seen' \in [Proc -> SUBSET Machine]
      /\ \A q \in Proc : nonce'[q] # NoNonce <=> pc'[q] = "attest"
  BY <1>1, <1>2, ProcessTypes
<1> QED BY <1>2, <1>3, <1>4, <1>5, <1>6, MachinesKept DEF AttestNext

LEMMA AttestNextInv == AttestInv /\ [AttestNext]_attestVars => AttestInv'
<1> SUFFICES ASSUME AttestInv, [AttestNext]_attestVars PROVE AttestInv'
  OBVIOUS
<1>1. CASE UNCHANGED attestVars
  <2>1. /\ UNCHANGED <<machineVars, bundles>> /\ nonce' = nonce /\ seen' = seen
        /\ pc' = pc /\ verified' = verified /\ bundles' = bundles /\ advertised' = advertised
    BY <1>1 DEF attestVars, vars, machineVars
  <2>2. SeenServing' /\ Fresh' /\ Unverified' /\ VerifiedHasServed'
    BY <2>1 DEF AttestInv, SeenServing, Serving, Fresh, MadeBy, Established, Unverified,
                VerifiedHasServed, Truth, Measured, Genuine
  <2>3. /\ nonce' \in [Proc -> Nonce \cup {NoNonce}] /\ seen' \in [Proc -> SUBSET Machine]
        /\ \A q \in Proc : nonce'[q] # NoNonce <=> pc'[q] = "attest"
    BY <2>1, ProcessTypes
  <2> QED BY <2>1, <2>2, <2>3, MachinesKept
<1> QED BY <1>1, MachineInvStep, ServeInvStep, BeginInv, AttestedInv, InfoInv, OtherInv
        DEF AttestNext

LEMMA AttestInitInv == AttestInit => AttestInv
<1> SUFFICES ASSUME AttestInit PROVE AttestInv
  OBVIOUS
<1>1. TypeOK /\ Coherent
  BY InitType DEF AttestInit
<1>2. /\ pc = [p \in Proc |-> "idle"] /\ verified = [p \in Proc |-> NoDeployment]
  BY DEF AttestInit, Init
<1>3. Keys /\ SeenServing /\ Fresh
  BY <1>2 DEF AttestInit, Keys, SeenServing, Fresh, Down
<1>4. Unverified /\ VerifiedHasServed
  BY <1>2 DEF Unverified, VerifiedHasServed
<1>5. AttestTypeOK
  BY <1>1, <1>2 DEF AttestInit, AttestTypeOK, Serving
<1> QED BY <1>1, <1>3, <1>4, <1>5 DEF AttestInv

LEMMA AttestInvariant == AttestSpec => []AttestInv
BY AttestInitInv, AttestNextInv, PTL DEF AttestSpec

-----------------------------------------------------------------------------
\* The client keeps doing what VerifyCli says: what is proved of it there holds of
\* it among these sinks (verify.py:78-139).
THEOREM AttestUsesVerify == AttestSpec => Spec
<1>1. AttestInit => Init
  BY DEF AttestInit
<1>2. AttestInv /\ [AttestNext]_attestVars => [Next]_vars
  BY AttestStepIsStep
<1> QED BY <1>1, <1>2, AttestInvariant, PTL DEF AttestSpec, Spec

\* Type correctness of the sinks and their clients.
THEOREM AttestTypesHold == AttestSpec => []AttestTypeOK
<1>1. AttestInv => AttestTypeOK
  BY DEF AttestInv
<1> QED BY <1>1, AttestInvariant, PTL

\* However late a bundle is judged, in whatever order the machines start and stop
\* meanwhile, and whichever bundles of other requests arrive instead: what a command
\* goes on with is a genuine sink that has served since it began, with the key, the
\* app and the registers that it had (verify.py:87-172).
THEOREM VerifiedSinksHaveServed == AttestSpec => []VerifiedHasServed
<1>1. AttestInv => VerifiedHasServed
  BY DEF AttestInv
<1> QED BY <1>1, AttestInvariant, PTL

-----------------------------------------------------------------------------
\* The keys that are pinned.

LEMMA DerivedContent ==
  /\ DerivedIn(EmptyData)
  /\ DerivedIn(Absent.data) /\ DerivedIn(Empty.data) /\ DerivedIn(Garbled.data)
BY DEF DerivedIn, EmptyData, Absent, Empty, Garbled

LEMMA DerivedApplied ==
  ASSUME NEW d, DerivedIn(d), NEW u, NEW v, v.key = DerivedKey(v.app.id)
  PROVE  DerivedIn(Applied(d, u, v))
BY DEF DerivedIn, Applied, With

LEMMA DerivedReset ==
  ASSUME NEW d \in TrustData, DerivedIn(d), NEW u
  PROVE  DerivedIn(ResetUrl(d, u))
<1>1. d.sinks \in [DOMAIN d.sinks -> Sink]
  BY PartialType DEF TrustData, Sink
<1> QED BY <1>1 DEF DerivedIn, ResetUrl, Without, Sink

LEMMA DerivedStep ==
  ASSUME AttestInv, PinnedKeysDerived, [AttestNext]_attestVars
  PROVE  PinnedKeysDerived'
<1> USE DEF PinnedKeysDerived
<1>0. /\ data \in [Proc -> TrustData] /\ file.data \in TrustData
      /\ verified \in [Proc -> Deployment \cup {NoDeployment}]
  BY ContentType DEF AttestInv, AttestTypeOK, TypeOK
<1>1. ASSUME NEW p \in Proc, NEW d, DerivedIn(d), data' = [data EXCEPT ![p] = d],
             UNCHANGED <<file, tmp>>
      PROVE  PinnedKeysDerived'
  BY <1>0, <1>1 DEF DerivedIn
<1>2. ASSUME UNCHANGED <<file, tmp, data>>
      PROVE  PinnedKeysDerived'
  BY <1>2 DEF DerivedIn
<1>3. CASE UNCHANGED attestVars
  BY <1>2, <1>3 DEF attestVars, vars, trustVars
<1>4. ASSUME NEW m \in Machine, MachineStep(m) \/ \E n \in Nonce : Serve(m, n)
      PROVE  PinnedKeysDerived'
  BY <1>2, <1>4 DEF MachineStep, Serve, vars, trustVars
<1>5. ASSUME NEW p \in Proc, Begin(p) PROVE PinnedKeysDerived'
  <2>1. data' = [data EXCEPT ![p] = file.data] /\ UNCHANGED <<file, tmp>>
    BY <1>5 DEF Begin, StartVerify
  <2> QED BY <1>1, <2>1
<1>6. ASSUME NEW p \in Proc, Attested(p) \/ InfoAnswered(p) PROVE PinnedKeysDerived'
  <2>1. UNCHANGED <<file, tmp, data>>
    BY <1>6 DEF Attested, InfoAnswered, Attest, Info, trustVars
  <2> QED BY <1>2, <2>1
<1>7. ASSUME NEW p \in Proc, OtherStep(p) PROVE PinnedKeysDerived'
  <2>1. CASE VerificationFails(p) \/ Kill(p) \/ ApplyRaises(p) \/ RenameRaises(p)
    <3>1. data' = [data EXCEPT ![p] = EmptyData] /\ UNCHANGED <<file, tmp>>
      BY <2>1 DEF VerificationFails, Kill, ApplyRaises, RenameRaises, Exit
    <3> QED BY <1>1, <3>1, DerivedContent
  <2>2. CASE StartRaises(p)
    BY <1>2, <2>2 DEF StartRaises, vars, trustVars
  <2>3. ASSUME NEW u \in Url, StartReset(p, u) PROVE PinnedKeysDerived'
    <3>1. data' = [data EXCEPT ![p] = ResetUrl(file.data, u)] /\ UNCHANGED <<file, tmp>>
      BY <2>3 DEF StartReset
    <3> QED BY <1>0, <1>1, <3>1, DerivedReset
  <2>4. CASE Apply(p)
    <3>1. /\ pc[p] = "apply" /\ UNCHANGED <<file, tmp>>
          /\ data' = [data EXCEPT ![p] = Applied(data[p], cmd[p].url, verified[p])]
      BY <2>4 DEF Apply
    <3>2. verified[p] # NoDeployment
      BY <3>1, AbsentAssumption DEF AttestInv, AttestTypeOK, TypeOK
    <3>3. verified[p].key = DerivedKey(verified[p].app.id)
      BY <3>2, TruthType DEF AttestInv, VerifiedHasServed, AttestTypeOK
    <3> QED BY <1>1, <3>1, <3>3, DerivedApplied
  <2>5. CASE SaveOpens(p)
    BY <1>0, <2>5, DerivedContent DEF SaveOpens, OpenTmp, DerivedIn
  <2>6. CASE SaveWrites(p)
    <3>1. \A c \in {Holding(data[p]), Garbled} : DerivedIn(c.data)
      BY DerivedContent DEF Holding
    <3>2. /\ data' = data
          /\ \/ tmp' \in {Holding(data[p]), Garbled} /\ file' = file
             \/ file' \in {Holding(data[p]), Garbled} /\ tmp' = tmp
             \/ file' = file /\ tmp' = tmp
      BY <2>6, ContentType DEF SaveWrites, WriteTmp
    <3> QED BY <3>1, <3>2 DEF DerivedIn
  <2>7. CASE SaveRenames(p)
    <3>1. file' = tmp /\ tmp' = Absent /\ data' = [data EXCEPT ![p] = EmptyData]
      BY <2>7 DEF SaveRenames, RenameTmp, Exit
    <3> QED BY <1>0, <3>1, DerivedContent DEF DerivedIn
  <2> QED BY <1>7, <2>1, <2>2, <2>3, <2>4, <2>5, <2>6, <2>7 DEF OtherStep
<1> QED BY <1>3, <1>4, <1>5, <1>6, <1>7 DEF AttestNext

\* No key of a development seed is ever pinned, whatever machines run one and
\* whenever the agent fails: the sink that could not derive its key did not start
\* (attestation.py:224-237).
THEOREM PinnedKeysAreDerived == AttestSpec => []PinnedKeysDerived
<1>1. AttestInit => PinnedKeysDerived
  BY DerivedContent DEF AttestInit, Init, TrustInit, PinnedKeysDerived
<1>2. AttestInv /\ PinnedKeysDerived /\ [AttestNext]_attestVars => PinnedKeysDerived'
  BY DerivedStep
<1> QED BY <1>1, <1>2, AttestInvariant, PTL DEF AttestSpec

-----------------------------------------------------------------------------
\* The replay of an event log, for logs of any length: the loop over the log keeps
\* the events of RTMR3, in their order.
History(log, n, f) ==
  f = [i \in 0..n |->
         IF i = 0 THEN <<>>
         ELSE IF log[i].imr = 3 THEN Append(f[i - 1], log[i]) ELSE f[i - 1]]

LEMMA HistoryExists ==
  ASSUME NEW log, NEW n \in Nat PROVE \E f : History(log, n, f)
<1> DEFINE S == {m \in Nat : \E f : History(log, m, f)}
<1>1. 0 \in S
  <2> DEFINE f == [i \in 0..0 |-> <<>>]
  <2>1. History(log, 0, f)
    BY DEF History
  <2> QED BY <2>1
<1>2. ASSUME NEW m \in Nat, m \in S PROVE m + 1 \in S
  <2>1. PICK f : History(log, m, f)
    BY <1>2
  <2> DEFINE next == IF log[m + 1].imr = 3 THEN Append(f[m], log[m + 1]) ELSE f[m]
             g == [i \in 0..(m + 1) |-> IF i = m + 1 THEN next ELSE f[i]]
  <2>2. ASSUME NEW i \in 0..(m + 1)
        PROVE  g[i] = IF i = 0 THEN <<>>
                      ELSE IF log[i].imr = 3 THEN Append(g[i - 1], log[i]) ELSE g[i - 1]
    <3>1. CASE i = m + 1
      <4>1. i # 0 /\ i - 1 = m /\ m \in 0..(m + 1) /\ m # m + 1
        BY <3>1
      <4>2. g[i] = next /\ g[i - 1] = f[m]
        BY <3>1, <4>1
      <4> HIDE DEF g
      <4> QED BY <3>1, <4>1, <4>2
    <3>2. CASE i # m + 1
      <4>1. i \in 0..m /\ (i # 0 => i - 1 \in 0..(m + 1) /\ i - 1 # m + 1)
        BY <3>2
      <4>2. f[i] = IF i = 0 THEN <<>>
                   ELSE IF log[i].imr = 3 THEN Append(f[i - 1], log[i]) ELSE f[i - 1]
        BY <2>1, <4>1 DEF History
      <4>3. g[i] = f[i] /\ (i # 0 => g[i - 1] = f[i - 1])
        BY <3>2, <4>1
      <4> HIDE DEF g
      <4> QED BY <4>2, <4>3
    <3> QED BY <3>1, <3>2
  <2>3. g = [i \in 0..(m + 1) |-> g[i]]
    OBVIOUS
  <2> HIDE DEF g
  <2>4. History(log, m + 1, g)
    BY <2>2, <2>3 DEF History
  <2> QED BY <2>4
<1>3. Nat \subseteq S
  BY <1>1, <1>2, SetInduction
<1> QED BY <1>3

LEMMA Rtmr3EventsIs ==
  ASSUME NEW log, Len(log) \in Nat
  PROVE  \E f : History(log, Len(log), f) /\ Rtmr3Events(log) = f[Len(log)]
<1> DEFINE g == CHOOSE f : History(log, Len(log), f)
<1>1. History(log, Len(log), g)
  BY HistoryExists
<1>2. Rtmr3Events(log) = g[Len(log)]
  BY DEF Rtmr3Events, History
<1> HIDE DEF g
<1> QED BY <1>1, <1>2

\* The places of the RTMR3 events of a log, in order.
Places(log, n, at) ==
  /\ at \in [1..n -> 1..Len(log)]
  /\ \A i, j \in 1..n : i < j => at[i] < at[j]
  /\ \A k \in 1..Len(log) : log[k].imr = 3 <=> \E i \in 1..n : at[i] = k

LEMMA EventsAtPlaces ==
  ASSUME NEW E, NEW log \in Seq(E), NEW n \in Nat, NEW at, Places(log, n, at)
  PROVE  Rtmr3Events(log) = [i \in 1..n |-> log[at[i]]]
<1> DEFINE l == Len(log)
           Kept(c) == [i \in 1..c |-> log[at[i]]]
<1>1. l \in Nat /\ DOMAIN log = 1..l /\ \A k \in 1..l : log[k] \in E
  OBVIOUS
<1>2. /\ \A i \in 1..n : at[i] \in 1..l
      /\ \A i, j \in 1..n : i < j => at[i] < at[j]
      /\ \A k \in 1..l : log[k].imr = 3 <=> \E i \in 1..n : at[i] = k
  BY DEF Places
<1> HIDE DEF l
<1>3. PICK f : History(log, l, f) /\ Rtmr3Events(log) = f[l]
  BY <1>1, Rtmr3EventsIs DEF l
<1> DEFINE Counts(k, c) == \A i \in 1..n : at[i] <= k <=> i <= c
           Good(k) == \E c \in 0..n : Counts(k, c) /\ f[k] = Kept(c)
           S == {k \in Nat : k <= l => Good(k)}
<1>4. 0 \in S
  <2>1. 0 \in 0..n /\ Counts(0, 0)
    BY <1>1, <1>2
  <2>2. f[0] = <<>>
    BY <1>1, <1>3 DEF History
  <2>3. Kept(0) = <<>>
    OBVIOUS
  <2> HIDE DEF Kept, Counts
  <2> QED BY <2>1, <2>2, <2>3
<1>5. ASSUME NEW k \in Nat, k \in S PROVE k + 1 \in S
  <2> HIDE DEF Good
  <2>1. SUFFICES ASSUME k + 1 <= l PROVE Good(k + 1)
    OBVIOUS
  <2>2. k <= l /\ k + 1 \in 0..l /\ k + 1 \in 1..l /\ k + 1 # 0 /\ (k + 1) - 1 = k
    BY <1>1, <2>1
  <2>3. Good(k)
    BY <1>5, <2>2
  <2> USE DEF Good
  <2>4. PICK c \in 0..n : Counts(k, c) /\ f[k] = Kept(c)
    BY <2>3
  <2>5. f[k + 1] = IF log[k + 1].imr = 3 THEN Append(f[k], log[k + 1]) ELSE f[k]
    BY <1>3, <2>2 DEF History
  <2>6. c \in Nat /\ \A i \in 1..n : i \in Int /\ at[i] \in Int
    BY <1>1, <1>2
  <2>7. CASE log[k + 1].imr = 3
    <3>1. PICK i \in 1..n : at[i] = k + 1
      BY <1>2, <2>2, <2>7
    <3>2. ~(i <= c)
      BY <2>4, <2>6, <3>1
    <3>3. i = c + 1
      <4>1. SUFFICES ASSUME c + 1 < i PROVE FALSE
        BY <2>6, <3>2
      <4>2. c + 1 \in 1..n
        BY <2>6, <4>1
      <4>3. at[c + 1] < k + 1
        BY <1>2, <3>1, <4>1, <4>2
      <4>4. at[c + 1] <= k
        BY <2>6, <4>2, <4>3
      <4>5. c + 1 <= c
        BY <2>4, <4>2, <4>4
      <4> QED BY <2>6, <4>5
    <3>4. c + 1 \in 0..n
      BY <2>6, <3>3
    <3>5. Counts(k + 1, c + 1)
      <4>1. SUFFICES ASSUME NEW j \in 1..n PROVE at[j] <= k + 1 <=> j <= c + 1
        OBVIOUS
      <4>2. at[j] <= k <=> j <= c
        BY <2>4
      <4>3. at[j] = k + 1 <=> j = c + 1
        BY <1>2, <2>6, <3>1, <3>3
      <4> QED BY <2>6, <4>2, <4>3
    <3>6. Append(Kept(c), log[k + 1]) = Kept(c + 1)
      <4>1. Kept(c) \in Seq(E) /\ Len(Kept(c)) = c
        <5>1. \A j \in 1..c : j \in 1..n
          BY <2>6, <2>4
        <5>2. Kept(c) \in [1..c -> E]
          BY <1>1, <1>2, <5>1
        <5> HIDE DEF Kept
        <5> QED BY <2>6, <5>2
      <4>2. Append(Kept(c), log[k + 1])
              = [j \in 1..(c + 1) |-> IF j = c + 1 THEN log[k + 1] ELSE Kept(c)[j]]
        <5> HIDE DEF Kept
        <5> QED BY <2>6, <4>1
      <4>3. \A j \in 1..(c + 1) : j # c + 1 => j \in 1..c
        BY <2>6
      <4> QED BY <3>1, <3>3, <4>2, <4>3
    <3> HIDE DEF Kept, Counts
    <3> QED BY <2>4, <2>5, <2>7, <3>4, <3>5, <3>6
  <2>8. CASE log[k + 1].imr # 3
    <3>1. \A i \in 1..n : at[i] # k + 1
      BY <1>2, <2>2, <2>8
    <3>2. Counts(k + 1, c)
      BY <2>4, <2>6, <3>1
    <3> HIDE DEF Kept, Counts
    <3> QED BY <2>4, <2>5, <2>8, <3>2
  <2> QED BY <2>7, <2>8
<1>6. Nat \subseteq S
  <2> HIDE DEF S
  <2> QED BY <1>4, <1>5, SetInduction
<1>7. Good(l)
  <2> HIDE DEF Good
  <2> QED BY <1>1, <1>6
<1>8. PICK c \in 0..n : Counts(l, c) /\ f[l] = Kept(c)
  BY <1>7
<1>9. c = n
  <2>1. n # 0 => n <= c
    BY <1>2, <1>8
  <2> QED BY <2>1
<1> QED BY <1>3, <1>8, <1>9

\* What an honest agent reports is what the replay finds.
LEMMA HonestLogAgrees ==
  ASSUME NEW b, HonestAgent(b)
  PROVE  /\ Replays(b.log) /\ Replayed(b.log) = b.extended
         /\ Says(b.log, Names.app, b.app)
         /\ Says(b.log, Names.compose, b.compose)
         /\ Says(b.log, Names.instance, b.instance)
<1> DEFINE log == b.log
           ext == b.extended
           n == Len(ext)
<1>1. /\ log \in Seq(Range(log)) /\ ext \in Seq(Range(ext)) /\ Extended(log, ext)
      /\ \A k \in DOMAIN log, x \in DOMAIN Names :
           log[k].imr = 3 /\ log[k].name.lower \in Names[x] => Readable(log[k].payload)
  BY DEF HonestAgent
<1>2. n \in Nat /\ DOMAIN ext = 1..n /\ Len(log) \in Nat /\ DOMAIN log = 1..Len(log)
  BY <1>1
<1>3. ext = [i \in 1..n |-> ext[i]]
  BY <1>1
<1> HIDE DEF log, ext, n
<1>4. PICK at : Places(log, n, at) /\ \A i \in 1..n : Records(log[at[i]], ext[i])
  BY <1>1, <1>2 DEF Extended, Places
<1> DEFINE events == Rtmr3Events(log)
<1>5. events = [i \in 1..n |-> log[at[i]]]
  BY <1>1, <1>2, <1>4, EventsAtPlaces
<1>6. DOMAIN events = 1..n /\ \A i \in 1..n : events[i] = log[at[i]]
  BY <1>5
<1> HIDE DEF events
<1>7. \A i \in 1..n : at[i] \in DOMAIN log /\ log[at[i]].imr = 3
  BY <1>2, <1>4 DEF Places
<1>8. \A i \in 1..n : HasDigest(events[i]) /\ EventDigest(events[i]) = ext[i]
  <2>1. ASSUME NEW e, NEW d, Records(e, d) PROVE HasDigest(e) /\ EventDigest(e) = d
    BY <2>1 DEF Records, HasDigest, EventDigest, NoDigest, ShortDigest, PayloadDigests, RuntimeDigest,
                  Hash, Said, InHex
  <2> QED BY <1>4, <1>6, <2>1
<1>9. Replays(log)
  BY <1>1, <1>6, <1>7, <1>8 DEF Replays, events
<1>10. Replayed(log) = ext
  BY <1>3, <1>6, <1>8 DEF Replayed, events
<1>11. ASSUME NEW names, NEW value, Reports(log, names, value) PROVE Says(log, names, value)
  <2>1. PICK k \in DOMAIN log :
          /\ log[k].imr = 3 /\ log[k].name.lower \in names /\ ReadAs(log[k].payload, value)
          /\ \A i \in DOMAIN log : log[i].imr = 3 /\ log[i].name.lower \in names => i <= k
    BY <1>11 DEF Reports
  <2>2. PICK i \in 1..n : at[i] = k
    BY <1>2, <1>4, <2>1 DEF Places
  <2> DEFINE places == {j \in DOMAIN events : events[j].name.lower \in names}
  <2>3. i \in places /\ places \in SUBSET Int /\ n \in Int /\ \A j \in places : j <= n
    BY <1>2, <1>6, <2>1, <2>2
  <2>4. Max(places) \in places /\ \A j \in places : j <= Max(places)
    <3>1. places # {}
      BY <2>3
    <3> HIDE DEF places
    <3> QED BY <2>3, <3>1, MaxOfBounded
  <2>5. Max(places) \in 1..n /\ i <= Max(places) /\ events[Max(places)].name.lower \in names
    BY <1>6, <2>3, <2>4
  <2>6. at[Max(places)] <= k
    BY <1>6, <1>7, <2>1, <2>5
  <2>7. ~(i < Max(places))
    <3> DEFINE m == Max(places)
    <3>1. m \in 1..n /\ at[m] <= k
      BY <2>5, <2>6
    <3> HIDE DEF m
    <3>2. i < m => at[i] < at[m]
      BY <1>4, <3>1 DEF Places
    <3>3. at[i] \in Int /\ at[m] \in Int
      BY <1>2, <1>7, <3>1
    <3>4. ~(i < m)
      BY <2>2, <3>1, <3>2, <3>3
    <3> QED BY <3>4 DEF m
  <2>8. Max(places) = i
    <3> HIDE DEF places
    <3> QED BY <2>5, <2>7
  <2>9. ReadAs(events[Max(places)].payload, value)
    BY <1>6, <2>1, <2>2, <2>8
  <2> QED BY <2>3, <2>9 DEF Says, events
<1>12. /\ Says(log, Names.app, b.app) /\ Says(log, Names.compose, b.compose)
       /\ Says(log, Names.instance, b.instance)
  BY <1>11 DEF HonestAgent, log
<1> QED BY <1>9, <1>10, <1>12 DEF log, ext

\* A sink of genuine hardware passes, however long its event log is and however its
\* events are written, if its agent is honest (verify.py:206-321).
THEOREM HonestSinksVerify ==
  ASSUME HonestAgents PROVE AttestSpec => []GenuineVerifies
<1>1. GenuineVerifies
  <2>1. SUFFICES ASSUME NEW m \in Machine, NEW n \in Nonce, Genuine(m)
                 PROVE  Verified(Bundle(m, n), n)
    BY DEF GenuineVerifies
  <2>2. HonestAgent(Built[m])
    BY <2>1 DEF HonestAgents
  <2> DEFINE b == Built[m]
  <2>3. /\ Replays(b.log) /\ Replayed(b.log) = b.extended
        /\ Says(b.log, Names.app, b.app)
        /\ Says(b.log, Names.compose, b.compose)
        /\ Says(b.log, Names.instance, b.instance)
    BY <2>2, HonestLogAgrees
  <2> QED BY <2>1, <2>3 DEF Verified, Bound, LogAgrees, Bundle, Report
<1> QED BY <1>1, PTL

LEMMA EventsType ==
  ASSUME NEW E, NEW log \in Seq(E) PROVE Rtmr3Events(log) \in Seq(E)
<1> DEFINE l == Len(log)
<1>1. l \in Nat /\ \A k \in 1..l : log[k] \in E
  OBVIOUS
<1> HIDE DEF l
<1>2. PICK f : History(log, l, f) /\ Rtmr3Events(log) = f[l]
  BY <1>1, Rtmr3EventsIs DEF l
<1> DEFINE S == {k \in Nat : k <= l => f[k] \in Seq(E)}
<1>3. 0 \in S
  BY <1>1, <1>2 DEF History
<1>4. ASSUME NEW k \in Nat, k \in S PROVE k + 1 \in S
  <2>1. SUFFICES ASSUME k + 1 <= l PROVE f[k + 1] \in Seq(E)
    OBVIOUS
  <2>2. k <= l /\ k + 1 \in 0..l /\ k + 1 \in 1..l /\ k + 1 # 0 /\ (k + 1) - 1 = k
    BY <1>1, <2>1
  <2>3. f[k + 1] = IF log[k + 1].imr = 3 THEN Append(f[k], log[k + 1]) ELSE f[k]
    BY <1>2, <2>2 DEF History
  <2>4. f[k] \in Seq(E) /\ log[k + 1] \in E
    BY <1>1, <1>4, <2>2
  <2> QED BY <2>3, <2>4
<1>5. Nat \subseteq S
  BY <1>3, <1>4, SetInduction
<1> QED BY <1>1, <1>2, <1>5

\* Where RTMR3 was extended by dstack's events, no log that leads to the quoted
\* register makes the client believe an app, compose or instance id that was not
\* measured under that name (verify.py:206-275), with one exception: a digest may be
\* that of the payload alone (verify.py:273), so that a payload which is itself the
\* text that the runtime hashed for an event is believed under any name.
THEOREM RegisterBindsValues ==
  ASSUME NEW E, NEW lower, \A e \in E : e.name.lower = lower[e.name.written],
         NEW log \in Seq(E), NEW names, NEW value,
         Replays(log), Says(log, names, value),
         NEW measured,
         Replayed(log) = [i \in DOMAIN measured |->
                            Hash(EventText(measured[i].name, measured[i].value))]
  PROVE  \E i \in DOMAIN measured :
           \/ lower[measured[i].name] \in names /\ measured[i].value = value
           \/ value = EventText(measured[i].name, measured[i].value)
<1> DEFINE events == Rtmr3Events(log)
           places == {i \in DOMAIN events : events[i].name.lower \in names}
           m == Max(places)
<1>1. events \in Seq(E) /\ Len(events) \in Nat /\ DOMAIN events = 1..Len(events)
  BY EventsType
<1>2. places # {} /\ ReadAs(events[m].payload, value)
  BY DEF Says
<1>3. m \in places
  <2>1. places \in SUBSET Int /\ Len(events) \in Int /\ \A i \in places : i <= Len(events)
    BY <1>1
  <2> HIDE DEF places
  <2> QED BY <1>2, <2>1, MaxOfBounded
<1> HIDE DEF m
<1>4. m \in DOMAIN events /\ events[m].name.lower \in names /\ HasDigest(events[m])
  BY <1>3 DEF Replays
<1>5. /\ m \in DOMAIN measured
      /\ EventDigest(events[m]) = Hash(EventText(measured[m].name, measured[m].value))
  <2>1. m \in DOMAIN Replayed(log) /\ Replayed(log)[m] = EventDigest(events[m])
    BY <1>4 DEF Replayed
  <2> QED BY <2>1
<1>6. events[m] \in E
  BY <1>1, <1>4
<1> HIDE DEF events, places
<1> DEFINE e == events[m]
           mname == measured[m].name
           mvalue == measured[m].value
<1>7. /\ HasDigest(e) /\ EventDigest(e) = Hash(EventText(mname, mvalue))
      /\ ReadAs(e.payload, value) /\ e.name.lower = lower[e.name.written]
      /\ e.name.lower \in names
  BY <1>2, <1>4, <1>5, <1>6
<1> HIDE DEF e, mname, mvalue
<1>8. CASE e.digest = NoDigest
  <2>1. Hash(EventText(e.name.written, value)) = Hash(EventText(mname, mvalue))
    BY <1>7, <1>8 DEF EventDigest, RuntimeDigest, ReadAs
  <2>2. EventText(e.name.written, value) = EventText(mname, mvalue)
    BY <2>1 DEF Hash
  <2>3. e.name.written = mname /\ value = mvalue
    BY <2>2 DEF EventText
  <2> QED BY <1>5, <1>7, <2>3 DEF mname, mvalue
<1>9. CASE e.digest # NoDigest
  <2>1. e.digest \in PayloadDigests(e.payload) /\ e.payload.value = value
    BY <1>7, <1>9 DEF HasDigest, ReadAs, Readable, Said
  <2>2. \/ Hash(EventText(mname, mvalue)) = Hash(value)
        \/ Hash(EventText(mname, mvalue)) = Hash(Hex(value))
    BY <1>7, <1>9, <2>1 DEF EventDigest, PayloadDigests
  <2>3. EventText(mname, mvalue) # Hex(value)
    BY DEF EventText, Hex
  <2>4. value = EventText(mname, mvalue)
    BY <2>2, <2>3 DEF Hash
  <2> QED BY <1>5, <2>4 DEF mname, mvalue
<1> QED BY <1>8, <1>9
=============================================================================
