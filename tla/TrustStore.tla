----------------------------- MODULE TrustStore -----------------------------
(***************************************************************************)
(* The client's trust store (voxterm_sink_client/trust.py): which signing  *)
(* key a sink URL is pinned to, what was attested of each key, and the     *)
(* file that keeps both, verified_sinks.json.                              *)
(*                                                                         *)
(* Every command of the command line interface is a process of its own; it *)
(* reads the file once, when it starts, and rewrites it as a whole through *)
(* one temporary file whose name all processes share. Timestamps and the   *)
(* verifier's summary are left out: nothing reads them.                    *)
(***************************************************************************)
EXTENDS Integers, FiniteSets

CONSTANTS
  Proc,    \* processes of the command line interface
  Url,     \* normalized sink URLs
  PubKey,  \* sink signing keys
  App,     \* what is pinned of a deployment: app_id and compose_hash,
  Regs     \* and its MRTD and RTMR registers

\* What verify_sink() establishes of a sink.
Deployment == [key : PubKey, app : App, regs : Regs]

Partial(S, T) == UNION {[D -> T] : D \in SUBSET S}

\* TrustStore.data: url_index and sinks.
TrustData == [index : Partial(Url, PubKey),
              sinks : Partial(PubKey, [app : App, regs : Regs, urls : SUBSET Url])]

EmptyData == [index |-> [u \in {} |-> u], sinks |-> [k \in {} |-> k]]

\* What a path holds: no file, an empty one, what two writers left of each
\* other's text, or a store's data.
Absent == [state |-> "absent", data |-> EmptyData]
Empty == [state |-> "empty", data |-> EmptyData]
Garbled == [state |-> "garbled", data |-> EmptyData]
Holding(d) == [state |-> "data", data |-> d]
Content == {Absent, Empty, Garbled} \cup [state : {"data"}, data : TrustData]

VARIABLES
  file,  \* what verified_sinks.json holds
  tmp,   \* what verified_sinks.json.tmp holds
  fd,    \* process -> the file it has open for writing: "tmp", "file" (what was
         \* tmp when it was opened and has been renamed since), "gone" (renamed
         \* and replaced), or "none"
  data   \* process -> its TrustStore.data

trustVars == <<file, tmp, fd, data>>

TrustInit ==
  /\ file = Absent
  /\ tmp = Absent
  /\ fd = [p \in Proc |-> "none"]
  /\ data = [p \in Proc |-> EmptyData]

-----------------------------------------------------------------------------
\* The operations on the data.

With(f, x, y) == [z \in DOMAIN f \cup {x} |-> IF z = x THEN y ELSE f[z]]
Without(f, x) == [z \in DOMAIN f \ {x} |-> f[z]]

\* apply() raises: the URL is pinned to another key, or the key is known with
\* other measurements. (MismatchOfSink and the other definitions that stand
\* before the one they resemble are faulty variants: the properties are tested
\* against them, nothing uses them.)
Changed(d, v) ==
  v.key \in DOMAIN d.sinks /\ (d.sinks[v.key].app # v.app \/ d.sinks[v.key].regs # v.regs)
MismatchOfSink(d, u, v) == Changed(d, v)
Mismatch(d, u, v) == (u \in DOMAIN d.index /\ d.index[u] # v.key) \/ Changed(d, v)

\* apply() otherwise.
Applied(d, u, v) ==
  LET known == IF v.key \in DOMAIN d.sinks THEN d.sinks[v.key].urls ELSE {}
  IN  [index |-> With(d.index, u, v.key),
       sinks |-> With(d.sinks, v.key,
                      [app |-> v.app, regs |-> v.regs, urls |-> known \cup {u}])]

\* reset_url(). A record goes with its last URL.
ResetIndex(d, u) ==
  IF u \in DOMAIN d.index THEN [d EXCEPT !.index = Without(@, u)] ELSE d
ResetSink(d, u) ==
  IF u \notin DOMAIN d.index THEN d
  ELSE [index |-> Without(d.index, u), sinks |-> Without(d.sinks, d.index[u])]
ResetUrl(d, u) ==
  IF u \notin DOMAIN d.index THEN d
  ELSE LET k == d.index[u]
           urls == d.sinks[k].urls \ {u}
       IN  [index |-> Without(d.index, u),
            sinks |-> IF k \notin DOMAIN d.sinks THEN d.sinks
                      ELSE IF urls = {} THEN Without(d.sinks, k)
                      ELSE [d.sinks EXCEPT ![k].urls = urls]]

-----------------------------------------------------------------------------
\* The file.

\* _load(): json.loads() raises on what is no JSON document.
Loadable == file.state \in {"absent", "data"}

\* save(), step by step. write_text() opens the temporary file, which truncates
\* it, for whoever else has it open, too ...
OpenInPlace(p) ==
  /\ file' = Empty
  /\ fd' = [fd EXCEPT ![p] = "file"]
  /\ UNCHANGED tmp
OpenTmp(p) ==
  /\ tmp' = Empty
  /\ fd' = [fd EXCEPT ![p] = "tmp"]
  /\ UNCHANGED file

\* ... and writes from its start: the end of a longer text stays.
Overwritten(old, d) ==
  IF old \in {Empty, Holding(d)} THEN {Holding(d)} ELSE {Holding(d), Garbled}

WriteAndLeaveOpen(p) ==
  /\ tmp' \in Overwritten(tmp, data[p])
  /\ UNCHANGED <<file, fd>>
WriteTmp(p) ==
  /\ \/ fd[p] = "tmp" /\ tmp' \in Overwritten(tmp, data[p]) /\ UNCHANGED file
     \/ fd[p] = "file" /\ file' \in Overwritten(file, data[p]) /\ UNCHANGED tmp
     \/ fd[p] = "gone" /\ UNCHANGED <<file, tmp>>
  /\ fd' = [fd EXCEPT ![p] = "none"]

\* replace(): the temporary file becomes the store.
RenameTmp ==
  /\ tmp # Absent
  /\ file' = tmp
  /\ tmp' = Absent
  /\ fd' = [q \in Proc |-> CASE fd[q] = "tmp" -> "file"
                             [] fd[q] = "file" -> "gone"
                             [] OTHER -> fd[q]]
=============================================================================
