---------------------------- MODULE Attestation -----------------------------
(***************************************************************************)
(* The sinks that a client verifies: how one gets its key and the metadata *)
(* it advertises when it starts (voxterm_transcript_sink/attestation.py    *)
(* 208-244), the bundles it answers with (96-205, app.py 117-165), and     *)
(* what verify_sink() makes of them, over VerifyCli.                       *)
(*                                                                         *)
(* A machine is one deployment of the sink on one piece of hardware.      *)
(* Machines start and stop at any time, and several of them may be up, as  *)
(* a URL is moved from one to the next. A bundle is made when a machine is *)
(* asked and judged when it arrives, however late, if it does, and by then *)
(* the machine may be gone: the request to the quote verifier and the      *)
(* checks look at nothing but the bundle, so that the time they take is as *)
(* good as time on the way. The guest agent, which may fail whenever it is *)
(* asked, and the hardware it stands for are external: the quote says      *)
(* which events extended RTMR3, the agent which app this is.               *)
(***************************************************************************)
EXTENDS VerifyCli, Evidence

CONSTANTS
  Machine,
  Built,         \* machine -> what it runs, see Build
  DerivedKey(_), \* the signing key get_key() derives for an app
  SeedKey,       \* the key of a development seed
  SinkId(_),     \* identity.sink_id of a key
  Nonce,
  Room,          \* bound: how many machines are up at a time
  InFlight,      \* bound: how many bundles are on the way at a time
  NoNonce, NoIdentity, NoInfo  \* "no value"

\* mode: VOXTERM_SINK_ATTEST. extended: the digests that extended RTMR3; log: the
\* event log the agent gives out.
Build(b) ==
  /\ b.mode \in {"dstack", "dev"}
  /\ b.compose # "" /\ [id |-> b.app, compose |-> b.compose] \in App
  /\ [base |-> b.base, rtmr3 |-> b.extended] \in Regs

ASSUME BuiltAssumption == \A m \in Machine : Build(Built[m])
ASSUME KeyAssumption ==
  /\ SeedKey \in PubKey
  /\ \A m \in Machine : DerivedKey(Built[m].app) \in PubKey
ASSUME NoValueAssumption ==
  /\ NoNonce \notin Nonce /\ NoIdentity \notin PubKey /\ NoInfo \notin App
  /\ \A k \in PubKey : [id |-> SinkId(k), compose |-> ""] # NoInfo

VARIABLES
  identity,    \* machine -> the key it signs with, NoIdentity while it is down
  advertised,  \* machine -> the app_info of /v1/info, NoInfo until it serves
  nonce,       \* process -> the nonce it sends, until it has its bundle
  bundles,     \* the bundles that were made and may still arrive
  seen         \* history: process -> the machines that have served from when its
               \* command began until it had its bundle

machineVars == <<identity, advertised>>
attestVars == <<vars, machineVars, nonce, bundles, seen>>

AttestInit ==
  /\ Init
  /\ identity = [m \in Machine |-> NoIdentity]
  /\ advertised = [m \in Machine |-> NoInfo]
  /\ nonce = [p \in Proc |-> NoNonce]
  /\ bundles = {}
  /\ seen = [p \in Proc |-> {}]

-----------------------------------------------------------------------------
\* build_runtime().

Down(m) == identity[m] = NoIdentity
Serving(m) == advertised[m] # NoInfo
Genuine(m) == Built[m].mode = "dstack"

MayStart(m) == Down(m) /\ Cardinality({n \in Machine : ~Down(n)}) < Room

Measured(m) == [id |-> Built[m].app, compose |-> Built[m].compose]
Fallback(key) == [id |-> SinkId(key), compose |-> ""]

StartDev(m) ==
  /\ MayStart(m) /\ ~Genuine(m)
  /\ identity' = [identity EXCEPT ![m] = SeedKey]
  /\ advertised' = [advertised EXCEPT ![m] = Fallback(SeedKey)]

DeriveKey(m) ==
  /\ MayStart(m) /\ Genuine(m)
  /\ identity' = [identity EXCEPT ![m] = DerivedKey(Built[m].app)]
  /\ UNCHANGED advertised

\* The agent cannot be reached: RuntimeError, the sink does not start.
\* (SeedInstead and the other definitions that stand before the one they resemble
\* are faulty variants: the properties are tested against them, nothing uses them.)
SeedInstead(m) ==
  /\ MayStart(m) /\ Genuine(m)
  /\ identity' = [identity EXCEPT ![m] = SeedKey]
  /\ UNCHANGED advertised
DeriveFails(m) == MayStart(m) /\ Genuine(m) /\ UNCHANGED machineVars

\* app_info() succeeds, or fails, which is kept for as long as the sink runs.
ReadInfo(m) ==
  /\ ~Down(m) /\ ~Serving(m)
  /\ advertised' = [advertised EXCEPT ![m] = Measured(m)]
  /\ UNCHANGED identity
ReadInfoFails(m) ==
  /\ ~Down(m) /\ ~Serving(m)
  /\ advertised' = [advertised EXCEPT ![m] = Fallback(identity[m])]
  /\ UNCHANGED identity

Stop(m) ==
  /\ ~Down(m)
  /\ identity' = [identity EXCEPT ![m] = NoIdentity]
  /\ advertised' = [advertised EXCEPT ![m] = NoInfo]

MachineStep(m) ==
  /\ \/ StartDev(m) \/ DeriveKey(m) \/ DeriveFails(m)
     \/ ReadInfo(m) \/ ReadInfoFails(m) \/ Stop(m)
  /\ seen' = [p \in Proc |-> IF pc[p] = "attest"
                             THEN seen[p] \cup {n \in Machine : advertised'[n] # NoInfo}
                             ELSE seen[p]]
  /\ UNCHANGED <<vars, nonce, bundles>>

-----------------------------------------------------------------------------
\* GET /v1/attestation and GET /v1/info.

\* get_bundle(): the agent is asked anew for the app, while the key is the one of
\* the start. A development quote is not genuine.
Bundle(m, n) ==
  [key |-> identity[m], nonce |-> n,
   quote |-> [genuine |-> Genuine(m), report |-> Report(identity[m], n),
              base |-> Built[m].base, rtmr3 |-> Built[m].extended],
   log |-> Built[m].log,
   app |-> Built[m].app, compose |-> Built[m].compose, instance |-> Built[m].instance]

\* A machine answers whoever asks it with a nonce. The network may have lost any of
\* the bundles made before by then, and must have if too many are on the way.
Serve(m, n) ==
  /\ Serving(m)
  /\ \E others \in SUBSET bundles :
       /\ Cardinality(others) < InFlight
       /\ bundles' = others \cup {Bundle(m, n)}
  /\ UNCHANGED <<vars, machineVars, nonce, seen>>

\* A body of /v1/info, as a deployment of these registers: m signs what it read, or
\* fell back to, when it started, with the key it has or, if at another time, had.
SigningKey(m) == IF Genuine(m) THEN DerivedKey(Built[m].app) ELSE SeedKey
Infos(m, regs) ==
  {[key |-> key, app |-> app, regs |-> regs] :
     key \in {SigningKey(m)} \cup ({identity[m]} \ {NoIdentity}),
     app \in {Fallback(SigningKey(m))} \cup (IF Genuine(m) THEN {Measured(m)} ELSE {})}

-----------------------------------------------------------------------------
\* verify_sink().

\* secrets.token_bytes(32): no other command has it, and no bundle that is still
\* about was made for it.
Begin(p) ==
  \E u \in Url, policy \in Policy, n \in Nonce :
    /\ StartVerify(p, u, policy)
    /\ n \notin Range(nonce) \cup {b.nonce : b \in bundles}
    /\ nonce' = [nonce EXCEPT ![p] = n]
    /\ seen' = [seen EXCEPT ![p] = {m \in Machine : Serving(m)}]
    /\ UNCHANGED <<machineVars, bundles>>

\* Any bundle on the way arrives, and may do so again: one that was made for
\* another command, or by a machine that has stopped. (One that is changed on the
\* way fails its signature, which is over all of it: VerificationFails.)
Attested(p) ==
  \E b \in bundles :
    /\ Verified(b, nonce[p])
    /\ Attest(p, Established(b))
    /\ nonce' = [nonce EXCEPT ![p] = NoNonce]
    /\ UNCHANGED <<machineVars, bundles, seen>>

\* /v1/info carries no nonce: what any machine signs at any time may arrive, from
\* a time before the behaviour begins, too.
InfoAnswered(p) ==
  /\ pc[p] = "info"
  /\ \E m \in Machine : \E v \in Infos(m, verified[p].regs) : Info(p, v)
  /\ UNCHANGED <<machineVars, nonce, bundles, seen>>

\* The steps that end a command or have nothing to do with the machines.
OtherStep(p) ==
  /\ \/ VerificationFails(p) \/ Kill(p)
     \/ StartRaises(p) \/ \E u \in Url : StartReset(p, u)
     \/ Apply(p) \/ ApplyRaises(p)
     \/ SaveOpens(p) \/ SaveWrites(p) \/ SaveRenames(p) \/ RenameRaises(p)
  /\ nonce' = [nonce EXCEPT ![p] = NoNonce]
  /\ seen' = [seen EXCEPT ![p] = IF pc'[p] = "idle" THEN {} ELSE @]
  /\ UNCHANGED <<machineVars, bundles>>

AttestNext ==
  \/ \E m \in Machine : MachineStep(m) \/ \E n \in Nonce : Serve(m, n)
  \/ \E p \in Proc : Begin(p) \/ Attested(p) \/ InfoAnswered(p) \/ OtherStep(p)

AttestSpec == AttestInit /\ [][AttestNext]_attestVars

-----------------------------------------------------------------------------
\* Properties.

\* The types of what is added to VerifyCli, and that a process holds a nonce
\* exactly while it waits for a bundle.
AttestTypeOK ==
  /\ TypeOK
  /\ identity \in [Machine -> PubKey \cup {NoIdentity}]
  /\ advertised \in [Machine -> {NoInfo} \cup {Measured(m) : m \in Machine}
                                        \cup {Fallback(k) : k \in PubKey}]
  /\ nonce \in [Proc -> Nonce \cup {NoNonce}]
  /\ seen \in [Proc -> SUBSET Machine]
  /\ \A b \in bundles : b.key \in PubKey /\ b.nonce \in Nonce
  /\ \A p \in Proc : nonce[p] # NoNonce <=> pc[p] = "attest"
  /\ \A m \in Machine :
       Serving(m) => ~Down(m) /\ advertised[m] \in {Measured(m), Fallback(identity[m])}

\* What machine m is, whatever it says.
Truth(m) ==
  [key  |-> DerivedKey(Built[m].app), app |-> Measured(m),
   regs |-> [base |-> Built[m].base, rtmr3 |-> Built[m].extended]]

\* What a command has verified, until it reports success, is a sink of genuine
\* hardware that served at some time while the command waited for the attestation,
\* and is what the client takes it for: no bundle of another request, no sink that
\* had stopped by then, no other build (verify.py:87-172, spec 5.4). It need not
\* serve any more.
VerifiedHasServed ==
  \A p \in Proc : verified[p] # NoDeployment =>
    \E m \in seen[p] : Genuine(m) /\ verified[p] = Truth(m)

\* "A later genuine quote would otherwise bind that fallback key and a client would
\* pin it" (attestation.py:216): every key that is pinned is one the hardware
\* derived for the app that is pinned with it, in memory and in the file.
DerivedIn(d) ==
  \A k \in DOMAIN d.sinks : k = DerivedKey(d.sinks[k].app.id)
PinnedKeysDerived ==
  DerivedIn(file.data) /\ DerivedIn(tmp.data) /\ \A p \in Proc : DerivedIn(data[p])

\* What honest agents and genuine hardware give: the events of RTMR3 are, in the
\* order they extended it, all events of the log that name it, each written in one
\* of three ways (without a digest, with the payload's, with a digest alone); and
\* the last event of a name has the value that the agent reports.
Records(e, digest) ==
  \/ e.digest = NoDigest /\ InHex(e.payload) /\ digest = RuntimeDigest(e.name, e.payload.value)
  \/ Said(e.payload) /\ e.digest \in PayloadDigests(e.payload) /\ digest = e.digest
  \/ ~Said(e.payload) /\ e.digest \notin {NoDigest, ShortDigest} /\ digest = e.digest
Extended(log, digests) ==
  \E at \in [DOMAIN digests -> DOMAIN log] :
    /\ \A i, j \in DOMAIN at : i < j => at[i] < at[j]
    /\ \A n \in DOMAIN log : log[n].imr = 3 <=> \E i \in DOMAIN at : at[i] = n
    /\ \A i \in DOMAIN at : Records(log[at[i]], digests[i])
Reports(log, names, value) ==
  \E n \in DOMAIN log :
    /\ log[n].imr = 3 /\ log[n].name.lower \in names /\ ReadAs(log[n].payload, value)
    /\ \A i \in DOMAIN log : log[i].imr = 3 /\ log[i].name.lower \in names => i <= n
HonestAgent(b) ==
  /\ b.log \in Seq(Range(b.log)) /\ b.extended \in Seq(Range(b.extended))
  /\ Extended(b.log, b.extended)
  /\ \A n \in DOMAIN b.log, k \in DOMAIN Names :
       b.log[n].imr = 3 /\ b.log[n].name.lower \in Names[k] => Readable(b.log[n].payload)
  /\ Reports(b.log, Names.app, b.app)
  /\ Reports(b.log, Names.compose, b.compose)
  /\ Reports(b.log, Names.instance, b.instance)
HonestAgents == \A m \in Machine : Genuine(m) => HonestAgent(Built[m])

\* A sink of genuine hardware is never refused for what its agent reports: any
\* format of the event log the client knows leads to the quoted RTMR3 and to the
\* agent's metadata (verify.py:206-321).
GenuineVerifies ==
  \A m \in Machine, n \in Nonce : Genuine(m) /\ Serving(m) => Verified(Bundle(m, n), n)
=============================================================================
