----------------------------- MODULE VerifyCli ------------------------------
(***************************************************************************)
(* The verify, upload and trust reset commands                             *)
(* (voxterm_sink_client/__main__.py, verify.py) over the TrustStore.       *)
(*                                                                         *)
(* A sink may be redeployed at any moment, also between two requests of    *)
(* one command, so each request is answered by any deployment, one that is *)
(* gone when its answer arrives, too. A process may be killed at any       *)
(* moment. The checks of the quote, the event log and the response         *)
(* signatures are abstracted to their outcome: the answer is what some     *)
(* genuine deployment says, or the command ends with an error.             *)
(* What upload does after the verification is no part of this module.      *)
(***************************************************************************)
EXTENDS TrustStore

CONSTANTS
  Release,  \* the deployments a pinned release manifest admits
  Policy,   \* the measurement policies users choose: "tofu", "pinned"
  NoCommand, NoDeployment  \* "no value"

Command == [name : {"verify", "reset"}, url : Url, policy : {"tofu", "pinned"}]

ASSUME ReleaseAssumption == Release \subseteq Deployment
ASSUME PolicyAssumption == Policy \subseteq {"tofu", "pinned"}
ASSUME AbsentAssumption == NoCommand \notin Command /\ NoDeployment \notin Deployment

VARIABLES
  pc,        \* process -> where it is, see PC
  cmd,       \* process -> its command: [name, url, policy]
  verified,  \* process -> the deployment its sink attested to
  accepted   \* history: url -> the deployment accepted last, until a reset

vars == <<trustVars, pc, cmd, verified, accepted>>

\* idle: no command runs. attest, info: about to send this request. apply:
\* about to apply what was verified. open, write, rename: about to take this
\* step of save().
PC == {"idle", "attest", "info", "apply", "open", "write", "rename"}

Init ==
  /\ TrustInit
  /\ pc = [p \in Proc |-> "idle"]
  /\ cmd = [p \in Proc |-> NoCommand]
  /\ verified = [p \in Proc |-> NoDeployment]
  /\ accepted = [u \in {} |-> u]

-----------------------------------------------------------------------------
Goto(p, place) == pc' = [pc EXCEPT ![p] = place]

\* The process ends, whatever its exit status, and forgets what it has read.
Exit(p) ==
  /\ Goto(p, "idle")
  /\ cmd' = [cmd EXCEPT ![p] = NoCommand]
  /\ verified' = [verified EXCEPT ![p] = NoDeployment]
  /\ data' = [data EXCEPT ![p] = EmptyData]

\* TrustStore() is constructed before anything is fetched.
StartVerify(p, u, policy) ==
  /\ pc[p] = "idle" /\ Loadable
  /\ data' = [data EXCEPT ![p] = file.data]
  /\ cmd' = [cmd EXCEPT ![p] = [name |-> "verify", url |-> u, policy |-> policy]]
  /\ Goto(p, "attest")
  /\ UNCHANGED <<file, tmp, fd, verified, accepted>>

\* trust reset: loads, changes the data, and saves it whether or not the URL was
\* known.
StartReset(p, u) ==
  /\ pc[p] = "idle" /\ Loadable
  /\ data' = [data EXCEPT ![p] = ResetUrl(file.data, u)]
  /\ cmd' = [cmd EXCEPT ![p] = [name |-> "reset", url |-> u, policy |-> "tofu"]]
  /\ Goto(p, "open")
  /\ UNCHANGED <<file, tmp, fd, verified, accepted>>

\* json.JSONDecodeError: no command runs any more, trust reset included.
StartRaises(p) ==
  /\ pc[p] = "idle" /\ ~Loadable
  /\ UNCHANGED vars

\* The attestation answers for this process's nonce, and the pinned policy holds
\* the quote against the release manifest.
Attest(p, v) ==
  /\ pc[p] = "attest"
  /\ cmd[p].policy = "pinned" => v \in Release
  /\ verified' = [verified EXCEPT ![p] = v]
  /\ Goto(p, "info")
  /\ UNCHANGED <<trustVars, cmd, accepted>>

\* /v1/info is signed by the attested key and names its app_id and compose_hash.
Info(p, v) ==
  /\ pc[p] = "info"
  /\ v.key = verified[p].key /\ v.app = verified[p].app
  /\ Goto(p, "apply")
  /\ UNCHANGED <<trustVars, cmd, verified, accepted>>

\* A request fails, or its answer does not pass a check.
VerificationFails(p) ==
  /\ pc[p] \in {"attest", "info"}
  /\ Exit(p)
  /\ UNCHANGED <<file, tmp, fd, accepted>>

Apply(p) ==
  /\ pc[p] = "apply"
  /\ ~Mismatch(data[p], cmd[p].url, verified[p])
  /\ data' = [data EXCEPT ![p] = Applied(@, cmd[p].url, verified[p])]
  /\ Goto(p, "open")
  /\ UNCHANGED <<file, tmp, fd, cmd, verified, accepted>>

ApplyRaises(p) ==
  /\ pc[p] = "apply"
  /\ Mismatch(data[p], cmd[p].url, verified[p])
  /\ Exit(p)
  /\ UNCHANGED <<file, tmp, fd, accepted>>

SaveOpens(p) ==
  /\ pc[p] = "open"
  /\ OpenTmp(p)
  /\ Goto(p, "write")
  /\ UNCHANGED <<data, cmd, verified, accepted>>

SaveWrites(p) ==
  /\ pc[p] = "write"
  /\ WriteTmp(p)
  /\ Goto(p, "rename")
  /\ UNCHANGED <<data, cmd, verified, accepted>>

\* The command succeeds: a verification is reported, or a reset is.
SaveRenames(p) ==
  /\ pc[p] = "rename"
  /\ RenameTmp
  /\ accepted' = IF cmd[p].name = "verify"
                 THEN With(accepted, cmd[p].url, verified[p])
                 ELSE Without(accepted, cmd[p].url)
  /\ Exit(p)

\* Another process has renamed the temporary file away: FileNotFoundError.
RenameRaises(p) ==
  /\ pc[p] = "rename"
  /\ tmp = Absent
  /\ Exit(p)
  /\ UNCHANGED <<file, tmp, fd, accepted>>

\* A signal ends the process where it is. (A power failure, which may also undo a
\* rename or leave its file empty, as nothing is synced, is not modelled.)
Kill(p) ==
  /\ pc[p] # "idle"
  /\ Exit(p)
  /\ fd' = [fd EXCEPT ![p] = "none"]
  /\ UNCHANGED <<file, tmp, accepted>>

Next ==
  \E p \in Proc :
    \/ \E u \in Url : StartReset(p, u) \/ \E policy \in Policy : StartVerify(p, u, policy)
    \/ StartRaises(p)
    \/ \E v \in Deployment : Attest(p, v) \/ Info(p, v)
    \/ VerificationFails(p)
    \/ Apply(p) \/ ApplyRaises(p)
    \/ SaveOpens(p) \/ SaveWrites(p) \/ SaveRenames(p) \/ RenameRaises(p)
    \/ Kill(p)

Spec == Init /\ [][Next]_vars

-----------------------------------------------------------------------------
\* Properties.

\* The types, and that a process holds a file open only while it writes.
TypeOK ==
  /\ file \in Content /\ tmp \in Content
  /\ fd \in [Proc -> {"none", "tmp", "file", "gone"}]
  /\ data \in [Proc -> TrustData]
  /\ pc \in [Proc -> PC]
  /\ cmd \in [Proc -> Command \cup {NoCommand}]
  /\ verified \in [Proc -> Deployment \cup {NoDeployment}]
  /\ accepted \in Partial(Url, Deployment)
  /\ \A p \in Proc :
       /\ fd[p] # "none" <=> pc[p] = "write"
       /\ pc[p] # "idle" => cmd[p] \in Command
       /\ pc[p] \in {"info", "apply"} => verified[p] \in Deployment
       /\ pc[p] \in {"open", "write", "rename"} /\ cmd[p].name = "verify" =>
            verified[p] \in Deployment

\* The two indexes of a store agree: a URL is pinned to the key whose record
\* lists it, and no record is without a URL.
CoherentData(d) ==
  /\ \A u \in DOMAIN d.index :
       d.index[u] \in DOMAIN d.sinks /\ u \in d.sinks[d.index[u]].urls
  /\ \A k \in DOMAIN d.sinks :
       /\ d.sinks[k].urls # {}
       /\ \A u \in d.sinks[k].urls : u \in DOMAIN d.index /\ d.index[u] = k

\* Whatever commands run at the same time and wherever they are killed, a store
\* that can be loaded is coherent (trust.py:44-94).
Coherent ==
  /\ CoherentData(file.data) /\ CoherentData(tmp.data)
  /\ \A p \in Proc : CoherentData(data[p])

\* d pins u to the deployment v.
Pinned(d, u, v) ==
  /\ u \in DOMAIN d.index /\ d.index[u] = v.key
  /\ v.key \in DOMAIN d.sinks
  /\ d.sinks[v.key].app = v.app /\ d.sinks[v.key].regs = v.regs

\* What was accepted and not reset is what the file pins, though commands are
\* killed, fail, or reset another URL of the same sink (trust.py:44-94).
AcceptedPinned == \A u \in DOMAIN accepted : Pinned(file.data, u, accepted[u])

\* A verification is refused for a changed sink only where a sink is still pinned
\* that it contradicts: a reset leaves no record behind (trust.py:83-94). Another
\* URL of the same sink is enough to go on refusing it.
RefusedOnlyByPin ==
  \A p \in Proc : pc[p] = "apply" /\ Mismatch(data[p], cmd[p].url, verified[p]) =>
    \E u \in DOMAIN accepted :
      /\ accepted[u] # verified[p]
      /\ u = cmd[p].url \/ accepted[u].key = verified[p].key

\* No killed command leaves a file behind that the next one cannot load
\* (trust.py:34-38).
AlwaysLoadable == Loadable

\* "trust reset is the only v1 mechanism for accepting a changed sink or
\* redeploy" (specs/v1/voxterm-sink-upload-cli.md:396).
OnlyResetRebinds ==
  [][\A u \in DOMAIN accepted \cap DOMAIN accepted' : accepted'[u] = accepted[u]]_vars

\* For a user who runs one command at a time, the client implements PinBoard,
\* whatever is in the file and wherever commands are killed (trust.py:44-94).
Board == INSTANCE PinBoard WITH pins <- accepted
ImplementsPinBoard == Board!PBSpec
=============================================================================
