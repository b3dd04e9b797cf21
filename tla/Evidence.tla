------------------------------ MODULE Evidence ------------------------------
(***************************************************************************)
(* How the client judges an attestation bundle and a release manifest      *)
(* (voxterm_sink_client/verify.py 142-331, measurements.py).               *)
(*                                                                         *)
(* SHA-384 is taken to be free of collisions, and nothing more: there is   *)
(* one hash of bytes, and what the runtime hashes for an event is bytes    *)
(* that a payload may hold as well. A register that was extended step by   *)
(* step is the sequence of the digests. Hex digits and their length are    *)
(* left out except where an outcome hangs on them: a short digest, and a   *)
(* payload that does not read back as it was written. Every event is of    *)
(* dstack's event type; one that says another has a digest of its own.     *)
(***************************************************************************)
EXTENDS Integers, SequencesExt

\* Bytes: a value, none at all, a value written in hex, or what dstack hashes for
\* an event: its type, its name and the payload, between colons. (Names have no
\* colon, so no two events have the same.)
NoBytes == [bytes |-> "none"]
Hex(value) == [hex |-> value]
EventText(name, value) == [event |-> name, payload |-> value]

\* An event of the log: [imr, name, digest, payload]. A name is [written, lower]:
\* hashed as written, compared in lower case with Names, in either spelling.
Hash(bytes) == [sha384 |-> bytes]
NoDigest == [of |-> "nothing"]
ShortDigest == [of |-> "short"]
RuntimeDigest(name, value) == Hash(EventText(name.written, value))

\* A payload is absent, empty, some bytes in hex, or a text that is no hex. Bytes
\* that happen to be a text are read as that text; digits that happen to be a
\* number are no value.
NoPayload == [form |-> "none"]
Payload(form, value) == [form |-> form, value |-> value]
EmptyPayload == Payload("empty", NoBytes)
Said(payload) == payload.form \notin {"none", "empty"}
Readable(payload) == payload.form \in {"bytes", "text"}
ReadAs(payload, value) == Readable(payload) /\ payload.value = value
InHex(payload) == payload.form \notin {"none", "text"}

\* _payload_digest_candidates(): of the payload as it stands, or of its bytes.
PayloadDigests(payload) ==
  IF InHex(payload) THEN {Hash(payload.value), Hash(Hex(payload.value))}
                    ELSE {Hash(payload.value)}

Names == [app |-> {"app-id", "app_id"},
          compose |-> {"compose-hash", "compose_hash"},
          instance |-> {"instance-id", "instance_id"}]

-----------------------------------------------------------------------------
\* The events that extend RTMR3. (AllEvents and the other definitions that stand
\* before the one they resemble are faulty variants: the properties are tested
\* against them, nothing uses them.)
AllEvents(log) == log
Rtmr3Events(log) ==
  LET history[n \in 0..Len(log)] ==
        IF n = 0 THEN <<>>
        ELSE IF log[n].imr = 3 THEN Append(history[n - 1], log[n]) ELSE history[n - 1]
  IN  history[Len(log)]

\* _event_digest() returns: a digest is of the right length and the payload's, if
\* there is one; without a digest there is a payload in hex, which may be empty, to
\* recompute it from.
HasDigest(e) ==
  IF e.digest = NoDigest THEN InHex(e.payload)
  ELSE e.digest # ShortDigest /\ (Said(e.payload) => e.digest \in PayloadDigests(e.payload))

EventDigest(e) ==
  IF e.digest = NoDigest THEN RuntimeDigest(e.name, e.payload.value) ELSE e.digest

\* _replay_rtmr().
Replayed(log) == [i \in DOMAIN Rtmr3Events(log) |-> EventDigest(Rtmr3Events(log)[i])]

\* found[...] is value: the last event of this name says so.
Says(log, names, value) ==
  LET events == Rtmr3Events(log)
      places == {i \in DOMAIN events : events[i].name.lower \in names}
  IN  /\ places # {}
      /\ ReadAs(events[Max(places)].payload, value)

\* _replay_event_log() returns.
Replays(log) ==
  LET events == Rtmr3Events(log)
  IN  \A i \in DOMAIN events :
        /\ HasDigest(events[i])
        /\ \A k \in DOMAIN Names :
             events[i].name.lower \in Names[k] => Readable(events[i].payload)

-----------------------------------------------------------------------------
\* A bundle: [key, nonce, quote, log, app, compose, instance]; its quote:
\* [genuine, report, base, rtmr3]. report stands for the REPORTDATA over key and
\* nonce, base for MRTD and RTMR0 to RTMR2.
Report(key, nonce) == [key |-> key, nonce |-> nonce]

\* The bundle answers this request: its quote is over this nonce, and its key.
BoundToKey(b, nonce) == b.quote.report.key = b.key
Bound(b, nonce) == b.nonce = nonce /\ b.quote.report = Report(b.key, nonce)

\* The log leads to the quoted RTMR3, and says what the bundle says.
LogAgrees(b) ==
  /\ Replays(b.log)
  /\ Replayed(b.log) = b.quote.rtmr3
  /\ Says(b.log, Names.app, b.app)
  /\ Says(b.log, Names.compose, b.compose)
  /\ Says(b.log, Names.instance, b.instance)

\* _verify_attestation_bundle() returns, for a quote the verifier found genuine.
Verified(b, nonce) == Bound(b, nonce) /\ b.quote.genuine /\ LogAgrees(b)

\* What it establishes and the trust store pins; the instance counts by RTMR3.
Established(b) ==
  [key  |-> b.key,
   app  |-> [id |-> b.app, compose |-> b.compose],
   regs |-> [base |-> b.quote.base, rtmr3 |-> b.quote.rtmr3]]

\* ReleaseMeasurements.check(): a manifest is [compose, images], and all base
\* registers are those of one image.
Admits(manifest, v) ==
  v.app.compose = manifest.compose /\ v.regs.base \in manifest.images
=============================================================================
