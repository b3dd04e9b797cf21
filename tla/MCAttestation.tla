--------------------------- MODULE MCAttestation ----------------------------
(***************************************************************************)
(* An app, its upgrade, which keeps the key, another app, and a            *)
(* development sink. Each of the genuine ones has an event log of another  *)
(* format.                                                                 *)
(***************************************************************************)
EXTENDS Attestation, TLC

CONSTANTS a0, a1, a2, c0, c1, c2, i0, i1, i2, firmware, kernel, kms, ready  \* values

Event(imr, name, digest, payload) ==
  [imr |-> imr, name |-> name, digest |-> digest, payload |-> payload]
Name(name) == [written |-> name, lower |-> name]
Bytes(value) == Payload("bytes", value)
Text(value) == Payload("text", value)

\* dstack's: digests are empty; events of other registers are in the log, too, and
\* one with an empty payload.
Runtime(name, value) == Event(3, Name(name), NoDigest, Bytes(value))
DstackLog == <<Event(0, Name("boot"), Hash(firmware), NoPayload),
               Event(3, Name("system-preparing"), NoDigest, EmptyPayload),
               Runtime("app-id", a1), Runtime("compose-hash", c1),
               Event(2, Name("compose-hash"), NoDigest, Bytes(kernel)),
               Runtime("instance-id", i1), Runtime("key-provider", kms)>>
DstackExtended == <<RuntimeDigest(Name("system-preparing"), NoBytes),
                    RuntimeDigest(Name("app-id"), a1), RuntimeDigest(Name("compose-hash"), c1),
                    RuntimeDigest(Name("instance-id"), i1),
                    RuntimeDigest(Name("key-provider"), kms)>>

\* One with digests of the payloads, be they text, bytes or the hex of bytes, and a
\* value that is replaced later.
DigestedLog == <<Event(3, Name("compose_hash"), Hash(c1), Text(c1)),
                 Event(3, Name("app_id"), Hash(Hex(a1)), Bytes(a1)),
                 Event(3, Name("compose_hash"), Hash(c2), Bytes(c2)),
                 Event(3, Name("instance_id"), Hash(i1), Text(i1))>>
DigestedExtended == <<Hash(c1), Hash(Hex(a1)), Hash(c2), Hash(i1)>>

\* One with a digest that has nothing to be compared with, a name in capitals, and a
\* later digest over what the runtime hashes for an event.
Capital == [written |-> "APP-ID", lower |-> "app-id"]
OpaqueLog == <<Event(3, Name("system-ready"), Hash(ready), NoPayload),
               Event(3, Capital, NoDigest, Bytes(a2)), Runtime("compose-hash", c1),
               Runtime("instance-id", i2),
               Event(3, Name("copy"), Hash(EventText("app-id", a1)), Bytes(EventText("app-id", a1)))>>
OpaqueExtended == <<Hash(ready), RuntimeDigest(Capital, a2),
                    RuntimeDigest(Name("compose-hash"), c1),
                    RuntimeDigest(Name("instance-id"), i2), RuntimeDigest(Name("app-id"), a1)>>

DevLog == <<Event(3, Name("compose-hash"), ShortDigest, NoPayload),
            Event(3, Name("app-id"), ShortDigest, NoPayload),
            Event(3, Name("instance-id"), ShortDigest, NoPayload)>>

Runs(mode, app, compose, instance, base, log, extended) ==
  [mode |-> mode, app |-> app, compose |-> compose, instance |-> instance,
   base |-> base, log |-> log, extended |-> extended]
MCBuilt ==
  [first   |-> Runs("dstack", a1, c1, i1, "image", DstackLog, DstackExtended),
   upgrade |-> Runs("dstack", a1, c2, i1, "image", DigestedLog, DigestedExtended),
   other   |-> Runs("dstack", a2, c1, i2, "newer", OpaqueLog, OpaqueExtended),
   dev     |-> Runs("dev", a0, c0, i0, "image", DevLog, <<>>)]
\* Neither URLs nor nonces are told apart by what they are.
Interchangeable == Permutations(Url) \cup Permutations(Nonce)

MCMachine == DOMAIN MCBuilt

MCDerivedKey(app) == IF app = a1 THEN "k1" ELSE "k2"
MCSinkId(k) == "sink_id"
MCApp == {Measured(m) : m \in Machine}
MCRegs == {[base |-> Built[m].base, rtmr3 |-> Built[m].extended] : m \in Machine}

\* The agents of the genuine ones report what happened.
ASSUME AgentsAssumption == HonestAgents

\* The manifest pins the first release on two images.
Manifest == [compose |-> c1, images |-> {"image", "older"}]
MCRelease == {v \in Deployment : Admits(Manifest, v)}
=============================================================================
