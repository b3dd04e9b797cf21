# VoxTerm transcript sink: models, checks and proofs

This directory specifies the transcript sink (`src/voxterm_transcript_sink/`) and
its upload client (`src/voxterm_sink_client/`) in TLA+. TLC checks small
instances of the specifications; TLAPS proves the most important properties for
every value of the constants. Each definition is translated from the Python
source, and `PROJECT.json` ("map") names the lines it stands for.

Contents: 1 the system, 2 what is hard about it, 3 the modules, 4 the runs,
5 the findings, 6 the proofs, 7 assumptions and abstractions, 8 what is not
modelled, 9 the plan.

## 1. The system

Recorders produce transcripts of conversations. A **sink** is an HTTP server in
a TEE that stores them; the **client** is a command line tool that verifies a
sink by remote attestation, pins it, and uploads exported markdown files to it.

| Component | State it keeps | Operations | Talks to |
|---|---|---|---|
| Store (`store.py`) | transcripts by content id; a chunk log per (session, author); a JSON snapshot of both | `append_chunk`, `put_transcript`, `_save`, `_load`, `max_seq`, queries | called by the handlers; the file system |
| Write routes (`app.py` 157-289) | per request: header, previous seq, acknowledgements so far | `POST /v1/transcript`, `POST /v1/transcript/stream` | Store, Assembly, clients |
| Assembly (`assembly.py`) | none | `assemble`: a chunk log to a transcript | called on a final chunk |
| Read routes (`app.py` 291-349) | none | list, fetch, tail a session | Store, Bearer tokens |
| Bearer tokens (`auth.py`) | the tokens issued, with their expiry | issue, check | Read routes |
| Sink start-up and attestation (`attestation.py`, `app.py` 49-165) | signing key, app metadata, for the life of the process | `build_runtime`, `get_bundle`, `/v1/attestation`, `/v1/info` | guest agent of the TEE, clients |
| Trust store (`trust.py`) | `url_index` (URL to signing key) and `sinks` (key to what was attested, and its URLs), in `verified_sinks.json` | `_load`, `apply`, `reset_url`, `save` | file shared by all commands |
| Verification (`verify.py`, `measurements.py`) | the nonce and what is verified so far, for one command | quote and event log checks, `/v1/info`, policy | Trust store, the sink, a quote verifier |
| Upload (`upload.py`, `identity.py`, `http.py`) | the author key file; per command the results so far | `load_or_create_author`, `upload_files` | the sink over HTTPS, through a gateway |
| Markdown (`transcript.py`) | per file: the clock before, day offset, raw segments | `parse_markdown`, `build_transcript` | called by Upload |

What makes each of them correct:

- **Store**: one chunk per seq in a log; the snapshot is a part of the memory. It
  only ever grows as long as writes are whole; a short write destroys it, and then
  what can be read later still has all that could be read before.
- **Write routes**: what a client was told (acknowledgement, 200, 201,
  X-Sink-Seq) stays true across crashes; 201 is said once; an acknowledged final
  chunk has a transcript; no transcript comes from nowhere.
- **Assembly**: nothing lost, repeated or reordered; corrections apply; two
  deliveries of the same chunks give the same text.
- **Trust store**: an accepted sink stays the only accepted one under its URL
  until a reset; the two indexes agree; no kill makes the file unreadable.
- **Read routes**: nothing is shown that a crash can take back; a tail misses
  only what arrived late; turning the pages loses nothing; a time window is right.
- **Bearer tokens**: a token that was refused is never accepted again.
- **Attestation**: what passes is a genuine sink that served while the command asked
  and is what the client takes it for; only keys of the hardware are pinned; a genuine sink is
  not refused for the format of its evidence.
- **Upload**: a file reported as uploaded is durable in the verified sink; it is
  stored once however often it is sent; every command ends, unless somebody sends
  it an answer without end.
- **Markdown**: the recovered times are the times the lines were written at;
  segments are in order and abut; a speaker keeps one id.

## 2. What is hard about it

`PROJECT.json` ("hazards") lists each hazard at the line where it bites, with the
properties that would catch it. The main groups:

- **Crash between memory and snapshot.** `append_chunk` and `put_transcript`
  change memory first and save afterwards (store.py 68, 142-143). Acknowledgement,
  save and crash have to be looked at in every order.
- **A save that fails half way.** `_save` can raise before the rename, after it,
  or write less than it was given, so that a truncated file takes the snapshot's
  place (store.py 165-186). Nothing is rolled back.
- **Requests that end half way.** A stream stores its lines one by one; a bad
  line, a failing save or a crash ends it with earlier lines stored and never
  acknowledged, and the client resends.
- **Arrival order.** Streams of one session may deliver seqs in any order; the
  log is in order of arrival, the transcript in order of seq.
- **Two client processes on one file.** Each command loads the trust store when
  it starts and rewrites it from that copy, through one temporary file.
- **A network with a gateway in it.** A request may arrive after its command has
  given up. An answer may be lost, come from something that is not the sink, repeat
  a body the sink once signed, carry a status the sink did not give (the signature
  is over the body only), or arrive a byte at a time.
- **Reads beside writes.** A tail follows a log in order of seq that grows in order
  of arrival; a list without a cursor is turned page by page while it grows; times
  are compared as texts.
- **Machines that take each other's place.** Attestation and `/v1/info` are two
  requests; an upgrade keeps the key; a bundle may arrive late or again, when the
  machine that made it is gone; `/v1/info` carries no nonce.
- **A guest agent that fails.** At the start, between key and metadata, and later.
- **Clocks without dates.** Midnight is inferred from clocks that go back.

## 3. The modules

    Assembly     Store                TrustStore   PinBoard      Markdown
          \      /    DurableLog          |           :
            Sink ......: (refines)     VerifyCli ......: (refines)
          /   |   \                     /     \
    UploadCli | Reading -- Tokens     /    Attestation -- Evidence
        |     |     |          MCVerifyCli      |
    MCUploadCli     MCReading             MCAttestation
            MCSink

    proofs: StoreProofs - SinkProofs - UploadProofs, ReadingProofs
            AssemblyProofs, MarkdownProofs, TrustProofs (also of Attestation)
            NumberLemmas (induction and maxima, used by all that count)

**Assembly** is a pure function. `Target` is the effective seq, `LatestFor` the
dictionary that a later arrival overwrites, `Increasing` is `sorted`, by rank (the
library's `SetToSortSeq` says the same, through a sort the prover has no definition
of), `Ordered` the sorted values, `Group` one step of the grouping loop,
`ClosingChunk` the chunk that dates the transcript. The text, times, label and
confidence of a chunk are one value, `text`. MCAssembly gives it its inputs: every
log `append_chunk` can build from a stock of chunks.

**Store** has `transcripts` and `chunks` (memory), `diskTranscripts`,
`diskChunks` and `torn` (the snapshot), `saving` (a change is in memory and its
`_save` has not returned) and `up`. `AppendChunk` and `PutTranscript` change the
memory; the save then ends in one of `SaveReturns`, `SaveRaises`,
`SaveRaisesLate`, `SaveTears`, or in a `Crash`. `Start` is `_load`. `SaveTears` is a
short write: the truncated file replaces the snapshot, of which nothing can be read
back, so `diskTranscripts` and `diskChunks` are empty from then on until another
save. `lastTranscripts` and `lastChunks` are history: the last snapshot that could
be read. A transcript
stands for its content id, which leaves the author's signature out; whether the
stored copy is signed is kept beside it.

**Sink** extends Store and Assembly with the two handlers. Handlers are
coroutines that await nothing after the body is read, so one runs at a time and
is a program counter `pc` with its locals (`key`, `hive`, `prevSeq`, `acks`,
`current`, `doc`). One action per step between two places where the process can
die or an exception can leave the handler. History variables `acked`,
`confirmed` and `highWater` keep what clients have been told.

**DurableLog** is the abstract specification of the write path: durable logs that
grow by one chunk of a free seq, durable transcripts, and answers about nothing
but these. No memory, no handlers, no saves, no crashes. Sink implements it with
log <- `diskChunks`, published <- the contents of `diskTranscripts`.

**TrustStore** has the operations on the data (`Mismatch`, `Applied`,
`ResetUrl`) and the file: `file`, `tmp`, each process's open descriptor `fd` and
its copy `data`. `save()` is three steps, open (which truncates), write, rename.
A descriptor keeps pointing at the file it opened when that is renamed, so a late
writer may write into the store itself.

**VerifyCli** runs the commands over it, each process at its own pace: load,
attestation request, info request, `apply`, the steps of `save`. Any deployment
may answer any request: the checks of one answer are abstracted to their
outcome, which Attestation works out. `accepted` is the history of what users
were told is verified.

**PinBoard** is the abstract specification of the trust store: each URL is pinned
to what was accepted of it first, until a reset, and one key is one deployment
under all its URLs. No file, no copies, no kills. VerifyCli implements it, for one
command at a time, with pins <- `accepted`.

**Evidence** has the checks as operators over a bundle. There is one hash, of bytes,
and what the runtime hashes for an event is bytes as well (`EventText`), so that a
payload may hold the very text of an event. A name is hashed as it is written and
looked up in lower case; a payload is absent, empty, bytes in hex or text, which
`_event_digest` tells apart. There are the digest of an event (`HasDigest`,
`EventDigest`: given, recomputed, or compared with the payload), the replay of the
RTMR3 log (`Replayed`, a register being the sequence of digests that extended it), the
values read from it (`Says`: the last event of a name, in either spelling), what binds
a bundle to the request (`Bound`), and the check against a release manifest (`Admits`).

**Attestation** extends VerifyCli with the machines its requests reach: `identity`
and `advertised` are what `build_runtime` gives a sink for the life of its process,
with the two ways it can go wrong (`DeriveFails`, `ReadInfoFails`). `Serve` is a
machine making a bundle; `bundles` are those on the way, which may be lost, arrive
late, or arrive again at another command. `Attested` is a command judging one of
them: the request to the quote verifier and the checks look at the bundle only, so
that the time they take counts as time on the way, and the machine may be gone.
`seen` is history: which machines served from the command's start until it had its
bundle. `/v1/info` has no nonce, so `InfoAnswered` takes whatever any machine could
ever have signed (`Infos`), long gone or not.

**Tokens** is the dictionary of tokens over a clock that may be set to anything,
with `refused`, the history of tokens presented in vain. **Reading** composes it with
Sink: each read route is one action, possible when no handler runs, since a read
awaits nothing. The reader itself is not in the repository; it is what clients of
such routes do. It holds a transcript it fetched, tails a session with the highest
seq it has, or lists page by page, each page from the `created_at` of the last item
on. A stamp is its seconds, tenths and spelling of UTC; `Text` is its place in the
order of texts, which is what the store compares.

**UploadCli** extends Sink: upload commands that look for the author key, create it
with `O_EXCL` or read it, and post their files one after the other, over a set of
requests in flight. Every step of the sink in it is Sink's own action. A gateway may
answer instead (`AnsweredElsewhere`): with a body of its own, or with any that the
sink has signed (`SignedFor`), under either status of success. `altered` is history:
the commands that were given a signed body as a 201 by it. An answer may come in
pieces (`Drip`): the transport's timeout is for one socket operation, so that a
command reads on (`ReadOn`) and only silence ends its wait (`TimeOut`), or the
connection's breaking (`ConnectionBreaks`). Here the sink's clients are upload
commands only, so no streams are opened.

**Markdown** reads a file line by line as it was recorded, with the moment each
line was written kept as history (`lines`, `spoken`), so that what the parser
makes of the clocks can be compared with the truth. The second loop of
`parse_markdown` is the action `Parsed` and its operators.

Definitions named after the one that follows them (`CreateOrTruncate` before
`CreateKey`, and so on) are faulty variants. Each is a plausible bug, and each
property is known to fail when its variant takes the place of the original.

## 4. The runs

States are distinct states of the complete state space; nothing is cut off by a
depth bound. Where a `.cfg` has CHECK_DEADLOCK FALSE the system really may stop.

| Run | Bounds | States | Shows |
|---|---|---|---|
| `assembly` | seqs 0..3, two speakers, revises any seq or none, final chunks left out (they affect only the date) | 265,241 | order, turns, corrections and independence of arrival order for every log of up to four chunks. Stops when every seq is taken |
| `assembly_chain` | the same | violation | finding 2 |
| `sink` | two sessions, five chunks (two contend for a seq, one revises, two of one session are final, two hiveminds), one posted transcript which equals an assembled one, saves may raise after the rename | 381,330 | the write path keeps what it tells clients, across crashes at any point, and implements DurableLog |
| `sink_faults` | three chunks, one hivemind, every save fault | 319,584 | what stays true when saves fail: unambiguous logs, transcripts with a source, and a snapshot that can be read has all that any earlier readable one had. A truncated snapshot never starts, so the run may stop |
| `sink_save_error` | the same, saves may raise | violation | finding 1 |
| `trust_alone` | one process, two URLs, both policies; four machines: an app, its upgrade (same key), another app, a development sink, each with an event log of another format; two nonces; one machine up and one bundle on the way at a time; URLs and nonces symmetric | 493,184 | only a genuine sink that served while the command asked passes; only keys of the hardware are pinned; every format verifies; pins survive kills, failures and redeployments; only a pin refuses; implements PinBoard |
| `trust_together` | two processes at a time (symmetric), two URLs, two keys | about 1.7 million | a loadable store is coherent even when two commands write through one temporary file |
| `trust_lost` | two processes, one URL | violation | finding 3 |
| `markdown` | a day of 3 seconds, tolerance 1, files of up to 3 transcript lines over 3 days, two labels or none | 279,702 | times recovered over midnights, segments abut, speakers stable. A parsed or refused file is the end |
| `markdown_midnight` | the same | violation | finding 4 |
| `reading` | one session of two chunks, the final one first or last; three posted transcripts, one of that session; stamps of two seconds in three forms; pages of 3; one token; a clock of two ticks; saves may raise after the rename | 394,500 | shown is durable, tails miss only late chunks, pages are complete, windows are right, refused tokens stay refused |
| `upload` | two commands at first use, which share a file; one file does not parse, one is too large; a gateway that answers, alters and replays; saves may fail after the rename | 256,067 | reports are true, one transcript per file, "created" once unless altered, every command ends unless an answer never does |

Why the bounds are enough to be interesting. In `sink` a seq can be contended for,
resent and revised, a final chunk can come before, between or after others, two
final chunks can assemble twice, and there is a second session to leak into. In
`assembly` four chunks allow a chain of three corrections and a correction that
arrives before its original. In the trust runs two URLs allow a sink with two URLs,
of which one is reset, and two versions allow an upgrade. In `trust_alone` one
machine is up at a time (`Room`), as when a URL is moved: the next one can start
while the bundle of the last is on the way, and `/v1/info` is any machine's anyway.
One bundle on the way (`InFlight`) can be of this request, of an earlier one, or of
a machine that has stopped; with two nonces an old one can meet a new command. The
theorems have none of these bounds. In `reading` four transcripts and pages of three
make a second page, the stamps make ties within a page and a stamp that fills one;
its `VIEW` leaves out the history of what writers were told, which no action reads
and no property of the run speaks of, so that states that differ in it are one. In
`markdown` three lines over three days cross midnight twice, and a 3-second day with
a 1-second tolerance leaves clocks on either side of it; the proofs do not depend on
these numbers. In `upload` two commands race for the key file, for the same
transcript, and with their own late requests.

**Fairness.** All properties but one, `CommandsEnd`, are safety properties and need none.
`CommandsEnd` is checked under weak fairness of each command's own steps: the
operating system runs a process that can run, and a wait without a byte ends, because
the transport has a timeout of 30 s for each operation on the socket (http.py 46).
That bounds no response: each byte in time begins the 30 s anew, and the body is read
without a limit. So `CommandsEnd` says that a command ends *or* that something goes on
sending it an answer for ever (`dripping`); `TimeOut` is possible only while
nothing does. Nothing is assumed of the sink, the gateway or the network: they may do
nothing for ever.

**Choice of `SaveFaults`.** `sink`, `reading`, `upload` and the theorems about
acknowledgements have "late_error", the fault after the rename, which leaves a 500
answer for something durable. With "error" `AckedDurable` is false (finding 1). With
"short" everything durable can be lost at once, with no error anywhere; what is true
then is `ReadableAppendOnly`: no *readable* snapshot ever has less than one
before it, since a process that finds a truncated one does not start. It is in
`sink_faults`; `DurableAppendOnly`, that nothing durable is ever lost, is proved where
writes are whole.

## 5. Findings

1. **An acknowledged chunk that is in no snapshot** (`sink_save_error`).
   `append_chunk` adds to memory before it saves and does not take the chunk back
   when the save raises. The client gets a 500 and resends; the chunk is found
   present and acknowledged ("Durably stored (or already present)", app.py 279);
   a crash before the next successful save loses it. `put_transcript` has the
   same order.
2. **A correction of a correction does not supersede** (`assembly_chain`).
   `revises_seq` redirects once, so the second correction becomes a text of its
   own. The docstring says that a chunk revising K supersedes K's content. Spec
   readers may differ on what a chain should mean; the run shows the difference.
3. **Overlapping commands lose a pin** (`trust_lost`). The later save writes a
   copy loaded before the earlier one saved. The URL is then open to first use
   again, though the spec names `trust reset` as the only way.
4. **A session that starts just before midnight** (`markdown_midnight`). Its
   first line, after midnight, is placed on the session's day and the file is
   refused for preceding the start.

## 6. What is proved

TLAPS checks every proof with SMT, Zenon and, for the temporal steps, LS4.

**The sink** (StoreProofs, SinkProofs). `SinkUsesStore` shows
that every step of Sink is a step of Store or leaves it alone, so facts about the
store are proved once, over Store alone:

- With *any* save fault: `StoreInv` = types, `LogUnambiguous`,
  `DiskBehindMemory`. The last is what makes it inductive: a save replaces the
  snapshot by the memory, so the snapshot is as good as the memory extends it.
  `SnapshotHeld` ties it to the last snapshot that could be read. From these follow
  `LogUnambiguous` and `ReadableAppendOnly`; where "short" is not among the faults,
  `DurableAppendOnly` too.
- `Provenance`, with any fault, needs `LogStarted` (where the handler is about to
  acknowledge, the session's log is not empty) and that an explanation by a prefix
  of a log survives the growth of the log.
- With `Reliable == Persistent /\ SaveFaults \subseteq {"late_error"}` (a save that
  ends has replaced the snapshot; it may raise after that): `ReliableInv` adds to
  `StoreInv` that nothing is torn, that memory and snapshot are equal whenever no
  save is in progress (`Settled`), and `HandlerInv`, which says of each place of
  the handler what is durable there. `AckedDurable` alone is not inductive: it
  needs `acks` to be durable before they are sent, and those need the chunk of
  `chunkStored` to be. From `ReliableInv`: `AckedDurable`, `ConfirmedDurable`,
  `AckedUnambiguous`, `HighWaterHonest`, `HighWaterMonotonic`, `CreatedOnce`.
- `FinalAckedAssembled` from `FinalsInv`: what the property says of sent
  acknowledgements and the snapshot, said too of the acknowledgements the handler
  has collected and of memory; `Settled` carries the one over to the other.
- `Refinement`: under `Reliable`, Spec implements DurableLog. `PendingInv` says
  what the change in memory is at each save, so that the save, or an error or a crash
  after its rename, is `Commit`, `PublishUpload` or `PublishSession`; every
  other step is an answer or a stutter.

**The client's trust store** (TrustProofs). With any number of processes, types
and `Coherent`; the lemma that matters is that `ResetUrl` and `Applied` keep the
two indexes in agreement, whatever copy they start from. Under
`Alone == \A p, q \in Proc : p = q` (one command at a time): `AcceptedPinned`,
`AlwaysLoadable`, `OnlyResetRebinds`, from `AloneInv`, which says of each step of
`save` what the temporary file holds and how the copy in memory relates to
`accepted`. `RefusalHasReason` (`RefusedOnlyByPin`) and `Refinement` (PinBoard) add
`AllAccepted`: every URL in the file is one that was accepted and not reset, so that
a mismatch is always with an accepted pin. Finding 3 is why `Alone` is needed.

**Attestation** (TrustProofs). `AttestUsesVerify`: every step is VerifyCli's or
leaves it alone, so the above holds against these machines. For any machines,
builds and nonces, any number of commands, and any number of bundles on the way:
`AttestInv` = types, `Coherent`, and

- `Keys`: a machine that is up has the key its mode gives it;
- `SeenServing`: a machine that serves has been seen by the commands that wait;
- `Fresh`: every bundle on the way was made by a machine, and by one that has been seen
  by the command that waits for its nonce, if there is one; no two commands wait
  for one nonce. This is what excludes bundles of other requests;
- `Unverified` (nothing is, before the attestation) and `VerifiedHasServed`.

It gives `VerifiedSinksHaveServed`; with `Keys`, which excludes the seed's key,
`PinnedKeysAreDerived`. These need nothing of the event log but that the quote is of
this nonce and key and that the agent of a genuine machine is honest about its app,
and nothing of `/v1/info` at all: what passes there has to say what was attested.

Two theorems are about the replay of the log, by induction over its length.
`HonestSinksVerify` (`GenuineVerifies`): under `HonestAgents` no genuine sink is
refused for its evidence. `HonestAgents` does not mention the replay: it says at which
places of the log the events stand that extended RTMR3, how each may be written, and
that the last event of a name has the reported value. `EventsAtPlaces` shows that the
loop finds those places. Nothing in the repository makes an agent honest, so it is a
hypothesis of the theorem, and MCAttestation has TLC check it of the builds of the
run. `RegisterBindsValues` is the converse: where dstack's events extended the
register, a log that passes and says a value does so by an event of that name and
value that was measured, or by an entry whose payload is the very text the runtime
hashed for some measured event. Nothing tells the digest of a payload from the digest
of an event, so the second case cannot be left out. It does not say that
the event was the last of its name.

**Reading** (ReadingProofs). `ReadUsesSink`: the sink beside readers is Sink, so
everything above holds. With any save fault: `RefusalIsFinal`, from `RefusedUnknown`
(a refused token is not in the dictionary), and `WindowsAreRight`, by arithmetic
over `Text`. Under `Reliable` and `Ranked` (ids have an order): `ReadInv`, whose
`ReaderOK` says of a tail that it has every chunk up to where it polled except late
ones and that its mark is a seq of the log (`TailOf`), and of a list that what was
there at its start and is not yet got lies behind `since`. The lemma about pages
(`EnoughFirst`: among n ranked things there are k with fewer than k before them) is
by the theorems on finite cardinalities; it is what makes a full page full.

**Upload** (UploadProofs). `UploadUsesSink`: UploadSpec implies Sink's Spec, so
everything above holds of the sink under upload commands. `UploadedFilesDurable`
(under `Reliable`) from `ReportInv`: what is signed on a connection (`SignedLasting`)
and what is reported (`ResultsLasting`) is of transcripts in a readable snapshot
(`Lasting`), which only grows; `SignedForLasts` says so of all that the sink ever
signs, so that a replayed body is as good as a new one.
`FileReportedCreatedOnce` needs a `Persistent` sink, holds with any save fault, and
leaves out the commands in `altered`, whose 201 the sink did not give them:
`CreatedInv` ties every other 201, on a connection or in a result, to one command
(`CreatedForOne`) and to a transcript the sink knows, in memory or snapshot
(`AllKnown`), so that the sink never again answers 201 for it; and a 201 is about a
file that the command has not concluded (`PostedNotCreated`).
`EachFileStoredOnce` holds with any save fault, from
`AuthorInv`: the key file, once it has a key, keeps it; every command that has an
author has that one; every document in flight or stored is by that author.

**Markdown** (MarkdownProofs). For a day of any length, any tolerance and files of
any length: `TimesRecovered` from `TimesInv`, whose `DayKnown` says that the day
offset is the day of the last line; the arithmetic is in the lemma
`ClockTellsDay` (two moments less than a day apart: the clock goes back exactly if
the day changes). `SegmentsAbut` from `OrderInv`, whose `RawInOrder` says raw
segments never go back, whatever the clocks. `SpeakersAreStable`: an id is the number
of labels that appeared up to the first line of its label, so the proof is about
the cardinalities of growing sets of labels, for any labels.

**Assembly** (AssemblyProofs, for MCAssembly's logs of any length, any number of
seqs and speakers). That the log is of chunks of different seqs is a lemma, by what
`append_chunk` refuses; what takes work is the function. `IncreasingSorts` shows by
cardinalities that `Increasing` is the sorted sequence; `FoldSteps` turns the fold
of the grouping loop into its successive values, `FlattenAppend` and `FlattenLonger`
do the same for the flattening of the texts, and `GroupingSays` is the loop's
invariant: after n chunks the segments say the texts of those chunks, and neighbours
differ in speaker. `TranscriptKeepsOrder` follows with `OrderedIs`;
`CorrectionsAlwaysApply` through `OnlyLatestSurvive` (a chunk's text is in the
transcript exactly if no later arrival speaks for its effective seq);
`TranscriptIgnoresArrival` through `SameChunksSameOrder`, which is about any two
logs of the same chunks. Finding 2 is why corrections must be of original chunks.

**Induction.** The library's induction theorems take an operator as a parameter, which
the provers cannot instantiate. NumberLemmas states induction for a *set* of numbers
(`SetInduction`: a set with 0 and closed under successor has all of Nat, from the
well-foundedness of `<`), and a recursive function, be it the model's or the one
in the definition of `FoldLeft` or `FlattenSeq`, is first shown to exist (`FoldExists`,
`JoinsExist`, `HistoryExists`) and then followed step by step.

**Checked by TLC only.** `CommandsEnd`: liveness is out of the prover's reach, and so
is ENABLED. Every safety property that a passing run checks is also proved, under the
hypotheses named above (`Reliable`, `Persistent`, `Alone`, `Ranked`,
`HonestAgents`), each of which holds in the run that checks the property.

## 7. Assumptions and abstractions

- `content_id` is taken to be collision-free, signatures to be unforgeable.
- A crash is the death of the process, at any point. After a rename the new
  snapshot counts as durable. Loss of power is not modelled; the sink syncs file
  and directory against it, the trust store and the key file do not.
- A request's body is chosen line by line while the handler runs, which covers
  every body; its limits and validation are nondeterministic rejections.
- Responses may or may not reach a client in Sink: clients may send anything at
  any time, so a retry needs no extra action. In UploadCli loss is explicit.
- `_save` is its outcomes, and its own steps are not interleaved with anything:
  it is synchronous and the process has one thread of handlers.
- Hashes are free of collisions, signatures unforgeable, and a quote that the
  verifier service calls verified is one the hardware made. The service, the guest
  agent and the hardware are external. The agent of a genuine machine is honest
  about the app it runs; it may fail whenever it is asked.
  `HonestAgents` is this assumption in full, for the event log too. Development quotes are
  not genuine. A nonce of 32 random bytes is new.
- Names of events contain no colon and every event is of dstack's type, so that the
  hashed text of an event tells its name from its payload. A machine of genuine
  hardware runs the sink's software: what other software on such hardware could put
  in the registers is the manifest's to refuse. A bundle or an `/v1/info` that is
  changed on the way fails its signature (`VerificationFails`).
- The measured values (app, compose and instance ids) are ones that read back as
  they were written: a value that is valid UTF-8 or JSON of another type by chance
  is read differently by `_event_payload_value` and its sink refused.
- A transcript's `created_at` has at most one digit of fraction and UTC as `Z` or
  `+00:00`; offsets other than zero, which order by the local time they name, are
  left out. The reader asks for a positive limit; a negative one slices the list
  from its end (app.py 298, store.py 104). Of the filters `session_id` stands for
  all that compare one field.
- In VerifyCli alone, a sink's redeployment changes its key, app and registers
  together or apart, at any moment between two requests of a command.
- Two writers of one temporary file leave one of the texts or a garbled one
  (`Garbled`), which does not parse. That a mix of both texts could parse by
  accident is left out.
- A chunk's fields are as typed. The lenient line model and the raw storage
  (hazard at app.py 246) are not modelled.
- Bounds in specifications: `LastDay` and `MaxLines` in Markdown, `LastTick` in
  Tokens, `Room` (machines up at a time) and `InFlight` (bundles on the way) in
  Attestation. Others are the sizes of the constant sets.

## 8. What is not modelled

Left out: the wire models and the canonical form (validation of one value, no
state), signing and key derivation (cryptography), configuration and `/v1/health`
(constant for the life of a process), the reading of a manifest file (it raises on
whatever is malformed), the choice of files and the wording of reports, and dry
runs, which send nothing.

Things met on the way that no run shows:

- A sink whose guest agent answers for the key but not for the metadata serves with
  a fallback app_id until it is restarted, and every client refuses it
  (`ReadInfoFails`), though the comment at attestation.py 242 calls this non-fatal.
- After a reset of one of several URLs of a sink its record stays, so that a
  redeployment with the same key is still refused under the URL that was reset;
  `docs/GETTING_STARTED.md` describes the reset as what makes it accepted.
  `RefusedOnlyByPin` says that this is the only way to be refused after a reset.
- `_save` ignores what `os.write` returns (store.py 179). A write that is short, as
  on a disk that is nearly full, is followed by fsync and rename all the same: the
  request is answered with success, all that was durable is gone, and the next
  start ends in `json.loads`. The comment above it (store.py 176) calls this a
  durable atomic replace. `sink_faults` has this fault and says what is left.
- `/v1/info` has no nonce (verify.py 123-136): an old signed answer passes if its
  key, app_id and compose_hash are those just attested. Nothing of it is pinned.
- `X-Sink-Signature` is over the body (app.py 76-78), so that neither the status nor
  the request it answers is authenticated: "created" is what the connection says,
  "stored" is what the sink signed.
- The digest of a payload and the digest of an event are both SHA-384 of bytes
  (verify.py 273, 303-311), so that an entry that carries an event's hashed text as
  its payload passes with that event's digest (`RegisterBindsValues`).
- RTMR3 is among what is pinned and is extended by the instance-id, so a second
  instance of the same release counts as a change.
- The docstring at identity.py 36 still calls the seed key a fallback for an agent
  that cannot be reached; `build_runtime` refuses to start instead
  (`DeriveFails`, `PinnedKeysDerived`).

## 9. The plan

Done: Assembly, Store, Sink with DurableLog, TrustStore and VerifyCli with PinBoard,
Evidence and Attestation, Tokens and Reading, Markdown, UploadCli, and the proofs
about them. Left:

1. **SnapshotFile**: the steps of `_save` over a file system that keeps or loses
   unsynced data, shown to implement Store's save outcomes, so that loss of power
   is covered too; the same for the trust store, which does not sync.
2. Theorems: the reader as an implementation of an abstract reader of DurableLog;
   the upload of files as one of a set of stored files that only grows.
3. Liveness of the sink: a stream that is resent until acknowledged is
   acknowledged, under fairness of the process and its restarts.
4. Larger instances of `reading`: two sessions that are streamed, two readers.
