------------------------------ MODULE UploadCli -----------------------------
(***************************************************************************)
(* voxterm-sink-upload upload (voxterm_sink_client/upload.py, identity.py, *)
(* http.py) against the sink: any number of commands of one user, each of  *)
(* which takes the author key of the home directory, or makes one, and     *)
(* posts its files one after the other.                                    *)
(*                                                                         *)
(* The commands have verified the sink (VerifyCli); an answer counts for   *)
(* an upload only with that sink's signature, which is over the body: over *)
(* no status, and over nothing that tells one request from another.        *)
(* Between commands and sink are the network and a gateway: a request may  *)
(* arrive after its command has given up on it, or never; an answer may be *)
(* lost, altered, the gateway's own, or one the sink once gave to another  *)
(* request. What is never delivered is lost, so losing takes no action of  *)
(* its own.                                                                *)
(*                                                                         *)
(* The sink is Sink, with its one action per step of POST /v1/transcript;  *)
(* every action of it here is Sink's action and the traffic it causes. A   *)
(* dry run posts nothing and is left out.                                  *)
(***************************************************************************)
EXTENDS Sink

CONSTANTS
  Command,     \* upload commands
  File,        \* files of the user
  Convertible, \* those build_transcript() can read
  Oversized,   \* those whose transcript exceeds max_transcript_bytes
  Paths,       \* Command -> the files it is given, in the order it takes them
  NoFile, Empty, \* the author key file: absent, or without a key in it
  NoAuthor, NoRequest, NoAnswer

\* What build_transcript() makes of a file, of a given hivemind and tags: its
\* content, its author, and nothing that differs from one command to the next.
Transcript(f, a) == [file |-> f, author |-> a]

ASSUME PathsAssumption == Paths \in [Command -> Seq(File)]
ASSUME FilesAssumption == Convertible \subseteq File /\ Oversized \subseteq File
ASSUME TranscriptsAssumption == \A f \in File, a \in Command : Transcript(f, a) \in Upload

\* The nth file of a command, posted to the sink.
Request == [from : Command, nth : Nat \ {0}, doc : Upload]
\* A response, and whether it carries the verified sink's signature.
Answer == [status : Nat, signed : BOOLEAN, doc : Upload]
Outcome == {"created", "already_stored", "failed"}

ASSUME NoneAssumption ==
  /\ {NoFile, Empty, NoAuthor} \cap Command = {} /\ NoFile # Empty
  /\ NoRequest \notin Request /\ NoAnswer \notin Answer

VARIABLES
  keyFile,   \* the author key file: NoFile, Empty, or the command whose key it holds
  at,        \* where a command is: see At
  author,    \* the key a command signs with
  result,    \* a command's outcomes, one per file taken
  requests,  \* requests on their way to the sink
  serving,   \* the request the sink's handler is saving
  answer,    \* what has come back on a command's connection
  dripping,  \* some of an answer has come since the command began to read
  altered    \* history: the commands that were given a signed 201 the sink did not
             \* answer them with

\* start: about to look for the key file. read: it is there. create: it is not.
\* write: the command has created it. next: between two files. waiting: for an
\* answer. done: the results are printed. refused: exit 2. killed: no process.
At == {"start", "read", "create", "write", "next", "waiting", "done", "refused", "killed"}

commandVars == <<keyFile, at, author, result>>
peerVars == <<dripping, altered>>
networkVars == <<requests, serving, answer, peerVars>>
uploadVars == <<vars, commandVars, networkVars>>

UploadInit ==
  /\ Init
  /\ keyFile = NoFile
  /\ at = [c \in Command |-> "start"]
  /\ author = [c \in Command |-> NoAuthor]
  /\ result = [c \in Command |-> <<>>]
  /\ requests = {}
  /\ serving = NoRequest
  /\ answer = [c \in Command |-> NoAnswer]
  /\ dripping = [c \in Command |-> FALSE]
  /\ altered = {}

-----------------------------------------------------------------------------
\* load_or_create_author(). A command's new key is named after the command.

Goto(c, place) == at' = [at EXCEPT ![c] = place]

LookForKey(c) ==
  /\ at[c] = "start"
  /\ Goto(c, IF keyFile = NoFile THEN "create" ELSE "read")
  /\ UNCHANGED <<vars, keyFile, author, result, networkVars>>

\* (ReadAnyKey and the other definitions that stand before the one they resemble
\* are faulty variants: the properties are tested against them, nothing uses them.)
ReadAnyKey(c) ==
  /\ at[c] = "read"
  /\ author' = [author EXCEPT ![c] = keyFile]
  /\ Goto(c, "next")
  /\ UNCHANGED <<vars, keyFile, result, networkVars>>
ReadKey(c) ==
  /\ at[c] = "read" /\ keyFile \in Command
  /\ author' = [author EXCEPT ![c] = keyFile]
  /\ Goto(c, "next")
  /\ UNCHANGED <<vars, keyFile, result, networkVars>>

\* The file is empty (another command is writing it, or was killed before), or
\* was removed meanwhile.
ReadNoKey(c) ==
  /\ at[c] = "read" /\ keyFile \notin Command
  /\ Goto(c, "refused")
  /\ UNCHANGED <<vars, keyFile, author, result, networkVars>>

\* O_EXCL: the file is created here, or the command fails.
CreateOrTruncate(c) ==
  /\ at[c] = "create"
  /\ keyFile' = Empty
  /\ Goto(c, "write")
  /\ UNCHANGED <<vars, author, result, networkVars>>
CreateKey(c) ==
  /\ at[c] = "create"
  /\ keyFile' = IF keyFile = NoFile THEN Empty ELSE keyFile
  /\ Goto(c, IF keyFile = NoFile THEN "write" ELSE "refused")
  /\ UNCHANGED <<vars, author, result, networkVars>>

WriteKey(c) ==
  /\ at[c] = "write"
  /\ keyFile' = c
  /\ author' = [author EXCEPT ![c] = c]
  /\ Goto(c, "next")
  /\ UNCHANGED <<vars, result, networkVars>>

WriteKeyRaises(c) ==
  /\ at[c] = "write"
  /\ keyFile' = NoFile
  /\ Goto(c, "refused")
  /\ UNCHANGED <<vars, author, result, networkVars>>

-----------------------------------------------------------------------------
\* upload_files(): one file after the other.

Nth(c) == Len(result[c]) + 1
ToTake(c) == at[c] = "next" /\ Nth(c) <= Len(Paths[c])
TheFile(c) == Paths[c][Nth(c)]
TheTranscript(c) == Transcript(TheFile(c), author[c])

Conclude(c, outcome) ==
  /\ result' = [result EXCEPT ![c] = Append(@, outcome)]
  /\ Goto(c, "next")
  /\ answer' = [answer EXCEPT ![c] = NoAnswer]
  /\ dripping' = [dripping EXCEPT ![c] = FALSE]

\* The file cannot be read or parsed.
BuildRaises(c) ==
  /\ ToTake(c) /\ TheFile(c) \notin Convertible
  /\ Conclude(c, "failed")
  /\ UNCHANGED <<vars, keyFile, author, requests, serving, altered>>

Post(c) ==
  /\ ToTake(c) /\ TheFile(c) \in Convertible
  /\ requests' = requests \cup {[from |-> c, nth |-> Nth(c), doc |-> TheTranscript(c)]}
  /\ Goto(c, "waiting")
  /\ UNCHANGED <<vars, keyFile, author, result, serving, answer, peerVars>>

\* _handle_upload_response(): 200 and 201 count with the sink's signature and the
\* transcript's id; everything else is a failure of this file.
AcceptedUnsigned(c, a) == a.status \in {200, 201} /\ a.doc = TheTranscript(c)
Accepted(c, a) == a.status \in {200, 201} /\ a.signed /\ a.doc = TheTranscript(c)

AnyStatus(status) == "created"
Status(status) == IF status = 201 THEN "created" ELSE "already_stored"

HandleResponse(c) ==
  /\ at[c] = "waiting" /\ answer[c] # NoAnswer
  /\ Conclude(c, IF Accepted(c, answer[c]) THEN Status(answer[c].status) ELSE "failed")
  /\ UNCHANGED <<vars, keyFile, author, requests, serving, altered>>

\* The 30 s of the transport are over without a byte: they are for each operation on
\* the socket, and begin anew with the next. What was sent may still arrive.
TimeOutAndRetry(c) ==
  /\ at[c] = "waiting" /\ ~dripping[c]
  /\ Goto(c, "next")
  /\ answer' = [answer EXCEPT ![c] = NoAnswer]
  /\ UNCHANGED <<vars, keyFile, author, result, requests, serving, peerVars>>
TimeOut(c) ==
  /\ at[c] = "waiting" /\ ~dripping[c]
  /\ Conclude(c, "failed")
  /\ UNCHANGED <<vars, keyFile, author, requests, serving, altered>>
ReadOn(c) ==
  /\ at[c] = "waiting" /\ dripping[c] /\ answer[c] = NoAnswer
  /\ dripping' = [dripping EXCEPT ![c] = FALSE]
  /\ UNCHANGED <<vars, commandVars, requests, serving, answer, altered>>

ConnectionBreaks(c) ==
  /\ at[c] = "waiting"
  /\ Conclude(c, "failed")
  /\ UNCHANGED <<vars, keyFile, author, requests, serving, altered>>

Report(c) ==
  /\ at[c] = "next" /\ Nth(c) > Len(Paths[c])
  /\ Goto(c, "done")
  /\ UNCHANGED <<vars, keyFile, author, result, networkVars>>

Kill(c) ==
  /\ at[c] \notin {"done", "refused", "killed"}
  /\ Goto(c, "killed")
  /\ answer' = [answer EXCEPT ![c] = NoAnswer]
  /\ dripping' = [dripping EXCEPT ![c] = FALSE]
  /\ UNCHANGED <<vars, keyFile, author, result, requests, serving, altered>>

-----------------------------------------------------------------------------
\* The sink takes a request and answers it. The answer is lost if the command has
\* gone on to another file or something else has answered before.

Listening(r) == at[r.from] = "waiting" /\ r.nth = Nth(r.from) /\ answer[r.from] = NoAnswer
Answered(r, status, signed) ==
  answer' = IF Listening(r)
            THEN [answer EXCEPT ![r.from] = [status |-> status, signed |-> signed, doc |-> r.doc]]
            ELSE answer

Taken(r) ==
  /\ r \in requests
  /\ requests' = requests \ {r}
  /\ UNCHANGED <<commandVars, peerVars>>

TakeOversized(r) ==
  /\ Taken(r) /\ r.doc.file \in Oversized
  /\ RejectTranscript /\ reply'.status = 413
  /\ Answered(r, 413, FALSE)
  /\ UNCHANGED serving

TakeKnown(r) ==
  /\ Taken(r) /\ r.doc.file \notin Oversized
  /\ PostKnownTranscript(r.doc)
  /\ Answered(r, 200, TRUE)
  /\ UNCHANGED serving

TakeNew(r) ==
  /\ Taken(r) /\ r.doc.file \notin Oversized
  /\ PostNewTranscript(r.doc, TRUE)
  /\ serving' = r
  /\ UNCHANGED answer

SaveConfirmed ==
  /\ PostedSaved
  /\ Answered(serving, 201, TRUE)
  /\ serving' = NoRequest
  /\ UNCHANGED <<commandVars, requests, peerVars>>

SaveFailed ==
  /\ SaveFails
  /\ Answered(serving, 500, FALSE)
  /\ serving' = NoRequest
  /\ UNCHANGED <<commandVars, requests, peerVars>>

CrashWhileServing ==
  /\ SinkCrash
  /\ serving' = NoRequest
  /\ UNCHANGED <<commandVars, requests, answer, peerVars>>

Restart == SinkStart /\ UNCHANGED <<commandVars, networkVars>>

\* The transcripts the sink has signed a body about: an answer to a post, or to
\* GET /v1/transcript/{id}, which finds what is saved or has failed to be.
SignedFor ==
  confirmed \cup DOMAIN diskTranscripts \cup IF up /\ ~saving THEN DOMAIN transcripts ELSE {}

\* The gateway answers in the sink's place, before the request reaches the sink or
\* while it does, or instead of an answer that is on its way: with a body of its own
\* that has no signature, or with one that the sink has signed, and with either
\* status. (With another it fails the file, as an unsigned answer does.)
AnsweredElsewhere(c) ==
  /\ at[c] = "waiting"
  /\ \E status \in {200, 201}, signed \in BOOLEAN :
       /\ \E d \in IF signed THEN SignedFor ELSE {TheTranscript(c)} :
            answer' = [answer EXCEPT ![c] = [status |-> status, signed |-> signed, doc |-> d]]
       /\ altered' = IF signed /\ status = 201 THEN altered \cup {c} ELSE altered
  /\ UNCHANGED <<vars, commandVars, requests, serving, dripping>>

\* It sends some of an answer.
Drip(c) ==
  /\ at[c] = "waiting" /\ answer[c] = NoAnswer
  /\ dripping' = [dripping EXCEPT ![c] = TRUE]
  /\ UNCHANGED <<vars, commandVars, requests, serving, answer, altered>>

-----------------------------------------------------------------------------
\* What a command does by itself.
CommandStep(c) ==
  \/ LookForKey(c) \/ ReadKey(c) \/ ReadNoKey(c)
  \/ CreateKey(c) \/ WriteKey(c) \/ WriteKeyRaises(c)
  \/ BuildRaises(c) \/ Post(c) \/ HandleResponse(c) \/ TimeOut(c) \/ ReadOn(c)
  \/ Report(c)

\* What happens to it.
Befalls(c) == Kill(c) \/ ConnectionBreaks(c) \/ AnsweredElsewhere(c) \/ Drip(c)

SinkStep ==
  \/ \E r \in requests : TakeOversized(r) \/ TakeKnown(r) \/ TakeNew(r)
  \/ SaveConfirmed \/ SaveFailed
  \/ CrashWhileServing \/ Restart

UploadNext ==
  \/ \E c \in Command : CommandStep(c) \/ Befalls(c)
  \/ SinkStep

\* A command is run by the operating system until it ends, and the transport's
\* timeout ends every wait for a byte (http.py:46). Nothing is assumed of the sink,
\* the gateway or the network, which may send a byte in time again and again.
UploadSpec ==
  UploadInit /\ [][UploadNext]_uploadVars /\ \A c \in Command : WF_uploadVars(CommandStep(c))

-----------------------------------------------------------------------------
\* Properties.

\* The types; the sink is saving a request's transcript exactly while it serves
\* one and has no others, and a command that posts has an author.
UploadTypeOK ==
  /\ keyFile \in Command \cup {NoFile, Empty}
  /\ at \in [Command -> At]
  /\ author \in [Command -> Command \cup {NoAuthor}]
  /\ result \in [Command -> Seq(Outcome)]
  /\ \A c \in Command :
       IF at[c] = "waiting" THEN Nth(c) <= Len(Paths[c]) ELSE Len(result[c]) <= Len(Paths[c])
  /\ requests \subseteq Request
  /\ serving \in Request \cup {NoRequest}
  /\ answer \in [Command -> Answer \cup {NoAnswer}]
  /\ dripping \in [Command -> BOOLEAN] /\ altered \subseteq Command
  /\ \A c \in Command : at[c] \in {"next", "waiting", "done"} => author[c] \in Command
  /\ pc = IF serving = NoRequest THEN "idle" ELSE "posted"
  /\ pc = "posted" => doc = serving.doc
  /\ confirmed \cup DOMAIN transcripts \cup DOMAIN diskTranscripts \subseteq Upload

Uploaded(c, i) == result[c][i] \in {"created", "already_stored"}

\* A file reported as uploaded is durable in the verified sink, whatever was lost,
\* late, altered or repeated, and whenever the sink crashes (upload.py:86-93).
UploadedDurable ==
  \A c \in Command : \A i \in DOMAIN result[c] :
    Uploaded(c, i) => DurableTranscript(Transcript(Paths[c][i], author[c]))

\* However often a file is uploaded, by commands that overlap, time out or are
\* killed, and even at the user's first use, the sink stores it once: all
\* commands have one author (identity.py:42-66).
FileStoredOnce ==
  \A d, e \in DOMAIN transcripts \cup DOMAIN diskTranscripts : d.file = e.file => d = e

\* One command at most reports a file as newly stored (upload.py:89), as long as no
\* gateway turns a signed answer into a 201, which the signature does not prevent
\* (app.py:76-78).
CreatedReportedOnce ==
  \A c, d \in Command \ altered : \A i \in DOMAIN result[c], j \in DOMAIN result[d] :
    result[c][i] = "created" /\ result[d][j] = "created" /\ Paths[c][i] = Paths[d][j]
      => c = d /\ i = j

\* "The CLI SHOULD continue uploading remaining files after a per-file failure"
\* (spec, upload CLI, 9): a command that is not killed ends, and one that gets its
\* author key gives every file an outcome, unless an answer comes in without end.
Ended(c) ==
  \/ at[c] \in {"refused", "killed"}
  \/ at[c] = "done" /\ Len(result[c]) = Len(Paths[c])
CommandsEnd == \A c \in Command : <>Ended(c) \/ []<>dripping[c]
=============================================================================
