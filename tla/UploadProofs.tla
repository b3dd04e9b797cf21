---------------------------- MODULE UploadProofs ----------------------------
(***************************************************************************)
(* What upload commands report, and what they store, for any number of     *)
(* commands and files. The commands drive the sink through its own         *)
(* actions, so what SinkProofs proves of it holds here.                    *)
(***************************************************************************)
EXTENDS UploadCli, SinkProofs

LEMMA LastOrBefore ==
  ASSUME NEW S, NEW s \in Seq(S), NEW e \in S, NEW i \in DOMAIN Append(s, e)
  PROVE  \/ i \in DOMAIN s /\ Append(s, e)[i] = s[i]
         \/ i = Len(s) + 1 /\ Append(s, e)[i] = e
<1>1. Len(s) \in Nat /\ DOMAIN s = 1..Len(s) /\ i \in 1..(Len(s) + 1)
  OBVIOUS
<1>2. CASE i = Len(s) + 1
  BY <1>2
<1>3. CASE i \in 1..Len(s)
  BY <1>1, <1>3, AppendProperties
<1> QED BY <1>1, <1>2, <1>3

LEMMA NthFile ==
  ASSUME UploadTypeOK, NEW c \in Command, ToTake(c) \/ at[c] = "waiting"
  PROVE  /\ Nth(c) \in Nat \ {0} /\ Nth(c) \in DOMAIN Paths[c] /\ TheFile(c) \in File
         /\ author[c] \in Command /\ TheTranscript(c) \in Upload
<1>1. result[c] \in Seq(Outcome) /\ Paths[c] \in Seq(File)
  BY PathsAssumption DEF UploadTypeOK
<1>2. Nth(c) \in Nat \ {0} /\ Nth(c) \in DOMAIN Paths[c]
  <2>1. Nth(c) <= Len(Paths[c])
    BY DEF UploadTypeOK, ToTake
  <2> QED BY <1>1, <2>1 DEF Nth
<1>3. TheFile(c) \in File
  BY <1>1, <1>2 DEF TheFile
<1>4. author[c] \in Command
  BY DEF UploadTypeOK, ToTake
<1> QED BY <1>2, <1>3, <1>4, TranscriptsAssumption DEF TheTranscript

-----------------------------------------------------------------------------
\* Every step is a step of the sink, or leaves it alone.
LEMMA CommandLeavesSink ==
  ASSUME NEW c \in Command, CommandStep(c) \/ Befalls(c) PROVE UNCHANGED vars
BY DEF CommandStep, LookForKey, ReadKey, ReadNoKey, CreateKey, WriteKey, WriteKeyRaises,
       BuildRaises, Post, HandleResponse, TimeOut, ReadOn, Report,
       Befalls, Kill, ConnectionBreaks, AnsweredElsewhere, Drip

LEMMA UploadStepIsSinkStep ==
  ASSUME UploadTypeOK, [UploadNext]_uploadVars PROVE [Next]_vars
<1>1. ASSUME NEW c \in Command, CommandStep(c) \/ Befalls(c)
      PROVE  UNCHANGED vars
  BY <1>1, CommandLeavesSink
<1>2. ASSUME NEW r \in requests, TakeOversized(r) \/ TakeKnown(r) \/ TakeNew(r)
      PROVE  Next
  <2>1. r.doc \in Upload
    BY DEF UploadTypeOK, Request
  <2> QED BY <1>2, <2>1 DEF TakeOversized, TakeKnown, TakeNew, Next
<1>3. ASSUME SaveConfirmed \/ SaveFailed \/ CrashWhileServing \/ Restart
      PROVE  Next
  BY <1>3 DEF SaveConfirmed, SaveFailed, CrashWhileServing, Restart, Next
<1>4. CASE UNCHANGED uploadVars
  BY <1>4 DEF uploadVars
<1> QED BY <1>1, <1>2, <1>3, <1>4 DEF UploadNext, SinkStep

-----------------------------------------------------------------------------
\* Types, in three parts: the key file, the files taken, the traffic.
CommandsOK ==
  /\ keyFile \in Command \cup {NoFile, Empty}
  /\ at \in [Command -> At]
  /\ author \in [Command -> Command \cup {NoAuthor}]
  /\ \A c \in Command : at[c] \in {"next", "waiting", "done"} => author[c] \in Command
ResultsOK ==
  /\ result \in [Command -> Seq(Outcome)]
  /\ \A c \in Command :
       IF at[c] = "waiting" THEN Nth(c) <= Len(Paths[c]) ELSE Len(result[c]) <= Len(Paths[c])
TrafficOK ==
  /\ requests \subseteq Request
  /\ serving \in Request \cup {NoRequest}
  /\ answer \in [Command -> Answer \cup {NoAnswer}]
  /\ dripping \in [Command -> BOOLEAN] /\ altered \subseteq Command
ServingOK ==
  /\ pc = IF serving = NoRequest THEN "idle" ELSE "posted"
  /\ pc = "posted" => doc = serving.doc
  /\ confirmed \cup DOMAIN transcripts \cup DOMAIN diskTranscripts \subseteq Upload

\* The commands leave the sink alone, and the sink takes nothing but requests.
StoredDocs == DOMAIN transcripts \cup DOMAIN diskTranscripts

\* What a step of the sink adds to its transcripts is the request's.
LEMMA StoredStep ==
  ASSUME SinkStep
  PROVE  /\ \A d \in StoredDocs' : d \in StoredDocs \/ \E r \in requests : d = r.doc
         /\ UNCHANGED commandVars /\ requests' \subseteq requests
<1>1. ASSUME NEW r \in requests, TakeOversized(r) \/ TakeKnown(r)
      PROVE  UNCHANGED <<transcripts, diskTranscripts>>
  BY <1>1 DEF TakeOversized, TakeKnown, RejectTranscript, PostKnownTranscript, storeVars
<1>2. ASSUME NEW r \in requests, TakeNew(r)
      PROVE  DOMAIN transcripts' = DOMAIN transcripts \cup {r.doc}
             /\ diskTranscripts' = diskTranscripts
  BY <1>2 DEF TakeNew, PostNewTranscript, PutTranscript, disk
<1>3. ASSUME SaveConfirmed \/ SaveFailed
      PROVE  /\ transcripts' = transcripts
             /\ \/ diskTranscripts' \in {transcripts, diskTranscripts}
                \/ DOMAIN diskTranscripts' = {}
  BY <1>3 DEF NoTranscripts, SaveConfirmed, SaveFailed, PostedSaved, SaveFails, SaveReturns, SaveRaises,
     SaveRaisesLate, SaveTears, ReplaceSnapshot, memory, disk
<1>4. ASSUME CrashWhileServing
      PROVE  /\ DOMAIN transcripts' = {}
             /\ diskTranscripts' \in {transcripts, diskTranscripts}
  BY <1>4 DEF CrashWhileServing, SinkCrash, Crash, LoseMemory, NoTranscripts, ReplaceSnapshot, disk
<1>5. ASSUME Restart
      PROVE  transcripts' = diskTranscripts /\ diskTranscripts' = diskTranscripts
  BY <1>5 DEF Restart, SinkStart, Start, disk
<1>6. UNCHANGED commandVars /\ requests' \subseteq requests
  BY DEF SinkStep, TakeOversized, TakeKnown, TakeNew, Taken, SaveConfirmed, SaveFailed,
     CrashWhileServing, Restart, networkVars
<1>7. \A d \in StoredDocs' : d \in StoredDocs \/ \E r \in requests : d = r.doc
  BY <1>1, <1>2, <1>3, <1>4, <1>5 DEF StoredDocs, SinkStep
<1> QED BY <1>6, <1>7

LEMMA ServingKept == ASSUME ServingOK, UNCHANGED <<vars, serving>> PROVE ServingOK'
BY DEF ServingOK, vars, handlerVars, storeVars, clientVars

LEMMA TypeParts == UploadTypeOK <=> CommandsOK /\ ResultsOK /\ TrafficOK /\ ServingOK
BY DEF UploadTypeOK, CommandsOK, ResultsOK, TrafficOK, ServingOK

\* Every command goes on to one of its places.
LEMMA KeyStep ==
  ASSUME UploadTypeOK, NEW c \in Command,
         \/ LookForKey(c) \/ ReadKey(c) \/ ReadNoKey(c) \/ CreateKey(c) \/ WriteKey(c)
         \/ WriteKeyRaises(c)
  PROVE  UploadTypeOK'
<1>1. CommandsOK /\ ResultsOK /\ TrafficOK /\ ServingOK
  BY TypeParts
<1>2. /\ UNCHANGED <<vars, result, networkVars>>
      /\ \E place \in At \ {"waiting"} : Goto(c, place)
  BY DEF LookForKey, ReadKey, ReadNoKey, CreateKey, WriteKey, WriteKeyRaises, At
<1>3. at[c] # "waiting"
  BY DEF LookForKey, ReadKey, ReadNoKey, CreateKey, WriteKey, WriteKeyRaises
<1>4. CommandsOK'
  BY <1>1 DEF CommandsOK, LookForKey, ReadKey, ReadNoKey, CreateKey, WriteKey, WriteKeyRaises,
       Goto, At
<1>5. ResultsOK'
  BY <1>1, <1>2, <1>3 DEF ResultsOK, CommandsOK, Goto, Nth
<1>6. TrafficOK' /\ ServingOK'
  BY <1>1, <1>2, ServingKept DEF TrafficOK, networkVars, peerVars
<1> QED BY <1>4, <1>5, <1>6 DEF UploadTypeOK, CommandsOK, ResultsOK, TrafficOK, ServingOK

LEMMA ConcludeStep ==
  ASSUME UploadTypeOK, NEW c \in Command, NEW outcome \in Outcome,
         ToTake(c) \/ at[c] = "waiting", Conclude(c, outcome),
         UNCHANGED <<vars, keyFile, author, requests, serving, altered>>
  PROVE  UploadTypeOK'
<1>1. CommandsOK /\ ResultsOK /\ TrafficOK /\ ServingOK
  BY TypeParts
<1>2. Nth(c) \in DOMAIN Paths[c] /\ author[c] \in Command
  BY NthFile
<1>3. CommandsOK'
  BY <1>1, <1>2 DEF CommandsOK, Conclude, Goto, At
<1>4. ResultsOK'
  <2>1. result[c] \in Seq(Outcome) /\ Paths[c] \in Seq(File)
    BY <1>1, PathsAssumption DEF ResultsOK
  <2>2. /\ Append(result[c], outcome) \in Seq(Outcome)
        /\ Len(Append(result[c], outcome)) <= Len(Paths[c])
    BY <1>2, <2>1 DEF Nth
  <2>3. /\ result' = [result EXCEPT ![c] = Append(@, outcome)]
        /\ at' = [at EXCEPT ![c] = "next"]
    BY DEF Conclude, Goto
  <2>4. result' \in [Command -> Seq(Outcome)]
    BY <1>1, <2>2, <2>3 DEF ResultsOK
  <2>5. \A d \in Command :
          IF at'[d] = "waiting" THEN Len(result'[d]) + 1 <= Len(Paths[d])
                                ELSE Len(result'[d]) <= Len(Paths[d])
    BY <1>1, <2>2, <2>3 DEF ResultsOK, CommandsOK, Nth
  <2> QED BY <2>4, <2>5 DEF ResultsOK, Nth
<1>5. TrafficOK' /\ ServingOK'
  BY <1>1, ServingKept DEF TrafficOK, Conclude
<1> QED BY <1>3, <1>4, <1>5 DEF UploadTypeOK, CommandsOK, ResultsOK, TrafficOK, ServingOK

LEMMA PostStep ==
  ASSUME UploadTypeOK, NEW c \in Command, Post(c)
  PROVE  UploadTypeOK'
<1>1. CommandsOK /\ ResultsOK /\ TrafficOK /\ ServingOK
  BY TypeParts
<1>2. ToTake(c) /\ UNCHANGED <<vars, keyFile, author, result, serving, answer, peerVars>>
  BY DEF Post
<1>3. /\ Nth(c) \in Nat \ {0} /\ author[c] \in Command /\ TheTranscript(c) \in Upload
      /\ Nth(c) <= Len(Paths[c])
  BY <1>2, NthFile DEF ToTake
<1>4. CommandsOK'
  BY <1>1, <1>2, <1>3 DEF CommandsOK, Post, Goto, At
<1>5. ResultsOK'
  BY <1>1, <1>2, <1>3 DEF ResultsOK, CommandsOK, Post, Goto, Nth
<1>6. requests' \subseteq Request
  <2>1. [from |-> c, nth |-> Nth(c), doc |-> TheTranscript(c)] \in Request
    BY <1>3 DEF Request
  <2> QED BY <1>1, <2>1 DEF TrafficOK, Post
<1>7. TrafficOK' /\ ServingOK'
  BY <1>1, <1>2, <1>6, ServingKept DEF TrafficOK, peerVars
<1> QED BY <1>4, <1>5, <1>7 DEF UploadTypeOK, CommandsOK, ResultsOK, TrafficOK, ServingOK

\* A command ends, with its results or without.
LEMMA EndStep ==
  ASSUME UploadTypeOK, NEW c \in Command, Report(c) \/ Kill(c)
  PROVE  UploadTypeOK'
<1>1. CommandsOK /\ ResultsOK /\ TrafficOK /\ ServingOK
  BY TypeParts
<1>2. UNCHANGED <<vars, keyFile, author, result, requests, serving, altered>>
  BY DEF Report, Kill, networkVars, peerVars
<1>3. CommandsOK'
  BY <1>1, <1>2 DEF CommandsOK, Report, Kill, Goto, At
<1>4. ResultsOK'
  <2>1. result[c] \in Seq(Outcome) /\ Paths[c] \in Seq(File)
    BY <1>1, PathsAssumption DEF ResultsOK
  <2>2. Len(result[c]) <= Len(Paths[c])
    BY <1>1, <2>1 DEF ResultsOK, Nth
  <2>3. \E place \in At \ {"waiting"} : at' = [at EXCEPT ![c] = place]
    BY DEF Report, Kill, Goto, At
  <2> QED BY <1>1, <1>2, <2>2, <2>3 DEF ResultsOK, CommandsOK, Nth
<1>5. answer' \in [Command -> Answer \cup {NoAnswer}] /\ dripping' \in [Command -> BOOLEAN]
  BY <1>1 DEF TrafficOK, Report, Kill, networkVars, peerVars
<1>6. TrafficOK' /\ ServingOK'
  BY <1>1, <1>2, <1>5, ServingKept DEF TrafficOK
<1> QED BY <1>3, <1>4, <1>6 DEF UploadTypeOK, CommandsOK, ResultsOK, TrafficOK, ServingOK

\* Something has come back on a connection, or nothing has.
LEMMA TrafficStep ==
  ASSUME UploadTypeOK, UNCHANGED commandVars, TrafficOK', ServingOK'
  PROVE  UploadTypeOK'
<1>1. CommandsOK /\ ResultsOK
  BY TypeParts
<1>2. CommandsOK' /\ ResultsOK'
  BY <1>1 DEF CommandsOK, ResultsOK, commandVars, Nth
<1> QED BY <1>2 DEF UploadTypeOK, CommandsOK, ResultsOK, TrafficOK, ServingOK

LEMMA AnsweredType ==
  ASSUME UploadTypeOK, NEW r \in Request, NEW status \in Nat, NEW signed \in BOOLEAN,
         Answered(r, status, signed)
  PROVE  answer' \in [Command -> Answer \cup {NoAnswer}]
<1>1. r.doc \in Upload /\ answer \in [Command -> Answer \cup {NoAnswer}]
  BY DEF UploadTypeOK, Request
<1>2. [status |-> status, signed |-> signed, doc |-> r.doc] \in Answer
  BY <1>1 DEF Answer
<1> QED BY <1>1, <1>2 DEF Answered

\* What the gateway makes of an answer.
LEMMA ElsewhereGives ==
  ASSUME NEW c \in Command, AnsweredElsewhere(c)
  PROVE  \E a \in [status : {200, 201}, signed : BOOLEAN, doc : SignedFor \cup {TheTranscript(c)}] :
           /\ answer' = [answer EXCEPT ![c] = a]
           /\ a.signed => a.doc \in SignedFor
           /\ altered' = IF a.signed /\ a.status = 201 THEN altered \cup {c} ELSE altered
<1>1. PICK status \in {200, 201}, signed \in BOOLEAN :
        /\ \E d \in IF signed THEN SignedFor ELSE {TheTranscript(c)} :
             answer' = [answer EXCEPT ![c] = [status |-> status, signed |-> signed, doc |-> d]]
        /\ altered' = IF signed /\ status = 201 THEN altered \cup {c} ELSE altered
  BY Zenon DEF AnsweredElsewhere
<1>2. PICK d \in IF signed THEN SignedFor ELSE {TheTranscript(c)} :
        answer' = [answer EXCEPT ![c] = [status |-> status, signed |-> signed, doc |-> d]]
  BY <1>1, Zenon
<1> DEFINE a == [status |-> status, signed |-> signed, doc |-> d]
<1>3. a \in [status : {200, 201}, signed : BOOLEAN, doc : SignedFor \cup {TheTranscript(c)}]
  <2>1. d \in SignedFor \cup {TheTranscript(c)}
    BY <1>2
  <2> QED BY <2>1
<1>4. a.status = status /\ a.signed = signed /\ a.doc = d
  OBVIOUS
<1>5. answer' = [answer EXCEPT ![c] = a]
  BY <1>2, Zenon
<1> HIDE DEF a
<1>6. a.signed => a.doc \in SignedFor
  BY <1>2, <1>4
<1>7. altered' = IF a.signed /\ a.status = 201 THEN altered \cup {c} ELSE altered
  BY <1>1, <1>4, Zenon
<1> QED BY <1>3, <1>5, <1>6, <1>7, Zenon

LEMMA ElsewhereStep ==
  ASSUME UploadTypeOK, NEW c \in Command, AnsweredElsewhere(c) \/ ReadOn(c) \/ Drip(c)
  PROVE  UploadTypeOK'
<1>1. TrafficOK /\ ServingOK
  BY TypeParts
<1>2. UNCHANGED <<vars, commandVars, requests, serving>> /\ at[c] = "waiting"
  BY DEF AnsweredElsewhere, ReadOn, Drip
<1>3. answer' \in [Command -> Answer \cup {NoAnswer}] /\ altered' \subseteq Command
  <2>1. CASE AnsweredElsewhere(c)
    <3>1. TheTranscript(c) \in Upload /\ SignedFor \subseteq Upload
      BY <1>1, <1>2, NthFile DEF ServingOK, SignedFor
    <3>2. PICK a \in [status : {200, 201}, signed : BOOLEAN, doc : SignedFor \cup {TheTranscript(c)}] :
            answer' = [answer EXCEPT ![c] = a]
      BY <2>1, ElsewhereGives
    <3>3. a \in Answer
      BY <3>1, <3>2 DEF Answer
    <3>4. answer' \in [Command -> Answer \cup {NoAnswer}]
      BY <1>1, <3>2, <3>3 DEF TrafficOK
    <3>5. altered' \subseteq Command
      BY <1>1, <2>1 DEF TrafficOK, AnsweredElsewhere
    <3> QED BY <3>4, <3>5
  <2>2. CASE ReadOn(c) \/ Drip(c)
    BY <1>1, <2>2 DEF TrafficOK, ReadOn, Drip
  <2> QED BY <2>1, <2>2
<1>4. dripping' \in [Command -> BOOLEAN]
  BY <1>1 DEF TrafficOK, AnsweredElsewhere, ReadOn, Drip
<1>5. TrafficOK' /\ ServingOK'
  BY <1>1, <1>2, <1>3, <1>4, ServingKept DEF TrafficOK
<1> QED BY <1>2, <1>5, TrafficStep

\* What the sink has it has been sent.
LEMMA DocsStep ==
  ASSUME UploadTypeOK, SinkStep
  PROVE  confirmed' \cup DOMAIN transcripts' \cup DOMAIN diskTranscripts' \subseteq Upload
<1>1. ServingOK /\ \A r \in requests : r.doc \in Upload
  BY TypeParts DEF TrafficOK, Request
<1>2. SaveConfirmed => doc \in Upload
  BY <1>1, TypeParts DEF ServingOK, TrafficOK, Request, SaveConfirmed, PostedSaved
<1>3. \A d \in confirmed' : d \in confirmed \/ d \in Upload
  BY <1>1, <1>2 DEF SinkStep, TakeOversized, TakeKnown, TakeNew, SaveConfirmed, SaveFailed,
     CrashWhileServing, Restart, RejectTranscript, Fail, PostKnownTranscript, PostNewTranscript,
     PostedSaved, SaveFails, SinkCrash, SinkStart, Confirm, clientVars
<1> QED BY <1>1, <1>3, StoredStep DEF ServingOK, StoredDocs

LEMMA TakeStep ==
  ASSUME UploadTypeOK, NEW r \in requests, TakeOversized(r) \/ TakeKnown(r) \/ TakeNew(r)
  PROVE  UploadTypeOK'
<1>1. TrafficOK /\ ServingOK /\ r \in Request /\ r # NoRequest
  BY TypeParts, NoneAssumption DEF TrafficOK
<1>2. /\ UNCHANGED <<commandVars, peerVars>>
      /\ requests' = requests \ {r} /\ requests' \subseteq Request
      /\ confirmed' \cup DOMAIN transcripts' \cup DOMAIN diskTranscripts' \subseteq Upload
  BY <1>1, DocsStep DEF TakeOversized, TakeKnown, TakeNew, Taken, TrafficOK, SinkStep
<1>3. CASE TakeOversized(r)
  <2>1. answer' \in [Command -> Answer \cup {NoAnswer}]
    <3>1. Answered(r, 413, FALSE)
      BY <1>3 DEF TakeOversized
    <3>2. \A status \in Nat, signed \in BOOLEAN : Answered(r, status, signed) =>
            answer' \in [Command -> Answer \cup {NoAnswer}]
      BY <1>1, AnsweredType
    <3>3. 413 \in Nat
      OBVIOUS
    <3> QED BY <3>1, <3>2, <3>3, Zenon
  <2>2. pc = "idle" /\ pc' = "idle" /\ serving' = serving
    BY <1>3 DEF TakeOversized, RejectTranscript, Fail, HandlerIdle
  <2>3. TrafficOK' /\ ServingOK'
    BY <1>1, <1>2, <2>1, <2>2 DEF TrafficOK, ServingOK, peerVars
  <2> QED BY <1>2, <2>3, TrafficStep
<1>4. CASE TakeKnown(r)
  <2>1. answer' \in [Command -> Answer \cup {NoAnswer}]
    BY <1>1, <1>4, AnsweredType DEF TakeKnown
  <2>2. pc = "idle" /\ pc' = "idle" /\ serving' = serving
    BY <1>4 DEF TakeKnown, PostKnownTranscript, handlerVars
  <2>3. TrafficOK' /\ ServingOK'
    BY <1>1, <1>2, <2>1, <2>2 DEF TrafficOK, ServingOK, peerVars
  <2> QED BY <1>2, <2>3, TrafficStep
<1>5. CASE TakeNew(r)
  <2>1. pc' = "posted" /\ doc' = r.doc /\ serving' = r /\ answer' = answer
    BY <1>5 DEF TakeNew, PostNewTranscript
  <2>2. TrafficOK' /\ ServingOK'
    BY <1>1, <1>2, <2>1 DEF TrafficOK, ServingOK, peerVars
  <2> QED BY <1>2, <2>2, TrafficStep
<1> QED BY <1>3, <1>4, <1>5

LEMMA ServeStep ==
  ASSUME UploadTypeOK, SaveConfirmed \/ SaveFailed \/ CrashWhileServing
  PROVE  UploadTypeOK'
<1>1. TrafficOK /\ ServingOK
  BY TypeParts
<1>2. /\ UNCHANGED <<commandVars, requests, peerVars>> /\ serving' = NoRequest
      /\ confirmed' \cup DOMAIN transcripts' \cup DOMAIN diskTranscripts' \subseteq Upload
  BY DocsStep DEF SaveConfirmed, SaveFailed, CrashWhileServing, SinkStep
<1>3. pc' = "idle"
  BY DEF SaveConfirmed, SaveFailed, CrashWhileServing, PostedSaved, SaveFails, SinkCrash, Fail,
       HandlerIdle
<1>4. SaveConfirmed \/ SaveFailed => serving \in Request
  BY <1>1 DEF TrafficOK, ServingOK, SaveConfirmed, SaveFailed, PostedSaved, SaveFails
<1>5. answer' \in [Command -> Answer \cup {NoAnswer}]
  <2>1. /\ SaveConfirmed => Answered(serving, 201, TRUE)
        /\ SaveFailed => Answered(serving, 500, FALSE)
        /\ CrashWhileServing => answer' = answer
    BY DEF SaveConfirmed, SaveFailed, CrashWhileServing
  <2>2. \A status \in Nat, signed \in BOOLEAN :
          serving \in Request /\ Answered(serving, status, signed) =>
            answer' \in [Command -> Answer \cup {NoAnswer}]
    BY AnsweredType
  <2>3. 201 \in Nat /\ 500 \in Nat
    OBVIOUS
  <2> QED BY <1>1, <1>4, <2>1, <2>2, <2>3, Zenon DEF TrafficOK
<1>6. TrafficOK' /\ ServingOK'
  BY <1>1, <1>2, <1>3, <1>5 DEF TrafficOK, ServingOK, peerVars
<1> QED BY <1>2, <1>6, TrafficStep

LEMMA UploadTypeStep ==
  ASSUME UploadTypeOK, [UploadNext]_uploadVars PROVE UploadTypeOK'
<1>1. ASSUME NEW c \in Command,
             BuildRaises(c) \/ HandleResponse(c) \/ TimeOut(c) \/ ConnectionBreaks(c)
      PROVE  UploadTypeOK'
  <2>1. \E outcome \in Outcome : Conclude(c, outcome)
    BY <1>1 DEF BuildRaises, HandleResponse, TimeOut, ConnectionBreaks, Outcome, Status
  <2>2. ToTake(c) \/ at[c] = "waiting"
    BY <1>1 DEF BuildRaises, HandleResponse, TimeOut, ConnectionBreaks
  <2>3. UNCHANGED <<vars, keyFile, author, requests, serving, altered>>
    BY <1>1 DEF BuildRaises, HandleResponse, TimeOut, ConnectionBreaks
  <2> QED BY <2>1, <2>2, <2>3, ConcludeStep
<1>2. ASSUME NEW c \in Command, CommandStep(c) \/ Befalls(c)
      PROVE  UploadTypeOK'
  BY <1>1, <1>2, KeyStep, PostStep, EndStep, ElsewhereStep DEF CommandStep, Befalls
<1>3. ASSUME SinkStep PROVE UploadTypeOK'
  <2>1. CASE Restart
    <3>1. TrafficOK /\ ServingOK
      BY TypeParts
    <3>2. confirmed' \cup DOMAIN transcripts' \cup DOMAIN diskTranscripts' \subseteq Upload
      BY <1>3, DocsStep
    <3>3. TrafficOK' /\ ServingOK' /\ UNCHANGED commandVars
      BY <2>1, <3>1, <3>2 DEF Restart, SinkStart, TrafficOK, ServingOK, networkVars, peerVars,
                              handlerVars
    <3> QED BY <3>3, TrafficStep
  <2> QED BY <1>3, <2>1, TakeStep, ServeStep DEF SinkStep
<1>4. CASE UNCHANGED uploadVars
  <2>1. TrafficOK /\ ServingOK /\ UNCHANGED <<vars, commandVars, networkVars>>
    BY <1>4, TypeParts DEF uploadVars
  <2>2. TrafficOK' /\ ServingOK'
    BY <2>1, ServingKept DEF TrafficOK, networkVars, peerVars
  <2> QED BY <2>1, <2>2, TrafficStep
<1> QED BY <1>2, <1>3, <1>4 DEF UploadNext

LEMMA UploadTypeInit == UploadInit => UploadTypeOK
BY PathsAssumption DEF UploadInit, Init, StoreInit, NoTranscripts, UploadTypeOK, At, Nth

\* The types of commands, files and traffic, for any number of commands.
THEOREM UploadTypesHold == UploadSpec => []UploadTypeOK
<1>1. UploadTypeOK /\ [UploadNext]_uploadVars => UploadTypeOK'
  BY UploadTypeStep
<1> QED BY <1>1, UploadTypeInit, PTL DEF UploadSpec

\* The sink under upload commands is the sink: all that SinkProofs proves holds.
THEOREM UploadUsesSink == UploadSpec => Spec
<1>1. UploadInit => Init
  BY DEF UploadInit
<1>2. UploadTypeOK /\ [UploadNext]_uploadVars => [Next]_vars
  BY UploadStepIsSinkStep
<1> QED BY <1>1, <1>2, UploadTypesHold, PTL DEF UploadSpec, Spec

-----------------------------------------------------------------------------
\* A command has no results before it has its author.
Early == {"start", "read", "create", "write"}
NoEarlyResults == \A c \in Command : at[c] \in Early => result[c] = <<>>
EarlyInv == UploadTypeOK /\ NoEarlyResults

LEMMA EarlyStep == ASSUME EarlyInv, [UploadNext]_uploadVars PROVE EarlyInv'
<1>0. /\ UploadTypeOK /\ UploadTypeOK' /\ NoEarlyResults /\ at \in [Command -> At]
      /\ result \in [Command -> Seq(Outcome)]
  BY UploadTypeStep DEF EarlyInv, UploadTypeOK
<1>1. ASSUME NEW c \in Command, CommandStep(c) \/ Befalls(c) PROVE NoEarlyResults'
  <2>1. \/ result' = result /\ at[c] \in Early /\ \E place \in At : at' = [at EXCEPT ![c] = place]
        \/ /\ \E place \in At \ Early : at' = [at EXCEPT ![c] = place]
           /\ result' = result \/ \E outcome : result' = [result EXCEPT ![c] = Append(@, outcome)]
        \/ at' = at /\ result' = result
    BY <1>1 DEF CommandStep, LookForKey, ReadKey, ReadNoKey, CreateKey, WriteKey, WriteKeyRaises,
       BuildRaises, Post, HandleResponse, TimeOut, ReadOn, Report,
       Befalls, Kill, ConnectionBreaks, AnsweredElsewhere, Drip, Conclude, Goto, At, Early,
       commandVars
  <2> QED BY <1>0, <2>1 DEF NoEarlyResults
<1>2. ASSUME UNCHANGED commandVars PROVE NoEarlyResults'
  BY <1>0, <1>2 DEF NoEarlyResults, commandVars
<1>3. SinkStep => UNCHANGED commandVars
  BY StoredStep
<1> QED BY <1>0, <1>1, <1>2, <1>3 DEF EarlyInv, UploadNext, uploadVars

\* With a sink whose saves replace the snapshot, what a signed answer is about is in
\* the snapshot, whoever gives it, and so is what a command reports.
Lasting == IF torn THEN {} ELSE DOMAIN diskTranscripts
SignedLasting ==
  \A c \in Command :
    answer[c] # NoAnswer /\ answer[c].signed /\ answer[c].status \in {200, 201}
      => answer[c].doc \in Lasting
ResultsLasting ==
  \A c \in Command : \A i \in DOMAIN result[c] :
    Uploaded(c, i) => Transcript(Paths[c][i], author[c]) \in Lasting
ReportInv == EarlyInv /\ SignedLasting /\ ResultsLasting

LEMMA LastingGrows ==
  ASSUME Reliable, ReliableInv, UploadTypeOK, [UploadNext]_uploadVars
  PROVE  Lasting \subseteq Lasting'
<1>1. [Next]_vars
  BY UploadStepIsSinkStep
<1>2. ~torn' /\ Extends(diskChunks, diskTranscripts, diskChunks', diskTranscripts')
  BY <1>1, ReliableStoreStep
<1> QED BY <1>2 DEF Lasting, Extends

LEMMA SignedForLasts == ASSUME ReliableInv PROVE SignedFor \subseteq Lasting
BY DEF ReliableInv, Settled, HandlerInv, SignedFor, Lasting

\* A file is concluded as uploaded on an accepted answer only.
LEMMA ConcludeLasting ==
  ASSUME ReportInv, NEW c \in Command, NEW outcome \in Outcome,
         ToTake(c) \/ at[c] = "waiting", Conclude(c, outcome),
         outcome # "failed" => answer[c] # NoAnswer /\ Accepted(c, answer[c]),
         author' = author, Lasting' = Lasting
  PROVE  SignedLasting' /\ ResultsLasting'
<1>1. UploadTypeOK /\ SignedLasting /\ ResultsLasting
  BY DEF ReportInv, EarlyInv
<1>2. result \in [Command -> Seq(Outcome)] /\ answer \in [Command -> Answer \cup {NoAnswer}]
      /\ at \in [Command -> At]
  BY <1>1 DEF UploadTypeOK
<1>3. /\ result' = [result EXCEPT ![c] = Append(@, outcome)]
      /\ at' = [at EXCEPT ![c] = "next"] /\ answer' = [answer EXCEPT ![c] = NoAnswer]
  BY DEF Conclude, Goto
<1>4. SignedLasting'
  BY <1>1, <1>2, <1>3 DEF SignedLasting
<1>5. outcome # "failed" => Transcript(Paths[c][Nth(c)], author[c]) \in Lasting
  BY <1>1 DEF SignedLasting, Accepted, TheTranscript, TheFile
<1>6. ASSUME NEW d \in Command, NEW i \in DOMAIN result'[d],
             result'[d][i] \in {"created", "already_stored"}
      PROVE  Transcript(Paths[d][i], author[d]) \in Lasting
  <2>1. CASE d = c
    <3>1. result[c] \in Seq(Outcome) /\ result'[c] = Append(result[c], outcome)
      BY <1>2, <1>3
    <3>2. \/ i \in DOMAIN result[c] /\ result'[c][i] = result[c][i]
          \/ i = Nth(c) /\ result'[c][i] = outcome
      <4>1. i \in DOMAIN Append(result[c], outcome)
        BY <1>6, <2>1, <3>1, Zenon
      <4>2. \/ i \in DOMAIN result[c] /\ Append(result[c], outcome)[i] = result[c][i]
            \/ i = Len(result[c]) + 1 /\ Append(result[c], outcome)[i] = outcome
        <5>1. \A s \in Seq(Outcome) : \A j \in DOMAIN Append(s, outcome) :
                \/ j \in DOMAIN s /\ Append(s, outcome)[j] = s[j]
                \/ j = Len(s) + 1 /\ Append(s, outcome)[j] = outcome
          BY LastOrBefore
        <5> QED BY <3>1, <4>1, <5>1, Zenon
      <4> QED BY <3>1, <4>2, Zenon DEF Nth
    <3> QED BY <1>1, <1>5, <1>6, <2>1, <3>2 DEF ResultsLasting, Uploaded
  <2>2. CASE d # c
    BY <1>1, <1>2, <1>3, <1>6, <2>2 DEF ResultsLasting, Uploaded
  <2> QED BY <2>1, <2>2
<1> QED BY <1>4, <1>6, Zenon DEF ResultsLasting, Uploaded

\* Nothing is concluded: it is enough that the snapshot keeps what it has.
LEMMA NothingConcluded ==
  ASSUME ReportInv, UNCHANGED result, Lasting \subseteq Lasting',
         \A c \in Command : author'[c] = author[c] \/ result[c] = <<>>
  PROVE  ResultsLasting'
BY DEF ReportInv, ResultsLasting, Uploaded

LEMMA AnsweredLasting ==
  ASSUME ReportInv, NEW r \in Request, NEW status, NEW signed, Answered(r, status, signed),
         Lasting \subseteq Lasting',
         signed /\ status \in {200, 201} => r.doc \in Lasting'
  PROVE  SignedLasting'
<1>1. SignedLasting /\ answer \in [Command -> Answer \cup {NoAnswer}]
  BY DEF ReportInv, EarlyInv, UploadTypeOK
<1> DEFINE a == [status |-> status, signed |-> signed, doc |-> r.doc]
<1>2. a.status = status /\ a.signed = signed /\ a.doc = r.doc
  OBVIOUS
<1>3. answer' = answer \/ answer' = [answer EXCEPT ![r.from] = a]
  BY DEF Answered
<1> HIDE DEF a
<1>4. ASSUME NEW c \in Command, answer'[c] # NoAnswer, answer'[c].signed,
             answer'[c].status \in {200, 201}
      PROVE  answer'[c].doc \in Lasting'
  <2>1. CASE answer'[c] = answer[c]
    BY <1>1, <1>4, <2>1 DEF SignedLasting
  <2>2. CASE answer'[c] = a
    BY <1>2, <1>4, <2>2
  <2> QED BY <1>1, <1>3, <2>1, <2>2
<1> QED BY <1>4 DEF SignedLasting

LEMMA ReportStep ==
  ASSUME Reliable, ReliableInv, ReportInv, [UploadNext]_uploadVars PROVE ReportInv'
<1>0. /\ UploadTypeOK /\ SignedLasting /\ Lasting \subseteq Lasting' /\ EarlyInv'
      /\ at \in [Command -> At] /\ answer \in [Command -> Answer \cup {NoAnswer}]
  BY LastingGrows, EarlyStep DEF ReportInv, EarlyInv, UploadTypeOK
<1>1. UNCHANGED vars => Lasting' = Lasting
  BY DEF vars, storeVars, disk, Lasting
<1>2. ASSUME NEW c \in Command,
             \/ LookForKey(c) \/ ReadKey(c) \/ ReadNoKey(c) \/ CreateKey(c) \/ WriteKey(c)
             \/ WriteKeyRaises(c)
      PROVE  SignedLasting' /\ ResultsLasting'
  <2>1. UNCHANGED <<result, answer>> /\ at[c] \in Early
    BY <1>2 DEF LookForKey, ReadKey, ReadNoKey, CreateKey, WriteKey, WriteKeyRaises, networkVars,
         Early
  <2>2. SignedLasting'
    BY <1>0, <2>1 DEF SignedLasting
  <2>3. \A d \in Command \ {c} : author'[d] = author[d]
    BY <1>0, <1>2 DEF LookForKey, ReadKey, ReadNoKey, CreateKey, WriteKey, WriteKeyRaises,
         UploadTypeOK
  <2>4. result[c] = <<>>
    BY <2>1 DEF ReportInv, EarlyInv, NoEarlyResults
  <2>5. ResultsLasting'
    BY <1>0, <2>1, <2>3, <2>4, NothingConcluded
  <2> QED BY <2>2, <2>5
<1>3. ASSUME NEW c \in Command,
             BuildRaises(c) \/ TimeOut(c) \/ HandleResponse(c) \/ ConnectionBreaks(c)
      PROVE  SignedLasting' /\ ResultsLasting'
  <2>1. author' = author /\ Lasting' = Lasting /\ (ToTake(c) \/ at[c] = "waiting")
    BY <1>1, <1>3 DEF BuildRaises, TimeOut, HandleResponse, ConnectionBreaks
  <2>2. \E outcome \in Outcome :
          /\ Conclude(c, outcome)
          /\ outcome # "failed" => answer[c] # NoAnswer /\ Accepted(c, answer[c])
    BY <1>3 DEF BuildRaises, TimeOut, HandleResponse, ConnectionBreaks, Outcome, Status
  <2> QED BY <2>1, <2>2, ConcludeLasting
<1>4. ASSUME NEW c \in Command,
             Post(c) \/ Report(c) \/ Kill(c) \/ AnsweredElsewhere(c) \/ ReadOn(c) \/ Drip(c)
      PROVE  SignedLasting' /\ ResultsLasting'
  <2>1. UNCHANGED <<author, result>>
    BY <1>4 DEF Post, Report, Kill, AnsweredElsewhere, ReadOn, Drip, commandVars
  <2>2. ResultsLasting'
    BY <1>0, <2>1, NothingConcluded
  <2>3. ASSUME AnsweredElsewhere(c) PROVE SignedLasting'
    <3>1. PICK a :
            answer' = [answer EXCEPT ![c] = a] /\ (a.signed => a.doc \in SignedFor)
      BY <2>3, ElsewhereGives
    <3>2. a.signed => a.doc \in Lasting'
      BY <1>0, <3>1, SignedForLasts
    <3>4. ASSUME NEW e \in Command, answer'[e] # NoAnswer, answer'[e].signed,
                 answer'[e].status \in {200, 201}
          PROVE  answer'[e].doc \in Lasting'
      <4>1. CASE e = c
        BY <1>0, <3>1, <3>2, <3>4, <4>1
      <4>2. CASE e # c
        BY <1>0, <3>1, <3>4, <4>2 DEF SignedLasting
      <4> QED BY <4>1, <4>2
    <3> QED BY <3>4 DEF SignedLasting
  <2>4. ASSUME Post(c) \/ Report(c) \/ Kill(c) \/ ReadOn(c) \/ Drip(c) PROVE SignedLasting'
    <3>1. \A d \in Command : answer'[d] = answer[d] \/ answer'[d] = NoAnswer
      BY <1>0, <2>4 DEF Post, Report, Kill, ReadOn, Drip, networkVars
    <3> QED BY <1>0, <3>1 DEF SignedLasting
  <2> QED BY <1>4, <2>2, <2>3, <2>4
<1>5. ASSUME SinkStep PROVE SignedLasting' /\ ResultsLasting'
  <2>1. UNCHANGED commandVars
    BY <1>5, StoredStep
  <2>2. ResultsLasting'
    BY <1>0, <2>1, NothingConcluded DEF commandVars
  <2>3. confirmed' \subseteq Lasting'
    <3>1. HandlerInv' /\ ~torn'
      BY <1>0, UploadStepIsSinkStep, HandlerStep, ReliableStoreStep
    <3> QED BY <3>1 DEF HandlerInv, Lasting
  <2>4. ASSUME answer' = answer PROVE SignedLasting'
    BY <1>0, <2>4 DEF SignedLasting
  <2>5. ASSUME NEW r \in requests, TakeOversized(r) \/ TakeKnown(r) \/ TakeNew(r)
        PROVE  SignedLasting'
    <3>1. r \in Request
      BY <1>0 DEF UploadTypeOK
    <3>2. CASE TakeNew(r)
      BY <2>4, <3>2 DEF TakeNew
    <3>3. CASE TakeKnown(r)
      <4>1. Answered(r, 200, TRUE) /\ r.doc \in Lasting'
        BY <2>3, <3>3 DEF TakeKnown, PostKnownTranscript, Confirm
      <4> QED BY <1>0, <3>1, <4>1, AnsweredLasting
    <3>4. CASE TakeOversized(r)
      <4>1. Answered(r, 413, FALSE)
        BY <3>4 DEF TakeOversized
      <4> QED BY <1>0, <3>1, <4>1, AnsweredLasting
    <3> QED BY <2>5, <3>2, <3>3, <3>4
  <2>6. \A status, signed :
          /\ serving \in Request /\ Answered(serving, status, signed)
          /\ signed /\ status \in {200, 201} => serving.doc \in Lasting'
          => SignedLasting'
    BY <1>0, AnsweredLasting
  <2>7. ASSUME SaveConfirmed PROVE SignedLasting'
    <3>1. Answered(serving, 201, TRUE) /\ pc = "posted" /\ confirmed' = confirmed \cup {doc}
      BY <2>7 DEF SaveConfirmed, PostedSaved, Confirm
    <3>2. serving \in Request /\ serving.doc = doc
      BY <1>0, <3>1 DEF UploadTypeOK
    <3>3. serving.doc \in Lasting'
      BY <2>3, <3>1, <3>2
    <3> QED BY <2>6, <3>1, <3>2, <3>3, Zenon
  <2>8. ASSUME SaveFailed PROVE SignedLasting'
    <3>1. Answered(serving, 500, FALSE) /\ pc # "idle"
      BY <2>8 DEF SaveFailed, SaveFails
    <3>2. serving \in Request
      BY <1>0, <3>1 DEF UploadTypeOK
    <3> QED BY <2>6, <3>1, <3>2, Zenon
  <2>9. ASSUME CrashWhileServing \/ Restart PROVE SignedLasting'
    <3>1. answer' = answer
      BY <2>9 DEF CrashWhileServing, Restart, networkVars
    <3> QED BY <2>4, <3>1, Zenon
  <2> QED BY <1>5, <2>2, <2>5, <2>7, <2>8, <2>9 DEF SinkStep
<1>6. ASSUME UNCHANGED uploadVars PROVE SignedLasting' /\ ResultsLasting'
  <2>1. UNCHANGED commandVars /\ answer' = answer
    BY <1>6 DEF uploadVars, networkVars
  <2>2. ResultsLasting'
    BY <1>0, <2>1, NothingConcluded DEF commandVars
  <2>3. SignedLasting'
    BY <1>0, <2>1 DEF SignedLasting
  <2> QED BY <2>2, <2>3
<1>7. SignedLasting' /\ ResultsLasting'
  <2>1. ASSUME NEW c \in Command, CommandStep(c) \/ Befalls(c)
        PROVE  SignedLasting' /\ ResultsLasting'
    BY <1>2, <1>3, <1>4, <2>1, Zenon DEF CommandStep, Befalls
  <2> QED BY <1>5, <1>6, <2>1, Zenon DEF UploadNext
<1> QED BY <1>0, <1>7 DEF ReportInv

\* Under a sink whose saves replace the snapshot, every file a command reports as
\* uploaded is in the sink's snapshot, whatever the network loses, delays or
\* repeats, whatever a gateway answers with the bodies the sink has signed and a
\* status of its own, and whenever the sink crashes.
THEOREM UploadedFilesDurable ==
  ASSUME Reliable PROVE UploadSpec => []UploadedDurable
<1>1. UploadInit => ReportInv
  BY UploadTypeInit
     DEF UploadInit, ReportInv, EarlyInv, NoEarlyResults, SignedLasting, ResultsLasting
<1>2. ReliableInv /\ ReportInv /\ [UploadNext]_uploadVars => ReportInv'
  BY ReportStep
<1>3. ReportInv => UploadedDurable
  BY DEF ReportInv, ResultsLasting, Lasting, UploadedDurable, DurableTranscript
<1>4. Spec => []ReliableInv
  BY ReliableInvariant
<1> QED BY <1>1, <1>2, <1>3, <1>4, UploadUsesSink, PTL DEF UploadSpec

-----------------------------------------------------------------------------
\* One author: one command at most is writing the key file, and then there is no
\* key yet; every key in use, and of every transcript posted, is the file's.
Ours(d) == keyFile \in Command /\ \E f \in File : d = Transcript(f, keyFile)

KeyOfFile ==
  /\ \A c, d \in Command : at[c] = "write" /\ at[d] = "write" => c = d
  /\ \A c \in Command : at[c] = "write" => keyFile = Empty
  /\ \A c \in Command : author[c] # NoAuthor => author[c] = keyFile
DocsOurs ==
  /\ \A r \in requests : Ours(r.doc)
  /\ \A d \in StoredDocs : Ours(d)
AuthorInv == UploadTypeOK /\ KeyOfFile /\ DocsOurs

\* While no key is in the file, nobody has one and nothing is posted or stored.
LEMMA NoKeyNothingPosted ==
  ASSUME AuthorInv, keyFile \notin Command
  PROVE  requests = {} /\ StoredDocs = {} /\ \A c \in Command : author[c] = NoAuthor
<1>1. \A c \in Command : author[c] \in Command \cup {NoAuthor}
  BY DEF AuthorInv, UploadTypeOK
<1> QED BY <1>1 DEF AuthorInv, DocsOurs, KeyOfFile, Ours

LEMMA KeyFileStep ==
  ASSUME AuthorInv, NEW c \in Command,
         CreateKey(c) \/ WriteKey(c) \/ WriteKeyRaises(c)
  PROVE  KeyOfFile' /\ DocsOurs'
<1>1. UploadTypeOK /\ KeyOfFile /\ DocsOurs /\ at \in [Command -> At]
      /\ author \in [Command -> Command \cup {NoAuthor}]
  BY DEF AuthorInv, UploadTypeOK
<1>2. UNCHANGED <<transcripts, diskTranscripts, requests>>
  BY DEF CreateKey, WriteKey, WriteKeyRaises, vars, storeVars, networkVars
<1>3. CASE at[c] = "create" /\ keyFile # NoFile
  <2>1. keyFile' = keyFile /\ author' = author /\ at' = [at EXCEPT ![c] = "refused"]
    BY <1>3 DEF CreateKey, WriteKey, WriteKeyRaises, Goto
  <2> QED BY <1>1, <1>2, <2>1 DEF KeyOfFile, DocsOurs, Ours, StoredDocs
<1>4. CASE at[c] # "create" \/ keyFile = NoFile
  <2>1. keyFile \notin Command /\ (at[c] = "write" \/ keyFile = NoFile)
    BY <1>1, <1>4, NoneAssumption DEF KeyOfFile, CreateKey, WriteKey, WriteKeyRaises
  <2>2. requests = {} /\ StoredDocs = {} /\ \A d \in Command : author[d] = NoAuthor
    BY <2>1, NoKeyNothingPosted
  <2>3. DocsOurs'
    BY <1>2, <2>2 DEF DocsOurs, StoredDocs
  <2>4. \A d \in Command \ {c} : at[d] # "write"
    BY <1>1, <2>1, NoneAssumption DEF KeyOfFile
  <2>5. KeyOfFile'
    BY <1>1, <1>4, <2>2, <2>4 DEF KeyOfFile, CreateKey, WriteKey, WriteKeyRaises, Goto
  <2> QED BY <2>3, <2>5
<1> QED BY <1>3, <1>4

\* The key file is as it was, nobody starts to write it, and what is new is ours.
LEMMA SameKey ==
  ASSUME AuthorInv, keyFile' = keyFile,
         \A c \in Command : at'[c] = "write" => at[c] = "write",
         \A c \in Command : author'[c] = author[c] \/ author'[c] = keyFile,
         \A r \in requests' : r \in requests \/ Ours(r.doc),
         \A d \in StoredDocs' : d \in StoredDocs \/ Ours(d)
  PROVE  KeyOfFile' /\ DocsOurs'
<1>1. KeyOfFile /\ DocsOurs
  BY DEF AuthorInv
<1>2. KeyOfFile'
  BY <1>1 DEF KeyOfFile
<1>3. \A d : Ours(d) => Ours(d)'
  BY DEF Ours
<1>4. DocsOurs'
  BY <1>1, <1>3 DEF DocsOurs
<1> QED BY <1>2, <1>4

LEMMA AuthorStep ==
  ASSUME AuthorInv, [UploadNext]_uploadVars PROVE AuthorInv'
<1>0. UploadTypeOK /\ UploadTypeOK' /\ at \in [Command -> At]
      /\ author \in [Command -> Command \cup {NoAuthor}] /\ KeyOfFile /\ DocsOurs
  BY UploadTypeStep DEF AuthorInv, UploadTypeOK
<1>1. ASSUME NEW c \in Command, CommandStep(c) \/ Befalls(c),
             ~(CreateKey(c) \/ WriteKey(c) \/ WriteKeyRaises(c)), ~Post(c)
      PROVE  KeyOfFile' /\ DocsOurs'
  <2>1. keyFile' = keyFile /\ UNCHANGED <<vars, requests>>
    BY <1>1 DEF CommandStep, LookForKey, ReadKey, ReadNoKey, BuildRaises, HandleResponse, TimeOut,
         ReadOn, Report, Befalls, Kill, ConnectionBreaks, AnsweredElsewhere, Drip, networkVars,
         commandVars
  <2>2. at' = at \/ \E place \in At \ {"write"} : at' = [at EXCEPT ![c] = place]
    BY <1>1 DEF CommandStep, LookForKey, ReadKey, ReadNoKey, BuildRaises, HandleResponse, TimeOut,
         ReadOn, Report, Befalls, Kill, ConnectionBreaks, AnsweredElsewhere, Drip, Conclude, Goto,
         commandVars, At
  <2>3. author' = author \/ author' = [author EXCEPT ![c] = keyFile]
    BY <1>1 DEF CommandStep, LookForKey, ReadKey, ReadNoKey, BuildRaises, HandleResponse, TimeOut,
         ReadOn, Report, Befalls, Kill, ConnectionBreaks, AnsweredElsewhere, Drip, commandVars
  <2>4. \A d \in Command : at'[d] = "write" => at[d] = "write"
    BY <1>0, <2>2
  <2>5. \A d \in Command : author'[d] = author[d] \/ author'[d] = keyFile
    BY <1>0, <2>3
  <2>6. StoredDocs' = StoredDocs
    BY <2>1 DEF StoredDocs, vars, storeVars
  <2> QED BY <2>1, <2>4, <2>5, <2>6, SameKey
<1>2. ASSUME NEW c \in Command, Post(c)
      PROVE  KeyOfFile' /\ DocsOurs'
  <2>1. /\ keyFile' = keyFile /\ author' = author /\ UNCHANGED vars
        /\ at' = [at EXCEPT ![c] = "waiting"]
        /\ requests' = requests \cup {[from |-> c, nth |-> Nth(c), doc |-> TheTranscript(c)]}
    BY <1>2 DEF Post, Goto
  <2>2. author[c] \in Command /\ TheFile(c) \in File
    BY <1>0, <1>2, NthFile DEF Post
  <2>3. author[c] = keyFile
    BY <1>0, <2>2, NoneAssumption DEF KeyOfFile
  <2>4. Ours(TheTranscript(c))
    BY <2>2, <2>3 DEF Ours, TheTranscript
  <2>5. \A r \in requests' : r \in requests \/ Ours(r.doc)
    BY <2>1, <2>4
  <2>6. StoredDocs' = StoredDocs
    BY <2>1 DEF StoredDocs, vars, storeVars
  <2>7. \A d \in Command : at'[d] = "write" => at[d] = "write"
    BY <1>0, <2>1
  <2> QED BY <2>1, <2>5, <2>6, <2>7, SameKey
<1>3. ASSUME SinkStep PROVE KeyOfFile' /\ DocsOurs'
  <2>1. /\ \A d \in StoredDocs' : d \in StoredDocs \/ \E r \in requests : d = r.doc
        /\ UNCHANGED commandVars /\ requests' \subseteq requests
    BY <1>3, StoredStep
  <2>2. \A d \in StoredDocs' : d \in StoredDocs \/ Ours(d)
    BY <1>0, <2>1 DEF DocsOurs
  <2>3. keyFile' = keyFile /\ at' = at /\ author' = author
    BY <2>1 DEF commandVars
  <2> QED BY <2>1, <2>2, <2>3, SameKey
<1>4. ASSUME UNCHANGED uploadVars PROVE KeyOfFile' /\ DocsOurs'
  <2>1. /\ keyFile' = keyFile /\ at' = at /\ author' = author /\ requests' = requests
        /\ UNCHANGED vars
    BY <1>4 DEF uploadVars, commandVars, networkVars
  <2>2. StoredDocs' = StoredDocs
    BY <2>1 DEF StoredDocs, vars, storeVars
  <2> QED BY <2>1, <2>2, SameKey
<1>5. KeyOfFile' /\ DocsOurs'
  <2>1. ASSUME NEW c \in Command, CommandStep(c) \/ Befalls(c)
        PROVE  KeyOfFile' /\ DocsOurs'
    BY <1>1, <1>2, <2>1, KeyFileStep, Zenon
  <2> QED BY <1>3, <1>4, <2>1, Zenon DEF UploadNext
<1> QED BY <1>0, <1>5 DEF AuthorInv

LEMMA AuthorInit == UploadInit => AuthorInv
<1> SUFFICES ASSUME UploadInit PROVE AuthorInv
  OBVIOUS
<1>1. UploadTypeOK
  BY UploadTypeInit
<1>2. KeyOfFile
  BY DEF UploadInit, KeyOfFile
<1>3. DocsOurs
  BY DEF UploadInit, Init, StoreInit, NoTranscripts, DocsOurs, StoredDocs
<1> QED BY <1>1, <1>2, <1>3 DEF AuthorInv

\* The sink stores a file once, however many commands upload it, when the user's
\* author key is made, and whatever saves fail.
THEOREM EachFileStoredOnce == UploadSpec => []FileStoredOnce
<1>1. AuthorInv /\ [UploadNext]_uploadVars => AuthorInv'
  BY AuthorStep
<1>2. AuthorInv => FileStoredOnce
  <2> SUFFICES ASSUME AuthorInv, NEW d \in StoredDocs, NEW e \in StoredDocs, d.file = e.file
               PROVE  d = e
    BY DEF FileStoredOnce, StoredDocs
  <2>1. Ours(d) /\ Ours(e)
    BY DEF AuthorInv, DocsOurs
  <2> QED BY <2>1 DEF Ours, Transcript
<1> QED BY <1>1, <1>2, AuthorInit, PTL DEF UploadSpec

-----------------------------------------------------------------------------
\* What a command that has no altered answer was told was created: the file of a
\* "created" result, and that of a signed 201 it has not read yet, at the place it
\* is about to take.
Created(c, i, d) ==
  /\ c \notin altered
  /\ \/ /\ i \in DOMAIN result[c] /\ result[c][i] = "created"
        /\ d = Transcript(Paths[c][i], author[c])
     \/ /\ answer[c] # NoAnswer /\ answer[c].signed /\ answer[c].status = 201
        /\ i = Nth(c) /\ d = answer[c].doc

\* The sink will not create it again: a running process has it in memory, and one
\* that starts finds it in the snapshot, or a torn snapshot and does not start.
Known(d) ==
  /\ torn \/ d \in DOMAIN diskTranscripts
  /\ up => d \in DOMAIN transcripts

AllKnown == \A c \in Command : \A i, d : Created(c, i, d) => Known(d)
PostedNotCreated ==
  pc = "posted" =>
    /\ doc \in DOMAIN transcripts
    /\ \A c \in Command : \A i : ~Created(c, i, doc)
CreatedForOne ==
  \A b, c \in Command : \A i, j, d : Created(b, i, d) /\ Created(c, j, d) => b = c /\ i = j
ResultsHaveAuthor == \A c \in Command : result[c] # <<>> => author[c] # NoAuthor
CreatedInv == EarlyInv /\ AllKnown /\ PostedNotCreated /\ CreatedForOne /\ ResultsHaveAuthor

\* What is known stays so, whatever save fails: the snapshot only ever becomes what
\* a running process has in memory, or is torn.
LEMMA KnownStays ==
  ASSUME Persistent, TypeOK, [UploadNext]_uploadVars, NEW d, Known(d) PROVE Known(d)'
<1>1. ASSUME NEW c \in Command, CommandStep(c) \/ Befalls(c)
      PROVE  UNCHANGED vars
  BY <1>1, CommandLeavesSink
<1>2. CASE UNCHANGED vars
  BY <1>2 DEF Known, vars, storeVars
<1>3. ASSUME NEW r \in requests, TakeOversized(r) \/ TakeKnown(r)
      PROVE  Known(d)'
  BY <1>3 DEF TakeOversized, TakeKnown, RejectTranscript, PostKnownTranscript, storeVars, Known
<1>4. ASSUME NEW r \in requests, TakeNew(r)
      PROVE  Known(d)'
  <2>1. DOMAIN transcripts \subseteq DOMAIN transcripts' /\ UNCHANGED <<disk, up>>
    BY <1>4 DEF TakeNew, PostNewTranscript, PutTranscript
  <2> QED BY <2>1 DEF Known, disk
<1>5. ASSUME SaveConfirmed \/ SaveFailed
      PROVE  Known(d)'
  <2>1. transcripts' = transcripts /\ up' = up
    BY <1>5 DEF SaveConfirmed, SaveFailed, PostedSaved, SaveFails, SaveReturns, SaveRaises,
       SaveRaisesLate, SaveTears, memory
  <2>2. \/ diskTranscripts' = transcripts
        \/ torn'
        \/ diskTranscripts' = diskTranscripts /\ torn' = torn
    BY <1>5 DEF SaveConfirmed, SaveFailed, PostedSaved, SaveFails, SaveReturns, SaveRaises,
       SaveRaisesLate, SaveTears, ReplaceSnapshot, memory, disk
  <2>3. up
    BY <1>5 DEF SaveConfirmed, SaveFailed, PostedSaved, SaveFails, TypeOK
  <2> QED BY <2>1, <2>2, <2>3 DEF Known, disk
<1>6. ASSUME CrashWhileServing
      PROVE  Known(d)'
  BY <1>6 DEF CrashWhileServing, SinkCrash, Crash, ReplaceSnapshot, disk, Known
<1>7. ASSUME Restart
      PROVE  Known(d)'
  BY <1>7 DEF Restart, SinkStart, Start, disk, Known
<1> QED BY <1>1, <1>2, <1>3, <1>4, <1>5, <1>6, <1>7 DEF UploadNext, SinkStep, uploadVars

\* A step that concludes no file and delivers no 201 of the sink's creates nothing.
LEMMA NothingCreated ==
  ASSUME UNCHANGED result, altered \subseteq altered',
         \A c \in Command : author'[c] = author[c] \/ result[c] = <<>>,
         \A c \in Command : \/ answer'[c] = answer[c] \/ answer'[c] = NoAnswer
                           \/ ~answer'[c].signed \/ answer'[c].status # 201
                           \/ c \in altered',
         NEW c \in Command, NEW i, NEW d, Created(c, i, d)'
  PROVE  Created(c, i, d)
<1>1. CASE result[c] = <<>>
  BY <1>1 DEF Created, Nth
<1>2. CASE author'[c] = author[c]
  BY <1>2 DEF Created, Nth
<1> QED BY <1>1, <1>2

\* A file is concluded as created on a signed 201 only, which created it before.
LEMMA ConcludedCreated ==
  ASSUME UploadTypeOK, NEW b \in Command, NEW outcome \in Outcome, Conclude(b, outcome),
         author' = author, altered' = altered,
         outcome = "created" =>
           answer[b] # NoAnswer /\ Accepted(b, answer[b]) /\ answer[b].status = 201,
         NEW c \in Command, NEW i, NEW d, Created(c, i, d)'
  PROVE  Created(c, i, d)
<1>1. result \in [Command -> Seq(Outcome)] /\ answer \in [Command -> Answer \cup {NoAnswer}]
  BY DEF UploadTypeOK
<1>2. /\ result' = [result EXCEPT ![b] = Append(@, outcome)]
      /\ answer' = [answer EXCEPT ![b] = NoAnswer]
  BY DEF Conclude
<1>3. CASE c # b
  BY <1>1, <1>2, <1>3 DEF Created, Nth
<1>4. CASE c = b
  <2>1. answer'[b] = NoAnswer /\ result'[b] = Append(result[b], outcome)
        /\ result[b] \in Seq(Outcome)
    BY <1>1, <1>2
  <2>2. /\ i \in DOMAIN Append(result[b], outcome) /\ Append(result[b], outcome)[i] = "created"
        /\ d = Transcript(Paths[b][i], author[b])
    BY <1>4, <2>1 DEF Created
  <2>3. \/ i \in DOMAIN result[b] /\ Append(result[b], outcome)[i] = result[b][i]
        \/ i = Len(result[b]) + 1 /\ Append(result[b], outcome)[i] = outcome
    <3>1. \A s \in Seq(Outcome) : \A j \in DOMAIN Append(s, outcome) :
            \/ j \in DOMAIN s /\ Append(s, outcome)[j] = s[j]
            \/ j = Len(s) + 1 /\ Append(s, outcome)[j] = outcome
      BY LastOrBefore
    <3> QED BY <2>1, <2>2, <3>1, Zenon
  <2>4. CASE i \in DOMAIN result[b] /\ result[b][i] = "created"
    BY <1>4, <2>2, <2>4 DEF Created
  <2>5. CASE i = Nth(b) /\ outcome = "created"
    BY <1>4, <2>2, <2>5 DEF Created, Accepted, TheTranscript, TheFile
  <2> QED BY <2>2, <2>3, <2>4, <2>5 DEF Nth
<1> QED BY <1>3, <1>4

\* Something is created where a save is confirmed, for the command whose request
\* the sink serves, and nowhere else.
LEMMA CreatedStep ==
  ASSUME EarlyInv, [UploadNext]_uploadVars, NEW c \in Command, NEW i, NEW d,
         Created(c, i, d)', ~Created(c, i, d)
  PROVE  SaveConfirmed /\ c = serving.from /\ i = serving.nth /\ d = serving.doc
<1>0. UploadTypeOK /\ at \in [Command -> At] /\ answer \in [Command -> Answer \cup {NoAnswer}]
      /\ author \in [Command -> Command \cup {NoAuthor}]
  BY DEF EarlyInv, UploadTypeOK
<1>1. ASSUME NEW b \in Command,
             \/ LookForKey(b) \/ ReadKey(b) \/ ReadNoKey(b) \/ CreateKey(b) \/ WriteKey(b)
             \/ WriteKeyRaises(b)
      PROVE  Created(c, i, d)
  <2>1. UNCHANGED <<result, answer, altered>> /\ at[b] \in Early
    BY <1>1 DEF LookForKey, ReadKey, ReadNoKey, CreateKey, WriteKey, WriteKeyRaises, networkVars,
         peerVars, Early
  <2>2. result[b] = <<>>
    BY <2>1 DEF EarlyInv, NoEarlyResults
  <2>3. \A e \in Command \ {b} : author'[e] = author[e]
    BY <1>0, <1>1 DEF LookForKey, ReadKey, ReadNoKey, CreateKey, WriteKey, WriteKeyRaises
  <2> QED BY <2>1, <2>2, <2>3, NothingCreated
<1>2. ASSUME NEW b \in Command,
             BuildRaises(b) \/ TimeOut(b) \/ HandleResponse(b) \/ ConnectionBreaks(b)
      PROVE  Created(c, i, d)
  <2>1. \E outcome \in Outcome :
          /\ Conclude(b, outcome)
          /\ outcome = "created" =>
               answer[b] # NoAnswer /\ Accepted(b, answer[b]) /\ answer[b].status = 201
    BY <1>2 DEF BuildRaises, TimeOut, HandleResponse, ConnectionBreaks, Outcome, Status
  <2>2. author' = author /\ altered' = altered
    BY <1>2 DEF BuildRaises, TimeOut, HandleResponse, ConnectionBreaks
  <2> QED BY <1>0, <2>1, <2>2, ConcludedCreated
<1>3. ASSUME NEW b \in Command,
             Post(b) \/ Report(b) \/ Kill(b) \/ AnsweredElsewhere(b) \/ ReadOn(b) \/ Drip(b)
      PROVE  Created(c, i, d)
  <2>1. UNCHANGED <<author, result>> /\ altered \subseteq altered'
    BY <1>3 DEF Post, Report, Kill, AnsweredElsewhere, ReadOn, Drip, commandVars, networkVars,
         peerVars
  <2>2. \A e \in Command : \/ answer'[e] = answer[e] \/ answer'[e] = NoAnswer
                           \/ ~answer'[e].signed \/ answer'[e].status # 201 \/ e \in altered'
    <3>1. CASE AnsweredElsewhere(b)
      <4>1. PICK a :
              /\ answer' = [answer EXCEPT ![b] = a]
              /\ altered' = IF a.signed /\ a.status = 201 THEN altered \cup {b} ELSE altered
        BY <3>1, ElsewhereGives
      <4> QED BY <1>0, <4>1
    <3>2. CASE Post(b) \/ Report(b) \/ Kill(b) \/ ReadOn(b) \/ Drip(b)
      BY <1>0, <3>2 DEF Post, Report, Kill, ReadOn, Drip, networkVars
    <3> QED BY <1>3, <3>1, <3>2
  <2> QED BY <2>1, <2>2, NothingCreated
<1>4. ASSUME NEW r, NEW status, NEW signed, Answered(r, status, signed),
             UNCHANGED <<commandVars, peerVars>>, ~signed \/ status # 201
      PROVE  Created(c, i, d)
  <2> DEFINE a == [status |-> status, signed |-> signed, doc |-> r.doc]
  <2>1. a.status = status /\ a.signed = signed
    OBVIOUS
  <2>2. answer' = answer \/ answer' = [answer EXCEPT ![r.from] = a]
    BY <1>4 DEF Answered
  <2> HIDE DEF a
  <2>3. \A e \in Command : answer'[e] = answer[e] \/ ~answer'[e].signed \/ answer'[e].status # 201
    BY <1>0, <1>4, <2>1, <2>2
  <2>4. author' = author /\ result' = result /\ altered' = altered
    BY <1>4 DEF commandVars, peerVars
  <2> QED BY <2>3, <2>4, NothingCreated
<1>5. ASSUME answer' = answer, UNCHANGED <<commandVars, peerVars>>
      PROVE  Created(c, i, d)
  BY <1>5, NothingCreated DEF commandVars, peerVars
<1>6. CASE SaveConfirmed
  <2>1. Answered(serving, 201, TRUE) /\ UNCHANGED <<commandVars, peerVars>>
    BY <1>6 DEF SaveConfirmed
  <2>2. author' = author /\ result' = result /\ altered' = altered
    BY <2>1 DEF commandVars, peerVars
  <2>3. answer' # answer
    BY <1>5, <2>1
  <2> DEFINE a == [status |-> 201, signed |-> TRUE, doc |-> serving.doc]
  <2>4. Listening(serving) /\ answer' = [answer EXCEPT ![serving.from] = a]
    BY <2>1, <2>3 DEF Answered
  <2>5. a.doc = serving.doc
    OBVIOUS
  <2> HIDE DEF a
  <2>6. c = serving.from /\ answer'[c] = a
    <3>1. answer'[c] # answer[c]
      BY <2>2 DEF Created, Nth
    <3> QED BY <1>0, <2>4, <3>1
  <2>7. i = Nth(c)' /\ d = answer'[c].doc
    BY <2>2 DEF Created
  <2> QED BY <1>6, <2>2, <2>4, <2>5, <2>6, <2>7 DEF Listening, Nth
<1>7. ASSUME SinkStep, ~SaveConfirmed PROVE Created(c, i, d)
  <2>1. ASSUME NEW r \in requests, TakeOversized(r) \/ TakeKnown(r) PROVE Created(c, i, d)
    <3>1. UNCHANGED <<commandVars, peerVars>> /\ (Answered(r, 413, FALSE) \/ Answered(r, 200, TRUE))
      BY <2>1 DEF TakeOversized, TakeKnown, Taken
    <3>2. Answered(r, 413, FALSE) => Created(c, i, d)
      BY <1>4, <3>1
    <3>3. Answered(r, 200, TRUE) => Created(c, i, d)
      <4>1. 200 # 201
        OBVIOUS
      <4> QED BY <1>4, <3>1, <4>1
    <3> QED BY <3>1, <3>2, <3>3
  <2>2. ASSUME (\E r \in requests : TakeNew(r)) \/ CrashWhileServing \/ Restart
        PROVE  Created(c, i, d)
    <3>1. UNCHANGED <<commandVars, peerVars>> /\ answer' = answer
      BY <2>2 DEF TakeNew, Taken, CrashWhileServing, Restart, networkVars
    <3> QED BY <1>5, <3>1
  <2>3. ASSUME SaveFailed PROVE Created(c, i, d)
    <3>1. UNCHANGED <<commandVars, peerVars>> /\ Answered(serving, 500, FALSE)
      BY <2>3 DEF SaveFailed
    <3> QED BY <1>4, <3>1
  <2> QED BY <1>7, <2>1, <2>2, <2>3 DEF SinkStep
<1>8. ASSUME UNCHANGED uploadVars PROVE Created(c, i, d)
  <2>1. UNCHANGED <<commandVars, peerVars>> /\ answer' = answer
    BY <1>8 DEF uploadVars, networkVars
  <2> QED BY <1>5, <2>1
<1>9. ASSUME NEW b \in Command, CommandStep(b) \/ Befalls(b) PROVE Created(c, i, d)
  BY <1>1, <1>2, <1>3, <1>9, Zenon DEF CommandStep, Befalls
<1> QED BY <1>6, <1>7, <1>8, <1>9, Zenon DEF UploadNext

LEMMA CreatedInvStep ==
  ASSUME Persistent, TypeOK, CreatedInv, [UploadNext]_uploadVars PROVE CreatedInv'
<1>0. /\ EarlyInv /\ UploadTypeOK /\ AllKnown /\ PostedNotCreated /\ CreatedForOne
      /\ ResultsHaveAuthor
  BY DEF CreatedInv, EarlyInv
<1>1. EarlyInv'
  BY <1>0, EarlyStep
<1>2. ASSUME NEW c \in Command, NEW i, NEW d, Created(c, i, d)'
      PROVE  \/ Created(c, i, d)
             \/ SaveConfirmed /\ c = serving.from /\ i = serving.nth /\ d = doc
  <2>1. SUFFICES ASSUME ~Created(c, i, d)
        PROVE  SaveConfirmed /\ c = serving.from /\ i = serving.nth /\ d = doc
    OBVIOUS
  <2>2. SaveConfirmed /\ c = serving.from /\ i = serving.nth /\ d = serving.doc
    BY <1>0, <1>2, <2>1, CreatedStep
  <2>3. serving.doc = doc
    BY <1>0, <2>2 DEF SaveConfirmed, PostedSaved, UploadTypeOK
  <2> QED BY <2>2, <2>3
<1>3. AllKnown'
  <2>1. ASSUME NEW c \in Command, NEW i, NEW d, Created(c, i, d) PROVE Known(d)'
    BY <1>0, <2>1, KnownStays DEF AllKnown
  <2>2. ASSUME SaveConfirmed, NEW d, d = doc PROVE Known(d)'
    <3>1. d \in DOMAIN transcripts
      BY <1>0, <2>2 DEF PostedNotCreated, SaveConfirmed, PostedSaved
    <3>2. transcripts' = transcripts /\ (diskTranscripts' = transcripts \/ torn')
      BY <2>2 DEF SaveConfirmed, PostedSaved, SaveReturns, SaveTears, ReplaceSnapshot, memory
    <3> QED BY <3>1, <3>2 DEF Known
  <2> QED BY <1>2, <2>1, <2>2 DEF AllKnown
<1>4. CreatedForOne'
  <2> SUFFICES ASSUME NEW b \in Command, NEW c \in Command, NEW i, NEW j, NEW d,
                      Created(b, i, d)', Created(c, j, d)'
               PROVE  b = c /\ i = j
    BY DEF CreatedForOne
  <2>1. SaveConfirmed => ~Created(b, i, doc) /\ ~Created(c, j, doc)
    BY <1>0 DEF PostedNotCreated, SaveConfirmed, PostedSaved
  <2>2. CASE d = doc /\ SaveConfirmed
    BY <1>2, <2>1, <2>2
  <2>3. CASE ~(d = doc /\ SaveConfirmed)
    BY <1>0, <1>2, <2>3 DEF CreatedForOne
  <2> QED BY <2>2, <2>3
<1>5. PostedNotCreated'
  <2> SUFFICES ASSUME pc' = "posted"
               PROVE  /\ doc' \in DOMAIN transcripts'
                      /\ \A c \in Command : \A i : ~Created(c, i, doc)'
    BY DEF PostedNotCreated
  <2>1. ~SaveConfirmed
    BY DEF SaveConfirmed, PostedSaved, HandlerIdle
  <2>2. \/ UNCHANGED <<pc, doc, transcripts>>
        \/ \E r \in requests : TakeNew(r)
    <3>1. ASSUME NEW c \in Command, CommandStep(c) \/ Befalls(c)
          PROVE  UNCHANGED vars
      BY <3>1, CommandLeavesSink
    <3>2. UNCHANGED vars => UNCHANGED <<pc, doc, transcripts>>
      BY DEF vars, storeVars, handlerVars
    <3>3. ASSUME SinkStep, ~\E r \in requests : TakeNew(r)
          PROVE  UNCHANGED <<pc, doc, transcripts>>
      <4>1. ASSUME NEW r \in requests, TakeOversized(r) \/ TakeKnown(r)
            PROVE  UNCHANGED <<pc, doc, transcripts>>
        BY <4>1 DEF TakeOversized, TakeKnown, RejectTranscript, Fail, HandlerIdle,
             PostKnownTranscript, storeVars, handlerVars
      <4>2. ~SaveFailed /\ ~CrashWhileServing
        BY DEF SaveFailed, SaveFails, CrashWhileServing, SinkCrash, Fail, HandlerIdle
      <4>3. Restart => pc' = pc /\ pc = "idle"
        BY DEF Restart, SinkStart, Start, handlerVars, TypeOK
      <4> QED BY <2>1, <3>3, <4>1, <4>2, <4>3 DEF SinkStep
    <3> QED BY <3>1, <3>2, <3>3 DEF UploadNext, uploadVars
  <2>3. CASE UNCHANGED <<pc, doc, transcripts>>
    BY <1>0, <1>2, <2>1, <2>3 DEF PostedNotCreated, Created
  <2>4. ASSUME NEW r \in requests, TakeNew(r)
        PROVE  /\ doc' \in DOMAIN transcripts'
               /\ \A c \in Command : \A i : ~Created(c, i, doc)'
    <3>1. /\ doc' = r.doc /\ r.doc \notin DOMAIN transcripts /\ up
          /\ r.doc \in DOMAIN transcripts'
      BY <2>4 DEF TakeNew, PostNewTranscript, PutTranscript, HasTranscript
    <3>2. ~Known(r.doc)
      BY <3>1 DEF Known
    <3>3. \A c \in Command : \A i : ~Created(c, i, r.doc)
      BY <1>0, <3>2 DEF AllKnown
    <3>4. \A c \in Command : \A i : ~Created(c, i, r.doc)'
      BY <1>2, <2>1, <3>3
    <3> QED BY <3>1, <3>4 DEF Created
  <2> QED BY <2>2, <2>3, <2>4
<1>6. ResultsHaveAuthor'
  <2>1. author \in [Command -> Command \cup {NoAuthor}] /\ result \in [Command -> Seq(Outcome)]
    BY <1>0 DEF UploadTypeOK
  <2>2. ASSUME NEW c \in Command, CommandStep(c) \/ Befalls(c)
        PROVE  ResultsHaveAuthor'
    <3>1. \A d \in Command : author[d] # NoAuthor => author'[d] # NoAuthor
      BY <2>1, <2>2, NoneAssumption DEF CommandStep, LookForKey, ReadKey, ReadNoKey, CreateKey,
           WriteKey, WriteKeyRaises, BuildRaises, Post, HandleResponse, TimeOut, ReadOn, Report,
           Befalls, Kill, ConnectionBreaks, AnsweredElsewhere, Drip, commandVars
    <3>2. \/ result' = result
          \/ /\ ToTake(c) \/ at[c] = "waiting"
             /\ \E outcome \in Outcome : result' = [result EXCEPT ![c] = Append(@, outcome)]
      BY <2>2 DEF CommandStep, LookForKey, ReadKey, ReadNoKey, CreateKey, WriteKey,
           WriteKeyRaises, BuildRaises, Post, HandleResponse, TimeOut, ReadOn, Report, Befalls,
           Kill, ConnectionBreaks, AnsweredElsewhere, Drip, commandVars, Conclude, Outcome, Status
    <3>3. ToTake(c) \/ at[c] = "waiting" => author[c] # NoAuthor
      BY <1>0, NoneAssumption DEF ToTake, UploadTypeOK
    <3>4. \A d \in Command : result'[d] = result[d] \/ author[d] # NoAuthor
      BY <2>1, <3>2, <3>3
    <3> QED BY <1>0, <3>1, <3>4 DEF ResultsHaveAuthor
  <2>3. ASSUME UNCHANGED commandVars PROVE ResultsHaveAuthor'
    BY <1>0, <2>3 DEF ResultsHaveAuthor, commandVars
  <2>4. SinkStep => UNCHANGED commandVars
    BY StoredStep
  <2> QED BY <2>2, <2>3, <2>4 DEF UploadNext, uploadVars
<1> QED BY <1>1, <1>3, <1>4, <1>5, <1>6 DEF CreatedInv

\* The sink answers 201 for a file to one command at most, and that command counts
\* it once: whatever is lost or late, whatever saves fail or tear the snapshot, and
\* whenever the sink crashes. A gateway can pass a signed answer off as a 201, to
\* which nothing in the body objects: the commands it does so to are left out.
THEOREM FileReportedCreatedOnce ==
  ASSUME Persistent PROVE UploadSpec => []CreatedReportedOnce
<1>1. UploadInit => CreatedInv
  <2> SUFFICES ASSUME UploadInit PROVE CreatedInv
    OBVIOUS
  <2>1. EarlyInv
    BY UploadTypeInit DEF UploadInit, EarlyInv, NoEarlyResults
  <2>2. \A c \in Command : \A i, d : ~Created(c, i, d)
    BY DEF UploadInit, Created
  <2>3. pc # "posted" /\ ResultsHaveAuthor
    BY DEF UploadInit, Init, ResultsHaveAuthor
  <2> QED BY <2>1, <2>2, <2>3 DEF CreatedInv, AllKnown, PostedNotCreated, CreatedForOne
<1>2. TypeOK /\ CreatedInv /\ [UploadNext]_uploadVars => CreatedInv'
  BY CreatedInvStep
<1>3. AuthorInv /\ [UploadNext]_uploadVars => AuthorInv'
  BY AuthorStep
<1>4. AuthorInv /\ CreatedInv => CreatedReportedOnce
  <2> SUFFICES ASSUME AuthorInv, CreatedInv, NEW c \in Command \ altered, NEW d \in Command \ altered,
                      NEW i \in DOMAIN result[c], NEW j \in DOMAIN result[d],
                      result[c][i] = "created", result[d][j] = "created",
                      Paths[c][i] = Paths[d][j]
               PROVE  c = d /\ i = j
    BY DEF CreatedReportedOnce
  <2>1. author[c] = keyFile /\ author[d] = keyFile
    BY DEF AuthorInv, KeyOfFile, CreatedInv, ResultsHaveAuthor
  <2>2. Created(c, i, Transcript(Paths[c][i], author[c]))
        /\ Created(d, j, Transcript(Paths[c][i], author[c]))
    BY <2>1 DEF Created
  <2> QED BY <2>2 DEF CreatedInv, CreatedForOne
<1>5. Spec => []TypeOK
  BY TypeCorrect
<1> QED BY <1>1, <1>2, <1>3, <1>4, <1>5, AuthorInit, UploadUsesSink, PTL DEF UploadSpec
=============================================================================
