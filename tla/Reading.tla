------------------------------ MODULE Reading -------------------------------
(***************************************************************************)
(* The read routes of the sink (voxterm_transcript_sink/app.py 292-338,    *)
(* store.py 49-122 and 146-156) beside the write path of Sink, and a       *)
(* reader who fetches a transcript, tails a session, or lists transcripts  *)
(* page by page.                                                           *)
(*                                                                         *)
(* A read handler awaits nothing: it runs as a whole between two requests. *)
(* What the reader does with the answers is not in the repository: it      *)
(* tails with since_seq = the highest seq it has, and, as the list has no  *)
(* cursor, gets the next page with since = created_at of the last item.    *)
(*                                                                         *)
(* A created_at is a stamp: whole seconds, tenths (0: no fraction is       *)
(* written) and how UTC is spelled, Z or +00:00. The sink compares stamps  *)
(* as texts, which differ first in the seconds, then in the character      *)
(* after them.                                                             *)
(***************************************************************************)
EXTENDS Sink, Tokens

CONSTANTS
  Stamp,      \* the stamps in use
  IdRank(_),  \* the place of a transcript's id among all ids
  Limit,      \* the limit the reader asks for, a positive one
  MaxLimit    \* what the sink clamps it to (500)

Stamps == [second : Nat, tenth : 0 .. 9, utc : {"Z", "+00:00"}]

ASSUME StampAssumption == Stamp \subseteq Stamps
ASSUME ContentAssumption ==
  /\ \A c \in Chunk : c.text.at \in Stamp
  /\ \A d \in Upload : d.key \in Key /\ d.created.at \in Stamp
ASSUME LimitAssumption == Limit \in Nat \ {0} /\ MaxLimit \in Nat \ {0}

VARIABLE reader  \* what the reader does and holds, see Reader

readVars == <<vars, tokenVars, reader>>

-----------------------------------------------------------------------------
\* Queries.

\* The text of a stamp, as its place in the order of texts: "+" < "." < "Z".
Mark(s) == IF s.tenth > 0 THEN 1 ELSE IF s.utc = "Z" THEN 2 ELSE 0
Text(s) == 2 * (10 * (3 * s.second + Mark(s)) + s.tenth) + (IF s.utc = "Z" THEN 1 ELSE 0)

\* No bound is given: since or until is absent or empty.
NoBound == -1

CreatedText(d) == Text(d.created.at)

\* The transcripts a query selects. session stands for all the filters, which
\* compare one field each.
MatchingExclusive(session, since, until) ==
  {d \in DOMAIN transcripts :
     /\ session = NoKey \/ d.key = session
     /\ since = NoBound \/ CreatedText(d) > since
     /\ until = NoBound \/ CreatedText(d) <= until}
Matching(session, since, until) ==
  {d \in DOMAIN transcripts :
     /\ session = NoKey \/ d.key = session
     /\ since = NoBound \/ CreatedText(d) >= since
     /\ until = NoBound \/ CreatedText(d) <= until}

\* The order of a list: by created_at as a text, then by id.
Before(d, e) ==
  \/ CreatedText(d) < CreatedText(e)
  \/ CreatedText(d) = CreatedText(e) /\ IdRank(d) < IdRank(e)

\* out[:limit]: how many items of n a reader gets who asks for Limit.
Clamped == IF Limit <= MaxLimit THEN Limit ELSE MaxLimit
Size(n) == IF n <= Clamped THEN n ELSE Clamped

\* The items of a list: those with fewer than Size others before them.
ItemsById(found) ==
  {d \in found :
     Cardinality({e \in found : IdRank(e) < IdRank(d)}) < Size(Cardinality(found))}
Items(found) ==
  {d \in found :
     Cardinality({e \in found : Before(e, d)}) < Size(Cardinality(found))}

\* session_chunks() without what the reader has: the chunks after since_seq.
AfterSeqAndOne(k, mark) == {c \in Range(chunks[k]) : c.seq > mark + 1}
AfterSeq(k, mark) == {c \in Range(chunks[k]) : c.seq > mark}
-----------------------------------------------------------------------------
\* The reader, by what it is doing:
\*   idle   nothing yet
\*   holds  it was given the transcript doc
\*   tails  it follows the log of a session, has the chunks seen, the highest seq
\*          of which is mark; polled was the length of the log the last time
\*   pages  it lists the transcripts of a session, or of all, from since on, and
\*          has got these; start is what was stored when it began, for comparison;
\*          more, done, or stuck on a stamp that fills a page
IdleReader == [mode |-> "idle"]
Holding(d) == [mode |-> "holds", doc |-> d]
Tailing(k, mark, seen, polled) ==
  [mode |-> "tails", key |-> k, mark |-> mark, seen |-> seen, polled |-> polled]
Paging(session, since, got, start, state) ==
  [mode |-> "pages", session |-> session, since |-> since, got |-> got,
   start |-> start, state |-> state]

ReadInit == Init /\ TokensInit /\ reader = IdleReader

\* No handler runs, so that the event loop takes a request.
FreeAnytime == up
Free == up /\ pc = "idle"

\* read_authorized(): a route goes on with a valid token only.
Authorized == Free /\ \E tk \in Token : Valid(tk)

Authenticate(tk) == Free /\ Issue(tk) /\ UNCHANGED <<vars, reader>>

\* 401.
Unauthorized(tk) == Free /\ Refuse(tk) /\ UNCHANGED <<vars, reader>>

\* GET /v1/transcript/{tid}; of an unknown id nothing is learned (404).
GetTranscript(d) ==
  /\ Authorized
  /\ HasTranscript(d)
  /\ reader' = Holding(d)
  /\ UNCHANGED <<vars, tokenVars>>

\* GET /v1/transcript/{tid}/chunks: the log of the transcript's session.
Poll(k, mark, seen) ==
  LET news == AfterSeq(k, mark)
  IN  Tailing(k, Max({mark} \cup {c.seq : c \in news}), seen \cup news, Len(chunks[k]))

GetChunks(d) ==
  /\ Authorized
  /\ HasTranscript(d)
  /\ reader' = IF reader.mode = "tails" /\ reader.key = d.key
               THEN Poll(reader.key, reader.mark, reader.seen)
               ELSE Poll(d.key, -1, {})
  /\ UNCHANGED <<vars, tokenVars>>

\* GET /v1/transcript: one page. A page that is not full is the last one.
Turn(session, since, got, start) ==
  LET found == Matching(session, since, NoBound)
      items == Items(found)
      last == Max({CreatedText(d) : d \in items})
      state == IF Size(Cardinality(found)) < Clamped THEN "done"
               ELSE IF last = since THEN "stuck" ELSE "more"
  IN  Paging(session, IF state = "more" THEN last ELSE since, got \cup items, start, state)

OpenList(session) ==
  /\ Authorized
  /\ reader' = Turn(session, NoBound, {},
                    {d \in DOMAIN transcripts : session = NoKey \/ d.key = session})
  /\ UNCHANGED <<vars, tokenVars>>

NextPage ==
  /\ Authorized
  /\ reader.mode = "pages" /\ reader.state = "more"
  /\ reader' = Turn(reader.session, reader.since, reader.got, reader.start)
  /\ UNCHANGED <<vars, tokenVars>>

-----------------------------------------------------------------------------
\* The write path goes on beside them. The tokens go with the process.
WriteStepKeepingTokens ==
  /\ Next
  /\ UNCHANGED <<tokens, clock, refused, reader>>
WriteStep ==
  /\ Next
  /\ tokens' = IF up' THEN tokens ELSE NoTokens
  /\ UNCHANGED <<clock, refused, reader>>

TimePasses == ClockMoves /\ UNCHANGED <<vars, reader>>

ReadStep ==
  \/ \E d \in DOMAIN transcripts : GetTranscript(d) \/ GetChunks(d)
  \/ \E session \in Key \cup {NoKey} : OpenList(session)
  \/ NextPage

ReadNext ==
  \/ WriteStep
  \/ \E tk \in Token : Authenticate(tk) \/ Unauthorized(tk)
  \/ ReadStep
  \/ TimePasses

ReadSpec == ReadInit /\ [][ReadNext]_readVars

-----------------------------------------------------------------------------
\* Properties.

\* The types of what is added to Sink, and that tokens go with the process that
\* issued them (auth.py:20).
ReadTypeOK ==
  /\ tokens \in [DOMAIN tokens -> Nat]
  /\ DOMAIN tokens \subseteq Token
  /\ clock \in 0 .. LastTick
  /\ refused \subseteq Token
  /\ ~up => tokens = NoTokens
  /\ reader.mode \in {"idle", "holds", "tails", "pages"}
  /\ reader.mode = "tails" =>
       /\ reader.key \in Key /\ reader.seen \subseteq Chunk
       /\ reader.mark \in Nat \cup {-1} /\ reader.polled \in Nat
  /\ reader.mode = "pages" =>
       /\ reader.session \in Key \cup {NoKey}
       /\ reader.since \in Nat \cup {NoBound}
       /\ reader.state \in {"more", "done", "stuck"}

\* What was shown to a reader survives every crash: nothing is shown between a
\* change in memory and its save (store.py:68, 143; app.py:292-338).
ShownDurable ==
  CASE reader.mode = "idle"  -> TRUE
    [] reader.mode = "holds" -> DurableTranscript(reader.doc)
    [] reader.mode = "tails" -> \A c \in reader.seen : Durable(c)
    [] reader.mode = "pages" -> \A d \in reader.got : DurableTranscript(d)

\* A reader who tails a session has all of the log it polled but chunks that
\* arrived after one of a higher seq, which since_seq hides (app.py:335).
MissesOnlyLate ==
  reader.mode = "tails" =>
    LET log == diskChunks[reader.key]
    IN  \A i \in 1 .. reader.polled :
          log[i] \in reader.seen \/ \E j \in 1 .. i - 1 : log[j].seq > log[i].seq

\* A reader who turns all pages gets every transcript there was when it began,
\* though there is no cursor, transcripts are stored meanwhile and the sink
\* crashes (app.py:311); stuck it is only where one stamp fills a page.
PagedAll ==
  reader.mode = "pages" =>
    /\ reader.state = "done" => reader.start \subseteq reader.got
    /\ reader.state = "stuck" =>
         Cardinality({d \in reader.got : CreatedText(d) = reader.since}) >= Clamped

\* Two stamps are written alike: as texts they order as the times do.
Time(s) == 10 * s.second + s.tenth
Alike(s, t) == s.utc = t.utc /\ Mark(s) = Mark(t)

\* A query by time selects what lies between since and until, both included,
\* except for what was written in another form less than a second away from one
\* of them (store.py:97-101).
WindowRight ==
  \A since, until \in Stamp : \A d \in DOMAIN transcripts :
    LET at == d.created.at
        selected == d \in Matching(NoKey, Text(since), Text(until))
    IN  /\ Alike(at, since) /\ Alike(at, until) =>
             (selected <=> Time(since) <= Time(at) /\ Time(at) <= Time(until))
        /\ since.second < at.second /\ at.second < until.second => selected
        /\ selected => since.second <= at.second /\ at.second <= until.second
=============================================================================
