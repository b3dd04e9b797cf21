------------------------------ MODULE Markdown ------------------------------
(***************************************************************************)
(* parse_markdown() (voxterm_sink_client/transcript.py): the lines of an   *)
(* exported transcript become segments timed from the session's start.     *)
(*                                                                         *)
(* An exported line carries a clock, HH:MM:SS, and no date; the parser     *)
(* counts a day whenever the clock goes back. The module reads a file line *)
(* by line as it was recorded, so what the parser makes of a line can be   *)
(* held against when the line was written. Lines that are no transcript    *)
(* lines, and the header fields, leave no trace but in the provenance, and *)
(* are left out; the text of a line is its label.                          *)
(***************************************************************************)
EXTENDS Integers, Sequences, FiniteSets

CONSTANTS
  Day,        \* seconds of a day
  Tolerance,  \* how much earlier than the session's start a line may be
  Label,      \* speakers' labels
  Unlabelled, \* the label of a line without one
  LastDay,    \* bound: lines are written on days 0..LastDay of the session
  MaxLines    \* bound: transcript lines of a file

ASSUME DayAssumption == Day \in Nat \ {0} /\ Tolerance \in Nat
ASSUME LabelAssumption == Unlabelled \notin Label
ASSUME BoundAssumption == LastDay \in Nat /\ MaxLines \in Nat

\* A speech line: when it was said, in seconds since day 0 began, and by whom.
RawSegment == [at : Nat, label : Label \cup {Unlabelled}]

VARIABLES
  sessionClock,   \* start_sod: the clock of the session's start, on day 0
  previousClock,  \* the clock of the line before, -1 before the first
  dayOffset,
  rawSegments,    \* the speech lines read
  controlCount,
  segments,       \* the result: [id, label, start, end]
  stage,          \* "reading", "parsed", or why the file is refused
  \* History.
  lines,          \* when each transcript line was written, in seconds since day
  spoken          \* 0 began, and when each speech line was

vars == <<sessionClock, previousClock, dayOffset, rawSegments, controlCount,
          segments, stage, lines, spoken>>

Init ==
  /\ sessionClock \in 0..(Day - 1)
  /\ previousClock = -1
  /\ dayOffset = 0
  /\ rawSegments = <<>>
  /\ controlCount = 0
  /\ segments = <<>>
  /\ stage = "reading"
  /\ lines = <<>>
  /\ spoken = <<>>

-----------------------------------------------------------------------------
\* The first loop: one line.

\* (NotLater and the other definitions that stand before the one they resemble
\* are faulty variants: the properties are tested against them, nothing uses
\* them.)
NotLater(clock) == previousClock # -1 /\ clock <= previousClock
Rollover(clock) == previousClock # -1 /\ clock < previousClock

ReadClock(day, clock) ==
  /\ stage = "reading" /\ Len(lines) < MaxLines
  /\ dayOffset' = IF Rollover(clock) THEN dayOffset + Day ELSE dayOffset
  /\ previousClock' = clock
  /\ lines' = Append(lines, day * Day + clock)
  /\ UNCHANGED <<sessionClock, segments, stage>>

SpeechLine(day, clock, label) ==
  /\ ReadClock(day, clock)
  /\ rawSegments' = Append(rawSegments, [at |-> dayOffset' + clock, label |-> label])
  /\ spoken' = Append(spoken, day * Day + clock)
  /\ UNCHANGED controlCount

\* A sys, rec or party event is counted and is no segment; its clock counts.
ControlLineKept(day, clock) ==
  /\ ReadClock(day, clock)
  /\ controlCount' = controlCount + 1
  /\ rawSegments' = Append(rawSegments, [at |-> dayOffset' + clock, label |-> Unlabelled])
  /\ spoken' = Append(spoken, day * Day + clock)
ControlLine(day, clock) ==
  /\ ReadClock(day, clock)
  /\ controlCount' = controlCount + 1
  /\ UNCHANGED <<rawSegments, spoken>>

\* A clock that is no time of day.
InvalidClock ==
  /\ stage = "reading" /\ Len(lines) < MaxLines
  /\ stage' = "invalid timestamp"
  /\ UNCHANGED <<sessionClock, previousClock, dayOffset, rawSegments, controlCount,
                 segments, lines, spoken>>

-----------------------------------------------------------------------------
\* The second loop, over all raw segments.

Elapsed(i) == rawSegments[i].at - sessionClock
Start(i) == IF Elapsed(i) < 0 THEN 0 ELSE Elapsed(i)

\* A segment ends where the next one starts, and the last one after a second.
EndUnclamped(i) == IF i < Len(rawSegments) THEN Elapsed(i + 1) ELSE Start(i) + 1
End(i) == IF i < Len(rawSegments) THEN Start(i + 1) ELSE Start(i) + 1

\* Labels are numbered from 1 by their first segment; no label is 0.
LabelsUpTo(i) == {rawSegments[j].label : j \in 1..i} \ {Unlabelled}
FirstOf(label) ==
  CHOOSE i \in DOMAIN rawSegments :
    rawSegments[i].label = label /\ \A j \in 1..(i - 1) : rawSegments[j].label # label
IdFromZero(label) ==
  IF label = Unlabelled THEN 0 ELSE Cardinality(LabelsUpTo(FirstOf(label))) - 1
Id(label) ==
  IF label = Unlabelled THEN 0 ELSE Cardinality(LabelsUpTo(FirstOf(label)))

Finish(result) ==
  /\ stage = "reading"
  /\ stage' = result
  /\ UNCHANGED <<sessionClock, previousClock, dayOffset, rawSegments, controlCount,
                 lines, spoken>>

NoSpeech ==
  /\ rawSegments = <<>>
  /\ Finish("no speech")
  /\ UNCHANGED segments

TooEarly(i) == Elapsed(i) < -Tolerance

PrecedesStart ==
  /\ \E i \in DOMAIN rawSegments : TooEarly(i)
  /\ Finish("precedes session start")
  /\ UNCHANGED segments

Parsed ==
  /\ rawSegments # <<>>
  /\ \A i \in DOMAIN rawSegments : ~TooEarly(i)
  /\ Finish("parsed")
  /\ segments' = [i \in DOMAIN rawSegments |->
                    [id |-> Id(rawSegments[i].label), label |-> rawSegments[i].label,
                     start |-> Start(i), end |-> End(i)]]

Next ==
  \/ \E day \in 0..LastDay, clock \in 0..(Day - 1) :
       ControlLine(day, clock)
       \/ \E label \in Label \cup {Unlabelled} : SpeechLine(day, clock, label)
  \/ InvalidClock
  \/ NoSpeech \/ PrecedesStart \/ Parsed

Spec == Init /\ [][Next]_vars

-----------------------------------------------------------------------------
\* Properties.

\* The types, and that a transcript line is a segment or counted as an event,
\* never both or neither.
TypeOK ==
  /\ sessionClock \in 0..(Day - 1)
  /\ previousClock \in -1..(Day - 1)
  /\ dayOffset \in Nat
  /\ rawSegments \in Seq(RawSegment)
  /\ controlCount \in Nat
  /\ stage \in {"reading", "parsed", "invalid timestamp", "no speech",
                "precedes session start"}
  /\ lines \in Seq(Nat) /\ spoken \in Seq(Nat)
  /\ Len(spoken) = Len(rawSegments)
  /\ Len(lines) = Len(rawSegments) + controlCount

\* Lines in the order they were written, never a day apart.
Steady ==
  \A i \in 1..(Len(lines) - 1) : lines[i + 1] - lines[i] \in 0..(Day - 1)
FromDayZero == lines # <<>> => lines[1] < Day

\* The clocks alone tell when each line was written, over any number of
\* midnights, if the first line is of the session's day (transcript.py:77-86).
TimesRecovered ==
  Steady /\ FromDayZero =>
    \A i \in DOMAIN rawSegments : rawSegments[i].at = spoken[i]

\* Whatever the clocks say: segments are in order, start at or after the session,
\* and each ends where the next one starts (transcript.py:91-104).
SegmentsAbut ==
  /\ \A i \in DOMAIN segments : 0 <= segments[i].start /\ segments[i].start <= segments[i].end
  /\ \A i \in 1..(Len(segments) - 1) : segments[i].end = segments[i + 1].start

\* One id per label and one label per id, numbered without gaps in the order the
\* labels appear; unlabelled lines are 0 (transcript.py:106-111).
SpeakersStable ==
  /\ \A i, j \in DOMAIN segments :
       segments[i].id = segments[j].id <=> segments[i].label = segments[j].label
  /\ \A i \in DOMAIN segments :
       /\ segments[i].label = Unlabelled => segments[i].id = 0
       /\ segments[i].id > 1 => \E j \in 1..(i - 1) : segments[j].id = segments[i].id - 1
                                  \/ segments[j].id = segments[i].id

\* The recorder opens the session and then writes its first line, within a day.
AfterStart == lines # <<>> => lines[1] - sessionClock \in 0..(Day - 1)

\* "Transcript line precedes session start" (transcript.py:98): a file is refused
\* with these words only if one of its lines does.
RefusedOnlyIfEarly ==
  stage = "precedes session start" /\ Steady => ~AfterStart
=============================================================================
