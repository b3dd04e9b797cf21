--------------------------- MODULE MarkdownProofs ---------------------------
(***************************************************************************)
(* The times and the speakers parse_markdown() gives to the lines of a     *)
(* file, for a day of any length and files of any length.                  *)
(***************************************************************************)
EXTENDS Markdown, FiniteSetTheorems, NumberLemmas

\* Two clocks less than a day apart tell which day the later one is of.
LEMMA ClockTellsDay ==
  ASSUME NEW D \in Nat \ {0}, NEW a \in Nat, NEW b \in Nat,
         NEW x \in 0..(D - 1), NEW y \in 0..(D - 1),
         (b * D + y) - (a * D + x) \in 0..(D - 1)
  PROVE  b * D = IF y < x THEN a * D + D ELSE a * D
<1> DEFINE A == a * D
           B == b * D
<1>1. A \in Nat /\ B \in Nat
  OBVIOUS
<1>2. CASE b = a
  BY <1>1, <1>2
<1>3. CASE b = a + 1
  <2>1. B = A + D
    BY <1>3
  <2> HIDE DEF A, B
  <2>2. (B + y) - (A + x) \in 0..(D - 1)
    BY DEF A, B
  <2> QED BY <1>1, <2>1, <2>2 DEF A, B
<1>4. CASE b < a
  <2>1. PICK k \in Nat : a = b + 1 + k
    BY <1>4
  <2>2. A = B + D + k * D /\ k * D \in Nat
    BY <2>1
  <2> HIDE DEF A, B
  <2>3. (B + y) - (A + x) \in 0..(D - 1)
    BY DEF A, B
  <2> QED BY <1>1, <2>2, <2>3
<1>5. CASE b > a + 1
  <2>1. PICK k \in Nat : b = a + 2 + k
    BY <1>5
  <2>2. B = A + 2 * D + k * D /\ k * D \in Nat
    BY <2>1
  <2> HIDE DEF A, B
  <2>3. (B + y) - (A + x) \in 0..(D - 1)
    BY DEF A, B
  <2> QED BY <1>1, <2>2, <2>3
<1> QED BY <1>2, <1>3, <1>4, <1>5

-----------------------------------------------------------------------------
LEMMA AppendTyped ==
  ASSUME NEW S, NEW s \in Seq(S), NEW e \in S
  PROVE  /\ Append(s, e) \in Seq(S) /\ Len(Append(s, e)) = Len(s) + 1
         /\ Len(s) \in Nat
OBVIOUS

LEMMA OneMore ==
  ASSUME NEW r \in Nat, NEW c \in Nat
  PROVE  (r + c) + 1 = r + (c + 1) /\ (r + c) + 1 = (r + 1) + c /\ c + 1 \in Nat
OBVIOUS

LEMMA InitType == Init => TypeOK
BY DayAssumption DEF Init, TypeOK

LEMMA ReadClockType ==
  ASSUME TypeOK, NEW day \in 0..LastDay, NEW clock \in 0..(Day - 1), ReadClock(day, clock)
  PROVE  /\ day * Day + clock \in Nat /\ dayOffset' + clock \in Nat
         /\ dayOffset' \in Nat /\ previousClock' \in -1..(Day - 1)
         /\ lines' = Append(lines, day * Day + clock) /\ lines' \in Seq(Nat)
         /\ sessionClock' \in 0..(Day - 1) /\ stage' = stage
<1> USE DayAssumption, BoundAssumption
<1>1. day * Day + clock \in Nat
  OBVIOUS
<1>2. dayOffset' \in Nat
  BY DEF TypeOK, ReadClock
<1>3. \A offset \in Nat : offset + clock \in Nat
  OBVIOUS
<1>4. dayOffset' + clock \in Nat
  BY <1>2, <1>3, Zenon
<1>5. lines' = Append(lines, day * Day + clock) /\ lines' \in Seq(Nat)
  BY <1>1, AppendTyped DEF TypeOK, ReadClock
<1> QED BY <1>1, <1>2, <1>4, <1>5 DEF TypeOK, ReadClock

LEMMA NextType == TypeOK /\ [Next]_vars => TypeOK'
<1> SUFFICES ASSUME TypeOK, [Next]_vars PROVE TypeOK'
  OBVIOUS
<1> USE DayAssumption
<1>1. CASE UNCHANGED vars
  BY <1>1 DEF TypeOK, vars
<1>2. ASSUME NEW day \in 0..LastDay, NEW clock \in 0..(Day - 1), ControlLine(day, clock)
      PROVE  TypeOK'
  <2>1. /\ dayOffset' \in Nat /\ previousClock' \in -1..(Day - 1)
        /\ lines' \in Seq(Nat) /\ sessionClock' \in 0..(Day - 1) /\ stage' = stage
    BY <1>2, ReadClockType DEF ControlLine
  <2>2. /\ controlCount' = controlCount + 1 /\ rawSegments' = rawSegments
        /\ spoken' = spoken
    BY <1>2 DEF ControlLine
  <2>3. /\ lines' = Append(lines, day * Day + clock)
        /\ day * Day + clock \in Nat
    BY <1>2, ReadClockType DEF ControlLine
  <2>4. Len(lines') = Len(lines) + 1 /\ Len(rawSegments) \in Nat
    BY <2>3, AppendTyped DEF TypeOK
  <2>5. /\ controlCount' \in Nat /\ Len(spoken') = Len(rawSegments')
        /\ Len(lines') = Len(rawSegments') + controlCount'
    BY <2>2, <2>4, OneMore, Zenon DEF TypeOK
  <2> QED BY <2>1, <2>2, <2>5 DEF TypeOK
<1>3. ASSUME NEW day \in 0..LastDay, NEW clock \in 0..(Day - 1),
             NEW label \in Label \cup {Unlabelled}, SpeechLine(day, clock, label)
      PROVE  TypeOK'
  <2> DEFINE at == dayOffset' + clock
             time == day * Day + clock
  <2>1. /\ dayOffset' \in Nat /\ previousClock' \in -1..(Day - 1)
        /\ lines' \in Seq(Nat) /\ sessionClock' \in 0..(Day - 1) /\ stage' = stage
        /\ lines' = Append(lines, time)
    BY <1>3, ReadClockType DEF SpeechLine
  <2>2. at \in Nat /\ time \in Nat
    BY <1>3, ReadClockType DEF SpeechLine
  <2>3. /\ controlCount' = controlCount
        /\ rawSegments' = Append(rawSegments, [at |-> at, label |-> label])
        /\ spoken' = Append(spoken, time)
    BY <1>3 DEF SpeechLine
  <2> HIDE DEF at, time
  <2>4. [at |-> at, label |-> label] \in RawSegment
    BY <2>2 DEF RawSegment
  <2>5. /\ rawSegments' \in Seq(RawSegment) /\ Len(rawSegments') = Len(rawSegments) + 1
        /\ spoken' \in Seq(Nat) /\ Len(spoken') = Len(spoken) + 1
        /\ Len(lines') = Len(lines) + 1 /\ Len(rawSegments) \in Nat
    BY <2>1, <2>2, <2>3, <2>4, AppendTyped DEF TypeOK
  <2>6. controlCount' = controlCount
    BY <2>3
  <2>7. Len(spoken') = Len(rawSegments') /\ Len(lines') = Len(rawSegments') + controlCount'
    <3>1. Len(spoken) = Len(rawSegments) /\ Len(lines) = Len(rawSegments) + controlCount
      BY DEF TypeOK
    <3>2. (Len(rawSegments) + controlCount) + 1 = (Len(rawSegments) + 1) + controlCount
      BY <2>5, OneMore DEF TypeOK
    <3>3. Len(spoken') = Len(rawSegments')
      BY <2>5, <3>1, Zenon
    <3>4. Len(lines') = Len(rawSegments') + controlCount'
      BY <2>5, <2>6, <3>1, <3>2, Zenon
    <3> QED BY <3>3, <3>4
  <2> QED BY <2>1, <2>3, <2>5, <2>6, <2>7 DEF TypeOK
<1>4. CASE InvalidClock
  BY <1>4 DEF TypeOK, InvalidClock
<1>5. CASE NoSpeech \/ PrecedesStart \/ Parsed
  BY <1>5 DEF TypeOK, NoSpeech, PrecedesStart, Parsed, Finish
<1> QED BY <1>1, <1>2, <1>3, <1>4, <1>5 DEF Next

\* Every line's part is typed, and a transcript line is a segment or an event.
THEOREM TypeCorrect == Spec => []TypeOK
BY InitType, NextType, PTL DEF Spec

-----------------------------------------------------------------------------
\* While the lines are steady, dayOffset is the day of the last one; then the
\* next line's clock tells its day, and its time is right.
LastLine == lines[Len(lines)]
DayKnown ==
  /\ lines = <<>> => previousClock = -1 /\ dayOffset = 0
  /\ lines # <<>> =>
       /\ previousClock \in 0..(Day - 1)
       /\ \E day \in Nat :
            /\ LastLine = day * Day + previousClock
            /\ Steady /\ FromDayZero => dayOffset = day * Day
TimesInv == TypeOK /\ DayKnown /\ TimesRecovered

LEMMA AppendedElements ==
  ASSUME NEW S, NEW s \in Seq(S), NEW e
  PROVE  /\ Append(s, e) # <<>> /\ Append(s, e)[Len(s) + 1] = e
         /\ Len(Append(s, e)) = Len(s) + 1 /\ Len(s) \in Nat
         /\ \A i \in 1..Len(s) : Append(s, e)[i] = s[i]
         /\ s # <<>> => Len(s) \in Nat \ {0}
OBVIOUS

\* Lines that stay steady were steady.
LEMMA SteadyBefore ==
  ASSUME TypeOK, NEW time \in Nat, lines' = Append(lines, time), Steady', FromDayZero'
  PROVE  /\ Steady /\ FromDayZero
         /\ lines = <<>> => time < Day
         /\ lines # <<>> => time - LastLine \in 0..(Day - 1)
<1>1. lines \in Seq(Nat)
  BY DEF TypeOK
<1> DEFINE n == Len(lines)
<1>2. /\ n \in Nat /\ Len(lines') = n + 1 /\ lines' # <<>> /\ lines'[n + 1] = time
      /\ \A i \in 1..n : lines'[i] = lines[i]
      /\ lines # <<>> => n \in Nat \ {0}
      /\ lines = <<>> => n = 0
  BY <1>1, AppendedElements
<1> HIDE DEF n
<1>3. \A i \in 1..n : lines'[i + 1] - lines'[i] \in 0..(Day - 1)
  BY <1>2 DEF Steady
<1>4. lines'[1] < Day
  BY <1>2 DEF FromDayZero
<1>5. Steady
  <2> SUFFICES ASSUME NEW i \in 1..(n - 1) PROVE lines[i + 1] - lines[i] \in 0..(Day - 1)
    BY DEF Steady, n
  <2>1. i \in 1..n /\ i + 1 \in 1..n
    BY <1>2
  <2>2. lines'[i + 1] = lines[i + 1] /\ lines'[i] = lines[i]
    BY <1>2, <2>1
  <2>3. lines'[i + 1] - lines'[i] \in 0..(Day - 1)
    BY <1>3, <2>1
  <2> QED BY <2>2, <2>3, Zenon
<1>6. FromDayZero
  BY <1>2, <1>4 DEF FromDayZero
<1>7. lines = <<>> => time < Day
  BY <1>2, <1>4
<1>8. lines # <<>> => time - LastLine \in 0..(Day - 1)
  BY <1>2, <1>3 DEF LastLine, n
<1> QED BY <1>5, <1>6, <1>7, <1>8

\* The offset after a line is the day the line is of.
LEMMA OffsetIsDay ==
  ASSUME TypeOK, DayKnown, NEW day \in 0..LastDay, NEW clock \in 0..(Day - 1),
         ReadClock(day, clock), Steady', FromDayZero'
  PROVE  dayOffset' = day * Day
<1> USE DayAssumption, BoundAssumption
<1>1. day \in Nat /\ clock \in Nat /\ day * Day + clock \in Nat
  OBVIOUS
<1>2. lines' = Append(lines, day * Day + clock)
  BY DEF ReadClock
<1>3. /\ Steady /\ FromDayZero
      /\ lines = <<>> => day * Day + clock < Day
      /\ lines # <<>> => (day * Day + clock) - LastLine \in 0..(Day - 1)
  BY <1>1, <1>2, SteadyBefore
<1>4. CASE lines = <<>>
  <2>1. dayOffset' = 0
    BY <1>4 DEF DayKnown, ReadClock, Rollover
  <2>2. day = 0
    <3>1. CASE day > 0
      <4>1. PICK k \in Nat : day = 1 + k
        BY <1>1, <3>1
      <4>2. day * Day = Day + k * Day /\ k * Day \in Nat
        BY <4>1
      <4> QED BY <1>1, <1>3, <1>4, <4>2
    <3> QED BY <1>1, <3>1
  <2> QED BY <2>1, <2>2
<1>5. CASE lines # <<>>
  <2>1. /\ previousClock \in 0..(Day - 1)
        /\ \E d \in Nat : LastLine = d * Day + previousClock /\ dayOffset = d * Day
    BY <1>3, <1>5 DEF DayKnown
  <2>2. PICK d \in Nat : LastLine = d * Day + previousClock /\ dayOffset = d * Day
    BY <2>1
  <2>3. (day * Day + clock) - (d * Day + previousClock) \in 0..(Day - 1)
    BY <1>3, <1>5, <2>2
  <2>4. day * Day = IF clock < previousClock THEN d * Day + Day ELSE d * Day
    BY <1>1, <2>1, <2>3, ClockTellsDay
  <2>5. dayOffset' = IF clock < previousClock THEN d * Day + Day ELSE d * Day
    BY <2>1, <2>2 DEF ReadClock, Rollover
  <2> QED BY <2>4, <2>5
<1> QED BY <1>4, <1>5

LEMMA ReadClockDayKnown ==
  ASSUME TypeOK, DayKnown, NEW day \in 0..LastDay, NEW clock \in 0..(Day - 1),
         ReadClock(day, clock)
  PROVE  DayKnown'
<1> USE DayAssumption, BoundAssumption
<1>1. day \in Nat
  OBVIOUS
<1>2. lines' = Append(lines, day * Day + clock) /\ previousClock' = clock
  BY DEF ReadClock
<1>3. lines' # <<>> /\ LastLine' = day * Day + previousClock'
  <2>1. lines \in Seq(Nat)
    BY DEF TypeOK
  <2>2. /\ lines' # <<>> /\ Len(lines') = Len(lines) + 1
        /\ lines'[Len(lines) + 1] = day * Day + clock
    BY <1>2, <2>1, AppendedElements
  <2> QED BY <1>2, <2>2, Zenon DEF LastLine
<1>4. Steady' /\ FromDayZero' => dayOffset' = day * Day
  BY OffsetIsDay
<1> QED BY <1>1, <1>2, <1>3, <1>4 DEF DayKnown

LEMMA NextTimes == TimesInv /\ [Next]_vars => TimesInv'
<1> SUFFICES ASSUME TimesInv, [Next]_vars PROVE TimesInv'
  OBVIOUS
<1>1. TypeOK /\ TypeOK' /\ DayKnown /\ TimesRecovered
  BY NextType DEF TimesInv
<1> DEFINE Unread == /\ lines' = lines /\ spoken' = spoken /\ rawSegments' = rawSegments
                     /\ previousClock' = previousClock /\ dayOffset' = dayOffset
<1>2. Unread => DayKnown' /\ TimesRecovered'
  BY <1>1 DEF DayKnown, TimesRecovered, Steady, FromDayZero, LastLine
<1>3. ASSUME NEW day \in 0..LastDay, NEW clock \in 0..(Day - 1), ReadClock(day, clock)
      PROVE  /\ DayKnown'
             /\ Steady' /\ FromDayZero' =>
                  /\ dayOffset' = day * Day
                  /\ \A i \in DOMAIN rawSegments : rawSegments[i].at = spoken[i]
  <2>1. day * Day + clock \in Nat
    BY DayAssumption, BoundAssumption
  <2>2. lines' = Append(lines, day * Day + clock)
    BY <1>3 DEF ReadClock
  <2>3. Steady' /\ FromDayZero' => Steady /\ FromDayZero
    BY <1>1, <2>1, <2>2, SteadyBefore
  <2>4. DayKnown'
    BY <1>1, <1>3, ReadClockDayKnown
  <2>5. Steady' /\ FromDayZero' => dayOffset' = day * Day
    BY <1>1, <1>3, OffsetIsDay
  <2> QED BY <1>1, <2>3, <2>4, <2>5 DEF TimesRecovered
<1>4. ASSUME NEW day \in 0..LastDay, NEW clock \in 0..(Day - 1), ControlLine(day, clock)
      PROVE  DayKnown' /\ TimesRecovered'
  <2>1. ReadClock(day, clock) /\ rawSegments' = rawSegments /\ spoken' = spoken
    BY <1>4 DEF ControlLine
  <2> QED BY <1>3, <2>1 DEF TimesRecovered
<1>5. ASSUME NEW day \in 0..LastDay, NEW clock \in 0..(Day - 1),
             NEW label \in Label \cup {Unlabelled}, SpeechLine(day, clock, label)
      PROVE  DayKnown' /\ TimesRecovered'
  <2> DEFINE segment == [at |-> dayOffset' + clock, label |-> label]
             time == day * Day + clock
             n == Len(rawSegments)
  <2>1. /\ ReadClock(day, clock)
        /\ rawSegments' = Append(rawSegments, segment) /\ spoken' = Append(spoken, time)
    BY <1>5 DEF SpeechLine
  <2>2. segment.at = dayOffset' + clock
    OBVIOUS
  <2> HIDE DEF segment, time, n
  <2>3. /\ n \in Nat /\ DOMAIN rawSegments = 1..n /\ DOMAIN rawSegments' = 1..(n + 1)
        /\ rawSegments'[n + 1] = segment /\ spoken'[n + 1] = time
        /\ \A i \in 1..n : rawSegments'[i] = rawSegments[i] /\ spoken'[i] = spoken[i]
    <3>1. rawSegments \in Seq(RawSegment) /\ spoken \in Seq(Nat) /\ Len(spoken) = n
          /\ rawSegments' \in Seq(RawSegment)
      BY <1>1 DEF TypeOK, n
    <3>2. DOMAIN rawSegments = 1..n /\ DOMAIN rawSegments' = 1..Len(rawSegments')
      BY <3>1 DEF n
    <3> QED BY <2>1, <3>1, <3>2, AppendedElements DEF n
  <2>4. ASSUME Steady', FromDayZero', NEW i \in DOMAIN rawSegments'
        PROVE  rawSegments'[i].at = spoken'[i]
    <3>1. dayOffset' = day * Day
      BY <1>3, <2>1, <2>4
    <3>2. segment.at = time
      BY <2>2, <3>1 DEF time
    <3>3. \A j \in DOMAIN rawSegments : rawSegments[j].at = spoken[j]
      BY <1>3, <2>1, <2>4
    <3> QED BY <2>3, <2>4, <3>2, <3>3
  <2> QED BY <1>3, <2>1, <2>4 DEF TimesRecovered
<1>6. CASE UNCHANGED vars
  <2>1. Unread
    BY <1>6 DEF vars
  <2> QED BY <1>1, <1>2, <2>1, Zenon DEF TimesInv
<1>7. CASE InvalidClock
  <2>1. Unread
    BY <1>7 DEF InvalidClock
  <2> QED BY <1>1, <1>2, <2>1, Zenon DEF TimesInv
<1>8. CASE NoSpeech \/ PrecedesStart \/ Parsed
  <2>1. Unread
    BY <1>8 DEF NoSpeech, PrecedesStart, Parsed, Finish
  <2> QED BY <1>1, <1>2, <2>1, Zenon DEF TimesInv
<1> QED BY <1>1, <1>4, <1>5, <1>6, <1>7, <1>8 DEF Next, TimesInv

\* Every line of a steady file is given the time it was written, over any number
\* of midnights (transcript.py:77-86).
THEOREM TimesAreRecovered == Spec => []TimesRecovered
<1>1. Init => TimesInv
  BY InitType DEF Init, TimesInv, DayKnown, TimesRecovered
<1>2. TimesInv => TimesRecovered
  BY DEF TimesInv
<1> QED BY <1>1, <1>2, NextTimes, PTL DEF Spec

-----------------------------------------------------------------------------
\* dayOffset + previousClock never decreases, so raw segments are in order.
RawInOrder ==
  /\ \A i \in 1..(Len(rawSegments) - 1) : rawSegments[i].at <= rawSegments[i + 1].at
  /\ \A i \in DOMAIN rawSegments : rawSegments[i].at <= dayOffset + previousClock
OrderInv == TypeOK /\ RawInOrder /\ SegmentsAbut

LEMMA ReadClockAdvances ==
  ASSUME TypeOK, NEW day \in 0..LastDay, NEW clock \in 0..(Day - 1),
         ReadClock(day, clock)
  PROVE  /\ dayOffset' + previousClock' = dayOffset' + clock
         /\ dayOffset + previousClock \in Int /\ dayOffset' + clock \in Int
         /\ dayOffset + previousClock <= dayOffset' + clock
<1>1. /\ dayOffset' = IF Rollover(clock) THEN dayOffset + Day ELSE dayOffset
      /\ previousClock' = clock
  BY DEF ReadClock
<1>2. /\ dayOffset \in Nat /\ previousClock \in -1..(Day - 1) /\ Day \in Nat \ {0}
      /\ clock \in Nat /\ clock <= Day - 1
  <2>1. Day \in Nat \ {0}
    BY DayAssumption
  <2>2. dayOffset \in Nat /\ previousClock \in -1..(Day - 1)
    BY DEF TypeOK
  <2> QED BY <2>1, <2>2
<1>3. CASE Rollover(clock)
  BY <1>1, <1>2, <1>3
<1>4. CASE ~Rollover(clock)
  BY <1>1, <1>2, <1>4 DEF Rollover
<1> QED BY <1>3, <1>4

LEMMA OrderKept ==
  ASSUME TypeOK, RawInOrder, NEW day \in 0..LastDay, NEW clock \in 0..(Day - 1),
         ReadClock(day, clock),
         \/ rawSegments' = rawSegments
         \/ \E label \in Label \cup {Unlabelled} :
              rawSegments' = Append(rawSegments, [at |-> dayOffset' + clock, label |-> label])
  PROVE  RawInOrder'
<1> DEFINE before == dayOffset + previousClock
           now == dayOffset' + clock
           n == Len(rawSegments)
<1>1. /\ dayOffset' + previousClock' = now /\ before \in Int /\ now \in Int
      /\ before <= now
  BY ReadClockAdvances
<1>2. /\ rawSegments \in Seq(RawSegment) /\ n \in Nat /\ DOMAIN rawSegments = 1..n
      /\ \A i \in 1..n : rawSegments[i].at \in Nat
  <2>1. rawSegments \in Seq(RawSegment)
    BY DEF TypeOK
  <2>2. \A i \in 1..n : rawSegments[i] \in RawSegment
    BY <2>1
  <2> QED BY <2>1, <2>2 DEF RawSegment
<1>3. /\ \A i \in 1..(n - 1) : rawSegments[i].at <= rawSegments[i + 1].at
      /\ \A i \in 1..n : rawSegments[i].at <= before
  BY <1>2 DEF RawInOrder
<1> HIDE DEF before, now, n
<1>4. \A i \in 1..n : rawSegments[i].at <= now
  BY <1>1, <1>2, <1>3
<1>5. CASE rawSegments' = rawSegments
  <2>1. \A i \in DOMAIN rawSegments' : rawSegments'[i].at <= dayOffset' + previousClock'
    BY <1>1, <1>2, <1>4, <1>5, Zenon
  <2> QED BY <1>3, <1>5, <2>1 DEF RawInOrder, n
<1>6. ASSUME NEW label \in Label \cup {Unlabelled},
             rawSegments' = Append(rawSegments, [at |-> now, label |-> label])
      PROVE  RawInOrder'
  <2> DEFINE segment == [at |-> now, label |-> label]
  <2>1. segment.at = now
    OBVIOUS
  <2> HIDE DEF segment
  <2>2. /\ Len(rawSegments') = n + 1 /\ DOMAIN rawSegments' = 1..(n + 1)
        /\ rawSegments'[n + 1].at = now
        /\ \A i \in 1..n : rawSegments'[i] = rawSegments[i]
    <3>1. /\ Append(rawSegments, segment)[n + 1] = segment
          /\ Len(Append(rawSegments, segment)) = n + 1
          /\ \A i \in 1..n : Append(rawSegments, segment)[i] = rawSegments[i]
      BY <1>2, AppendedElements DEF n
    <3>2. DOMAIN Append(rawSegments, segment) = 1..(n + 1)
      BY <1>2 DEF n
    <3>3. rawSegments' = Append(rawSegments, segment)
      BY <1>6 DEF segment
    <3> QED BY <2>1, <3>1, <3>2, <3>3
  <2>3. \A i \in 1..n : rawSegments'[i].at <= rawSegments'[i + 1].at
    <3> SUFFICES ASSUME NEW i \in 1..n PROVE rawSegments'[i].at <= rawSegments'[i + 1].at
      OBVIOUS
    <3>1. CASE i = n
      BY <1>4, <2>2, <3>1
    <3>2. CASE i # n
      <4>1. i \in 1..(n - 1) /\ i + 1 \in 1..n
        BY <1>2, <3>2
      <4> QED BY <1>3, <2>2, <4>1, Zenon
    <3> QED BY <3>1, <3>2
  <2>4. \A i \in 1..(n + 1) : rawSegments'[i].at <= now
    <3> SUFFICES ASSUME NEW i \in 1..(n + 1) PROVE rawSegments'[i].at <= now
      OBVIOUS
    <3>1. CASE i = n + 1
      BY <1>1, <2>2, <3>1
    <3>2. CASE i # n + 1
      BY <1>2, <1>4, <2>2, <3>2
    <3> QED BY <3>1, <3>2
  <2>5. Len(rawSegments') - 1 = n
    BY <1>2, <2>2
  <2>6. /\ \A i \in 1..(Len(rawSegments') - 1) : rawSegments'[i].at <= rawSegments'[i + 1].at
        /\ \A i \in DOMAIN rawSegments' : rawSegments'[i].at <= dayOffset' + previousClock'
    <3>1. \A i \in 1..(Len(rawSegments') - 1) : rawSegments'[i].at <= rawSegments'[i + 1].at
      BY <2>3, <2>5, Zenon
    <3>2. \A i \in DOMAIN rawSegments' : rawSegments'[i].at <= dayOffset' + previousClock'
      BY <1>1, <2>2, <2>4, Zenon
    <3> QED BY <3>1, <3>2
  <2> QED BY <2>6, Zenon DEF RawInOrder
<1> QED BY <1>5, <1>6 DEF now

LEMMA ParsedAbuts ==
  ASSUME TypeOK, RawInOrder, Parsed
  PROVE  SegmentsAbut'
<1> DEFINE n == Len(rawSegments)
<1>1. /\ n \in Nat /\ DOMAIN rawSegments = 1..n /\ sessionClock \in Int
      /\ \A i \in 1..n : rawSegments[i].at \in Nat
  <2>1. rawSegments \in Seq(RawSegment) /\ sessionClock \in Int
    <3>1. rawSegments \in Seq(RawSegment) /\ sessionClock \in 0..(Day - 1)
      BY DEF TypeOK
    <3> QED BY <3>1, DayAssumption
  <2>2. \A i \in 1..n : rawSegments[i] \in RawSegment
    BY <2>1
  <2> QED BY <2>1, <2>2 DEF RawSegment
<1>2. \A i \in 1..(n - 1) : rawSegments[i].at <= rawSegments[i + 1].at
  BY DEF RawInOrder
<1>3. segments' = [i \in 1..n |->
                    [id |-> Id(rawSegments[i].label), label |-> rawSegments[i].label,
                     start |-> Start(i), end |-> End(i)]]
  BY <1>1 DEF Parsed
<1>4. /\ Len(segments') = n /\ DOMAIN segments' = 1..n
      /\ \A i \in 1..n : segments'[i].start = Start(i) /\ segments'[i].end = End(i)
  BY <1>1, <1>3
<1> HIDE DEF n
<1>5. \A i \in 1..n : Start(i) \in Nat
  BY <1>1 DEF Start, Elapsed
<1>6. \A i \in 1..(n - 1) : i \in 1..n /\ i + 1 \in 1..n /\ End(i) = Start(i + 1)
  BY <1>1 DEF End, n
<1>7. \A i \in 1..(n - 1) : Start(i) <= Start(i + 1)
  BY <1>1, <1>2, <1>6 DEF Start, Elapsed
<1>8. \A i \in 1..n : Start(i) <= End(i)
  <2> SUFFICES ASSUME NEW i \in 1..n PROVE Start(i) <= End(i)
    OBVIOUS
  <2>1. CASE i = n
    <3>1. End(i) = Start(i) + 1
      BY <1>1, <2>1 DEF End, n
    <3> QED BY <1>5, <3>1
  <2>2. CASE i # n
    BY <1>1, <1>6, <1>7, <2>2
  <2> QED BY <2>1, <2>2
<1>9. \A i \in 1..n : 0 <= Start(i)
  BY <1>5
<1>10. /\ \A i \in DOMAIN segments' :
            0 <= segments'[i].start /\ segments'[i].start <= segments'[i].end
       /\ \A i \in 1..(Len(segments') - 1) : segments'[i].end = segments'[i + 1].start
  BY <1>4, <1>6, <1>8, <1>9, Zenon
<1> QED BY <1>10, Zenon DEF SegmentsAbut

LEMMA NextOrder == OrderInv /\ [Next]_vars => OrderInv'
<1> SUFFICES ASSUME OrderInv, [Next]_vars PROVE OrderInv'
  OBVIOUS
<1>1. TypeOK /\ TypeOK' /\ RawInOrder /\ SegmentsAbut
  BY NextType DEF OrderInv
<1> DEFINE Unread == /\ rawSegments' = rawSegments /\ previousClock' = previousClock
                     /\ dayOffset' = dayOffset
<1>2. Unread => RawInOrder'
  BY <1>1 DEF RawInOrder
<1>3. segments' = segments => SegmentsAbut'
  BY <1>1 DEF SegmentsAbut
<1>4. ASSUME NEW day \in 0..LastDay, NEW clock \in 0..(Day - 1), ControlLine(day, clock)
      PROVE  RawInOrder' /\ segments' = segments
  <2>1. ReadClock(day, clock) /\ rawSegments' = rawSegments /\ segments' = segments
    BY <1>4 DEF ControlLine, ReadClock
  <2> QED BY <1>1, <2>1, OrderKept
<1>5. ASSUME NEW day \in 0..LastDay, NEW clock \in 0..(Day - 1),
             NEW label \in Label \cup {Unlabelled}, SpeechLine(day, clock, label)
      PROVE  RawInOrder' /\ segments' = segments
  <2>1. /\ ReadClock(day, clock) /\ segments' = segments
        /\ rawSegments' = Append(rawSegments, [at |-> dayOffset' + clock, label |-> label])
    BY <1>5 DEF SpeechLine, ReadClock
  <2> QED BY <1>1, <2>1, OrderKept
<1>6. CASE UNCHANGED vars
  <2>1. Unread /\ segments' = segments
    BY <1>6 DEF vars
  <2> QED BY <1>1, <1>2, <1>3, <2>1, Zenon DEF OrderInv
<1>7. CASE InvalidClock \/ NoSpeech \/ PrecedesStart
  <2>1. Unread /\ segments' = segments
    BY <1>7 DEF InvalidClock, NoSpeech, PrecedesStart, Finish
  <2> QED BY <1>1, <1>2, <1>3, <2>1, Zenon DEF OrderInv
<1>8. CASE Parsed
  <2>1. Unread
    BY <1>8 DEF Parsed, Finish
  <2> QED BY <1>1, <1>2, <1>8, <2>1, ParsedAbuts, Zenon DEF OrderInv
<1> QED BY <1>1, <1>3, <1>4, <1>5, <1>6, <1>7, <1>8 DEF Next, OrderInv

\* Segments are in order and abut, whatever clocks the file has
\* (transcript.py:91-104).
THEOREM SegmentsInOrder == Spec => []SegmentsAbut
<1>1. Init => OrderInv
  BY InitType DEF Init, OrderInv, RawInOrder, SegmentsAbut
<1>2. OrderInv => SegmentsAbut
  BY DEF OrderInv
<1> QED BY <1>1, <1>2, NextOrder, PTL DEF Spec

-----------------------------------------------------------------------------
\* Speakers. Ids are counts of labels, so the sets counted are what matters.
LEMMA LabelsFinite ==
  ASSUME NEW i \in Nat PROVE IsFiniteSet(LabelsUpTo(i)) /\ Cardinality(LabelsUpTo(i)) \in Nat
<1> DEFINE All == {rawSegments[j].label : j \in 1..i}
           f == [j \in 1..i |-> rawSegments[j].label]
<1>1. f \in Surjection(1..i, All)
  BY DEF Surjection
<1>2. ExistsSurjection(1..i, All)
  BY <1>1 DEF ExistsSurjection
<1>3. IsFiniteSet(All)
  BY <1>2, FS_NatSurjection
<1>4. LabelsUpTo(i) \in SUBSET All
  BY DEF LabelsUpTo
<1>5. IsFiniteSet(LabelsUpTo(i))
  BY <1>3, <1>4, FS_Subset
<1> QED BY <1>5, FS_CardinalityType

\* One more line adds its label, if it has one.
LEMMA LabelsGrow ==
  ASSUME NEW i \in Nat, NEW j \in Nat
  PROVE  /\ i <= j => LabelsUpTo(i) \subseteq LabelsUpTo(j)
         /\ i # 0 => LabelsUpTo(i) = LabelsUpTo(i - 1) \cup ({rawSegments[i].label} \ {Unlabelled})
         /\ i # 0 => LabelsUpTo(i) \subseteq LabelsUpTo(i - 1) \cup {rawSegments[i].label}
         /\ LabelsUpTo(0) = {}
<1>1. i <= j => LabelsUpTo(i) \subseteq LabelsUpTo(j)
  BY DEF LabelsUpTo
<1>2. i # 0 => LabelsUpTo(i) = LabelsUpTo(i - 1) \cup ({rawSegments[i].label} \ {Unlabelled})
  <2> SUFFICES ASSUME i # 0
               PROVE  LabelsUpTo(i) = LabelsUpTo(i - 1) \cup ({rawSegments[i].label} \ {Unlabelled})
    OBVIOUS
  <2>1. 1..i = 1..(i - 1) \cup {i}
    OBVIOUS
  <2> QED BY <2>1 DEF LabelsUpTo
<1>3. LabelsUpTo(0) = {}
  BY DEF LabelsUpTo
<1> QED BY <1>1, <1>2, <1>3

\* Every label has a first line.
LEMMA FirstExists ==
  ASSUME TypeOK, NEW i \in DOMAIN rawSegments
  PROVE  LET f == FirstOf(rawSegments[i].label)
         IN  /\ f \in DOMAIN rawSegments /\ f \in Nat \ {0} /\ f <= i
             /\ rawSegments[f].label = rawSegments[i].label
             /\ \A j \in 1..(f - 1) : rawSegments[j].label # rawSegments[i].label
<1> DEFINE n == Len(rawSegments)
           L == rawSegments[i].label
           S == {j \in 1..n : rawSegments[j].label = L}
<1>1. n \in Nat /\ DOMAIN rawSegments = 1..n
  <2>1. rawSegments \in Seq(RawSegment)
    BY DEF TypeOK
  <2> QED BY <2>1
<1> HIDE DEF n
<1>2. i \in S /\ S \in SUBSET Nat
  BY <1>1
<1>3. PICK m \in S : \A k \in S : m <= k
  BY <1>2, LeastNumber
<1>4. m \in 1..n /\ m \in DOMAIN rawSegments /\ rawSegments[m].label = L
  BY <1>1, <1>3
<1>5. \A j \in 1..(m - 1) : rawSegments[j].label # L
  BY <1>1, <1>3, <1>4
<1> HIDE DEF L
<1> DEFINE f == FirstOf(L)
<1>6. f \in DOMAIN rawSegments /\ rawSegments[f].label = L
      /\ \A j \in 1..(f - 1) : rawSegments[j].label # L
  BY <1>4, <1>5, Zenon DEF FirstOf
<1> HIDE DEF f
<1>7. f \in Nat \ {0} /\ f <= i
  <2>1. f \in 1..n /\ i \in 1..n
    BY <1>1, <1>6
  <2>2. rawSegments[i].label = L
    BY DEF L
  <2>3. CASE f > i
    <3>1. i \in 1..(f - 1)
      BY <1>1, <2>1, <2>3
    <3> QED BY <1>6, <2>2, <3>1
  <2> QED BY <1>1, <2>1, <2>3
<1> QED BY <1>6, <1>7 DEF f, L

\* The label of a line that is its first is new: one label more than before.
LEMMA FirstAddsOne ==
  ASSUME NEW i \in Nat \ {0}, rawSegments[i].label # Unlabelled,
         \A j \in 1..(i - 1) : rawSegments[j].label # rawSegments[i].label
  PROVE  /\ Cardinality(LabelsUpTo(i)) = Cardinality(LabelsUpTo(i - 1)) + 1
         /\ Cardinality(LabelsUpTo(i)) \in Nat \ {0}
<1>1. i - 1 \in Nat
  OBVIOUS
<1>2. LabelsUpTo(i) = LabelsUpTo(i - 1) \cup {rawSegments[i].label}
  <2>1. LabelsUpTo(i) = LabelsUpTo(i - 1) \cup ({rawSegments[i].label} \ {Unlabelled})
    BY LabelsGrow
  <2> QED BY <2>1
<1>3. rawSegments[i].label \notin LabelsUpTo(i - 1)
  BY DEF LabelsUpTo
<1>4. IsFiniteSet(LabelsUpTo(i - 1)) /\ Cardinality(LabelsUpTo(i - 1)) \in Nat
  BY <1>1, LabelsFinite
<1> DEFINE before == LabelsUpTo(i - 1)
<1>5. Cardinality(before \cup {rawSegments[i].label}) = Cardinality(before) + 1
  BY <1>3, <1>4, FS_AddElement
<1> QED BY <1>2, <1>4, <1>5

LEMMA IdCounts ==
  ASSUME TypeOK, NEW i \in DOMAIN rawSegments, rawSegments[i].label # Unlabelled
  PROVE  LET f == FirstOf(rawSegments[i].label)
         IN  /\ Id(rawSegments[i].label) = Cardinality(LabelsUpTo(f))
             /\ Cardinality(LabelsUpTo(f)) = Cardinality(LabelsUpTo(f - 1)) + 1
             /\ Id(rawSegments[i].label) \in Nat \ {0}
<1> DEFINE L == rawSegments[i].label
           f == FirstOf(L)
<1>1. /\ f \in Nat \ {0} /\ rawSegments[f].label = L
      /\ \A j \in 1..(f - 1) : rawSegments[j].label # L
  BY FirstExists
<1>2. Id(L) = Cardinality(LabelsUpTo(f))
  BY DEF Id
<1> HIDE DEF f
<1>3. /\ Cardinality(LabelsUpTo(f)) = Cardinality(LabelsUpTo(f - 1)) + 1
      /\ Cardinality(LabelsUpTo(f)) \in Nat \ {0}
  BY <1>1, FirstAddsOne
<1> QED BY <1>2, <1>3 DEF f

\* A label that first appears later counts more labels.
LEMMA LaterCountsMore ==
  ASSUME TypeOK, NEW i \in DOMAIN rawSegments, NEW j \in DOMAIN rawSegments,
         rawSegments[i].label # Unlabelled, rawSegments[j].label # Unlabelled,
         FirstOf(rawSegments[i].label) < FirstOf(rawSegments[j].label)
  PROVE  Id(rawSegments[i].label) < Id(rawSegments[j].label)
<1> DEFINE f == FirstOf(rawSegments[i].label)
           g == FirstOf(rawSegments[j].label)
<1>1. f \in Nat \ {0} /\ g \in Nat \ {0}
  BY FirstExists
<1>2. /\ Id(rawSegments[i].label) = Cardinality(LabelsUpTo(f))
      /\ Id(rawSegments[j].label) = Cardinality(LabelsUpTo(g - 1)) + 1
  BY IdCounts
<1>3. f < g
  OBVIOUS
<1> HIDE DEF f, g
<1>4. f \in Nat /\ g - 1 \in Nat /\ f <= g - 1
  BY <1>1, <1>3
<1>5. LabelsUpTo(f) \in SUBSET LabelsUpTo(g - 1)
  BY <1>4, LabelsGrow
<1>6. /\ IsFiniteSet(LabelsUpTo(g - 1)) /\ Cardinality(LabelsUpTo(g - 1)) \in Nat
      /\ Cardinality(LabelsUpTo(f)) \in Nat
  BY <1>4, LabelsFinite
<1>7. Cardinality(LabelsUpTo(f)) <= Cardinality(LabelsUpTo(g - 1))
  BY <1>5, <1>6, FS_Subset
<1> QED BY <1>2, <1>6, <1>7

LEMMA IdsTellLabels ==
  ASSUME TypeOK, NEW i \in DOMAIN rawSegments, NEW j \in DOMAIN rawSegments
  PROVE  Id(rawSegments[i].label) = Id(rawSegments[j].label)
           <=> rawSegments[i].label = rawSegments[j].label
<1> DEFINE K == rawSegments[i].label
           L == rawSegments[j].label
<1>1. K = L => Id(K) = Id(L)
  OBVIOUS
<1>2. ASSUME K # L, K = Unlabelled \/ L = Unlabelled PROVE Id(K) # Id(L)
  <2>1. /\ K # Unlabelled => Id(K) \in Nat \ {0}
        /\ L # Unlabelled => Id(L) \in Nat \ {0}
    BY IdCounts
  <2>2. Id(Unlabelled) = 0
    BY DEF Id
  <2> QED BY <1>2, <2>1, <2>2
<1>3. ASSUME K # L, K # Unlabelled, L # Unlabelled PROVE Id(K) # Id(L)
  <2>1. /\ FirstOf(K) \in Nat /\ FirstOf(L) \in Nat
        /\ rawSegments[FirstOf(K)].label = K /\ rawSegments[FirstOf(L)].label = L
    BY FirstExists
  <2>2. FirstOf(K) < FirstOf(L) \/ FirstOf(L) < FirstOf(K)
    <3>1. FirstOf(K) # FirstOf(L)
      BY <1>3, <2>1
    <3> QED BY <2>1, <3>1
  <2>3. Id(K) \in Nat /\ Id(L) \in Nat
    BY <1>3, IdCounts
  <2>4. FirstOf(K) < FirstOf(L) => Id(K) < Id(L)
    BY <1>3, LaterCountsMore
  <2>5. FirstOf(L) < FirstOf(K) => Id(L) < Id(K)
    BY <1>3, LaterCountsMore
  <2> HIDE DEF K, L
  <2> QED BY <2>2, <2>3, <2>4, <2>5
<1> QED BY <1>1, <1>2, <1>3

\* The id before a label's is in use when the label first appears: it is the
\* label's that was the last to be new.
LEMMA NoIdSkipped ==
  ASSUME TypeOK, NEW i \in DOMAIN rawSegments, Id(rawSegments[i].label) > 1
  PROVE  \E j \in 1..(i - 1) : \/ Id(rawSegments[j].label) = Id(rawSegments[i].label) - 1
                                \/ Id(rawSegments[j].label) = Id(rawSegments[i].label)
<1> DEFINE n == Len(rawSegments)
           L == rawSegments[i].label
           f == FirstOf(L)
<1>1. n \in Nat /\ DOMAIN rawSegments = 1..n
  <2>1. rawSegments \in Seq(RawSegment)
    BY DEF TypeOK
  <2> QED BY <2>1
<1>2. L # Unlabelled
  BY DEF Id
<1>3. /\ f \in Nat \ {0} /\ f <= i /\ f \in DOMAIN rawSegments
      /\ rawSegments[f].label = L
  BY FirstExists
<1>4. Id(L) = Cardinality(LabelsUpTo(f - 1)) + 1
  BY <1>2, IdCounts
<1> HIDE DEF n, L, f
<1>5. f - 1 \in Nat /\ Cardinality(LabelsUpTo(f - 1)) \in Nat
  BY <1>3, LabelsFinite
<1>6. LabelsUpTo(f - 1) # {}
  <2>1. Cardinality(LabelsUpTo(f - 1)) # 0
    BY <1>4, <1>5 DEF L
  <2> QED BY <2>1, FS_EmptySet
<1> DEFINE S == {j \in 0..(f - 1) : LabelsUpTo(j) = LabelsUpTo(f - 1)}
<1>7. PICK m \in S : \A k \in S : m <= k
  <2>1. f - 1 \in S /\ S \in SUBSET Nat
    BY <1>5
  <2> QED BY <2>1, LeastNumber
<1>8. m \in 0..(f - 1) /\ LabelsUpTo(m) = LabelsUpTo(f - 1)
  BY <1>7
<1>9. m \in Nat \ {0} /\ m \in 1..(f - 1) /\ m - 1 \in 0..(f - 1) /\ m \in Nat
  BY <1>5, <1>6, <1>8, LabelsGrow
<1>10. LabelsUpTo(m - 1) # LabelsUpTo(m)
  BY <1>5, <1>7, <1>8, <1>9
<1> DEFINE M == rawSegments[m].label
<1>11. M # Unlabelled /\ M \notin LabelsUpTo(m - 1)
  <2>1. LabelsUpTo(m) = LabelsUpTo(m - 1) \cup ({M} \ {Unlabelled})
    BY <1>9, LabelsGrow
  <2> QED BY <1>10, <2>1
<1>12. m \in DOMAIN rawSegments /\ m \in 1..(i - 1)
  <2>1. i \in 1..n
    BY <1>1
  <2> QED BY <1>1, <1>3, <1>9, <2>1
<1>13. FirstOf(M) = m
  <2> DEFINE g == FirstOf(M)
  <2>1. g \in Nat \ {0} /\ g <= m /\ rawSegments[g].label = M
    BY <1>12, FirstExists
  <2>2. CASE g # m
    <3>1. g \in 1..(m - 1)
      BY <1>9, <2>1, <2>2
    <3>2. M \in LabelsUpTo(m - 1)
      BY <1>11, <2>1, <3>1 DEF LabelsUpTo
    <3> QED BY <1>11, <3>2
  <2> QED BY <2>2
<1>14. Id(M) = Cardinality(LabelsUpTo(m))
  BY <1>11, <1>12, <1>13, IdCounts
<1>15. Id(M) = Id(L) - 1
  BY <1>4, <1>5, <1>8, <1>14
<1> QED BY <1>12, <1>15 DEF L

LEMMA SpeakersStep == TypeOK /\ SpeakersStable /\ [Next]_vars => SpeakersStable'
<1> SUFFICES ASSUME TypeOK, SpeakersStable, [Next]_vars PROVE SpeakersStable'
  OBVIOUS
<1>1. segments' = segments \/ Parsed
  BY DEF Next, ControlLine, SpeechLine, ReadClock, InvalidClock, NoSpeech, PrecedesStart, vars
<1>2. CASE segments' = segments
  BY <1>2 DEF SpeakersStable
<1>3. CASE Parsed
  <2>1. /\ DOMAIN segments' = DOMAIN rawSegments
        /\ \A i \in DOMAIN rawSegments :
             segments'[i].label = rawSegments[i].label /\ segments'[i].id = Id(rawSegments[i].label)
    BY <1>3 DEF Parsed
  <2>2. rawSegments \in Seq(RawSegment)
    BY DEF TypeOK
  <2>3. \A i \in DOMAIN rawSegments : \A j \in 1..(i - 1) : j \in DOMAIN rawSegments
    BY <2>2
  <2>4. \A i, j \in DOMAIN rawSegments :
          Id(rawSegments[i].label) = Id(rawSegments[j].label)
            <=> rawSegments[i].label = rawSegments[j].label
    BY IdsTellLabels
  <2>5. Id(Unlabelled) = 0
    BY DEF Id
  <2>6. \A i \in DOMAIN rawSegments : Id(rawSegments[i].label) > 1 =>
          \E j \in 1..(i - 1) : \/ Id(rawSegments[j].label) = Id(rawSegments[i].label) - 1
                                \/ Id(rawSegments[j].label) = Id(rawSegments[i].label)
    BY NoIdSkipped
  <2>7. \A i, j \in DOMAIN segments' :
          segments'[i].id = segments'[j].id <=> segments'[i].label = segments'[j].label
    BY <2>1, <2>4
  <2>8. ASSUME NEW i \in DOMAIN segments'
        PROVE  /\ segments'[i].label = Unlabelled => segments'[i].id = 0
               /\ segments'[i].id > 1 =>
                    \E j \in 1..(i - 1) : segments'[j].id = segments'[i].id - 1
                                          \/ segments'[j].id = segments'[i].id
    BY <2>1, <2>3, <2>5, <2>6
  <2> QED BY <2>7, <2>8 DEF SpeakersStable
<1> QED BY <1>1, <1>2, <1>3

\* Speakers are numbered by first appearance, without a gap and one id each, in a
\* file of any length with any labels (transcript.py:106-111).
THEOREM SpeakersAreStable == Spec => []SpeakersStable
<1>1. Init => TypeOK /\ SpeakersStable
  BY InitType DEF Init, SpeakersStable
<1>2. (TypeOK /\ SpeakersStable) /\ [Next]_vars => (TypeOK /\ SpeakersStable)'
  BY NextType, SpeakersStep
<1> QED BY <1>1, <1>2, PTL DEF Spec
=============================================================================
