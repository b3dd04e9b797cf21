SPECIFICATION Spec
CONSTANTS
  Day = 3
  Tolerance = 1
  Label = {"alice", "bob"}
  Unlabelled = "none"
  LastDay = 2
  MaxLines = 3
INVARIANTS
  TypeOK
  TimesRecovered
  SegmentsAbut
  SpeakersStable
CHECK_DEADLOCK FALSE
