\* A stream that has ended stays ended.
SPECIFICATION Spec
CONSTANTS
  MaxRecord = 6
  MaxBody = 5
  Beat = 1
  Stall = 2
  ReadTimeout = 3
  Answers <- MCAnswers
INVARIANT RelayFaithful
INVARIANT StreamSound
INVARIANT UsageKept
INVARIANT NeverSilent
PROPERTY RelayEnds
CHECK_DEADLOCK FALSE
