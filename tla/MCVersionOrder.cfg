SPECIFICATION Spec
CONSTANTS
  None = None
  PostWord <- MCPostWord
  Sample <- MCSample
  PrefixSample <- MCPrefixSample
  Judged <- MCJudged
  EventSample <- MCEventSample
  MaxEvents = 4
INVARIANTS
  IsPreorder
  IsLinear
  TailsStayBetweenReleases
  LinesAreIntervals
  MajorsFollowTheOrder
  RangesFollowTheSchema
