CONSTANTS
  Histories <- MCHistories
  Asked <- MCAsked
  Moments <- MCMoments
  PerPage = 2
  TimelinePerPage = 2
  MaxItems = 5
  MaxEvents = 2
  NoTime <- MCNoTime
SPECIFICATION Spec
CHECK_DEADLOCK FALSE
INVARIANTS
  TypeOK
  EachOnce
  NoneMissed
  WaitsFromLinks
  DaysAddUp
  TotalsRun
  ExitTells
PROPERTIES
  RunEnds
