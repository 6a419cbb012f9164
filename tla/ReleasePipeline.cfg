SPECIFICATION Spec
CONSTANTS
  task = task
  engineer = engineer
  o1 = o1
  o2 = o2
  w1 = w1
  Releases = {1, 2, 3}
  Unnameable = {3}
  NoRelease = 0
  Operators = {o1, o2}
  Workers = {w1}
  MaxVersions = 2
  MaxDecisions = 5
  NewDecisions = 2
  EngineCount <- MCEngineCount
  Preparers = {task, engineer}
  Unattended = {task}
  Scheduler = task
  Tries = 2
  Sources <- MCSources
INVARIANTS AllTypesOK PublicationSound RegisteredFromSoundData SucceededIsComplete OneVersionPerRelease AliasesApproved ServedIsDecided PromotionAllOrNothing
PROPERTIES PublishedOnce EveryRunEnds WorkersServe
CHECK_DEADLOCK FALSE
