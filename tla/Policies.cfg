SPECIFICATION Spec
CONSTANTS
  None = None
  Names <- ThreeNames
  Servers = {s1, s2}
  Peers = {p1}
  Wanted = {3}
  Worlds <- AllWorlds
  Questions <- SomeQuestions
  Depth = 5
  Stored <- AllStored
  Verdict <- Status
  MaxSuffix = 3
  MaxKills = 1
INVARIANTS TypeOK GrantedOnlyByMatch AnswerIsRight
PROPERTIES NothingLost
CHECK_DEADLOCK FALSE
