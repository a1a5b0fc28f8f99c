SPECIFICATION Spec
CONSTANTS
  N = 2
  Agents = {a}
  CallLen = 1
  AsynLen = 1
  GoLen = 1
  TimerLen = 1
  MaxOps = 3
  MaxFires = 2
  SyncTo <- Upwards
INVARIANTS
  AnswerHasRoom
  ResultIsTrue
  LinearOrder
PROPERTIES
  StoppedSilent
  CallsReturn
