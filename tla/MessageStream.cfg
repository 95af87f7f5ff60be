SPECIFICATION Spec
CONSTANTS
  Requests <- Checked
  CallIndices <- TwoCalls
  Outputs <- TwoOutputs
  Parts <- TwoParts
  MaxWhitespace = 1
  MaxTurns = 2
  MaxUses = 1
  MaxFed = 4
  MaxTurnFed = 2
  MaxEvents = 4
INVARIANTS
  TypeOK
  ArgumentsReachTheirCall
  PartsReadOnce
  WhitespaceCut
  ServerToolsAnswered
  EveryTurnBilled
CHECK_DEADLOCK FALSE
PROPERTIES
  ImplementsBlockProtocol
  AgentIndicesClimb
  EveryStreamEndsTold
