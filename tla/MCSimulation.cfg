SPECIFICATION SimulationSpec
CONSTANTS
  Nodes = {1, 2, 3, 4}
  Attempts = 2
  MaxDuplicates = 1
  Simulations <- MCSimulations
  MaxPatterns = 2
  MAX_CONNECTIONS = 2
INVARIANTS
  RequestsConserved
  StreamsLimited
  SuccessIsComplete
  NoFalseAlarm
  FreshNodesConnected
PROPERTIES
  FailureIsReal
  SimulationFinishes
CHECK_DEADLOCK FALSE
