\* Two pairs that share a node.
SPECIFICATION SimulationSpec
CONSTANTS
  Nodes = {1, 2, 3, 4}
  Attempts = 2
  MaxDuplicates = 0
  Simulations <- SharedNodeSimulations
  MaxPatterns = 2
  MAX_CONNECTIONS = 2
INVARIANTS
  PassedMeansConnected
CHECK_DEADLOCK FALSE
