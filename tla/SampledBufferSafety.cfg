SPECIFICATION Spec
CONSTANTS
  Recorders = {r1}
  Priorities = {0, 1, 2}
  Capacities = {0, 1, 2}
  Nothing <- Lowest
  MaxRecorded = 4
  MaxResizes = 1
INVARIANTS CountsConsistent HeapKeepsHighest
