SPECIFICATION HeapSpec
CONSTANTS
  Priorities = {0, 1, 2, 3}
  MaxRecorded = 7
INVARIANT HeapOrder
PROPERTY QueueSpec
