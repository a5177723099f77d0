SPECIFICATION FairSpec
CONSTANTS
  parent = parent
  a = a
  b = b
  Procs <- Family
  Root = parent
  Forkers <- OnlyParent
  Lingering = {}
  Capacity = 3
  MaxFrames <- BothFlush
  Mortal = {}
PROPERTIES ExitedChildReaped
CHECK_DEADLOCK FALSE
