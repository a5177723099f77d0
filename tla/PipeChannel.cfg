SPECIFICATION FairSpec
CONSTANTS
  parent = parent
  a = a
  b = b
  Procs <- Family
  Root = parent
  Forkers <- Everyone
  Lingering = {a}
  Capacity = 6
  MaxFrames <- OneAndAnother
  Mortal = {b}
INVARIANTS FramesIntact RegistrationNoticed
PROPERTIES NothingCutOff ExitedChildReaped ChannelSpec
CHECK_DEADLOCK FALSE
