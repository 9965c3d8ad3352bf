SPECIFICATION Spec
CONSTANTS
  Audio = audio
  Main = main
  NoThread = none
  low = low
  high = high
  Default = low
  Values <- MCValues
  Transport <- MCTransport
  Threads = {audio, main}
  NumParams = 2
  MaxIndex = 1
  HasOutPort = TRUE
  ProducesMidi = FALSE
  Behaviours <- Announcing
  MaxOps = 3
INVARIANTS
  HostConverges
  TrackedIsCurrent
