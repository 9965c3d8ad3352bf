SPECIFICATION Spec
CONSTANTS
  Audio = audio
  Main = main
  NoThread = none
  low = low
  high = high
  Default = low
  Values <- MCValues
  Transport <- MCTransport
  Threads = {audio, main}
  NumParams = 2
  MaxIndex = 0
  HasOutPort = TRUE
  ProducesMidi = TRUE
  Behaviours <- Anything
  MaxOps = 3
INVARIANTS
  TypeOK
  ReportsInOrder
PROPERTIES
  SwapExcludesPush
  ImplementsReports
