SPECIFICATION FairSpec
CONSTANTS
  Audio = audio
  Main = main
  NoThread = none
  low = low
  high = high
  Default = low
  Values <- MCValues
  Transport <- MCTransport
  Threads = {audio, main}
  NumParams = 1
  MaxIndex = 0
  HasOutPort = TRUE
  ProducesMidi = FALSE
  Behaviours <- Delivering
  MaxOps = 3
PROPERTIES
  EventuallyDelivered
