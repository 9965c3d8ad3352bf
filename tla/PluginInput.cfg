SPECIFICATION Spec
CONSTANTS
  Trees <- MCTrees
  Classic = {0, 3}
  Names <- MCNames
  FromNormalized <- MCFromNormalized
  Normalized <- MCNormalized
  IdLimit = 4
  AcceptsMidi = {TRUE, FALSE}
  Capacity = 10
  ConverterRoom = 7
  SampleRate = 48000
  FrameCount = 64
  Blocks <- MCBlocks
INVARIANTS
  TypeOK
  EnumerationsRight
  ParametersNumbered
  ChangeRoundTrips
  DecodersAgree
  SysexIntact
  SamplesInBlock
  EventsOnTime
