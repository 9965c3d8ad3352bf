SPECIFICATION FairSpec
CONSTANTS
  synth = synth
  delay = delay
  reverb = reverb
  Catalog <- MCCatalog
  Package <- MCPackage
  Lists <- MCLists
  NoPlugin = noPlugin
  r1 = r1
  r2 = r2
  Requests <- MCRequests
  Wanted <- MCWanted
  small = small
  large = large
  States <- MCStates
  Size <- MCSize
  Addresses = {a1, a2}
  Cells = {c1, c2, c3, c4}
  Binder = {b1, b2}
  Main = main
  None = none
  NumPorts <- MCNumPorts
  MaxOps = 3
CHECK_DEADLOCK FALSE
INVARIANTS
  TypeOK
  ScanFindsInstalled
  PlayingAsPrepared
  PreparedUnlessError
  NoNullBufferRead
  ExtensionsLive
  StateReadIntact
  StateFits
  CallsExclusive
PROPERTIES
  AnsweredAtLast
  CallReturns
