SPECIFICATION Spec
CONSTANTS
  Loaders = {p1}
  None = None
  Horizon = 11
  TableSet <- OneTable
  ChunkBars = 1
  Closed <- Nothing
  Requested <- Lookbacks
  Tables <- MCTables
  Instrument <- MCInstrument
  Bar <- MCBar
  Chunk <- MCChunk
  Bars <- MCBars
  Windows <- MCWindows
INVARIANTS
  EmptyGapsMeanCovered
