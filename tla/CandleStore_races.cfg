SPECIFICATION Spec
CONSTANTS
  Loaders = {p1, p2}
  None = None
  Horizon = 11
  TableSet <- TwoTimeframes
  ChunkBars = 1
  Closed <- Weekend
  Requested <- Lookbacks
  Tables <- MCTables
  Instrument <- MCInstrument
  Bar <- MCBar
  Chunk <- MCChunk
  Bars <- MCBars
  Windows <- MCWindows
SYMMETRY Symmetric
INVARIANTS
  TypeOK
  HolesAreBeingFilled
  LoadsAreCovered
