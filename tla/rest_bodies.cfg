\* All calls, bodies damaged in every place, chunks cut anywhere.
CONSTANTS
  A = A
  B = B
  Odd = Odd
  Com = Com
  Us = Us
  ScratchMax = 4
  Symbols <- MCSymbols
  BadNames <- MCBad
  Regions <- MCRegions
  Kinds <- AllKinds
  Capacity = 2
  ChunkSizes <- Chunks
  BatchMax = 2
  Answers <- MCAnswers
SPECIFICATION RestSpec
INVARIANT RowsAreWhole
INVARIANT FieldsAreTheirKeys
INVARIANT ResultsAreTheirOwn
