SPECIFICATION Spec
CONSTANTS
  Starts <- MCStarts
  Pieces <- MCPieces
  MaxPieces <- MCMaxPieces
  LengthLimit = 12
  Palettes <- MCPalettes
  MaxLines = 9
  IntWidth = 8
  Shift <- MCShift
  DefaultSize = 32
  Writes <- MCWrites
  MaxWrites = 4
INVARIANTS
  PathsAreResolved
  AbsoluteFormAgrees
  FileIsReadInOrder
  SettingsAreInnermost
  ScriptsAreReadAsWritten
PROPERTIES
  RedirectsLeadOn
