SPECIFICATION Spec
CONSTANTS
  Vehicles <- MCVehicles
  Silences <- MCSilences
  ListPrices <- MCListPrices
  Days <- MCDays
INVARIANTS
  UnaskedListPriceIsMoot
  RereadingKeepsThePrice
  OnlyNamedGuesses
  MoreIsNeverCheaper
CHECK_DEADLOCK FALSE
