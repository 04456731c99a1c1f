CONSTANTS
  IndexError = IndexError
  Names <- DigitNames
SPECIFICATION Spec
INVARIANT DistinctNamesDistinctHashes
