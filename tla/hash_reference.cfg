CONSTANTS
  IndexError = IndexError
  Names <- HashNames
SPECIFICATION Spec
INVARIANT TypeOK
INVARIANT HashMatchesReference
