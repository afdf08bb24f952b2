SPECIFICATION Spec
CONSTANTS
  Kinds <- MCKinds
  Pieces <- MCPieces
  MaxLen <- MCMaxLen
  MAX_PARSE = 3  MAX_EVENTS = 2  HTTP_MAX_HEADERS = 2
INVARIANTS FieldsAreRead QueryIsRead EncodedIsReadBack
CHECK_DEADLOCK FALSE
