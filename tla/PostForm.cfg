SPECIFICATION Spec
CONSTANTS
  Bodies <- MCBodies
  Trailers <- MCTrailers
  RxSize <- MCRxSize
  DataLen <- MCDataLen
  Timeout <- MCTimeout
  Dword <- MCDword
CHECK_DEADLOCK FALSE
INVARIANTS
  FieldsAreTheBody
PROPERTIES
  DroppedOnlyWhenSilent
  Answered
