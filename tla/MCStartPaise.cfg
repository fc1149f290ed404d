SPECIFICATION Spec
CONSTANTS
  Starts = {s1}
  Requests <- PaiseRequests
INVARIANT DeclarationTellsPolicy
CHECK_DEADLOCK FALSE
