SPECIFICATION Spec
CONSTANTS
  Editors = {e1, e2}
  Ages = {18, 25}
  None = None
INVARIANT ReadyIsCleared
