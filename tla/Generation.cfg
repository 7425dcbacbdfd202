CONSTANTS
  Pin = {1, 17, 27}
  Wired = {1, 17}
  Forbidden = {1}
  MAX_RETRIES = 2
  MAX_TOOL_TURNS = 2
SPECIFICATION Spec
INVARIANTS TypeOK ExecutedIsChecked
PROPERTY Ends
CHECK_DEADLOCK FALSE
