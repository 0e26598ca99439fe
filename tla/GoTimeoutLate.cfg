\* One routine, a timeout and its replacement.
SPECIFICATION LiveSpec
CONSTANTS
  root = root
  Root <- root
  MaxRoutines = 1
  MaxCalls = 3
CHECK_DEADLOCK FALSE
PROPERTY DisabledStaysDisabled
