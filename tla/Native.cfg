\* The pipes hold what one round of clicks can answer; see README.
SPECIFICATION LiveEach
CONSTANTS
  CommandCap = 3
  EventCap = 1
  MaxClicks = 3
  MaxCrashes = 1
  MaxReports = 1
  Grace = 1
  MaxTime = 2
  MaxIcons = 4
  MaxPopups = 2
  MaxPosted = 2
  Seeds <- MCSeeds
  Units <- MCUnits
  Bytes <- MCBytes
  MaxTokens = 4
  MaxEdits = 2
  MaxUnits = 3
  Names = {"r1", "r2", "a", "b", "c", "d", "e"}
  Menus <- TwoMenus
  Stay = {"e"}
  Main = main
  Threads = {main, t1, t2}
  Callbacks = {code1, code2}
  Callers = {t1, t2}
  Pids = {p1, p2}
  Free = Free
  Nobody = Nobody
  Stranger = Stranger
  MaxDepth = 2
  Objects = {1, 2, 3}
  Shapes <- MCShapes
  Root = 1
  MaxItems = 4
  MaxText = 5
  MaxArgs = 2
  Symbols = {"A", "B", "=", "1", "2"}
  Environs <- MCEnvirons
  Overrides <- MCOverrides
  MaxChildren = 2
CHECK_DEADLOCK FALSE
INVARIANTS
  OneReaper NothingLeft
  LinuxHandlesValid WindowsHandlesValid
  JsonExact
  CallbacksSafe
  ImportFaithful
  ChildReceives
  PidHeld
PROPERTIES
  StopReturns
  LinuxImplements
  WindowsImplements
