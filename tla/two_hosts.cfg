\* Two processes that start together.
SPECIFICATION StartupSpec
CONSTANTS
  Process = {a, b}
  MaxModules = 1
  MaxEnds = 0
INVARIANTS
  AllOnOnePage
CHECK_DEADLOCK FALSE
