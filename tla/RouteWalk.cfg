SPECIFICATION Spec
CONSTANTS
  Rings = {1, 2, 3, 4, 5, 6, 7}
  Widths = {1, 2, 3, 4, 5}
  Heights = {1, 2, 3, 4}
  Edited = {3}
  Stranger = {3}
CHECK_DEADLOCK FALSE
INVARIANTS ValidIsLoopFree GeneratedRoutes
