\* One canvas with one placement is enough.
SPECIFICATION Spec
CONSTANTS
  Canvases = {c1}
  Placements = {p1, p2}
  Sprites = {s1}
  NULL = NULL
CHECK_DEADLOCK FALSE
INVARIANT NeverCrashes
