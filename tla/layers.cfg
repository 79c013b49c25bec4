\* Two canvases that share four placement addresses and two sprites; every
\* placement stands still or moves.  placement_down on the only placement of a
\* canvas ends the behaviour.
SPECIFICATION FrameSpec
CONSTANTS
  Canvases = {c1, c2}
  Placements = {p1, p2, p3, p4}
  s1 = s1
  s2 = s2
  Sprites = {s1, s2}
  NULL = NULL
  Width = 3
  Height = 2
  Background <- Black
  Look <- Looks
  Positions <- At
  Motions <- Sinking
  FrameNumbers = {1, 2}
  FrameRate = 2
SYMMETRY Symmetry
CHECK_DEADLOCK FALSE
INVARIANTS
  TypeOK
  ListIsStack
  CountsPlacements
  
  FramesShowStack
