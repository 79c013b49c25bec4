\* Alice and Bob with one client each; no calls fail.
SPECIFICATION Spec
CONSTANTS
  c1 = c1
  c2 = c2
  Alice = Alice
  Bob = Bob
  Clients = {c1, c2}
  Users = {Alice, Bob}
  Account <- Accounts
  Canvases = {k1}
  Sprites = {s1}
  Placements = {p1}
  None = None
  MaxCommands = 4
  CallsFail = FALSE
CHECK_DEADLOCK FALSE
INVARIANT NoLockCycle
