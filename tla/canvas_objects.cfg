\* Alice and Bob with one client each; addresses are scarce and reused at once.
SPECIFICATION FairSpec
CONSTANTS
  c1 = c1
  c2 = c2
  Alice = Alice
  Bob = Bob
  Clients = {c1, c2}
  Users = {Alice, Bob}
  Account <- Accounts
  Canvases = {k1, k2}
  Sprites = {s1}
  Placements = {p1}
  None = None
  MaxCommands = 4
  CallsFail = TRUE
CHECK_DEADLOCK FALSE
INVARIANTS
  TypeOK
  AccessOutlivesCheck
  
  SpritesRegistered
  PlacementsRegistered
  
PROPERTY CommandsEnd
