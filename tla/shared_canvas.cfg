\* Alice and Bob, who has two clients; anyone may be killed and calls may fail.
SPECIFICATION Spec
CONSTANTS
  c1 = c1
  c2 = c2
  c3 = c3
  Alice = Alice
  Bob = Bob
  Clients = {c1, c2, c3}
  Users = {Alice, Bob}
  Account <- Accounts
  Authorised = {Alice, Bob}
  None = None
  Threads = 3
  Commands = {"Canvas", "Share", "Destroy", "Barrier", "Disconnect"}
  MaxCommands = 2
  MaxBarriers = 2
  FirstCapacity = 1
  Killable = TRUE
  CallsFail = TRUE
SYMMETRY BothOfBob
CHECK_DEADLOCK FALSE
INVARIANTS
  TypeOK
  RefsCountHolders
  SleepersCounted
PROPERTY OpensTogether
