\* Two clients that use the barrier twice; a thread for each.
SPECIFICATION FairSpec
CONSTANTS
  c1 = c1
  c2 = c2
  c3 = c3
  Alice = Alice
  Bob = Bob
  Clients = {c1, c2}
  Users = {Alice, Bob}
  Account <- TwoClients
  Authorised = {Alice, Bob}
  None = None
  Threads = 2
  Commands = {"Canvas", "Share", "Barrier"}
  MaxCommands = 3
  MaxBarriers = 2
  FirstCapacity = 1
  Killable = FALSE
  CallsFail = FALSE
CHECK_DEADLOCK FALSE
PROPERTY BarrierOpensAgain
