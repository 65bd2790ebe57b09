\* Two accounts: connecting, disconnecting, reloading and sending, while the
\* answers come in any order.  No pools are fetched: no form here needs them.
CONSTANTS
  Alice = Alice
  Bob = Bob
  NoUser = NoUser
  Users = {Alice, Bob}
  Forms = {"deposit", "repay"}
  MaxTasks = 2
  MaxPolls = 0
  MaxVersion = 1

SPECIFICATION SessionSpec

INVARIANTS
  SessionTypeOK
  
  SettledIsConsistent
  OutcomesBelong
