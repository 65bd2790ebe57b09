\* A deposit made before loadWallet has reached its end.
CONSTANTS
  Alice = Alice
  Bob = Bob
  NoUser = NoUser
  Users = {Alice, Bob}
  Forms = {"deposit"}
  MaxTasks = 3
  MaxPolls = 0
  MaxVersion = 1

SPECIFICATION SessionSpec

INVARIANT ClientsUseWallet
