\* One account, the form whose handler catches every error and one whose does
\* not; polls that overlap while the pools change.
CONSTANTS
  Alice = Alice
  Bob = Bob
  NoUser = NoUser
  Users = {Alice}
  Forms = {"borrow", "withdraw"}
  MaxTasks = 1
  MaxPolls = 2
  MaxVersion = 2

SPECIFICATION SessionSpec

PROPERTIES
  LoansEndLoading
  FormsEndWaiting
  PoolsConverge
