------------------------------ MODULE LoanBook ------------------------------
(***************************************************************************)
(* The loan manager's record of loans: contracts/loan_manager/src/         *)
(* storage.rs.  Three kinds of persistent entry keep it: the loans, keyed  *)
(* by borrower and nonce; the last nonce given to each borrower; and each  *)
(* borrower's list of the nonces of live loans, which get_loans reads.     *)
(* Nothing ties the three together but the order of the calls.  The list   *)
(* is the set of its elements here: its order decides nothing.             *)
(***************************************************************************)
EXTENDS Integers, FiniteSets

CONSTANTS Borrowers, Loan

VARIABLES
  loans,  \* function from the ids of the live loans to Loan
  nonce,  \* the last nonce given to each borrower, 0 before the first
  ids     \* each borrower's list of live nonces, empty when there is no entry

bookVars == <<loans, nonce, ids>>

LoanId == Borrowers \X Nat

BookTypeOK ==
  /\ DOMAIN loans \subseteq LoanId
  /\ loans \in [DOMAIN loans -> Loan]
  /\ nonce \in [Borrowers -> Nat]
  /\ ids \in [Borrowers -> SUBSET Nat]

BookInit ==
  /\ loans = [id \in {} |-> 0]
  /\ nonce = [u \in Borrowers |-> 0]
  /\ ids = [u \in Borrowers |-> {}]

\* Mutant: the next nonce is one more than the number of live loans.
CreateEntryByCount(u, loan) ==
  LET n == Cardinality(ids[u]) + 1
  IN  /\ nonce' = [nonce EXCEPT ![u] = n]
      /\ loans' = [id \in DOMAIN loans \cup {<<u, n>>} |->
                     IF id = <<u, n>> THEN loan ELSE loans[id]]
      /\ ids' = [ids EXCEPT ![u] = @ \cup {n}]

\* create_loan, with get_next_loan_nonce and add_user_loan_id.
CreateEntry(u, loan) ==
  LET n == nonce[u] + 1
  IN  /\ nonce' = [nonce EXCEPT ![u] = n]
      /\ loans' = [id \in DOMAIN loans \cup {<<u, n>>} |->
                     IF id = <<u, n>> THEN loan ELSE loans[id]]
      /\ ids' = [ids EXCEPT ![u] = @ \cup {n}]

\* write_loan, on an id that read_loan has found.
WriteEntry(id, loan) ==
  /\ id \in DOMAIN loans
  /\ loans' = [loans EXCEPT ![id] = loan]
  /\ UNCHANGED <<nonce, ids>>

\* Mutant: the loan's nonce stays on the borrower's list.
DeleteEntryKeepingList(id) ==
  /\ id \in DOMAIN loans
  /\ loans' = [i \in DOMAIN loans \ {id} |-> loans[i]]
  /\ UNCHANGED <<nonce, ids>>

\* delete_loan, with remove_user_loan_id.
DeleteEntry(id) ==
  /\ id \in DOMAIN loans
  /\ loans' = [i \in DOMAIN loans \ {id} |-> loans[i]]
  /\ ids' = [ids EXCEPT ![id[1]] = @ \ {id[2]}]
  /\ UNCHANGED nonce

BookNext ==
  \/ \E u \in Borrowers, loan \in Loan : CreateEntry(u, loan)
  \/ \E id \in DOMAIN loans, loan \in Loan : WriteEntry(id, loan)
  \/ \E id \in DOMAIN loans : DeleteEntry(id)

BookSpec == BookInit /\ [][BookNext]_bookVars

-----------------------------------------------------------------------------

\* The nonce of every live loan has been handed out.
NoncesAreIssued == \A id \in DOMAIN loans : id[2] \in 1 .. nonce[id[1]]

\* A borrower's list names exactly the live loans: get_loans shows every loan
\* and skips none, and delete_loan leaves no dangling entry behind.
ListsAreExact ==
  \A u \in Borrowers : ids[u] = {id[2] : id \in {i \in DOMAIN loans : i[1] = u}}

BookInv == BookTypeOK /\ NoncesAreIssued /\ ListsAreExact

\* A loan that was closed never comes back: create_loan never hands out an id
\* that has been used, so an event, a bot's row or a link that names a deleted
\* loan can never come to mean another one.
ClosedStaysClosed ==
  [][\A u \in Borrowers : \A n \in 1 .. nonce[u] :
       <<u, n>> \notin DOMAIN loans => <<u, n>> \notin DOMAIN loans']_bookVars

=============================================================================
