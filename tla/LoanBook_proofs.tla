--------------------------- MODULE LoanBook_proofs ---------------------------
(***************************************************************************)
(* The loan manager's three kinds of entry agree, whatever the loans are   *)
(* and however many: proofs about LoanBook.  BookInv is inductive as it    *)
(* stands: a nonce that was never given out names no loan, so create_loan  *)
(* adds a new one, and the list changes where the loans do.                *)
(***************************************************************************)
EXTENDS LoanBook, TLAPS

\* The initial entries agree.
LEMMA BookInitInv == BookInit => BookInv
BY DEF BookInit, BookInv, BookTypeOK, NoncesAreIssued, ListsAreExact, LoanId

\* create_loan keeps the entries in agreement.
LEMMA CreateEntryInv ==
  ASSUME BookInv, NEW u \in Borrowers, NEW loan \in Loan, CreateEntry(u, loan)
  PROVE  BookInv'
<1> DEFINE n == nonce[u] + 1
<1> USE DEF BookInv, LoanId
<1>1. n \in Nat /\ nonce[u] \in Nat
  BY DEF BookTypeOK
<1>2. <<u, n>> \notin DOMAIN loans
  BY <1>1 DEF NoncesAreIssued
<1>3. /\ nonce' = [nonce EXCEPT ![u] = n]
      /\ DOMAIN loans' = DOMAIN loans \cup {<<u, n>>}
      /\ \A id \in DOMAIN loans' : loans'[id] = IF id = <<u, n>> THEN loan ELSE loans[id]
      /\ ids' = [ids EXCEPT ![u] = @ \cup {n}]
  BY DEF CreateEntry
<1>4. BookTypeOK'
  <2>1. loans' \in [DOMAIN loans' -> Loan]
    BY DEF CreateEntry, BookTypeOK
  <2> QED
    BY <2>1, <1>1, <1>3 DEF BookTypeOK
<1>5. NoncesAreIssued'
  BY <1>1, <1>3 DEF NoncesAreIssued, BookTypeOK
<1>6. ListsAreExact'
  <2> SUFFICES ASSUME NEW v \in Borrowers
               PROVE  ids'[v] = {id[2] : id \in {i \in DOMAIN loans' : i[1] = v}}
    BY DEF ListsAreExact
  <2>1. CASE v = u
    <3> DEFINE Old == {i \in DOMAIN loans : i[1] = v}
               New == {i \in DOMAIN loans' : i[1] = v}
               id  == <<u, n>>
    <3>1. New = Old \cup {id} /\ id[2] = n
      BY <2>1, <1>3
    <3>2. ids'[v] = ids[v] \cup {n}
      BY <2>1, <1>3 DEF BookTypeOK
    <3>3. ids[v] = {i[2] : i \in Old}
      BY DEF ListsAreExact
    <3>4. ids'[v] = {i[2] : i \in New}
      <4> HIDE DEF Old, New, n, id
      <4> QED
        BY <3>1, <3>2, <3>3
    <3> QED
      BY <3>4
  <2>2. CASE v # u
    BY <2>2, <1>3 DEF ListsAreExact, BookTypeOK
  <2> QED
    BY <2>1, <2>2
<1> QED
  BY <1>4, <1>5, <1>6

\* write_loan keeps the entries in agreement.
LEMMA WriteEntryInv ==
  ASSUME BookInv, NEW id \in DOMAIN loans, NEW loan \in Loan, WriteEntry(id, loan)
  PROVE  BookInv'
<1>1. /\ DOMAIN loans' = DOMAIN loans
      /\ loans' \in [DOMAIN loans -> Loan]
      /\ nonce' = nonce
      /\ ids' = ids
  BY DEF WriteEntry, BookInv, BookTypeOK
<1> QED
  BY <1>1 DEF BookInv, BookTypeOK, NoncesAreIssued, ListsAreExact

\* delete_loan keeps the entries in agreement.
LEMMA DeleteEntryInv ==
  ASSUME BookInv, NEW id \in DOMAIN loans, DeleteEntry(id)
  PROVE  BookInv'
<1> USE DEF BookInv
<1>1. /\ DOMAIN loans' = DOMAIN loans \ {id}
      /\ loans' \in [DOMAIN loans' -> Loan]
      /\ nonce' = nonce
      /\ ids' = [ids EXCEPT ![id[1]] = @ \ {id[2]}]
  BY DEF DeleteEntry, BookTypeOK
<1>2. id = <<id[1], id[2]>> /\ id[1] \in Borrowers
  BY DEF BookTypeOK, LoanId
<1>3. BookTypeOK'
  BY <1>1, <1>2 DEF BookTypeOK
<1>4. NoncesAreIssued'
  BY <1>1 DEF NoncesAreIssued
<1>5. ListsAreExact'
  <2> SUFFICES ASSUME NEW v \in Borrowers
               PROVE  ids'[v] = {i[2] : i \in {j \in DOMAIN loans' : j[1] = v}}
    BY DEF ListsAreExact
  <2>1. CASE v = id[1]
    <3>1. \A i \in DOMAIN loans : i[1] = v /\ i[2] = id[2] => i = id
      BY <2>1, <1>2 DEF BookTypeOK, LoanId
    <3> QED
      BY <2>1, <3>1, <1>1 DEF ListsAreExact, BookTypeOK
  <2>2. CASE v # id[1]
    BY <2>2, <1>1 DEF ListsAreExact, BookTypeOK
  <2> QED
    BY <2>1, <2>2
<1> QED
  BY <1>3, <1>4, <1>5

\* Every step of the book keeps the entries in agreement.
LEMMA BookStepInv == BookInv /\ [BookNext]_bookVars => BookInv'
<1> SUFFICES ASSUME BookInv, [BookNext]_bookVars
             PROVE  BookInv'
  OBVIOUS
<1>1. ASSUME NEW u \in Borrowers, NEW loan \in Loan, CreateEntry(u, loan)
      PROVE  BookInv'
  BY <1>1, CreateEntryInv
<1>2. ASSUME NEW id \in DOMAIN loans, NEW loan \in Loan, WriteEntry(id, loan)
      PROVE  BookInv'
  BY <1>2, WriteEntryInv
<1>3. ASSUME NEW id \in DOMAIN loans, DeleteEntry(id)
      PROVE  BookInv'
  BY <1>3, DeleteEntryInv
<1>4. CASE UNCHANGED bookVars
  BY <1>4 DEF bookVars, BookInv, BookTypeOK, NoncesAreIssued, ListsAreExact
<1> QED
  BY <1>1, <1>2, <1>3, <1>4 DEF BookNext

\* The three kinds of entry agree in every reachable state.
THEOREM BookInvariant == BookSpec => []BookInv
BY BookInitInv, BookStepInv, PTL DEF BookSpec

\* An id that was given out and is free stays free.
LEMMA StepKeepsClosed ==
  ASSUME BookInv, [BookNext]_bookVars, NEW u \in Borrowers, NEW n \in 1 .. nonce[u],
         <<u, n>> \notin DOMAIN loans
  PROVE  <<u, n>> \notin DOMAIN loans'
<1>1. ASSUME NEW v \in Borrowers, NEW loan \in Loan, CreateEntry(v, loan)
      PROVE  <<u, n>> \notin DOMAIN loans'
  <2>1. nonce[v] \in Nat /\ nonce[u] \in Nat
    BY DEF BookInv, BookTypeOK
  <2>2. <<u, n>> # <<v, nonce[v] + 1>>
    BY <2>1
  <2> QED
    BY <2>2, <1>1 DEF CreateEntry
<1>2. ASSUME NEW id \in DOMAIN loans, NEW loan \in Loan, WriteEntry(id, loan)
      PROVE  <<u, n>> \notin DOMAIN loans'
  BY <1>2 DEF WriteEntry
<1>3. ASSUME NEW id \in DOMAIN loans, DeleteEntry(id)
      PROVE  <<u, n>> \notin DOMAIN loans'
  BY <1>3 DEF DeleteEntry
<1>4. CASE UNCHANGED bookVars
  BY <1>4 DEF bookVars
<1> QED
  BY <1>1, <1>2, <1>3, <1>4 DEF BookNext

\* A closed loan never comes back: no loan id is ever used twice.
THEOREM BookNeverReopens == BookSpec => ClosedStaysClosed
<1>1. BookInv /\ [BookNext]_bookVars
        => [\A u \in Borrowers : \A n \in 1 .. nonce[u] :
              <<u, n>> \notin DOMAIN loans => <<u, n>> \notin DOMAIN loans']_bookVars
  BY StepKeepsClosed
<1> QED
  BY <1>1, BookInvariant, PTL DEF BookSpec, ClosedStaysClosed

=============================================================================
