---------------------------- MODULE Sums_proofs ----------------------------
(***************************************************************************)
(* Facts about sums, for sums of any length.  The library's theorems on    *)
(* induction have an operator for a parameter; the inductions here are by  *)
(* a least counterexample instead.                                         *)
(***************************************************************************)
EXTENDS Sums, TLAPS, WellFoundedInduction

\* A set of natural numbers that is not empty has a least element.
LEMMA LeastOf ==
  ASSUME NEW T \in SUBSET Nat, T # {}
  PROVE  \E x \in T : \A y \in T : x <= y
<1> DEFINE Less == {ss \in Nat \X Nat : ss[1] < ss[2]}
<1>1. IsWellFoundedOn(Less, Nat)
  BY NatLessThanWellFounded DEF OpToRel
<1> HIDE DEF Less
<1>2. PICK x \in T : \A y \in T : ~ (<<y, x>> \in Less)
  BY <1>1, WFMin
<1>3. ASSUME NEW y \in T PROVE x <= y
  <2>1. x \in Nat /\ y \in Nat OBVIOUS
  <2>2. y < x => <<y, x>> \in Less BY <2>1 DEF Less
  <2>3. QED BY <1>2, <2>1, <2>2
<1>4. QED BY <1>3

\* A set with 0 in it and, with each number below n, the next, contains 0 .. n.
LEMMA Climb ==
  ASSUME NEW n \in Nat, NEW S, 0 \in S, \A i \in 0 .. n - 1 : i \in S => i + 1 \in S
  PROVE  \A i \in 0 .. n : i \in S
<1> DEFINE T == {i \in 0 .. n : i \notin S}
<1>1. SUFFICES ASSUME T # {} PROVE FALSE OBVIOUS
<1>2. PICK x \in T : \A y \in T : x <= y
  <2>1. T \in SUBSET Nat OBVIOUS
  <2>2. QED BY <1>1, <2>1, LeastOf
<1>3. x \in 1 .. n /\ x \notin S OBVIOUS
<1>4. x - 1 \in S BY <1>2, <1>3
<1>5. QED BY <1>3, <1>4

-----------------------------------------------------------------------------

\* s is the table of the sums of the first elements of f, up to n of them.
IsTable(s, f, n) == s = [i \in 0 .. n |-> IF i = 0 THEN 0 ELSE s[i - 1] + f[i]]

\* There is a table of any length: one more row can always be added.
LEMMA TableExists ==
  ASSUME NEW f, NEW n \in Nat
  PROVE  \E s : IsTable(s, f, n)
<1> DEFINE S == {m \in 0 .. n : \E s : IsTable(s, f, m)}
<1>1. \E s : IsTable(s, f, 0)
  <2>1. IsTable([i \in {0} |-> 0], f, 0) BY DEF IsTable
  <2>2. QED BY <2>1
<1>2. ASSUME NEW m \in 0 .. n - 1, NEW s, IsTable(s, f, m)
      PROVE  \E t : IsTable(t, f, m + 1)
  <2> DEFINE t == [i \in 0 .. m + 1 |-> IF i = m + 1 THEN s[m] + f[i] ELSE s[i]]
  <2>1. ASSUME NEW i \in 0 .. m + 1
        PROVE  t[i] = IF i = 0 THEN 0 ELSE t[i - 1] + f[i]
    <3>1. CASE i = m + 1 BY <3>1
    <3>2. CASE i = 0
      <4>1. s[0] = 0 BY <1>2 DEF IsTable
      <4>2. QED BY <4>1, <3>2
    <3>3. CASE i \in 1 .. m
      <4>1. s[i] = s[i - 1] + f[i] BY <1>2, <3>3 DEF IsTable
      <4>2. QED BY <4>1, <3>3
    <3>4. QED BY <3>1, <3>2, <3>3
  <2>2. IsTable(t, f, m + 1) BY <2>1 DEF IsTable
  <2>3. QED BY <2>2
<1>3. \A m \in 0 .. n - 1 : m \in S => m + 1 \in S BY <1>2
<1>4. 0 \in S BY <1>1
<1> HIDE DEF S
<1>5. n \in S BY <1>3, <1>4, Climb
<1>6. QED BY <1>5 DEF S

\* A longer table agrees with a shorter one where both have a value.
LEMMA TablesAgree ==
  ASSUME NEW f, NEW n \in Nat, NEW m \in 0 .. n, NEW s, NEW t,
         IsTable(s, f, m), IsTable(t, f, n)
  PROVE  s[m] = t[m]
<1> DEFINE S == {i \in 0 .. m : s[i] = t[i]}
<1>1. 0 \in S BY DEF IsTable
<1>2. ASSUME NEW i \in 0 .. m - 1, i \in S PROVE i + 1 \in S
  <2>1. s[i + 1] = s[i] + f[i + 1] BY DEF IsTable
  <2>2. t[i + 1] = t[i] + f[i + 1] BY DEF IsTable
  <2>3. QED BY <1>2, <2>1, <2>2
<1> HIDE DEF S
<1>3. m \in S BY <1>1, <1>2, Climb
<1>4. QED BY <1>3 DEF S

\* SumTo reads the last row of the table.
LEMMA SumIsInTable ==
  ASSUME NEW f, NEW n \in Nat
  PROVE  \E s : IsTable(s, f, n) /\ SumTo(f, n) = s[n]
<1> DEFINE s == CHOOSE s : IsTable(s, f, n)
<1>1. IsTable(s, f, n) BY TableExists
<1>2. SumTo(f, n) = s[n] BY DEF SumTo, IsTable
<1>3. QED BY <1>1, <1>2

\* The two equations that define a sum.  The first: nothing adds up to zero.
LEMMA SumOfNone ==
  ASSUME NEW f
  PROVE  SumTo(f, 0) = 0
BY SumIsInTable DEF IsTable

\* The second: one element more adds its value.
LEMMA SumOfOneMore ==
  ASSUME NEW f, NEW n \in Nat
  PROVE  SumTo(f, n + 1) = SumTo(f, n) + f[n + 1]
<1>1. PICK s : IsTable(s, f, n) /\ SumTo(f, n) = s[n] BY SumIsInTable
<1>2. PICK t : IsTable(t, f, n + 1) /\ SumTo(f, n + 1) = t[n + 1] BY SumIsInTable
<1>3. s[n] = t[n]
  <2>1. n \in 0 .. n + 1 /\ n + 1 \in Nat OBVIOUS
  <2>2. QED BY <2>1, <1>1, <1>2, TablesAgree
<1>4. t[n + 1] = t[n] + f[n + 1] BY <1>2 DEF IsTable
<1>5. QED BY <1>1, <1>2, <1>3, <1>4

-----------------------------------------------------------------------------

\* A sum of integers is one.
LEMMA SumInt ==
  ASSUME NEW f, NEW n \in Nat, \A i \in 1 .. n : f[i] \in Int
  PROVE  SumTo(f, n) \in Int
<1> DEFINE S == {i \in 0 .. n : SumTo(f, i) \in Int}
<1>1. 0 \in S BY SumOfNone
<1>2. ASSUME NEW i \in 0 .. n - 1, i \in S PROVE i + 1 \in S
  <2>1. SumTo(f, i + 1) = SumTo(f, i) + f[i + 1] BY SumOfOneMore
  <2>2. QED BY <1>2, <2>1
<1> HIDE DEF S
<1>3. n \in S BY <1>1, <1>2, Climb
<1>4. QED BY <1>3 DEF S

\* A sum depends on what is summed only.
LEMMA SumSame ==
  ASSUME NEW f, NEW g, NEW n \in Nat, \A i \in 1 .. n : g[i] = f[i]
  PROVE  SumTo(g, n) = SumTo(f, n)
<1> DEFINE S == {i \in 0 .. n : SumTo(g, i) = SumTo(f, i)}
<1>1. 0 \in S BY SumOfNone
<1>2. ASSUME NEW i \in 0 .. n - 1, i \in S PROVE i + 1 \in S
  <2>1. SumTo(f, i + 1) = SumTo(f, i) + f[i + 1] BY SumOfOneMore
  <2>2. SumTo(g, i + 1) = SumTo(g, i) + g[i + 1] BY SumOfOneMore
  <2>3. QED BY <1>2, <2>1, <2>2
<1> HIDE DEF S
<1>3. n \in S BY <1>1, <1>2, Climb
<1>4. QED BY <1>3 DEF S

\* A sum of zeros is zero.
LEMMA SumOfZeros ==
  ASSUME NEW f, NEW n \in Nat, \A i \in 1 .. n : f[i] = 0
  PROVE  SumTo(f, n) = 0
<1> DEFINE S == {i \in 0 .. n : SumTo(f, i) = 0}
<1>1. 0 \in S BY SumOfNone
<1>2. ASSUME NEW i \in 0 .. n - 1, i \in S PROVE i + 1 \in S
  <2>1. SumTo(f, i + 1) = SumTo(f, i) + f[i + 1] BY SumOfOneMore
  <2>2. QED BY <1>2, <2>1
<1> HIDE DEF S
<1>3. n \in S BY <1>1, <1>2, Climb
<1>4. QED BY <1>3 DEF S

\* A sum of natural numbers is one.
LEMMA SumNat ==
  ASSUME NEW f, NEW n \in Nat, \A i \in 1 .. n : f[i] \in Nat
  PROVE  SumTo(f, n) \in Nat
<1> DEFINE S == {i \in 0 .. n : SumTo(f, i) \in Nat}
<1>1. 0 \in S BY SumOfNone
<1>2. ASSUME NEW i \in 0 .. n - 1, i \in S PROVE i + 1 \in S
  <2>1. SumTo(f, i + 1) = SumTo(f, i) + f[i + 1] BY SumOfOneMore
  <2>2. QED BY <1>2, <2>1
<1> HIDE DEF S
<1>3. n \in S BY <1>1, <1>2, Climb
<1>4. QED BY <1>3 DEF S

\* A sum of which one element changes, changes by as much.
LEMMA SumChange ==
  ASSUME NEW f, NEW g, NEW n \in Nat, NEW k \in 1 .. n,
         \A i \in 1 .. n : f[i] \in Int,
         g[k] \in Int,
         \A i \in 1 .. n : i # k => g[i] = f[i]
  PROVE  SumTo(g, n) = SumTo(f, n) + (g[k] - f[k])
<1> DEFINE Ahead(i) == IF i < k THEN 0 ELSE g[k] - f[k]
           S == {i \in 0 .. n : SumTo(g, i) = SumTo(f, i) + Ahead(i)}
<1>1. 0 \in S BY SumOfNone
<1>2. ASSUME NEW i \in 0 .. n - 1, i \in S PROVE i + 1 \in S
  <2>1. SumTo(f, i + 1) = SumTo(f, i) + f[i + 1] BY SumOfOneMore
  <2>2. SumTo(g, i + 1) = SumTo(g, i) + g[i + 1] BY SumOfOneMore
  <2>3. SumTo(f, i) \in Int BY SumInt
  <2>4. SumTo(g, i) = SumTo(f, i) + Ahead(i) BY <1>2
  <2>5. g[i + 1] \in Int /\ f[i + 1] \in Int OBVIOUS
  <2>6. CASE i + 1 = k BY <2>1, <2>2, <2>3, <2>4, <2>5, <2>6
  <2>7. CASE i + 1 # k
    <3>1. g[i + 1] = f[i + 1] BY <2>7
    <3>2. Ahead(i + 1) = Ahead(i) BY <2>7
    <3>3. Ahead(i) \in Int OBVIOUS
    <3> HIDE DEF Ahead
    <3>4. QED BY <2>1, <2>2, <2>3, <2>4, <2>5, <3>1, <3>2, <3>3
  <2>8. QED BY <2>6, <2>7
<1>3. \A i \in 0 .. n - 1 : i \in S => i + 1 \in S BY <1>2
<1> HIDE DEF S
<1>4. n \in S BY ONLY n \in Nat, <1>1, <1>3, Climb
<1>5. QED BY <1>4 DEF S

\* A sum of natural numbers is no less than one of them.
LEMMA SumAtLeast ==
  ASSUME NEW f, NEW n \in Nat, \A i \in 1 .. n : f[i] \in Nat, NEW k \in 1 .. n
  PROVE  SumTo(f, n) >= f[k]
<1> DEFINE g == [i \in 1 .. n |-> IF i = k THEN 0 ELSE f[i]]
<1>1. /\ \A i \in 1 .. n : g[i] \in Nat
      /\ \A i \in 1 .. n : i # k => g[i] = f[i]
      /\ g[k] = 0 /\ f[k] \in Nat
      /\ \A i \in 1 .. n : f[i] \in Int
  OBVIOUS
<1> HIDE DEF g
<1>2. SumTo(g, n) = SumTo(f, n) + (g[k] - f[k])
  BY <1>1, SumChange
<1>3. SumTo(g, n) \in Nat /\ SumTo(f, n) \in Nat
  BY <1>1, SumNat
<1> QED
  BY <1>1, <1>2, <1>3

-----------------------------------------------------------------------------
(* Sums over the rows of a grid: v has a value at each <<row, column>>, and *)
(* row u counts up to its own length n[u].                                  *)

RowSum(v, u, n) == SumTo([k \in 1 .. n |-> v[<<u, k>>]], n)

GridSum(v, n, rows) == SumTo([u \in 1 .. rows |-> RowSum(v, u, n[u])], rows)

\* A row of integers has an integer sum.
LEMMA RowInt ==
  ASSUME NEW v, NEW u, NEW n \in Nat, \A k \in 1 .. n : v[<<u, k>>] \in Int
  PROVE  RowSum(v, u, n) \in Int
BY SumInt DEF RowSum

\* A row that does not change keeps its sum.
LEMMA RowSame ==
  ASSUME NEW v, NEW w, NEW u, NEW n \in Nat, \A k \in 1 .. n : w[<<u, k>>] = v[<<u, k>>]
  PROVE  RowSum(w, u, n) = RowSum(v, u, n)
BY SumSame DEF RowSum

\* A row that changes in one place changes its sum by as much.
LEMMA RowChange ==
  ASSUME NEW v, NEW w, NEW u, NEW n \in Nat, NEW k \in 1 .. n,
         \A j \in 1 .. n : v[<<u, j>>] \in Int,
         w[<<u, k>>] \in Int,
         \A j \in 1 .. n : j # k => w[<<u, j>>] = v[<<u, j>>]
  PROVE  RowSum(w, u, n) = RowSum(v, u, n) + (w[<<u, k>>] - v[<<u, k>>])
<1> DEFINE f == [j \in 1 .. n |-> v[<<u, j>>]]
           g == [j \in 1 .. n |-> w[<<u, j>>]]
<1>1. /\ \A j \in 1 .. n : f[j] \in Int
      /\ g[k] \in Int
      /\ \A j \in 1 .. n : j # k => g[j] = f[j]
      /\ g[k] - f[k] = w[<<u, k>>] - v[<<u, k>>]
  OBVIOUS
<1>2. RowSum(v, u, n) = SumTo(f, n) /\ RowSum(w, u, n) = SumTo(g, n)
  BY DEF RowSum
<1> HIDE DEF f, g
<1>3. SumTo(g, n) = SumTo(f, n) + (g[k] - f[k])
  BY <1>1, SumChange
<1> QED
  BY <1>1, <1>2, <1>3

\* A row that is one longer, with nothing in the new place, keeps its sum.
LEMMA RowLonger ==
  ASSUME NEW v, NEW u, NEW n \in Nat, \A k \in 1 .. n : v[<<u, k>>] \in Int,
         v[<<u, n + 1>>] = 0
  PROVE  RowSum(v, u, n + 1) = RowSum(v, u, n)
<1> DEFINE f == [k \in 1 .. n |-> v[<<u, k>>]]
           g == [k \in 1 .. n + 1 |-> v[<<u, k>>]]
<1>1. /\ \A k \in 1 .. n : g[k] = f[k]
      /\ g[n + 1] = 0
  OBVIOUS
<1>2. RowSum(v, u, n) = SumTo(f, n) /\ RowSum(v, u, n + 1) = SumTo(g, n + 1)
  BY DEF RowSum
<1>3. RowSum(v, u, n) \in Int
  BY RowInt
<1> HIDE DEF f, g
<1>4. SumTo(g, n) = SumTo(f, n)
  BY <1>1, SumSame
<1>5. SumTo(g, n + 1) = SumTo(g, n) + g[n + 1]
  BY SumOfOneMore
<1> QED
  BY <1>1, <1>2, <1>3, <1>4, <1>5

\* w is v but in one place, which is in its row, whose length may have grown by
\* that place.
IsGridChange(v, n, w, m, rows, u, k) ==
  /\ n \in [1 .. rows -> Nat] /\ m \in [1 .. rows -> Nat]
  /\ \A r \in 1 .. rows, j \in Nat : v[<<r, j>>] \in Int /\ w[<<r, j>>] \in Int
  /\ u \in 1 .. rows /\ k \in 1 .. m[u]
  /\ \A r \in 1 .. rows, j \in Nat : <<r, j>> # <<u, k>> => w[<<r, j>>] = v[<<r, j>>]
  /\ \A r \in 1 .. rows : r # u => m[r] = n[r]
  /\ m[u] = n[u] \/ (m[u] = n[u] + 1 /\ v[<<u, n[u] + 1>>] = 0)

\* The sums of the rows change as the place does.
RowsChange(v, n, w, m, rows, u, k) ==
  /\ RowSum(w, u, m[u]) = RowSum(v, u, n[u]) + (w[<<u, k>>] - v[<<u, k>>])
  /\ \A r \in 1 .. rows : r # u => RowSum(w, r, m[r]) = RowSum(v, r, n[r])
  /\ \A r \in 1 .. rows : RowSum(v, r, n[r]) \in Int /\ RowSum(w, r, m[r]) \in Int

\* The sum of each row, after such a change.
LEMMA GridChangeRows ==
  ASSUME NEW v, NEW n, NEW w, NEW m, NEW rows \in Nat, NEW u, NEW k,
         IsGridChange(v, n, w, m, rows, u, k)
  PROVE  RowsChange(v, n, w, m, rows, u, k)
<1>1. \A r \in 1 .. rows : RowSum(v, r, n[r]) \in Int /\ RowSum(w, r, m[r]) \in Int
  BY RowInt DEF IsGridChange
<1>2. ASSUME NEW r \in 1 .. rows, r # u
      PROVE  RowSum(w, r, m[r]) = RowSum(v, r, n[r])
  <2>1. \A j \in 1 .. n[r] : w[<<r, j>>] = v[<<r, j>>]
    BY <1>2 DEF IsGridChange
  <2> QED
    BY <1>2, <2>1, RowSame DEF IsGridChange
<1>3. RowSum(v, u, m[u]) = RowSum(v, u, n[u])
  BY RowLonger DEF IsGridChange
<1>4. RowSum(w, u, m[u]) = RowSum(v, u, m[u]) + (w[<<u, k>>] - v[<<u, k>>])
  <2>1. /\ m[u] \in Nat /\ k \in 1 .. m[u]
        /\ \A j \in 1 .. m[u] : v[<<u, j>>] \in Int
        /\ w[<<u, k>>] \in Int
        /\ \A j \in 1 .. m[u] : j # k => w[<<u, j>>] = v[<<u, j>>]
    BY DEF IsGridChange
  <2> QED
    BY <2>1, RowChange
<1> QED
  BY <1>1, <1>2, <1>3, <1>4 DEF RowsChange

\* And the sum of all of them.
LEMMA GridChange ==
  ASSUME NEW v, NEW n, NEW w, NEW m, NEW rows \in Nat, NEW u, NEW k,
         IsGridChange(v, n, w, m, rows, u, k)
  PROVE  /\ GridSum(w, m, rows) = GridSum(v, n, rows) + (w[<<u, k>>] - v[<<u, k>>])
         /\ GridSum(v, n, rows) \in Int
<1> DEFINE f == [r \in 1 .. rows |-> RowSum(v, r, n[r])]
           g == [r \in 1 .. rows |-> RowSum(w, r, m[r])]
<1>1. u \in 1 .. rows /\ w[<<u, k>>] \in Int /\ v[<<u, k>>] \in Int
  BY DEF IsGridChange
<1>2. /\ \A r \in 1 .. rows : f[r] \in Int
      /\ g[u] \in Int
      /\ \A r \in 1 .. rows : r # u => g[r] = f[r]
      /\ g[u] = f[u] + (w[<<u, k>>] - v[<<u, k>>])
  <2>1. /\ RowSum(w, u, m[u]) = RowSum(v, u, n[u]) + (w[<<u, k>>] - v[<<u, k>>])
        /\ \A r \in 1 .. rows : r # u => RowSum(w, r, m[r]) = RowSum(v, r, n[r])
        /\ \A r \in 1 .. rows : RowSum(v, r, n[r]) \in Int /\ RowSum(w, r, m[r]) \in Int
    BY GridChangeRows DEF RowsChange
  <2> QED
    BY <1>1, <2>1
<1>3. GridSum(v, n, rows) = SumTo(f, rows) /\ GridSum(w, m, rows) = SumTo(g, rows)
  BY DEF GridSum
<1> HIDE DEF f, g
<1>4. SumTo(g, rows) = SumTo(f, rows) + (g[u] - f[u])
  BY <1>1, <1>2, SumChange
<1>5. SumTo(f, rows) \in Int
  BY <1>2, SumInt
<1> QED
  BY <1>1, <1>2, <1>3, <1>4, <1>5

=============================================================================
