-------------------------------- MODULE Sums --------------------------------
(***************************************************************************)
(* Sums over 1 .. n, as a recursive function: the folds of the community   *)
(* modules choose their elements, which makes a proof about them an        *)
(* argument about every order; this order is fixed.                        *)
(***************************************************************************)
EXTENDS Integers

\* f[1] + ... + f[n], for a function f whose domain includes 1 .. n.
SumTo(f, n) ==
  LET s[i \in 0 .. n] == IF i = 0 THEN 0 ELSE s[i - 1] + f[i]
  IN  s[n]

=============================================================================
