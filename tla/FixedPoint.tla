----------------------------- MODULE FixedPoint -----------------------------
(***************************************************************************)
(* The integer arithmetic of the contracts.  Amounts, rates and prices are *)
(* i128 fixed-point numbers; Rust's `/` and `checked_div` truncate toward  *)
(* zero, where TLA+'s \div rounds toward minus infinity.  A checked_* call *)
(* that overflows makes the transaction fail, which is no step at all: the *)
(* unbounded integers used here allow every behaviour the code has.        *)
(***************************************************************************)
EXTENDS Integers

Smaller(a, b) == IF a < b THEN a ELSE b

Magnitude(a) == IF a < 0 THEN -a ELSE a

\* a / b in Rust, for b # 0.
TruncDiv(a, b) ==
  LET q == Magnitude(a) \div Magnitude(b)
  IN  IF (a < 0) = (b < 0) THEN q ELSE -q

=============================================================================
