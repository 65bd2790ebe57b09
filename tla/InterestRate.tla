---------------------------- MODULE InterestRate ----------------------------
(***************************************************************************)
(* The interest rate curve of a pool: contracts/loan_pool/src/interest.rs. *)
(* The rate rises linearly with the share of the pool that is lent out     *)
(* (the utilisation), slowly up to PANIC_RATES_THRESHOLD and steeply after *)
(* it.  The source's numbers are constants here, because TLC's integers    *)
(* are 32 bits wide; the runs keep their proportions at a smaller scale.   *)
(***************************************************************************)
EXTENDS FixedPoint

CONSTANTS
  DECIMAL,                \* the fixed-point one, 10_000_000 in the source
  FULL_UTILISATION,       \* the one of ratio_of_balances, 100_000_000
  PANIC_RATES_THRESHOLD,  \* 90_000_000
  BASE_INTEREST_RATE,     \* 200_000, 2 %
  INTEREST_RATE_AT_PANIC, \* 1_000_000, 10 %
  MAX_INTEREST_RATE,      \* 3_000_000, 30 %
  PANIC_BASE_RATE         \* -17_000_000

ASSUME ScaleAssumption ==
  /\ DECIMAL \in Nat \ {0}
  /\ FULL_UTILISATION \in Nat \ {0}
  /\ PANIC_RATES_THRESHOLD \in 1 .. (FULL_UTILISATION - 1)

ASSUME RateAssumption ==
  /\ BASE_INTEREST_RATE \in Nat
  /\ INTEREST_RATE_AT_PANIC \in Nat
  /\ MAX_INTEREST_RATE \in Nat
  /\ PANIC_BASE_RATE \in Int
  /\ BASE_INTEREST_RATE <= INTEREST_RATE_AT_PANIC
  /\ INTEREST_RATE_AT_PANIC <= MAX_INTEREST_RATE

SlopeBeforePanic ==
  TruncDiv((INTEREST_RATE_AT_PANIC - BASE_INTEREST_RATE) * DECIMAL, PANIC_RATES_THRESHOLD)

SlopeAfterPanic ==
  TruncDiv((MAX_INTEREST_RATE - INTEREST_RATE_AT_PANIC) * DECIMAL,
           FULL_UTILISATION - PANIC_RATES_THRESHOLD)

Utilisation(total, available) ==
  TruncDiv((total - available) * FULL_UTILISATION, total)

\* The steep line does not begin below nothing: in the source it begins where
\* the other ends.
ASSUME PanicAssumption ==
  TruncDiv(SlopeAfterPanic * PANIC_RATES_THRESHOLD, DECIMAL) + PANIC_BASE_RATE >= 0

RateAt(ratio) ==
  IF ratio < PANIC_RATES_THRESHOLD
  THEN TruncDiv(SlopeBeforePanic * ratio, DECIMAL) + BASE_INTEREST_RATE
  ELSE TruncDiv(SlopeAfterPanic * ratio, DECIMAL) + PANIC_BASE_RATE

\* get_interest: the annual rate, for the balances and multiplier in storage.
GetInterest(total, available, multiplier) ==
  multiplier * (IF total > 0 THEN RateAt(Utilisation(total, available))
                             ELSE BASE_INTEREST_RATE)

=============================================================================
