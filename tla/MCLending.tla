----------------------------- MODULE MCLending -----------------------------
(***************************************************************************)
(* Small instances of LendingSafety.  DECIMAL is 1000 here, and the other  *)
(* fixed-point numbers keep their proportion to it: a rate of 2 % is 20.   *)
(* Each user holds the tokens its part needs; any may call anything.       *)
(***************************************************************************)
EXTENDS LendingSafety, TLC

CONSTANTS XLM, EURC

MCPools == {XLM, EURC}
MCPanicBaseRate == -1700
MCCollateralFactor == [p \in MCPools |-> 800]

\* User 1 owns XLM to lend, and to liquidate with; user 2 owns EURC to secure
\* loans with, and in two of the instances some XLM for their interest.
LenderAndBorrower ==
  <<(XLM :> 120 @@ EURC :> 0), (XLM :> 30 @@ EURC :> 100)>>

LiquidatorAndBorrower ==
  <<(XLM :> 160 @@ EURC :> 0), (XLM :> 30 @@ EURC :> 100)>>

\* The collateral outweighs the debt and its interest by so much that the loan
\* can be liquidated twice by nearly a half.
LiquidatorAndHeavyBorrower ==
  <<(XLM :> 160 @@ EURC :> 0), (XLM :> 10 @@ EURC :> 340)>>

SteadyPrice == [p \in MCPools |-> 10]
NoChanges == [p \in MCPools |-> {}]

\* The curve of the instances is, like the source's, without a fall where its
\* lines meet, and ends at its highest rate.
ASSUME CurveAssumption ==
  /\ INTEREST_RATE_AT_PANIC <= RateAt(PANIC_RATES_THRESHOLD)
  /\ RateAt(FULL_UTILISATION) <= MAX_INTEREST_RATE

\* The oracle loses the price of one token.
LostEURC == XLM :> {} @@ EURC :> {NoPrice}

\* The collateral loses value: the average follows the last price, or lags.
FallingEURC == XLM :> {} @@ EURC :> {7, 10}
HalvedEURC == XLM :> {} @@ EURC :> {5, 10}

=============================================================================
