----------------------------- MODULE MCSession -----------------------------
(***************************************************************************)
(* Small instances of the dApp.                                            *)
(***************************************************************************)
EXTENDS SessionSafety

CONSTANTS Alice, Bob

=============================================================================
