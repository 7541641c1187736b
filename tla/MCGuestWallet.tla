--------------------------- MODULE MCGuestWallet ---------------------------
(* Instances of GuestWallet for TLC. *)
EXTENDS GuestWalletProperties

CONSTANTS Deposit, Debt

MCInitialDeposit == [g \in Guests |-> Deposit]
MCInitialDebt == [g \in Guests |-> Debt]
=============================================================================
