----------------------------- MODULE MCLlcBanks -----------------------------
(* The L2 banks on a small instance: two data banks, one tag bank.         *)
EXTENDS LlcBanks

=============================================================================
