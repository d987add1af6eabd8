----------------------------- MODULE MCGateway -----------------------------
(* Two accounts that may each be a publisher, a reader or both.  The       *)
(* properties treat all accounts, publishers and users alike.              *)
EXTENDS Gateway, TLC

MCSymmetry == Permutations(Accounts) \cup Permutations(Users) \cup Permutations(Publishers)
=============================================================================
