---------------------------- MODULE MCDashboard ----------------------------
(* The dashboard for TLC: accounts, publishers and files are alike.        *)
EXTENDS Dashboard, TLC

MCSymmetry == Permutations(Accounts) \cup Permutations(Publishers) \cup Permutations(Files)
=============================================================================
