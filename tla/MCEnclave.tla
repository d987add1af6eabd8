----------------------------- MODULE MCEnclave ------------------------------
(* The enclave for TLC: a path with a directory has the same file name as  *)
(* the one without.                                                        *)
EXTENDS Enclave

MCBase == [n \in Names |-> "clip"]
=============================================================================
