--------------------------- MODULE MCContentStore ---------------------------
(* Uploads of empty and of short files, announced rightly or wrongly, and  *)
(* readers that may name any bucket.                                       *)
EXTENDS ContentStore, TLC

MCSymmetry == Permutations(Uploads) \cup Permutations(Keys)
=============================================================================
