------------------------------ MODULE MCRelay ------------------------------
(* Two uploads, and a json call that has its protocol to itself; for the   *)
(* smaller runs, two uploads over the two routes that share the protocol.  *)
EXTENDS Relay, TLC

CONSTANTS u1, u2, j1

MCEndpoint == (u1 :> "upload") @@ (u2 :> "upload") @@ (j1 :> "json")

MCEndpointUpload == (u1 :> "ipfs") @@ (u2 :> "upload")

(* The two uploads of MCEndpoint are alike.                                *)
MCSymmetry == Permutations({u1, u2})
=============================================================================
