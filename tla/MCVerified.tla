---------------------------- MODULE MCVerified -----------------------------
(***************************************************************************)
(* Small networks with the verifier, for TLC.                              *)
(***************************************************************************)
EXTENDS MCNetwork, VerifiedNetwork
=============================================================================
