----------------------------- MODULE MCCertPair -----------------------------
(* Instances of CertPair for TLC. *)
EXTENDS CertPair
=============================================================================
