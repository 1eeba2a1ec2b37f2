----------------------- MODULE MCCertificateAuthority -----------------------
(* Instances of CertificateAuthority for TLC.                              *)
EXTENDS CertificateAuthority, TLC

Symmetry == Permutations(Unary) \cup Permutations(Streams) \cup Permutations(Rotations)
=============================================================================
