---------------------------- MODULE MCAvsServer ----------------------------
(* AvsServer for TLC.  The .cfg files give the calls, keys and nonces.     *)
EXTENDS AvsServer, TLC

\* Sessions, and nonces, are interchangeable.
Symmetry == Permutations(Streams) \cup Permutations(Nonces)
=============================================================================
