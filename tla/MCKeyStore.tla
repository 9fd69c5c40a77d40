------------------------------- MODULE MCKeyStore -------------------------------
(* KeyStore for TLC: three runs of the client.                             *)
EXTENDS KeyStore, TLC

CONSTANTS c1, c2, c3

MCClient == {c1, c2, c3}
RunSymmetry == Permutations(MCClient)
=============================================================================
