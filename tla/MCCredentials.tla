---------------------------- MODULE MCCredentials ---------------------------
(* Credentials for TLC.                                                        *)
EXTENDS Credentials, TLC

CONSTANTS s1, w1, w2, k1, k2, r1, r2, x1, x2

MCBackendOf == [vlt |-> "vault", loc |-> "env"]
MCSymmetry == Permutations({w1, w2})
=============================================================================
