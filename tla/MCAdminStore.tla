---------------------------- MODULE MCAdminStore ----------------------------
(* AdminStore for TLC.                                                        *)
EXTENDS AdminStore, TLC

CONSTANTS k1, k2, r1, s1, t1, t2, ty, a, b, d1, d2, w1, w2

\* The file lists one key, with a token_ref; everything else is added online.
YamlFile == [i \in Ids |->
    IF i = k1 THEN [rev |-> 1, kept |-> [tok |-> ty, exp |-> Never]] ELSE None]

\* The names of random tokens, of descriptions and of their writers do not matter.
NameSymmetry == Permutations(Tokens) \cup Permutations(Descs) \cup Permutations(Writers)
=============================================================================
