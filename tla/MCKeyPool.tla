----------------------------- MODULE MCKeyPool -----------------------------
(* KeyPool for TLC.                                                           *)
EXTENDS KeyPool, TLC

CONSTANTS c1, c2, c3, s1, s2

Pool(strategy, refs) == [strategy |-> strategy, refs |-> refs]

\* Two secrets in either order and one secret listed twice.
SwapConfigs == {Pool("LeastRequests", <<s1, s2>>), Pool("FastestResponse", <<s2, s1>>),
                Pool("RoundRobin", <<s1, s1>>)}

CallSymmetry == Permutations(Calls)
=============================================================================
