---------------------------- MODULE MCRetryLoop ----------------------------
(* RetryLoop for TLC.                                                         *)
EXTENDS RetryLoop

CONSTANTS c1, c2, s1, s2

\* One key: calls share it and a retry finds it cooling.
OneKey == {[strategy |-> "RoundRobin", refs |-> <<s1>>]}
=============================================================================
