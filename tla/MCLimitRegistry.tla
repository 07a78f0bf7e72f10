-------------------------- MODULE MCLimitRegistry --------------------------
(* LimitRegistry for TLC.                                                     *)
EXTENDS LimitRegistry, TLC

CONSTANTS c1, c2, c3

Lim(calls_, daily, concurrent) ==
    [max_calls |-> calls_, per_day |-> daily, max_concurrent |-> concurrent]

\* A total quota with a queue, and a larger one without.
ReloadLimits == {Lim(1, 0, 1), Lim(2, 0, 0)}

\* Both quotas, with and without a queue.
DayLimits == {Lim(2, 2, 0), Lim(0, 1, 1)}

\* One limit at a time, for the runs that show where a promise fails.
QueueOfOne == {Lim(0, 0, 1)}
OnePerDay == {Lim(0, 1, 0)}
Total3 == {Lim(3, 0, 0)}

CallSymmetry == Permutations(Calls)
=============================================================================
