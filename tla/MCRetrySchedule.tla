--------------------------- MODULE MCRetrySchedule ---------------------------
(* Constant values for model checking retry delays. *)
EXTENDS RetrySchedule, TLC

\* No Retry-After, one that is over at once, short ones and one beyond the cap.
Moderate == {-1, 0, 1, 3}

\* Seconds whose milliseconds do not fit in a long.
Excessive == {-1, 1, 8, 15}

Interchangeable == Permutations(Jobs)
=============================================================================
