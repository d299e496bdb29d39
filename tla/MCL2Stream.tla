----------------------------- MODULE MCL2Stream ------------------------------
(* L2Stream with small sets for TLC. *)
EXTENDS L2Stream

CONSTANTS temperature, valve

\* No jitter, or the granularity of the timers, 1 ms, either way.
Exact == {0}
OneMs == {-32, 0, 32}

\* The counter starts at zero, or so that it wraps within a few cycles.
FromZero == {0}
NearWrap == {0, 50000, 65534}
==============================================================================
