----------------------------- MODULE MCWatchdog -----------------------------
(* Durations in ticks that keep the code's proportions: the interval is    *)
(* half the Timeout, the first backoff shorter than the interval, a reset  *)
(* may take longer than the Timeout, and the busy limit is longer still.   *)
EXTENDS Watchdog

MCTimeouts == {4}

=============================================================================
