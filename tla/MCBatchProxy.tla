----------------------------- MODULE MCBatchProxy -----------------------------
(* Three concurrent calls and two timer threads: one call can be in a batch  *)
(* of its own, two can share one, and a third can arrive while the others    *)
(* are being posted or delivered.  Two threads make a second flusher visible. *)
EXTENDS BatchProxy, TLC

CONSTANTS r1, r2, r3, t1, t2
MCRequests == {r1, r2, r3}
MCTimers == {t1, t2}
\* A run in which every call is over may stop.
=============================================================================
