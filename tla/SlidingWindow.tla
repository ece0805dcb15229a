---------------------------- MODULE SlidingWindow ----------------------------
(***************************************************************************)
(* The clock of one process and the lists of time stamps that the signing  *)
(* rate limiter and the signing circuit breaker keep in its memory.        *)
(***************************************************************************)
EXTENDS Integers, Sequences, FiniteSetsExt

CONSTANT MaxTime   \* bound on the clock

ASSUME ClockAssumption == MaxTime \in Nat

VARIABLE clock     \* Date.now() in ticks

Tick == clock < MaxTime /\ clock' = clock + 1

(* Stamps are dropped from the front while they are width or more old.     *)
Prune(w, width) ==
    LET fresh == {n \in DOMAIN w : clock - w[n] < width}
    IN  IF fresh = {} THEN <<>> ELSE SubSeq(w, Min(fresh), Len(w))

(* In a log of stamps, no limit + 1 of them lie within less than width.    *)
AtMost(limit, width, log) ==
    \A i \in DOMAIN log :
        i + limit \in DOMAIN log => log[i + limit] - log[i] >= width

(* The latest limit stamps of the log are all less than width old.         *)
Busy(limit, width, log) ==
    /\ Len(log) >= limit
    /\ clock - log[Len(log) - limit + 1] < width
=============================================================================
