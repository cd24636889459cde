--------------------------- MODULE SlidingWindow ---------------------------
(***************************************************************************)
(* The arithmetic of TransactionRateLimiter (src/rate_limiter.rs): what    *)
(* one call of check_transaction_allowed does to the deque of timestamps   *)
(* when the clock, read under the limiter's lock, says `time`.  Time is    *)
(* counted in units of which the code's 60 seconds are Window.             *)
(***************************************************************************)
EXTENDS Integers, Sequences

CONSTANTS Window,      \* the 60 s window of check_transaction_allowed
          RateLimit    \* limit_per_minute

ASSUME WindowAssumption == Window \in Nat
ASSUME RateLimitAssumption == RateLimit \in Nat

(* `now.duration_since(t) > window`: strictly older than the window. *)
MutantExpired(t, time) == time - t >= Window
Expired(t, time) == time - t > Window

(* The `while` loop pops from the front up to the first fresh entry. *)
EvictedCount(stamps, time) ==
  CHOOSE k \in 0 .. Len(stamps) :
    /\ \A i \in 1 .. k : Expired(stamps[i], time)
    /\ k < Len(stamps) => ~ Expired(stamps[k + 1], time)

Evict(stamps, time) == SubSeq(stamps, EvictedCount(stamps, time) + 1, Len(stamps))

(* `len() >= limit` refuses. *)
MutantHasQuota(stamps, time) == Len(Evict(stamps, time)) =< RateLimit
HasQuota(stamps, time) == Len(Evict(stamps, time)) < RateLimit

(* A log of times any RateLimit + 1 consecutive entries of which span more *)
(* than the window.                                                        *)
Spread(log) ==
  \A i \in 1 .. Len(log) :
    i + RateLimit =< Len(log) => log[i + RateLimit] - log[i] > Window

=============================================================================
