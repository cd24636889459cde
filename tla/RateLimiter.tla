---------------------------- MODULE RateLimiter ----------------------------
(***************************************************************************)
(* TransactionRateLimiter (src/rate_limiter.rs) as its callers use it: the *)
(* struct sits behind a mutex, so a whole check_transaction_allowed is one *)
(* step, and the clock it reads (Instant) never goes back.                 *)
(***************************************************************************)
EXTENDS SlidingWindow, FiniteSets

CONSTANT MaxTime    \* bound of the model: the clock stops here

VARIABLES now,          \* Instant::now()
          timestamps,   \* TransactionRateLimiter.timestamps
          admitted      \* history: when each check that returned true was made

vars == <<now, timestamps, admitted>>

Init ==
  /\ now = 0
  /\ timestamps = << >>
  /\ admitted = << >>

Tick ==
  /\ now < MaxTime
  /\ now' = now + 1
  /\ UNCHANGED <<timestamps, admitted>>

(* check_transaction_allowed returns true. *)
Allow ==
  /\ HasQuota(timestamps, now)
  /\ timestamps' = Append(Evict(timestamps, now), now)
  /\ admitted' = Append(admitted, now)
  /\ UNCHANGED now

(* A plausible slip: a refused attempt is counted too. *)
MutantBlock ==
  /\ ~ HasQuota(timestamps, now)
  /\ timestamps' = Append(Tail(timestamps), now)
  /\ UNCHANGED <<now, admitted>>

(* check_transaction_allowed returns false: only the eviction remains. *)
Block ==
  /\ ~ HasQuota(timestamps, now)
  /\ timestamps' = Evict(timestamps, now)
  /\ UNCHANGED <<now, admitted>>

Next == Tick \/ Allow \/ Block

Spec == Init /\ [][Next]_vars

-----------------------------------------------------------------------------
(* The state has the types of the struct; the deque never outgrows the     *)
(* limit, so it cannot leak memory however often the limiter is asked.     *)
TypeOK ==
  /\ now \in Nat
  /\ timestamps \in Seq(Nat)
  /\ admitted \in Seq(Nat)
  /\ Len(timestamps) =< RateLimit

(* Every closed window of length Window, wherever it starts, contains at   *)
(* most RateLimit admissions: the deque forgets entries, but never one     *)
(* that still counts.                                                      *)
WindowBound == Spread(admitted)

Recent == {i \in 1 .. Len(admitted) : now - admitted[i] =< Window}

(* The next check is refused only when the quota is really spent: the      *)
(* decision taken from the deque is the one the whole history of           *)
(* admissions would give, at every instant.                                *)
ExactQuota == HasQuota(timestamps, now) <=> Cardinality(Recent) < RateLimit

=============================================================================
