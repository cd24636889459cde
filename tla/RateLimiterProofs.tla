------------------------- MODULE RateLimiterProofs -------------------------
(***************************************************************************)
(* The limiter's window bound, for every limit, window and clock.          *)
(***************************************************************************)
EXTENDS RateLimiter, SlidingWindowProofs, FiniteSetTheorems

(* WindowBound alone is not inductive: it needs to know that the deque is  *)
(* the part of the history that still counts.                              *)
LimiterInv == now \in Nat /\ DequeInv(timestamps, admitted, now)

LEMMA LimiterInit == Init => LimiterInv
<1> SUFFICES ASSUME Init PROVE LimiterInv
  OBVIOUS
<1>1. timestamps = << >> /\ admitted = << >> /\ now = 0
  BY DEF Init
<1>2. << >> \in Seq(Nat) /\ Len(<< >>) = 0
  BY EmptySeq
<1>3. SuffixOf(<< >>, << >>) /\ Chronological(<< >>, 0) /\ Spread(<< >>)
  BY <1>2 DEF SuffixOf, Chronological, Spread
<1>4. ForgottenIsExpired(<< >>, << >>, 0)
  BY <1>2 DEF ForgottenIsExpired
<1> QED BY <1>1, <1>2, <1>3, <1>4, RateLimitAssumption DEF LimiterInv, DequeInv

LEMMA LimiterStep == LimiterInv /\ [Next]_vars => LimiterInv'
<1> SUFFICES ASSUME LimiterInv, [Next]_vars PROVE LimiterInv'
  OBVIOUS
<1>0. now \in Nat /\ DequeInv(timestamps, admitted, now)
  BY DEF LimiterInv
<1>1. CASE Tick
  <2>1. now' \in Nat /\ now =< now' /\ timestamps' = timestamps /\ admitted' = admitted
    BY <1>0, <1>1 DEF Tick
  <2>2. DequeInv(timestamps, admitted, now')
    BY <1>0, <2>1, DequeInvTick
  <2> QED BY <2>1, <2>2 DEF LimiterInv
<1>2. CASE Allow
  <2>1. DequeInv(Append(Evict(timestamps, now), now), Append(admitted, now), now)
    BY <1>0, <1>2, DequeInvRecord DEF Allow
  <2> QED BY <1>0, <1>2, <2>1 DEF Allow, LimiterInv
<1>3. CASE Block
  <2>1. DequeInv(Evict(timestamps, now), admitted, now)
    BY <1>0, DequeInvEvict
  <2> QED BY <1>0, <1>3, <2>1 DEF Block, LimiterInv
<1>4. CASE UNCHANGED vars
  BY <1>4 DEF LimiterInv, vars
<1> QED BY <1>1, <1>2, <1>3, <1>4 DEF Next

LEMMA LimiterInvariant == Spec => []LimiterInv
BY LimiterInit, LimiterStep, PTL DEF Spec

(* The deque of the limiter has the types of the struct and never holds    *)
(* more than RateLimit entries.                                            *)
THEOREM LimiterTypeOK == Spec => []TypeOK
<1>1. LimiterInv => TypeOK
  BY DEF LimiterInv, DequeInv, TypeOK
<1> QED BY <1>1, LimiterInvariant, PTL

(* Every closed window contains at most RateLimit admissions, whatever     *)
(* calls of check_transaction_allowed were made before.                    *)
THEOREM LimiterWindowBound == Spec => []WindowBound
<1>1. LimiterInv => WindowBound
  BY DEF LimiterInv, DequeInv, WindowBound
<1> QED BY <1>1, LimiterInvariant, PTL

(* What an eviction leaves is exactly what the history says still counts:  *)
(* the admissions at the end of the log that are no older than Window.     *)
LEMMA RecentIsWhatIsKept ==
  ASSUME LimiterInv
  PROVE  Cardinality(Recent) = Len(Evict(timestamps, now))
<1> DEFINE rest == Evict(timestamps, now)
           first == Len(admitted) - Len(rest) + 1
<1>0. now \in Nat /\ DequeInv(timestamps, admitted, now) /\ DequeInv(rest, admitted, now)
  BY DequeInvEvict DEF LimiterInv
<1>1. PICK k \in 0 .. Len(timestamps) :
        /\ Len(rest) = Len(timestamps) - k
        /\ \A i \in 1 .. Len(timestamps) - k : rest[i] = timestamps[k + i]
        /\ k < Len(timestamps) => ~ Expired(timestamps[k + 1], now)
  BY <1>0, EvictionKeepsTheFresh DEF DequeInv
<1>2. Len(timestamps) \in Nat /\ Len(rest) \in Nat /\ Len(admitted) \in Nat
      /\ Len(rest) =< Len(admitted)
  BY <1>0, LenProperties DEF DequeInv, SuffixOf
<1>3. \A i \in 1 .. Len(admitted) : admitted[i] \in Nat
  BY <1>0, ElementOfSeq DEF DequeInv
<1>4. Len(rest) > 0 => ~ Expired(rest[1], now)
  <2> SUFFICES ASSUME Len(rest) > 0 PROVE ~ Expired(rest[1], now)
    OBVIOUS
  <2> HIDE DEF rest
  <2>1. 1 \in 1 .. Len(timestamps) - k /\ k < Len(timestamps)
    BY <1>1, <1>2
  <2> QED BY <1>1, <2>1
<1> HIDE DEF rest
<1>5. ASSUME NEW i \in 1 .. Len(admitted), i < first
      PROVE  i \notin Recent
  <2>1. i \in 1 .. Len(admitted) - Len(rest)
    BY <1>2, <1>5
  <2>2. Expired(admitted[i], now)
    BY <1>0, <2>1 DEF DequeInv, ForgottenIsExpired
  <2> QED BY <1>0, <1>3, <2>2, WindowAssumption DEF Expired, Recent
<1>6. ASSUME NEW i \in 1 .. Len(admitted), first =< i
      PROVE  i \in Recent
  <2>1. 1 \in 1 .. Len(rest) /\ first \in 1 .. Len(admitted)
        /\ Len(admitted) - Len(rest) + 1 = first
    BY <1>2, <1>6
  <2>2. rest[1] = admitted[first]
    BY <1>0, <2>1 DEF DequeInv, SuffixOf
  <2>3. now - admitted[first] =< Window
    <3>1. ~ Expired(admitted[first], now) /\ admitted[first] \in Nat
      BY <1>2, <1>3, <1>4, <2>1, <2>2
    <3> HIDE DEF first
    <3> QED BY <1>0, <3>1, WindowAssumption DEF Expired
  <2>4. admitted[first] =< admitted[i]
    BY <1>0, <1>6, <2>1 DEF DequeInv, Chronological
  <2>5. now - admitted[i] =< Window
    <3>1. admitted[first] \in Nat /\ admitted[i] \in Nat
      BY <1>3, <2>1
    <3> HIDE DEF first
    <3> QED BY <1>0, <2>3, <2>4, <3>1, WindowAssumption
  <2> QED BY <2>5 DEF Recent
<1>7. Recent = first .. Len(admitted)
  <2>1. Recent \subseteq 1 .. Len(admitted)
    BY DEF Recent
  <2>2. first \in Int /\ first >= 1
    BY <1>2
  <2> HIDE DEF first
  <2>3. ASSUME NEW i \in Recent PROVE i \in first .. Len(admitted)
    <3>1. i \in 1 .. Len(admitted) /\ ~ (i < first)
      BY <1>5, <2>1
    <3> QED BY <1>2, <2>2, <3>1
  <2>4. ASSUME NEW i \in first .. Len(admitted) PROVE i \in Recent
    <3>1. i \in 1 .. Len(admitted) /\ first =< i
      BY <1>2, <2>2
    <3> QED BY <1>6, <3>1
  <2> QED BY <2>3, <2>4
<1>8. first \in Int /\ Len(admitted) \in Int
  BY <1>2
<1>9. Cardinality(first .. Len(admitted)) =
        IF first > Len(admitted) THEN 0 ELSE Len(admitted) - first + 1
  <2> HIDE DEF first
  <2> QED BY <1>8, FS_Interval
<1>10. Cardinality(Recent) = Len(rest)
  BY <1>2, <1>7, <1>9
<1> QED BY <1>10 DEF rest

(* A check refuses exactly when the history of admissions says the quota   *)
(* is spent: check_transaction_allowed neither forgets an admission that   *)
(* counts nor charges for one that does not, whatever the limit.           *)
THEOREM LimiterExactQuota == Spec => []ExactQuota
<1>1. LimiterInv => ExactQuota
  BY RecentIsWhatIsKept DEF ExactQuota, HasQuota
<1> QED BY <1>1, LimiterInvariant, PTL

=============================================================================
