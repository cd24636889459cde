------------------------ MODULE SlidingWindowProofs ------------------------
(***************************************************************************)
(* What one eviction does to a deque of timestamps, for every deque.       *)
(***************************************************************************)
EXTENDS SlidingWindow, SequenceTheorems, WellFoundedInduction, TLAPS

(* The eviction loop stops somewhere: at the first fresh entry, or at the  *)
(* end of the deque.                                                       *)
LEMMA EvictionStops ==
  ASSUME NEW stamps \in Seq(Nat), NEW time \in Nat
  PROVE  \E k \in 0 .. Len(stamps) :
           /\ \A i \in 1 .. k : Expired(stamps[i], time)
           /\ k < Len(stamps) => ~ Expired(stamps[k + 1], time)
<1> DEFINE Stops == {k \in 0 .. Len(stamps) :
                       k < Len(stamps) => ~ Expired(stamps[k + 1], time)}
<1>1. Len(stamps) \in Stops /\ Stops \subseteq Nat
  BY LenProperties
<1> DEFINE Less == {pair \in Nat \X Nat : pair[1] < pair[2]}
<1>2. IsWellFoundedOn(Less, Nat)
  BY NatLessThanWellFounded DEF OpToRel
<1>3. PICK k \in Stops : \A j \in Stops : ~ (j < k)
  <2> HIDE DEF Stops
  <2>1. PICK k \in Stops : \A j \in Stops : ~ (<<j, k>> \in Less)
    <3> HIDE DEF Less
    <3> QED BY <1>1, <1>2, WFMin
  <2> QED BY <1>1, <2>1
<1>4. ASSUME NEW i \in 1 .. k PROVE Expired(stamps[i], time)
  <2>1. i - 1 \in 0 .. Len(stamps) /\ i - 1 < k /\ i - 1 < Len(stamps) /\ (i - 1) + 1 = i
    BY LenProperties
  <2>2. i - 1 \notin Stops
    BY <1>3, <2>1
  <2> QED BY <2>1, <2>2
<1> QED BY <1>4

(* An eviction removes a prefix of expired entries, keeps the others in    *)
(* order, and leaves a fresh entry, if any, at the front.                  *)
LEMMA EvictionKeepsTheFresh ==
  ASSUME NEW stamps \in Seq(Nat), NEW time \in Nat
  PROVE  \E k \in 0 .. Len(stamps) :
           /\ \A i \in 1 .. k : Expired(stamps[i], time)
           /\ Evict(stamps, time) \in Seq(Nat)
           /\ Len(Evict(stamps, time)) = Len(stamps) - k
           /\ \A i \in 1 .. Len(stamps) - k : Evict(stamps, time)[i] = stamps[k + i]
           /\ k < Len(stamps) => ~ Expired(stamps[k + 1], time)
<1> DEFINE k == EvictedCount(stamps, time)
<1>1. /\ k \in 0 .. Len(stamps)
      /\ \A i \in 1 .. k : Expired(stamps[i], time)
      /\ k < Len(stamps) => ~ Expired(stamps[k + 1], time)
  BY EvictionStops DEF EvictedCount
<1> HIDE DEF k
<1>2. Len(stamps) \in Nat /\ k + 1 \in Int
  BY <1>1, LenProperties
<1>3. \A i \in k + 1 .. Len(stamps) : stamps[i] \in Nat
  BY <1>1, <1>2, ElementOfSeq
<1>4. /\ SubSeq(stamps, k + 1, Len(stamps)) \in Seq(Nat)
      /\ Len(SubSeq(stamps, k + 1, Len(stamps))) =
           IF k + 1 <= Len(stamps) THEN Len(stamps) - (k + 1) + 1 ELSE 0
      /\ \A i \in 1 .. Len(stamps) - (k + 1) + 1 :
           SubSeq(stamps, k + 1, Len(stamps))[i] = stamps[(k + 1) + i - 1]
  BY <1>2, <1>3, SubSeqProperties
<1>5. Evict(stamps, time) = SubSeq(stamps, k + 1, Len(stamps))
  BY DEF Evict, k
<1>6. \A i \in 1 .. Len(stamps) - k : (k + 1) + i - 1 = k + i
  BY <1>1, <1>2
<1>7. Len(Evict(stamps, time)) = Len(stamps) - k
  BY <1>1, <1>2, <1>4, <1>5
<1>8. \A i \in 1 .. Len(stamps) - k : Evict(stamps, time)[i] = stamps[k + i]
  BY <1>1, <1>2, <1>4, <1>5, <1>6
<1> QED BY <1>1, <1>4, <1>5, <1>7, <1>8

-----------------------------------------------------------------------------
(* How a deque stands to the log of all admissions at time `time`: it is a *)
(* suffix of the log, the log is sorted and not in the future, and what    *)
(* the deque has forgotten is expired.                                     *)
SuffixOf(stamps, log) ==
  /\ Len(stamps) =< Len(log)
  /\ \A i \in 1 .. Len(stamps) : stamps[i] = log[Len(log) - Len(stamps) + i]

Chronological(log, time) ==
  /\ \A i, j \in 1 .. Len(log) : i =< j => log[i] =< log[j]
  /\ \A i \in 1 .. Len(log) : log[i] =< time

ForgottenIsExpired(stamps, log, time) ==
  \A i \in 1 .. Len(log) - Len(stamps) : Expired(log[i], time)

DequeInv(stamps, log, time) ==
  /\ stamps \in Seq(Nat)
  /\ log \in Seq(Nat)
  /\ Len(stamps) =< RateLimit
  /\ SuffixOf(stamps, log)
  /\ Chronological(log, time)
  /\ ForgottenIsExpired(stamps, log, time)
  /\ Spread(log)

(* Time passes: what is expired stays expired. *)
LEMMA DequeInvTick ==
  ASSUME NEW stamps, NEW log, NEW time \in Nat, NEW later \in Nat, time =< later,
         DequeInv(stamps, log, time)
  PROVE  DequeInv(stamps, log, later)
<1>1. Len(stamps) \in Nat /\ Len(log) \in Nat
  BY LenProperties DEF DequeInv
<1>2. \A i \in 1 .. Len(log) : log[i] \in Nat
  BY ElementOfSeq DEF DequeInv
<1>3. Chronological(log, later)
  BY <1>1, <1>2 DEF DequeInv, Chronological
<1>4. ForgottenIsExpired(stamps, log, later)
  BY <1>1, <1>2, WindowAssumption DEF DequeInv, ForgottenIsExpired, Expired, SuffixOf
<1> QED BY <1>3, <1>4 DEF DequeInv

(* A check that refuses keeps the relation. *)
LEMMA DequeInvEvict ==
  ASSUME NEW stamps, NEW log, NEW time \in Nat, DequeInv(stamps, log, time)
  PROVE  DequeInv(Evict(stamps, time), log, time)
<1> DEFINE rest == Evict(stamps, time)
<1>1. PICK k \in 0 .. Len(stamps) :
        /\ \A i \in 1 .. k : Expired(stamps[i], time)
        /\ rest \in Seq(Nat)
        /\ Len(rest) = Len(stamps) - k
        /\ \A i \in 1 .. Len(stamps) - k : rest[i] = stamps[k + i]
  BY EvictionKeepsTheFresh DEF DequeInv
<1> HIDE DEF rest
<1>2. Len(stamps) \in Nat /\ Len(log) \in Nat /\ Len(stamps) =< Len(log)
  BY LenProperties DEF DequeInv, SuffixOf
<1>3. Len(rest) =< RateLimit
  BY <1>1, <1>2, RateLimitAssumption DEF DequeInv
<1>4. SuffixOf(rest, log)
  <2>1. ASSUME NEW i \in 1 .. Len(rest)
        PROVE  rest[i] = log[Len(log) - Len(rest) + i]
    <3>1. rest[i] = stamps[k + i] /\ k + i \in 1 .. Len(stamps)
      BY <1>1, <1>2
    <3>2. stamps[k + i] = log[Len(log) - Len(stamps) + (k + i)]
      BY <3>1 DEF DequeInv, SuffixOf
    <3>3. Len(log) - Len(stamps) + (k + i) = Len(log) - Len(rest) + i
      BY <1>1, <1>2
    <3> QED BY <3>1, <3>2, <3>3
  <2> QED BY <1>1, <1>2, <2>1 DEF SuffixOf
<1>5. ForgottenIsExpired(rest, log, time)
  <2> SUFFICES ASSUME NEW i \in 1 .. Len(log) - Len(rest)
               PROVE  Expired(log[i], time)
    BY DEF ForgottenIsExpired
  <2>1. CASE i \in 1 .. Len(log) - Len(stamps)
    BY <2>1 DEF DequeInv, ForgottenIsExpired
  <2>2. CASE i \notin 1 .. Len(log) - Len(stamps)
    <3> DEFINE j == i - (Len(log) - Len(stamps))
    <3>1. j \in 1 .. k /\ j \in 1 .. Len(stamps) /\ Len(log) - Len(stamps) + j = i
      BY <1>1, <1>2, <2>2
    <3> QED BY <1>1, <3>1 DEF DequeInv, SuffixOf
  <2> QED BY <2>1, <2>2
<1> QED BY <1>1, <1>3, <1>4, <1>5 DEF DequeInv, rest

(* A check that admits keeps the relation: the log grows by `time`, and    *)
(* the entry RateLimit places before it is one the deque has forgotten.    *)
LEMMA DequeInvRecord ==
  ASSUME NEW stamps, NEW log, NEW time \in Nat, DequeInv(stamps, log, time),
         HasQuota(stamps, time)
  PROVE  DequeInv(Append(Evict(stamps, time), time), Append(log, time), time)
<1> DEFINE rest == Evict(stamps, time)
           newStamps == Append(rest, time)
           newLog == Append(log, time)
<1>1. DequeInv(rest, log, time) /\ Len(rest) < RateLimit
  BY DequeInvEvict DEF HasQuota
<1> HIDE DEF rest
<1>2. /\ Len(rest) \in Nat /\ Len(log) \in Nat /\ Len(rest) =< Len(log)
      /\ rest \in Seq(Nat) /\ log \in Seq(Nat)
  BY <1>1, LenProperties DEF DequeInv, SuffixOf
<1>3. /\ newStamps \in Seq(Nat) /\ newLog \in Seq(Nat)
      /\ Len(newStamps) = Len(rest) + 1 /\ Len(newLog) = Len(log) + 1
      /\ \A i \in 1 .. Len(rest) : newStamps[i] = rest[i]
      /\ \A i \in 1 .. Len(log) : newLog[i] = log[i]
      /\ newStamps[Len(rest) + 1] = time /\ newLog[Len(log) + 1] = time
  BY <1>2, AppendProperties
<1>4. \A i \in 1 .. Len(log) : log[i] \in Nat
  BY <1>2, ElementOfSeq
<1> HIDE DEF newStamps, newLog
<1>5. Len(newStamps) =< RateLimit
  BY <1>1, <1>2, <1>3, RateLimitAssumption
<1>6. SuffixOf(newStamps, newLog)
  <2>1. ASSUME NEW i \in 1 .. Len(newStamps)
        PROVE  newStamps[i] = newLog[Len(newLog) - Len(newStamps) + i]
    <3>1. Len(newLog) - Len(newStamps) + i = Len(log) - Len(rest) + i
      BY <1>2, <1>3
    <3>2. CASE i = Len(rest) + 1
      BY <1>2, <1>3, <3>1, <3>2
    <3>3. CASE i \in 1 .. Len(rest)
      <4>1. Len(log) - Len(rest) + i \in 1 .. Len(log)
        BY <1>2, <3>3
      <4>2. rest[i] = log[Len(log) - Len(rest) + i]
        BY <1>1, <3>3 DEF DequeInv, SuffixOf
      <4> QED BY <1>3, <3>1, <3>3, <4>1, <4>2
    <3> QED BY <1>2, <1>3, <3>2, <3>3
  <2> QED BY <1>2, <1>3, <2>1 DEF SuffixOf
<1>7. Chronological(newLog, time)
  <2>1. ASSUME NEW i \in 1 .. Len(newLog) PROVE newLog[i] =< time /\ newLog[i] \in Nat
    <3>1. CASE i = Len(log) + 1
      BY <1>3, <3>1
    <3>2. CASE i \in 1 .. Len(log)
      <4>1. newLog[i] = log[i]
        BY <1>3, <3>2
      <4>2. log[i] =< time
        BY <1>1, <3>2 DEF DequeInv, Chronological
      <4> QED BY <1>4, <3>2, <4>1, <4>2
    <3> QED BY <1>2, <1>3, <3>1, <3>2
  <2>2. ASSUME NEW i \in 1 .. Len(newLog), NEW j \in 1 .. Len(newLog), i =< j
        PROVE  newLog[i] =< newLog[j]
    <3>1. CASE j = Len(log) + 1
      BY <1>3, <2>1, <3>1
    <3>2. CASE j \in 1 .. Len(log)
      <4>1. i \in 1 .. Len(log)
        BY <1>2, <2>2, <3>2
      <4> QED BY <1>1, <1>3, <2>2, <3>2, <4>1 DEF DequeInv, Chronological
    <3> QED BY <1>2, <1>3, <3>1, <3>2
  <2> QED BY <2>1, <2>2 DEF Chronological
<1>8. ForgottenIsExpired(newStamps, newLog, time)
  <2> SUFFICES ASSUME NEW i \in 1 .. Len(newLog) - Len(newStamps)
               PROVE  Expired(newLog[i], time)
    BY DEF ForgottenIsExpired
  <2>1. i \in 1 .. Len(log) - Len(rest) /\ i \in 1 .. Len(log)
    <3>1. /\ Len(log) \in Nat /\ Len(rest) \in Nat
          /\ Len(newLog) - Len(newStamps) = Len(log) - Len(rest)
      BY <1>2, <1>3
    <3> QED BY <3>1
  <2> QED BY <1>1, <1>3, <2>1 DEF DequeInv, ForgottenIsExpired
<1>9. Spread(newLog)
  <2> SUFFICES ASSUME NEW i \in 1 .. Len(newLog), i + RateLimit =< Len(newLog)
               PROVE  newLog[i + RateLimit] - newLog[i] > Window
    BY DEF Spread
  <2>1. RateLimit \in Nat /\ RateLimit >= 1
    BY <1>1, <1>2, RateLimitAssumption
  <2>2. i \in 1 .. Len(log) /\ i + RateLimit \in 1 .. Len(log) + 1
    BY <1>2, <1>3, <2>1
  <2>3. newLog[i] = log[i]
    BY <1>3, <2>2
  <2>4. CASE i + RateLimit \in 1 .. Len(log)
    <3>1. newLog[i + RateLimit] = log[i + RateLimit]
      BY <1>3, <2>4
    <3>2. log[i + RateLimit] - log[i] > Window
      BY <1>1, <1>2, <2>2, <2>4 DEF DequeInv, Spread
    <3> QED BY <2>3, <3>1, <3>2
  <2>5. CASE i + RateLimit = Len(log) + 1
    <3>1. i \in 1 .. Len(log) - Len(rest)
      BY <1>1, <1>2, <2>1, <2>2, <2>5
    <3>2. Expired(log[i], time)
      BY <1>1, <3>1 DEF DequeInv, ForgottenIsExpired
    <3> QED BY <1>3, <2>3, <2>5, <3>2 DEF Expired
  <2> QED BY <1>2, <2>2, <2>4, <2>5
<1> QED BY <1>3, <1>5, <1>6, <1>7, <1>8, <1>9 DEF DequeInv, newStamps, newLog, rest

=============================================================================
