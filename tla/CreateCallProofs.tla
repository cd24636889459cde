-------------------------- MODULE CreateCallProofs --------------------------
(***************************************************************************)
(* Proofs about the create tier, for any number of concurrent calls and    *)
(* any limit, window and clock.                                            *)
(***************************************************************************)
EXTENDS CreateCall, SlidingWindowProofs

(* What a call's place says of its transaction and of its outcome. *)
CallInv(c) ==
  /\ pc[c] \in {"idle", "preparing", "admitting"} => tx[c] = "unsent"
  /\ pc[c] = "idle" => audit[c] = "none"
  /\ pc[c] \notin {"idle", "done"} => audit[c] = "Started"
  /\ pc[c] \in {"auditing", "done"} =>
       /\ outcome[c] = "Ok" => tx[c] = "created"
       /\ outcome[c] \in {"PrepareError", "RateLimited"} <=> tx[c] = "unsent"
  /\ pc[c] = "done" => audit[c] = StatusOf(outcome[c])
  /\ pc[c] \in {"submitting", "resultWait"} => tx[c] # "unsent"

CreateInv ==
  /\ TypeOK
  /\ DequeInv(timestamps, sends, now)
  /\ \A c \in Calls : CallInv(c)

(* The initial state. *)
LEMMA CreateInit == Init => CreateInv
<1> SUFFICES ASSUME Init PROVE CreateInv
  OBVIOUS
<1>1. timestamps = << >> /\ sends = << >> /\ now = 0
  BY DEF Init
<1>2. << >> \in Seq(Nat) /\ Len(<< >>) = 0
  BY EmptySeq
<1>3. SuffixOf(<< >>, << >>) /\ Chronological(<< >>, 0) /\ Spread(<< >>)
  BY <1>2 DEF SuffixOf, Chronological, Spread
<1>4. ForgottenIsExpired(<< >>, << >>, 0)
  BY <1>2 DEF ForgottenIsExpired
<1>5. DequeInv(timestamps, sends, now)
  BY <1>1, <1>2, <1>3, <1>4, RateLimitAssumption DEF DequeInv
<1>6. TypeOK
  BY <1>1, <1>2, RateLimitAssumption DEF Init, TypeOK, Places, AwaitsRpc, TxStates, Outcomes
<1>7. \A c \in Calls : CallInv(c)
  BY DEF Init, CallInv
<1> QED BY <1>5, <1>6, <1>7 DEF CreateInv

(* The limiter's part: the deque and the history of submissions. *)
LEMMA CreateDequeStep ==
  ASSUME TypeOK, DequeInv(timestamps, sends, now), [Next]_vars
  PROVE  DequeInv(timestamps, sends, now)' /\ now' \in Nat
<1>0. now \in Nat
  BY DEF TypeOK
<1>1. CASE Tick
  <2>1. now' \in Nat /\ now =< now' /\ timestamps' = timestamps /\ sends' = sends
    BY <1>0, <1>1 DEF Tick
  <2>2. DequeInv(timestamps, sends, now')
    BY <1>0, <2>1, DequeInvTick
  <2> QED BY <2>1, <2>2
<1>2. ASSUME NEW c \in Calls, Admit(c) PROVE DequeInv(timestamps, sends, now)' /\ now' \in Nat
  <2>1. DequeInv(Append(Evict(timestamps, now), now), Append(sends, now), now)
    BY <1>0, <1>2, DequeInvRecord DEF Admit
  <2> QED BY <1>0, <1>2, <2>1 DEF Admit
<1>3. ASSUME NEW c \in Calls, RefuseRate(c)
      PROVE DequeInv(timestamps, sends, now)' /\ now' \in Nat
  <2>1. DequeInv(Evict(timestamps, now), sends, now)
    BY <1>0, DequeInvEvict
  <2> QED BY <1>0, <1>3, <2>1 DEF RefuseRate
<1>4. ASSUME NEW c \in Calls,
             Start(c) \/ AuditCompletion(c) \/ RpcStep(c) \/ Walletd(c)
      PROVE DequeInv(timestamps, sends, now)' /\ now' \in Nat
  <2>1. UNCHANGED <<timestamps, sends, now>>
    BY <1>4 DEF Start, AuditCompletion, RpcStep, Walletd, PrepareFails, Prepared,
                SubmitReply, SubmitFails, WaitResult
  <2> QED BY <1>0, <2>1
<1>5. CASE UNCHANGED vars
  BY <1>0, <1>5 DEF vars
<1> QED BY <1>1, <1>2, <1>3, <1>4, <1>5 DEF Next, LocalStep

(* Types. *)
LEMMA CreateTypeStep ==
  ASSUME CreateInv, [Next]_vars
  PROVE  TypeOK'
<1>d. DequeInv(timestamps, sends, now)' /\ now' \in Nat
  BY CreateDequeStep DEF CreateInv
<1>1. timestamps' \in Seq(Nat) /\ Len(timestamps') =< RateLimit /\ sends' \in Seq(Nat)
  BY <1>d DEF DequeInv
<1>2. TypeOK
  BY DEF CreateInv
<1> DEFINE Rest == /\ pc' \in [Calls -> Places]
                   /\ tx' \in [Calls -> TxStates]
                   /\ outcome' \in [Calls -> Outcomes]
                   /\ audit' \in [Calls -> {"none", "Started", "Success", "RateLimited", "Error"}]
<1> SUFFICES Rest
  BY <1>1, <1>d DEF TypeOK
<1> USE <1>2 DEF TypeOK, Goto, Places, AwaitsRpc
<1>3. ASSUME NEW c \in Calls, Start(c) PROVE Rest
  BY <1>3 DEF Start
<1>4. ASSUME NEW c \in Calls, Admit(c) PROVE Rest
  BY <1>4 DEF Admit, TxStates
<1>5. ASSUME NEW c \in Calls, RefuseRate(c) PROVE Rest
  BY <1>5 DEF RefuseRate, Return, Outcomes
<1>6. ASSUME NEW c \in Calls, AuditCompletion(c) PROVE Rest
  BY <1>6 DEF AuditCompletion, StatusOf
<1>7. ASSUME NEW c \in Calls, RpcStep(c) PROVE Rest
  <2>1. CASE PrepareFails(c)
    BY <2>1 DEF PrepareFails, Return, Outcomes
  <2>2. CASE Prepared(c)
    BY <2>2 DEF Prepared
  <2>3. CASE SubmitReply(c)
    BY <2>3 DEF SubmitReply, Return, Outcomes
  <2>4. CASE SubmitFails(c)
    BY <2>4 DEF SubmitFails, Return, Outcomes
  <2>5. CASE WaitResult(c)
    BY <2>5 DEF WaitResult, WaitResults, Return, Outcomes
  <2> QED BY <1>7, <2>1, <2>2, <2>3, <2>4, <2>5 DEF RpcStep
<1>8. ASSUME NEW c \in Calls, Walletd(c) PROVE Rest
  BY <1>8 DEF Walletd
<1>9. CASE Tick
  BY <1>9 DEF Tick
<1>10. CASE UNCHANGED vars
  BY <1>10 DEF vars
<1> QED BY <1>3, <1>4, <1>5, <1>6, <1>7, <1>8, <1>9, <1>10 DEF Next, LocalStep

(* What is known of each call is kept by the steps of every call. *)
LEMMA CreateCallStep ==
  ASSUME TypeOK, \A c \in Calls : CallInv(c), [Next]_vars
  PROVE  \A c \in Calls : CallInv(c)'
<1> SUFFICES ASSUME NEW d \in Calls PROVE CallInv(d)'
  OBVIOUS
<1> USE DEF TypeOK, CallInv, Goto
<1>1. ASSUME NEW c \in Calls, Start(c) PROVE CallInv(d)'
  BY <1>1 DEF Start
<1>2. ASSUME NEW c \in Calls, PrepareFails(c) PROVE CallInv(d)'
  BY <1>2 DEF PrepareFails, Return, Outcomes
<1>3. ASSUME NEW c \in Calls, Prepared(c) PROVE CallInv(d)'
  BY <1>3 DEF Prepared
<1>4. ASSUME NEW c \in Calls, Admit(c) PROVE CallInv(d)'
  BY <1>4 DEF Admit
<1>5. ASSUME NEW c \in Calls, RefuseRate(c) PROVE CallInv(d)'
  BY <1>5 DEF RefuseRate, Return
<1>6. ASSUME NEW c \in Calls, Walletd(c) PROVE CallInv(d)'
  BY <1>6 DEF Walletd
<1>7. ASSUME NEW c \in Calls, SubmitReply(c) PROVE CallInv(d)'
  BY <1>7 DEF SubmitReply
<1>8. ASSUME NEW c \in Calls, SubmitFails(c) PROVE CallInv(d)'
  BY <1>8 DEF SubmitFails, Return
<1>9. ASSUME NEW c \in Calls, WaitResult(c) PROVE CallInv(d)'
  BY <1>9 DEF WaitResult, WaitResults, Return
<1>10. ASSUME NEW c \in Calls, AuditCompletion(c) PROVE CallInv(d)'
  BY <1>10 DEF AuditCompletion, StatusOf
<1>11. CASE Tick
  BY <1>11 DEF Tick
<1>12. CASE UNCHANGED vars
  BY <1>12 DEF vars
<1> QED
  BY <1>1, <1>2, <1>3, <1>4, <1>5, <1>6, <1>7, <1>8, <1>9, <1>10, <1>11, <1>12
  DEF Next, LocalStep, RpcStep

(* The invariant holds throughout. *)
THEOREM CreateInvariance == Spec => []CreateInv
<1>1. ASSUME CreateInv, [Next]_vars PROVE CreateInv'
  BY <1>1, CreateTypeStep, CreateDequeStep, CreateCallStep DEF CreateInv
<1> QED BY <1>1, CreateInit, PTL DEF Spec

(* Type correctness of the create tier. *)
THEOREM CreateTypeOK == Spec => []TypeOK
  BY CreateInvariance, PTL DEF CreateInv

(* What the audit log says of a create is true of its transaction. *)
THEOREM CreateAuditTellsTheTruth == Spec => []AuditTellsTheTruth
<1>1. CreateInv => AuditTellsTheTruth
  <2> SUFFICES ASSUME CreateInv, NEW c \in Calls
               PROVE  /\ audit[c] = "Success" => tx[c] = "created"
                      /\ audit[c] = "RateLimited" => tx[c] = "unsent"
                      /\ pc[c] = "done" /\ tx[c] = "unsent" =>
                           outcome[c] \in {"PrepareError", "RateLimited"}
    BY DEF AuditTellsTheTruth
  <2>1. CallInv(c) /\ TypeOK
    BY DEF CreateInv
  <2> QED BY <2>1 DEF CallInv, TypeOK, Places, AwaitsRpc, StatusOf
<1> QED BY <1>1, CreateInvariance, PTL

(* At most RateLimit creates are submitted in any closed window. *)
THEOREM CreateSubmissionRate == Spec => []SubmissionRate
<1>1. CreateInv => SubmissionRate
  BY DEF CreateInv, DequeInv, SubmissionRate
<1> QED BY <1>1, CreateInvariance, PTL

=============================================================================
