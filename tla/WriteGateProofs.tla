-------------------------- MODULE WriteGateProofs --------------------------
(***************************************************************************)
(* The safety of the write tier, for any set of calls, any limits and any  *)
(* clock: the permit and the dialog (GateInv), the rate of submissions     *)
(* (RateInv), and both again inside a process that may end at any moment   *)
(* and be started anew (GatewayInv).                                       *)
(***************************************************************************)
EXTENDS Gateway, SlidingWindowProofs

(* What authorizes a submission. *)
Authorized(c) == AutoApprove \/ answered[c] = "yes"

(* Up to the dialog nothing is known of a call and nothing was sent. *)
BeforeDialog == {"idle", "preparing", "queued", "admitting", "registering"}

UnansweredBeforeDialog(c) ==
  pc[c] \in BeforeDialog => answered[c] = "none" /\ tx[c] = "unsent"

NoDialogInAuto(c) ==
  /\ pc[c] \in {"registering", "waiting", "clearing"} => ~ AutoApprove
  /\ AutoApprove => answered[c] = "none"

(* While a call waits, its channel and the operator's answer agree. *)
DialogInv(c) ==
  /\ pc[c] = "waiting" =>
       /\ tx[c] = "unsent"
       /\ answered[c] = "none" => inflight = c /\ channel[c] = "open"
       /\ channel[c] = "true" => answered[c] = "yes"
       /\ channel[c] = "false" => answered[c] = "no"
  /\ pc[c] = "clearing" => tx[c] = "unsent" /\ outcome[c] \in {"Timeout", "InternalError"}
  /\ inflight = c => answered[c] = "none"

SubmissionInv(c) ==
  /\ pc[c] = "sending" => tx[c] = "unsent" /\ Authorized(c)
  /\ pc[c] \in {"submitting", "resultWait"} => tx[c] # "unsent" /\ Authorized(c)
  /\ tx[c] # "unsent" => Authorized(c)

(* What a result claims is true. *)
OutcomeIsTrue(c) ==
  /\ outcome[c] = "Ok" => Authorized(c) /\ Accepted(c) /\ (c \in SequenceCalls => tx[c] = "committed")
  /\ outcome[c] = "Denied" => answered[c] = "no"
  /\ outcome[c] \in {"Denied", "RateLimited", "Timeout"} => tx[c] = "unsent"

CompletionInv(c) ==
  /\ pc[c] \in {"auditing", "done"} => OutcomeIsTrue(c)
  /\ audit[c] \notin {"none", "Started"} => pc[c] = "done" /\ audit[c] = StatusOf(outcome[c])
  /\ pc[c] \notin {"clearing", "auditing", "done"} => outcome[c] = "none"
  /\ outcome[c] = "Panicked" => pc[c] = "done" /\ tx[c] = "unsent"

CallInv(c) ==
  /\ UnansweredBeforeDialog(c)
  /\ NoDialogInAuto(c)
  /\ DialogInv(c)
  /\ SubmissionInv(c)
  /\ CompletionInv(c)

GateInv ==
  /\ TypeOK
  /\ GateIsExclusive
  /\ InflightIsTheHolders
  /\ \A c \in Calls : CallInv(c)

-----------------------------------------------------------------------------
LEMMA TypeInit == Init => TypeOK
<1> SUFFICES ASSUME Init PROVE TypeOK
  OBVIOUS
<1>1. << >> \in Seq(Nat) /\ << >> \in Seq(Calls)
      /\ << >> \in Seq([call : Calls, at : Nat, admission : Nat])
  BY EmptySeq
<1> QED BY <1>1 DEF Init, TypeOK, Places, ChannelStates, TxStates, Outcomes, Statuses

LEMMA TypeReturn ==
  ASSUME TypeOK, NEW c \in Calls, NEW result \in Outcomes, Return(c, result)
  PROVE  /\ pc' \in [Calls -> Places]
         /\ outcome' \in [Calls -> Outcomes]
         /\ holder' \in Calls \cup {NoCall}
BY DEF TypeOK, Return, Goto, Places

LEMMA TypeLocalStep ==
  ASSUME TypeOK, NEW c \in Calls, LocalStep(c)
  PROVE  TypeOK'
<1> USE DEF approval, history
<1>0. Evict(timestamps, now) \in Seq(Nat)
  BY EvictionKeepsTheFresh DEF TypeOK
<1>1. CASE Acquire(c)
  <2>1. Tail(queue) \in Seq(Calls)
    BY <1>1, HeadTailProperties DEF Acquire, TypeOK
  <2> QED BY <1>1, <2>1 DEF Acquire, Goto, TypeOK, Places, Gated
<1>2. CASE Admit(c)
  <2>1. Append(Evict(timestamps, now), now) \in Seq(Nat) /\ Append(admissions, now) \in Seq(Nat)
    BY <1>0, AppendProperties DEF TypeOK
  <2> QED BY <1>2, <2>1 DEF Admit, Goto, TypeOK, Places, Gated
<1>3. CASE RefuseRate(c)
  <2>1. "RateLimited" \in Outcomes
    BY DEF Outcomes
  <2> QED BY <1>0, <1>3, <2>1, TypeReturn DEF RefuseRate, TypeOK
<1>4. CASE Register(c)
  <2>1. channel' \in [Calls -> ChannelStates]
    BY <1>4 DEF Register, TypeOK, ChannelStates
  <2>2. now + DialogTimeout \in Nat
    BY TimeAssumption DEF TypeOK
  <2> QED BY <1>4, <2>1, <2>2 DEF Register, Goto, TypeOK, Places, Gated
<1>5. CASE ReceiveYes(c)
  BY <1>5 DEF ReceiveYes, Goto, TypeOK, Places, Gated, ChannelStates
<1>6. CASE ReceiveNo(c)
  <2>1. "Denied" \in Outcomes
    BY DEF Outcomes
  <2>2. channel' \in [Calls -> ChannelStates]
    BY <1>6 DEF ReceiveNo, TypeOK, ChannelStates
  <2> QED BY <1>6, <2>1, <2>2, TypeReturn DEF ReceiveNo, TypeOK
<1>7. CASE Abandon(c)
  <2>1. outcome' \in [Calls -> Outcomes] /\ channel' \in [Calls -> ChannelStates]
    BY <1>7 DEF Abandon, TypeOK, Outcomes, ChannelStates
  <2> QED BY <1>7, <2>1 DEF Abandon, Goto, TypeOK, Places, Gated
<1>8. CASE ClearInflight(c)
  <2>1. channel' \in [Calls -> ChannelStates]
    BY <1>8 DEF ClearInflight, Sent, TypeOK, ChannelStates
  <2>2. outcome[c] \in Outcomes
    BY DEF TypeOK
  <2> QED BY <1>8, <2>1, <2>2, TypeReturn DEF ClearInflight, TypeOK
<1>9. CASE Send(c)
  <2>1. Len(admissions) \in Nat
    BY LenProperties DEF TypeOK
  <2>2. [call |-> c, at |-> now, admission |-> Len(admissions)]
          \in [call : Calls, at : Nat, admission : Nat]
    BY <2>1 DEF TypeOK
  <2>3. sends' \in Seq([call : Calls, at : Nat, admission : Nat])
    BY <1>9, <2>2, AppendProperties DEF Send, TypeOK
  <2> QED BY <1>9, <2>3 DEF Send, Goto, TypeOK, Places, Gated, TxStates
<1>10. CASE AuditCompletion(c)
  <2>1. StatusOf(outcome[c]) \in Statuses
    BY DEF StatusOf, Statuses, TypeOK, Outcomes
  <2> QED BY <1>10, <2>1 DEF AuditCompletion, Goto, TypeOK, Places
<1> QED BY <1>1, <1>2, <1>3, <1>4, <1>5, <1>6, <1>7, <1>8, <1>9, <1>10 DEF LocalStep

LEMMA TypeOtherStep ==
  ASSUME TypeOK, NEW c \in Calls,
         Start(c) \/ RpcStep(c) \/ Operator(c) \/ Walletd(c)
  PROVE  TypeOK'
<1> USE DEF approval, history
<1>1. CASE Start(c)
  BY <1>1 DEF Start, Goto, TypeOK, Places, Statuses
<1>2. CASE PrepareFails(c)
  <2>1. "PrepareError" \in Outcomes
    BY DEF Outcomes
  <2> QED BY <1>2, <2>1, TypeReturn DEF PrepareFails, TypeOK
<1>9. CASE Panic(c)
  BY <1>9 DEF Panic, Goto, TypeOK, Places, Outcomes
<1>3. CASE Enqueue(c)
  <2>1. Append(queue, c) \in Seq(Calls)
    BY AppendProperties DEF TypeOK
  <2> QED BY <1>3, <2>1 DEF Enqueue, Goto, TypeOK, Places
<1>4. CASE SubmitReply(c)
  <2>1. "Ok" \in Outcomes
    BY DEF Outcomes
  <2>2. CASE c \in SequenceCalls
    BY <1>4, <2>2 DEF SubmitReply, Goto, TypeOK, Places, Gated
  <2>3. CASE c \notin SequenceCalls
    BY <1>4, <2>1, <2>3, TypeReturn DEF SubmitReply, TypeOK
  <2> QED BY <2>2, <2>3
<1>5. CASE SubmitFails(c)
  <2>1. "WalletdError" \in Outcomes
    BY DEF Outcomes
  <2> QED BY <1>5, <2>1, TypeReturn DEF SubmitFails, TypeOK
<1>6. CASE WaitResult(c)
  <2>1. WaitResults(c) \subseteq Outcomes
    BY DEF WaitResults, Outcomes
  <2> QED BY <1>6, <2>1, TypeReturn DEF WaitResult, TypeOK
<1>7. CASE Operator(c)
  <2>1. PICK approved \in BOOLEAN : Respond(c, approved)
    BY <1>7 DEF Operator
  <2>2. channel' \in [Calls -> ChannelStates] /\ answered' \in [Calls -> {"none", "yes", "no"}]
    BY <2>1 DEF Respond, Sent, TypeOK, ChannelStates
  <2> QED BY <2>1, <2>2 DEF Respond, TypeOK
<1>8. CASE Walletd(c)
  BY <1>8 DEF Walletd, TypeOK
<1> QED BY <1>1, <1>2, <1>3, <1>4, <1>5, <1>6, <1>7, <1>8, <1>9 DEF RpcStep

LEMMA TypeStep == TypeOK /\ [Next]_vars => TypeOK'
<1> SUFFICES ASSUME TypeOK, [Next]_vars PROVE TypeOK'
  OBVIOUS
<1>1. ASSUME NEW c \in Calls,
             Start(c) \/ LocalStep(c) \/ RpcStep(c) \/ Operator(c) \/ Walletd(c)
      PROVE  TypeOK'
  BY <1>1, TypeLocalStep, TypeOtherStep
<1>2. CASE Tick
  BY <1>2 DEF Tick, TypeOK, approval, history
<1>3. CASE UNCHANGED vars
  BY <1>3 DEF vars, TypeOK, approval, history
<1> QED BY <1>1, <1>2, <1>3 DEF Next, Quiescent

(* Every variable of the write tier stays in its range. *)
THEOREM GateTypeOK == Spec => []TypeOK
BY TypeInit, TypeStep, PTL DEF Spec

-----------------------------------------------------------------------------
(* A return releases the permit of the call that returns, and of no other. *)
LEMMA ReturnReleases ==
  ASSUME TypeOK, GateIsExclusive, NEW c \in Calls, NEW result, Return(c, result)
  PROVE  GateIsExclusive'
BY CallsAssumption DEF GateIsExclusive, Return, Goto, TypeOK, Gated

(* A step of a call from one place to another, both under the permit or    *)
(* neither, leaves the permit where it is.                                 *)
LEMMA MoveKeepsPermit ==
  ASSUME TypeOK, GateIsExclusive, NEW c \in Calls, NEW place,
         Goto(c, place), UNCHANGED holder, pc[c] \in Gated <=> place \in Gated
  PROVE  GateIsExclusive'
BY DEF GateIsExclusive, Goto, TypeOK

LEMMA ExclusiveStep == TypeOK /\ GateIsExclusive /\ [Next]_vars => GateIsExclusive'
<1> SUFFICES ASSUME TypeOK, GateIsExclusive, [Next]_vars PROVE GateIsExclusive'
  OBVIOUS
<1>1. ASSUME NEW c \in Calls, LocalStep(c) PROVE GateIsExclusive'
  <2>1. CASE Acquire(c)
    BY <2>1, CallsAssumption DEF Acquire, Goto, GateIsExclusive, TypeOK, Gated
  <2>2. CASE Admit(c)
    <3>1. (IF AutoApprove THEN "sending" ELSE "registering") \in Gated /\ "admitting" \in Gated
      BY DEF Gated
    <3> QED BY <2>2, <3>1, MoveKeepsPermit DEF Admit
  <2>3. CASE RefuseRate(c)
    BY <2>3, ReturnReleases DEF RefuseRate
  <2>4. CASE Register(c)
    BY <2>4, MoveKeepsPermit DEF Register, Gated
  <2>5. CASE ReceiveYes(c)
    BY <2>5, MoveKeepsPermit DEF ReceiveYes, Gated
  <2>6. CASE ReceiveNo(c)
    BY <2>6, ReturnReleases DEF ReceiveNo
  <2>7. CASE Abandon(c)
    BY <2>7, MoveKeepsPermit DEF Abandon, Gated
  <2>8. CASE ClearInflight(c)
    BY <2>8, ReturnReleases DEF ClearInflight
  <2>9. CASE Send(c)
    BY <2>9, MoveKeepsPermit DEF Send, Gated
  <2>10. CASE AuditCompletion(c)
    BY <2>10, MoveKeepsPermit DEF AuditCompletion, Gated
  <2> QED BY <1>1, <2>1, <2>2, <2>3, <2>4, <2>5, <2>6, <2>7, <2>8, <2>9, <2>10 DEF LocalStep
<1>2. ASSUME NEW c \in Calls, RpcStep(c) PROVE GateIsExclusive'
  <2>1. CASE PrepareFails(c)
    BY <2>1, ReturnReleases DEF PrepareFails
  <2>2. CASE Enqueue(c)
    BY <2>2, MoveKeepsPermit DEF Enqueue, Gated
  <2>3. CASE SubmitReply(c)
    <3>1. CASE c \in SequenceCalls
      BY <2>3, <3>1, MoveKeepsPermit DEF SubmitReply, Gated
    <3>2. CASE c \notin SequenceCalls
      BY <2>3, <3>2, ReturnReleases DEF SubmitReply
    <3> QED BY <3>1, <3>2
  <2>4. CASE SubmitFails(c)
    BY <2>4, ReturnReleases DEF SubmitFails
  <2>5. CASE WaitResult(c)
    BY <2>5, ReturnReleases DEF WaitResult
  <2>6. CASE Panic(c)
    BY <2>6, MoveKeepsPermit DEF Panic, Gated
  <2> QED BY <1>2, <2>1, <2>2, <2>3, <2>4, <2>5, <2>6 DEF RpcStep
<1>3. ASSUME NEW c \in Calls, Start(c) PROVE GateIsExclusive'
  BY <1>3, MoveKeepsPermit DEF Start, Gated
<1>4. ASSUME NEW c \in Calls, Operator(c) \/ Walletd(c) PROVE GateIsExclusive'
  BY <1>4 DEF Operator, Respond, Walletd, GateIsExclusive
<1>5. CASE Tick \/ UNCHANGED vars
  BY <1>5 DEF Tick, vars, GateIsExclusive
<1> QED BY <1>1, <1>2, <1>3, <1>4, <1>5 DEF Next, Quiescent

(* The permit covers everything between the limiter and the last RPC, and  *)
(* at most one call is there.                                              *)
THEOREM GateExclusive == Spec => []GateIsExclusive
<1>1. Init => GateIsExclusive
  BY CallsAssumption DEF Init, GateIsExclusive, Gated
<1> QED BY <1>1, TypeInit, TypeStep, ExclusiveStep, PTL DEF Spec

-----------------------------------------------------------------------------
(* INFLIGHT changes hands only with the permit: an entry is cleared or     *)
(* taken before its call gives the permit up.                              *)
LEMMA InflightStep ==
  ASSUME GateInv, [Next]_vars
  PROVE  InflightIsTheHolders'
<1> USE CallsAssumption DEF approval, history
<1>0. TypeOK /\ GateIsExclusive /\ InflightIsTheHolders /\ \A c \in Calls : DialogInv(c)
  BY DEF GateInv, CallInv
<1>1. ASSUME NEW c \in Calls, LocalStep(c) PROVE InflightIsTheHolders'
  <2>1. CASE Acquire(c) \/ Admit(c) \/ RefuseRate(c) \/ Send(c) \/ AuditCompletion(c)
    BY <1>0, <2>1 DEF Acquire, Admit, RefuseRate, Send, AuditCompletion, Return, Goto,
                InflightIsTheHolders, GateIsExclusive, TypeOK, Gated
  <2>2. CASE Register(c) \/ Abandon(c)
    BY <1>0, <2>2 DEF Register, Abandon, Goto, InflightIsTheHolders, GateIsExclusive, TypeOK, Gated
  <2>3. CASE ReceiveYes(c) \/ ReceiveNo(c)
    <3>1. inflight # c
      BY <1>0, <2>3 DEF ReceiveYes, ReceiveNo, DialogInv
    <3> QED BY <1>0, <2>3, <3>1 DEF ReceiveYes, ReceiveNo, Return, Goto,
                InflightIsTheHolders, GateIsExclusive, TypeOK, Gated
  <2>4. CASE ClearInflight(c)
    BY <2>4 DEF ClearInflight, InflightIsTheHolders
  <2> QED BY <1>1, <2>1, <2>2, <2>3, <2>4 DEF LocalStep
<1>2. ASSUME NEW c \in Calls, RpcStep(c) PROVE InflightIsTheHolders'
  BY <1>0, <1>2 DEF RpcStep, PrepareFails, Panic, Enqueue, SubmitReply, SubmitFails, WaitResult,
              Return, Goto, InflightIsTheHolders, GateIsExclusive, TypeOK, Gated
<1>3. ASSUME NEW c \in Calls, Start(c) \/ Operator(c) \/ Walletd(c) PROVE InflightIsTheHolders'
  BY <1>0, <1>3 DEF Start, Operator, Respond, Walletd, Goto, InflightIsTheHolders, TypeOK
<1>4. CASE Tick \/ UNCHANGED vars
  BY <1>0, <1>4 DEF Tick, vars, InflightIsTheHolders
<1> QED BY <1>1, <1>2, <1>3, <1>4 DEF Next, Quiescent

(* A step of call c keeps what is known of every call d. *)
LEMMA CallStep ==
  ASSUME GateInv, NEW c \in Calls, NEW d \in Calls,
         Start(c) \/ LocalStep(c) \/ RpcStep(c) \/ Operator(c) \/ Walletd(c)
  PROVE  CallInv(d)'
<1> USE CallsAssumption DEF approval, history
<1>0. /\ TypeOK /\ GateIsExclusive /\ InflightIsTheHolders
      /\ CallInv(c) /\ CallInv(d)
  BY DEF GateInv
<1> USE DEF TypeOK, GateIsExclusive, InflightIsTheHolders, Gated, BeforeDialog, Accepted, Authorized,
            CallInv, UnansweredBeforeDialog, NoDialogInAuto, DialogInv, SubmissionInv,
            CompletionInv, OutcomeIsTrue
<1>1. CASE Start(c)
  BY <1>0, <1>1 DEF Start, Goto
<1>2. CASE PrepareFails(c)
  BY <1>0, <1>2 DEF PrepareFails, Return, Goto
<1>3. CASE Enqueue(c)
  BY <1>0, <1>3 DEF Enqueue, Goto
<1>4. CASE Acquire(c)
  BY <1>0, <1>4 DEF Acquire, Goto
<1>5. CASE Admit(c)
  BY <1>0, <1>5 DEF Admit, Goto
<1>6. CASE RefuseRate(c)
  BY <1>0, <1>6 DEF RefuseRate, Return, Goto
<1>7. CASE Register(c)
  BY <1>0, <1>7 DEF Register, Goto
<1>8. CASE ReceiveYes(c)
  BY <1>0, <1>8 DEF ReceiveYes, Goto
<1>9. CASE ReceiveNo(c)
  BY <1>0, <1>9 DEF ReceiveNo, Return, Goto
<1>10. CASE Abandon(c)
  BY <1>0, <1>10 DEF Abandon, Goto
<1>11. CASE ClearInflight(c)
  BY <1>0, <1>11 DEF ClearInflight, Return, Goto, Sent
<1>12. CASE Send(c)
  BY <1>0, <1>12 DEF Send, Goto
<1>13. CASE SubmitReply(c)
  BY <1>0, <1>13 DEF SubmitReply, Return, Goto
<1>14. CASE SubmitFails(c)
  BY <1>0, <1>14 DEF SubmitFails, Return, Goto
<1>15. CASE WaitResult(c)
  BY <1>0, <1>15 DEF WaitResult, WaitResults, Return, Goto
<1>16. CASE AuditCompletion(c)
  BY <1>0, <1>16 DEF AuditCompletion, Goto, StatusOf
<1>17. CASE Operator(c)
  BY <1>0, <1>17 DEF Operator, Respond, Sent
<1>18. CASE Walletd(c)
  BY <1>0, <1>18 DEF Walletd
<1>19. CASE Panic(c)
  BY <1>0, <1>19 DEF Panic, Goto
<1> QED BY <1>1, <1>2, <1>3, <1>4, <1>5, <1>6, <1>7, <1>8, <1>9, <1>10, <1>11, <1>12, <1>13, <1>14,
           <1>15, <1>16, <1>17, <1>18, <1>19
     DEF LocalStep, RpcStep

LEMMA GateInit == Init => GateInv
<1> SUFFICES ASSUME Init PROVE GateInv
  OBVIOUS
<1>1. TypeOK
  BY TypeInit
<1>2. GateIsExclusive /\ InflightIsTheHolders
  BY CallsAssumption DEF Init, GateIsExclusive, InflightIsTheHolders, Gated
<1>3. \A c \in Calls : CallInv(c)
  BY CallsAssumption DEF Init, CallInv, UnansweredBeforeDialog, NoDialogInAuto, DialogInv,
                         SubmissionInv, CompletionInv
<1> QED BY <1>1, <1>2, <1>3 DEF GateInv

LEMMA GateStep == GateInv /\ [Next]_vars => GateInv'
<1> SUFFICES ASSUME GateInv, [Next]_vars PROVE GateInv'
  OBVIOUS
<1>1. TypeOK'
  BY TypeStep DEF GateInv
<1>2. GateIsExclusive'
  BY ExclusiveStep DEF GateInv
<1>3. InflightIsTheHolders'
  BY InflightStep
<1>4. ASSUME NEW d \in Calls PROVE CallInv(d)'
  <2>1. ASSUME NEW c \in Calls,
               Start(c) \/ LocalStep(c) \/ RpcStep(c) \/ Operator(c) \/ Walletd(c)
        PROVE  CallInv(d)'
    BY <2>1, CallStep
  <2>2. CASE Tick \/ UNCHANGED vars
    BY <2>2 DEF GateInv, Tick, vars, approval, history, CallInv, UnansweredBeforeDialog,
                NoDialogInAuto, DialogInv, SubmissionInv, CompletionInv, OutcomeIsTrue,
                Accepted, Authorized
  <2> QED BY <2>1, <2>2 DEF Next, Quiescent
<1> QED BY <1>1, <1>2, <1>3, <1>4 DEF GateInv

LEMMA GateInvariant == Spec => []GateInv
BY GateInit, GateStep, PTL DEF Spec

(* What INFLIGHT holds is the entry of the permit's holder. *)
THEOREM GateInflight == Spec => []InflightIsTheHolders
<1>1. GateInv => InflightIsTheHolders
  BY DEF GateInv
<1> QED BY <1>1, GateInvariant, PTL

(* A call that waits unanswered can be answered. *)
THEOREM GatePending == Spec => []PendingIsAnswerable
<1>1. GateInv => PendingIsAnswerable
  BY DEF GateInv, CallInv, DialogInv, PendingIsAnswerable
<1> QED BY <1>1, GateInvariant, PTL

LEMMA SentIsApproved == GateInv => SentOnlyIfApproved
BY DEF GateInv, CallInv, SubmissionInv, Authorized, SentOnlyIfApproved

(* Nothing is sent without an operator's yes to that very call, unless the *)
(* human gate is off.                                                      *)
THEOREM GateSentOnlyIfApproved == Spec => []SentOnlyIfApproved
BY SentIsApproved, GateInvariant, PTL

(* A completion repeats the outcome, and the outcome is true. *)
LEMMA AuditIsTrue == GateInv => AuditTellsTheTruth
<1> SUFFICES ASSUME GateInv, NEW c \in Calls
             PROVE  /\ audit[c] \in {"Success", "AutoApproved"} =>
                         /\ Accepted(c)
                         /\ c \in SequenceCalls => tx[c] = "committed"
                         /\ audit[c] = "Success" => answered[c] = "yes"
                         /\ audit[c] = "AutoApproved" => answered[c] = "none"
                    /\ audit[c] = "Denied" => answered[c] = "no"
                    /\ audit[c] \in {"Denied", "RateLimited", "Timeout"} => tx[c] = "unsent"
  BY DEF AuditTellsTheTruth
<1>1. CallInv(c)
  BY DEF GateInv
<1>2. audit[c] \notin {"none", "Started"} => OutcomeIsTrue(c) /\ audit[c] = StatusOf(outcome[c])
  BY <1>1 DEF CallInv, CompletionInv
<1> QED BY <1>1, <1>2 DEF CallInv, NoDialogInAuto, OutcomeIsTrue, StatusOf, Authorized

(* What the audit log says of a finished call is true. *)
THEOREM GateAuditTellsTheTruth == Spec => []AuditTellsTheTruth
BY AuditIsTrue, GateInvariant, PTL

(* An answered call is no longer in the slot, so nobody can answer it.     *)
LEMMA AnsweredStays ==
  ASSUME GateInv, [Next]_vars, NEW d \in Calls, answered[d] # "none"
  PROVE  answered'[d] = answered[d]
<1>1. inflight # d /\ answered \in [Calls -> {"none", "yes", "no"}]
  BY DEF GateInv, CallInv, DialogInv, TypeOK
<1>2. ASSUME NEW c \in Calls, Operator(c) PROVE answered'[d] = answered[d]
  BY <1>1, <1>2 DEF Operator, Respond
<1>3. ASSUME NEW c \in Calls, Start(c) \/ LocalStep(c) \/ RpcStep(c) \/ Walletd(c)
      PROVE  answered' = answered
  BY <1>3 DEF Start, LocalStep, Acquire, Admit, RefuseRate, Register, ReceiveYes, ReceiveNo,
              Abandon, ClearInflight, Send, AuditCompletion, RpcStep, PrepareFails, Panic, Enqueue,
              SubmitReply, SubmitFails, WaitResult, Walletd, history
<1>4. CASE Tick \/ UNCHANGED vars
  BY <1>4 DEF Tick, vars, history
<1> QED BY <1>2, <1>3, <1>4 DEF Next, Quiescent

(* An accepted answer is final. *)
THEOREM GateAnswerStands == Spec => AnswerStands
<1>1. GateInv /\ [Next]_vars
        => [\A c \in Calls : answered[c] # "none" => answered'[c] = answered[c]]_vars
  BY AnsweredStays
<1> QED BY <1>1, GateInvariant, PTL DEF Spec, AnswerStands

(* Only Send adds to the submissions, and a call that is about to send has *)
(* sent nothing.                                                           *)
LEMMA SentOnce ==
  ASSUME GateInv, [Next]_vars, NEW d \in Calls,
         Len(sends') > Len(sends), sends'[Len(sends')].call = d
  PROVE  tx[d] = "unsent"
<1>1. sends \in Seq([call : Calls, at : Nat, admission : Nat]) /\ now \in Nat
      /\ Len(sends) \in Nat /\ Len(admissions) \in Nat
  BY LenProperties DEF GateInv, TypeOK
<1>2. sends' # sends
  BY <1>1
<1>3. ASSUME NEW c \in Calls, Send(c) PROVE tx[d] = "unsent"
  <2>1. [call |-> c, at |-> now, admission |-> Len(admissions)]
          \in [call : Calls, at : Nat, admission : Nat]
    BY <1>1
  <2>2. sends'[Len(sends')] = [call |-> c, at |-> now, admission |-> Len(admissions)]
    BY <1>1, <1>3, <2>1, AppendProperties DEF Send
  <2>3. d = c
    BY <2>2
  <2> QED BY <1>3, <2>3 DEF Send, GateInv, CallInv, SubmissionInv
<1>4. ASSUME NEW c \in Calls, Start(c) \/ LocalStep(c) \/ RpcStep(c) \/ Operator(c) \/ Walletd(c),
             ~ Send(c)
      PROVE  sends' = sends
  BY <1>4 DEF Start, LocalStep, Acquire, Admit, RefuseRate, Register, ReceiveYes, ReceiveNo,
              Abandon, ClearInflight, AuditCompletion, RpcStep, PrepareFails, Panic, Enqueue,
              SubmitReply, SubmitFails, WaitResult, Operator, Respond, Walletd, history
<1>5. CASE Tick \/ UNCHANGED vars
  BY <1>5 DEF Tick, vars, history
<1> QED BY <1>2, <1>3, <1>4, <1>5 DEF Next, Quiescent

(* One approval is good for one submission, whatever becomes of the RPC.   *)
THEOREM GateSubmittedOnce == Spec => SubmittedOnce
<1>1. GateInv /\ [Next]_vars
        => [\A c \in Calls :
              Len(sends') > Len(sends) /\ sends'[Len(sends')].call = c => tx[c] = "unsent"]_vars
  BY SentOnce
<1> QED BY <1>1, GateInvariant, PTL DEF Spec, SubmittedOnce

-----------------------------------------------------------------------------
(* The queue of the semaphore holds the calls that wait, each of them once. *)
QueueInv ==
  /\ \A c \in Calls : pc[c] = "queued" <=> \E i \in 1 .. Len(queue) : queue[i] = c
  /\ \A i, j \in 1 .. Len(queue) : queue[i] = queue[j] => i = j

(* A call that waits for the permit waits for a call that has it and is at *)
(* a place from which it will return it; or the permit is free, and the    *)
(* first of the queue is there to take it.                                 *)
PermitIsHandedOn ==
  \A c \in Calls :
    pc[c] = "queued" =>
      IF holder = NoCall THEN queue # << >> /\ Head(queue) \in Calls /\ pc[Head(queue)] = "queued"
      ELSE holder # c /\ pc[holder] \in Gated

LEMMA EnqueueKeepsQueue ==
  ASSUME TypeOK, QueueInv, NEW c \in Calls, Enqueue(c)
  PROVE  QueueInv'
<1>1. queue \in Seq(Calls) /\ Len(queue) \in Nat /\ pc \in [Calls -> Places]
  BY LenProperties DEF TypeOK
<1>2. /\ Len(queue') = Len(queue) + 1
      /\ \A i \in 1 .. Len(queue) : queue'[i] = queue[i]
      /\ queue'[Len(queue) + 1] = c
  BY <1>1, AppendProperties DEF Enqueue
<1>3. \A i \in 1 .. Len(queue) : queue[i] # c
  BY DEF QueueInv, Enqueue
<1>4. \A i \in 1 .. Len(queue') : i \in 1 .. Len(queue) \/ i = Len(queue) + 1
  BY <1>1, <1>2
<1>5. \A i, j \in 1 .. Len(queue') : queue'[i] = queue'[j] => i = j
  BY <1>2, <1>3, <1>4 DEF QueueInv
<1>6. ASSUME NEW d \in Calls
      PROVE  pc'[d] = "queued" <=> \E i \in 1 .. Len(queue') : queue'[i] = d
  <2>1. CASE d = c
    <3>1. Len(queue) + 1 \in 1 .. Len(queue')
      BY <1>1, <1>2
    <3> QED BY <1>1, <1>2, <2>1, <3>1 DEF Enqueue, Goto
  <2>2. CASE d # c
    <3>1. pc'[d] = pc[d]
      BY <1>1, <2>2 DEF Enqueue, Goto
    <3>2. \A i \in 1 .. Len(queue) : i \in 1 .. Len(queue')
      BY <1>1, <1>2
    <3>3. (\E i \in 1 .. Len(queue') : queue'[i] = d) <=> \E i \in 1 .. Len(queue) : queue[i] = d
      BY <1>2, <1>4, <2>2, <3>2
    <3> QED BY <3>1, <3>3 DEF QueueInv
  <2> QED BY <2>1, <2>2
<1> QED BY <1>5, <1>6 DEF QueueInv

LEMMA AcquireKeepsQueue ==
  ASSUME TypeOK, QueueInv, NEW c \in Calls, Acquire(c)
  PROVE  QueueInv'
<1>1. /\ queue \in Seq(Calls) /\ queue # << >> /\ pc \in [Calls -> Places]
      /\ Len(queue) \in Nat /\ Len(queue) > 0
  BY EmptySeq, LenProperties DEF TypeOK, Acquire
<1>2. /\ Len(queue') = Len(queue) - 1
      /\ \A i \in 1 .. Len(queue') : queue'[i] = queue[i + 1]
  BY <1>1, HeadTailProperties DEF Acquire
<1>3. queue[1] = c
  BY <1>1, HeadTailProperties DEF Acquire
<1>4. \A i \in 1 .. Len(queue') : i + 1 \in 1 .. Len(queue) /\ i + 1 # 1
  BY <1>1, <1>2
<1>5. \A i, j \in 1 .. Len(queue') : queue'[i] = queue'[j] => i = j
  <2> SUFFICES ASSUME NEW i \in 1 .. Len(queue'), NEW j \in 1 .. Len(queue'), queue'[i] = queue'[j]
               PROVE  i = j
    OBVIOUS
  <2>1. i + 1 = j + 1
    BY <1>2, <1>4 DEF QueueInv
  <2> QED BY <2>1
<1>6. ASSUME NEW d \in Calls
      PROVE  pc'[d] = "queued" <=> \E i \in 1 .. Len(queue') : queue'[i] = d
  <2>0. 1 \in 1 .. Len(queue)
    BY <1>1
  <2>1. CASE d = c
    <3>1. \A i \in 1 .. Len(queue') : queue'[i] # c
      BY <1>2, <1>3, <1>4, <2>0 DEF QueueInv
    <3>2. pc'[c] = "admitting"
      BY <1>1 DEF Acquire, Goto
    <3> QED BY <2>1, <3>1, <3>2
  <2>2. CASE d # c
    <3>1. pc'[d] = pc[d]
      BY <1>1, <2>2 DEF Acquire, Goto
    <3>2. ASSUME NEW i \in 1 .. Len(queue), queue[i] = d
          PROVE  \E k \in 1 .. Len(queue') : queue'[k] = d
      <4>1. i # 1
        BY <1>3, <2>2, <3>2
      <4>2. i - 1 \in 1 .. Len(queue') /\ (i - 1) + 1 = i
        BY <1>1, <1>2, <4>1
      <4> QED BY <1>2, <3>2, <4>2
    <3>3. ASSUME NEW k \in 1 .. Len(queue'), queue'[k] = d
          PROVE  \E i \in 1 .. Len(queue) : queue[i] = d
      BY <1>2, <1>4, <3>3
    <3> QED BY <3>1, <3>2, <3>3 DEF QueueInv
  <2> QED BY <2>1, <2>2
<1> QED BY <1>5, <1>6 DEF QueueInv

LEMMA QueueStep == TypeOK /\ QueueInv /\ [Next]_vars => QueueInv'
<1> SUFFICES ASSUME TypeOK, QueueInv, [Next]_vars PROVE QueueInv'
  OBVIOUS
<1>0. pc \in [Calls -> Places]
  BY DEF TypeOK
<1>1. ASSUME queue' = queue, \A d \in Calls : pc'[d] = "queued" <=> pc[d] = "queued"
      PROVE  QueueInv'
  BY <1>1 DEF QueueInv
<1>2. ASSUME NEW c \in Calls, LocalStep(c), ~ Acquire(c) PROVE QueueInv'
  BY <1>0, <1>1, <1>2 DEF LocalStep, Admit, RefuseRate, Register, ReceiveYes, ReceiveNo, Abandon,
                          ClearInflight, Send, AuditCompletion, Return, Goto
<1>3. ASSUME NEW c \in Calls, RpcStep(c), ~ Enqueue(c) PROVE QueueInv'
  BY <1>0, <1>1, <1>3 DEF RpcStep, PrepareFails, Panic, SubmitReply, SubmitFails, WaitResult,
                          Return, Goto
<1>4. ASSUME NEW c \in Calls, Start(c) \/ Operator(c) \/ Walletd(c) PROVE QueueInv'
  BY <1>0, <1>1, <1>4 DEF Start, Operator, Respond, Walletd, Goto
<1>5. CASE Tick \/ UNCHANGED vars
  BY <1>1, <1>5 DEF Tick, vars
<1> QED BY <1>2, <1>3, <1>4, <1>5, EnqueueKeepsQueue, AcquireKeepsQueue DEF Next, Quiescent

LEMMA QueueInit == Init => QueueInv
<1> SUFFICES ASSUME Init PROVE QueueInv
  OBVIOUS
<1>1. queue = << >> /\ Len(<< >>) = 0
  BY EmptySeq DEF Init
<1> QED BY <1>1 DEF Init, QueueInv

LEMMA QueueHandsOn == TypeOK /\ GateIsExclusive /\ QueueInv => PermitIsHandedOn
<1> SUFFICES ASSUME TypeOK, GateIsExclusive, QueueInv, NEW c \in Calls, pc[c] = "queued"
             PROVE  IF holder = NoCall
                    THEN queue # << >> /\ Head(queue) \in Calls /\ pc[Head(queue)] = "queued"
                    ELSE holder # c /\ pc[holder] \in Gated
  BY DEF PermitIsHandedOn
<1>1. PICK i \in 1 .. Len(queue) : queue[i] = c
  BY DEF QueueInv
<1>2. queue \in Seq(Calls) /\ Len(queue) \in Nat /\ queue # << >> /\ 1 \in 1 .. Len(queue)
  BY <1>1, EmptySeq, LenProperties DEF TypeOK
<1>3. Head(queue) = queue[1] /\ queue[1] \in Calls
  BY <1>2, HeadTailProperties, ElementOfSeq
<1>4. pc[Head(queue)] = "queued"
  BY <1>2, <1>3 DEF QueueInv
<1>5. holder # NoCall => holder # c /\ pc[holder] \in Gated
  BY DEF GateIsExclusive, TypeOK, Gated
<1> QED BY <1>2, <1>3, <1>4, <1>5

(* No call waits for a permit that is lost or for a queue that forgot it:  *)
(* the safety half of CallsComplete.                                       *)
THEOREM GatePermitIsHandedOn == Spec => []PermitIsHandedOn
<1>1. GateInv => TypeOK /\ GateIsExclusive
  BY DEF GateInv
<1> QED BY <1>1, GateInvariant, QueueInit, QueueStep, QueueHandsOn, PTL DEF Spec

-----------------------------------------------------------------------------
(* The stage of a call is a function of its place. *)
LEMMA Stages ==
  ASSUME TypeOK, NEW c \in Calls
  PROVE  /\ pc[c] = "idle" => StageOf(c) = "new"
         /\ pc[c] \in {"preparing", "queued"} => StageOf(c) = "requested"
         /\ pc[c] \in {"admitting", "registering", "waiting", "clearing"}
              => StageOf(c) = "considered"
         /\ pc[c] = "sending" => StageOf(c) = "authorized"
         /\ pc[c] \in {"submitting", "resultWait"} => StageOf(c) = "sent"
         /\ pc[c] \in {"auditing", "done"} /\ tx[c] = "unsent" => StageOf(c) = "refused"
         /\ pc[c] \in {"auditing", "done"} /\ tx[c] # "unsent" => StageOf(c) = "executed"
BY DEF StageOf

LEMMA StagesNext ==
  ASSUME TypeOK', NEW c \in Calls
  PROVE  /\ pc'[c] = "idle" => StageOf(c)' = "new"
         /\ pc'[c] \in {"preparing", "queued"} => StageOf(c)' = "requested"
         /\ pc'[c] \in {"admitting", "registering", "waiting", "clearing"}
              => StageOf(c)' = "considered"
         /\ pc'[c] = "sending" => StageOf(c)' = "authorized"
         /\ pc'[c] \in {"submitting", "resultWait"} => StageOf(c)' = "sent"
         /\ pc'[c] \in {"auditing", "done"} /\ tx'[c] = "unsent" => StageOf(c)' = "refused"
         /\ pc'[c] \in {"auditing", "done"} /\ tx'[c] # "unsent" => StageOf(c)' = "executed"
BY DEF StageOf

(* A step of call c that changes its place moves its stage and no other's. *)
LEMMA StageMoves ==
  ASSUME NEW c \in Calls, NEW from, NEW to,
         \A d \in Calls : d # c => pc'[d] = pc[d] /\ tx'[d] = tx[d],
         StageOf(c) = from, StageOf(c)' = to
  PROVE  Tier!Advance(c, from, to)
<1>1. \A d \in Calls : d # c => StageOf(d)' = StageOf(d)
  BY DEF StageOf
<1> QED BY <1>1 DEF Tier!Advance

LEMMA StageStays ==
  ASSUME NEW c \in Calls,
         \A d \in Calls : d # c => pc'[d] = pc[d] /\ tx'[d] = tx[d],
         StageOf(c)' = StageOf(c)
  PROVE  [d \in Calls |-> StageOf(d)]' = [d \in Calls |-> StageOf(d)]
<1>1. \A d \in Calls : d # c => StageOf(d)' = StageOf(d)
  BY DEF StageOf
<1> QED BY <1>1

LEMMA TierLocalStep ==
  ASSUME GateInv, TypeOK', NEW c \in Calls, LocalStep(c)
  PROVE  Tier!TierNext \/ UNCHANGED Tier!tierVars
<1> USE CallsAssumption DEF approval, history
<1>0. /\ TypeOK /\ (pc[c] \in Gated <=> holder = c) /\ CallInv(c)
      /\ pc \in [Calls -> Places] /\ tx \in [Calls -> TxStates] /\ tx[c] = tx[c]
  BY DEF GateInv, GateIsExclusive, TypeOK
<1>1. CASE Acquire(c)
  <2>1. StageOf(c) = "requested" /\ StageOf(c)' = "considered"
    BY <1>0, <1>1, Stages, StagesNext DEF Acquire, Goto
  <2>2. Tier!Advance(c, "requested", "considered")
    BY <1>0, <1>1, <2>1, StageMoves DEF Acquire, Goto
  <2>3. Tier!Consider(c)
    BY <1>1, <2>2 DEF Acquire, Tier!Consider
  <2> QED BY <2>3 DEF Tier!TierNext
<1>2. CASE Admit(c)
  <2>1. StageOf(c) = "considered" /\ tx' = tx /\ holder' = holder /\ answered' = answered
        /\ \A d \in Calls : d # c => pc'[d] = pc[d] /\ tx'[d] = tx[d]
    BY <1>0, <1>2, Stages DEF Admit, Goto
  <2>2. CASE AutoApprove
    <3>1. StageOf(c)' = "authorized"
      BY <1>0, <1>2, <2>2, StagesNext DEF Admit, Goto
    <3>2. Tier!Authorize(c)
      BY <2>1, <2>2, <3>1, StageMoves DEF Tier!Authorize
    <3> QED BY <3>2 DEF Tier!TierNext
  <2>3. CASE ~ AutoApprove
    <3>1. StageOf(c)' = "considered"
      BY <1>0, <1>2, <2>3, StagesNext DEF Admit, Goto
    <3> QED BY <2>1, <3>1, StageStays DEF Tier!tierVars
  <2> QED BY <2>2, <2>3
<1>3. ASSUME RefuseRate(c) \/ ReceiveNo(c) \/ ClearInflight(c) PROVE Tier!Refuse(c)
  <2>1. /\ pc[c] \in {"admitting", "waiting", "clearing"} /\ pc'[c] = "auditing"
        /\ tx' = tx /\ holder' = NoCall /\ answered' = answered /\ holder = c
        /\ \A d \in Calls : d # c => pc'[d] = pc[d] /\ tx'[d] = tx[d]
    BY <1>0, <1>3 DEF RefuseRate, ReceiveNo, ClearInflight, Return, Goto, Gated
  <2>2. tx[c] = "unsent"
    BY <1>0, <2>1 DEF CallInv, UnansweredBeforeDialog, BeforeDialog, DialogInv
  <2>3. StageOf(c) = "considered" /\ StageOf(c)' = "refused"
    BY <1>0, <2>1, <2>2, Stages, StagesNext
  <2> QED BY <2>1, <2>3, StageMoves DEF Tier!Refuse
<1>4. ASSUME Register(c) \/ Abandon(c) PROVE UNCHANGED Tier!tierVars
  <2>1. /\ pc[c] \in {"registering", "waiting"} /\ pc'[c] \in {"waiting", "clearing"}
        /\ tx' = tx /\ holder' = holder /\ answered' = answered
        /\ \A d \in Calls : d # c => pc'[d] = pc[d] /\ tx'[d] = tx[d]
    BY <1>0, <1>4 DEF Register, Abandon, Goto
  <2>2. StageOf(c) = "considered" /\ StageOf(c)' = "considered"
    BY <1>0, <2>1, Stages, StagesNext
  <2> QED BY <2>1, <2>2, StageStays DEF Tier!tierVars
<1>5. ASSUME ReceiveYes(c) PROVE Tier!Authorize(c)
  <2>1. answered[c] = "yes"
    BY <1>0, <1>5 DEF ReceiveYes, CallInv, DialogInv
  <2>2. StageOf(c) = "considered" /\ StageOf(c)' = "authorized"
    BY <1>0, <1>5, Stages, StagesNext DEF ReceiveYes, Goto
  <2>3. Tier!Advance(c, "considered", "authorized")
    BY <1>0, <1>5, <2>2, StageMoves DEF ReceiveYes, Goto
  <2> QED BY <1>5, <2>1, <2>3 DEF ReceiveYes, Tier!Authorize
<1>6. ASSUME Send(c) PROVE Tier!Execute(c)
  <2>1. StageOf(c) = "authorized" /\ StageOf(c)' = "sent"
    BY <1>0, <1>6, Stages, StagesNext DEF Send, Goto
  <2>2. Tier!Advance(c, "authorized", "sent")
    BY <1>0, <1>6, <2>1, StageMoves DEF Send, Goto
  <2> QED BY <1>6, <2>2 DEF Send, Tier!Execute
<1>7. ASSUME AuditCompletion(c) PROVE UNCHANGED Tier!tierVars
  <2>1. StageOf(c)' = StageOf(c)
    BY <1>0, <1>7, Stages, StagesNext DEF AuditCompletion, Goto
  <2> QED BY <1>0, <1>7, <2>1, StageStays DEF AuditCompletion, Goto, Tier!tierVars
<1> QED BY <1>1, <1>2, <1>3, <1>4, <1>5, <1>6, <1>7 DEF LocalStep, Tier!TierNext

LEMMA TierOtherStep ==
  ASSUME GateInv, TypeOK', NEW c \in Calls,
         Start(c) \/ RpcStep(c) \/ Operator(c) \/ Walletd(c)
  PROVE  Tier!TierNext \/ UNCHANGED Tier!tierVars
<1> USE CallsAssumption DEF approval, history
<1>0. /\ TypeOK /\ (pc[c] \in Gated <=> holder = c) /\ InflightIsTheHolders /\ CallInv(c)
      /\ pc \in [Calls -> Places] /\ tx \in [Calls -> TxStates]
  BY DEF GateInv, GateIsExclusive, TypeOK
<1>1. ASSUME Start(c) PROVE Tier!Request(c)
  <2>1. StageOf(c) = "new" /\ StageOf(c)' = "requested"
    BY <1>0, <1>1, Stages, StagesNext DEF Start, Goto
  <2>2. Tier!Advance(c, "new", "requested")
    BY <1>0, <1>1, <2>1, StageMoves DEF Start, Goto
  <2> QED BY <1>1, <2>2 DEF Start, Tier!Request
<1>2. ASSUME PrepareFails(c) PROVE Tier!Refuse(c)
  <2>1. tx[c] = "unsent" /\ holder # c
    BY <1>0, <1>2 DEF PrepareFails, CallInv, UnansweredBeforeDialog, BeforeDialog, Gated
  <2>2. StageOf(c) = "requested" /\ StageOf(c)' = "refused"
    BY <1>0, <1>2, <2>1, Stages, StagesNext DEF PrepareFails, Return, Goto
  <2>3. Tier!Advance(c, "requested", "refused")
    BY <1>0, <1>2, <2>2, StageMoves DEF PrepareFails, Return, Goto
  <2> QED BY <1>2, <2>1, <2>3 DEF PrepareFails, Return, Tier!Refuse
<1>9. ASSUME Panic(c) PROVE Tier!Refuse(c)
  <2>1. tx[c] = "unsent" /\ holder # c
    BY <1>0, <1>9 DEF Panic, CallInv, UnansweredBeforeDialog, BeforeDialog, Gated
  <2>2. StageOf(c) = "requested" /\ StageOf(c)' = "refused"
    BY <1>0, <1>9, <2>1, Stages, StagesNext DEF Panic, Goto
  <2>3. Tier!Advance(c, "requested", "refused")
    BY <1>0, <1>9, <2>2, StageMoves DEF Panic, Goto
  <2> QED BY <1>9, <2>1, <2>3 DEF Panic, Tier!Refuse
<1>3. ASSUME Enqueue(c) PROVE UNCHANGED Tier!tierVars
  <2>1. StageOf(c) = "requested" /\ StageOf(c)' = "requested"
    BY <1>0, <1>3, Stages, StagesNext DEF Enqueue, Goto
  <2> QED BY <1>0, <1>3, <2>1, StageStays DEF Enqueue, Goto, Tier!tierVars
<1>4. ASSUME pc[c] \in {"submitting", "resultWait"}, NEW result, Return(c, result),
             UNCHANGED <<tx, answered>>
      PROVE  Tier!Finish(c)
  <2>1. tx[c] # "unsent" /\ holder = c
    BY <1>0, <1>4 DEF CallInv, SubmissionInv, Gated
  <2>2. StageOf(c) = "sent" /\ StageOf(c)' = "executed"
    BY <1>0, <1>4, <2>1, Stages, StagesNext DEF Return, Goto
  <2>3. Tier!Advance(c, "sent", "executed")
    BY <1>0, <1>4, <2>2, StageMoves DEF Return, Goto
  <2> QED BY <1>4, <2>1, <2>3 DEF Return, Tier!Finish
<1>5. ASSUME SubmitReply(c) PROVE Tier!Finish(c) \/ UNCHANGED Tier!tierVars
  <2>1. CASE c \notin SequenceCalls
    BY <1>4, <1>5, <2>1 DEF SubmitReply
  <2>2. CASE c \in SequenceCalls
    <3>1. StageOf(c) = "sent" /\ StageOf(c)' = "sent"
      BY <1>0, <1>5, <2>2, Stages, StagesNext DEF SubmitReply, Goto
    <3> QED BY <1>0, <1>5, <2>2, <3>1, StageStays DEF SubmitReply, Goto, Tier!tierVars
  <2> QED BY <2>1, <2>2
<1>6. ASSUME SubmitFails(c) \/ WaitResult(c) PROVE Tier!Finish(c)
  BY <1>4, <1>6 DEF SubmitFails, WaitResult
<1>7. ASSUME Operator(c) PROVE \E value \in {"yes", "no"} : Tier!Answer(c, value)
  <2>1. PICK approved \in BOOLEAN : Respond(c, approved)
    BY <1>7 DEF Operator
  <2>2. holder = c /\ pc[c] \in {"waiting", "clearing"} /\ answered[c] = "none"
    BY <1>0, <2>1 DEF Respond, InflightIsTheHolders, CallInv, DialogInv
  <2>3. StageOf(c) = "considered" /\ StageOf(c)' = "considered"
    BY <1>0, <2>1, <2>2, Stages, StagesNext DEF Respond
  <2>4. [d \in Calls |-> StageOf(d)]' = [d \in Calls |-> StageOf(d)]
    BY <2>1, <2>3, StageStays DEF Respond
  <2>5. Tier!Answer(c, IF approved THEN "yes" ELSE "no")
    BY <2>1, <2>2, <2>3, <2>4 DEF Respond, Tier!Answer
  <2> QED BY <2>5
<1>8. ASSUME Walletd(c) PROVE UNCHANGED Tier!tierVars
  <2>1. /\ pc' = pc /\ holder' = holder /\ answered' = answered
        /\ \A d \in Calls : d # c => tx'[d] = tx[d]
        /\ tx[c] # "unsent" /\ tx'[c] # "unsent"
    BY <1>0, <1>8 DEF Walletd
  <2>2. StageOf(c)' = StageOf(c)
    <3>1. CASE pc[c] \in {"auditing", "done"}
      BY <1>0, <2>1, <3>1, Stages, StagesNext
    <3>2. CASE pc[c] \in {"submitting", "resultWait"}
      BY <1>0, <2>1, <3>2, Stages, StagesNext
    <3>3. CASE pc[c] \notin {"auditing", "done", "submitting", "resultWait"}
      BY <1>0, <2>1, <3>3 DEF CallInv, UnansweredBeforeDialog, BeforeDialog, DialogInv,
                              SubmissionInv, Places, Gated
    <3> QED BY <3>1, <3>2, <3>3
  <2> QED BY <2>1, <2>2, StageStays DEF Tier!tierVars
<1> QED BY <1>1, <1>2, <1>3, <1>5, <1>6, <1>7, <1>8, <1>9 DEF RpcStep, Tier!TierNext

LEMMA TierStep ==
  ASSUME GateInv, GateInv', [Next]_vars
  PROVE  Tier!TierNext \/ UNCHANGED Tier!tierVars
<1>0. TypeOK'
  BY DEF GateInv
<1>1. ASSUME NEW c \in Calls,
             Start(c) \/ LocalStep(c) \/ RpcStep(c) \/ Operator(c) \/ Walletd(c)
      PROVE  Tier!TierNext \/ UNCHANGED Tier!tierVars
  BY <1>0, <1>1, TierLocalStep, TierOtherStep
<1>2. CASE Tick \/ UNCHANGED vars
  <2>1. pc' = pc /\ tx' = tx /\ holder' = holder /\ answered' = answered
    BY <1>2 DEF Tick, vars, history
  <2>2. \A c \in Calls : StageOf(c)' = StageOf(c)
    BY <2>1 DEF StageOf
  <2> QED BY <2>1, <2>2 DEF Tier!tierVars
<1> QED BY <1>1, <1>2 DEF Next, Quiescent

LEMMA TierStart == Init => Tier!TierInit
<1> SUFFICES ASSUME Init PROVE Tier!TierInit
  OBVIOUS
<1>1. \A c \in Calls : StageOf(c) = "new"
  BY TypeInit, Stages DEF Init
<1> QED BY <1>1 DEF Init, Tier!TierInit

(* The write tier implements its promise: every step of the permit, the    *)
(* slot, the channels and the timers is a step of WriteTier or a stutter.  *)
THEOREM GateImplementsTier == Spec => ImplementsTier
<1>1. GateInv /\ GateInv' /\ [Next]_vars => [Tier!TierNext]_Tier!tierVars
  BY TierStep
<1> QED BY <1>1, TierStart, GateInvariant, PTL DEF Spec, ImplementsTier, Tier!TierSpec

-----------------------------------------------------------------------------
(* The limiter bounds admissions.  What that means for the transactions    *)
(* really submitted, which leave after the dialog, is the rate's part.     *)

(* Each submission belongs to an admission: it was sent no earlier than    *)
(* that admission and no later than the next.                              *)
SendsInv ==
  \A k \in 1 .. Len(sends) :
    /\ sends[k].admission \in 1 .. Len(admissions)
    /\ admissions[sends[k].admission] =< sends[k].at
    /\ sends[k].at =< now
    /\ \A a \in 1 .. Len(admissions) : sends[k].admission < a => sends[k].at =< admissions[a]

(* No two submissions belong to the same admission. *)
SpacingInv ==
  \A k, l \in 1 .. Len(sends) : k =< l => l - k =< sends[l].admission - sends[k].admission

(* From its admission to its submission, a call's admission is the last    *)
(* one, and is not spent.                                                  *)
UnspentInv ==
  \A c \in Calls :
    pc[c] \in {"registering", "waiting", "clearing", "sending"} =>
      /\ Len(admissions) > 0
      /\ \A k \in 1 .. Len(sends) : sends[k].admission < Len(admissions)

RateInv ==
  /\ TypeOK
  /\ GateIsExclusive
  /\ DequeInv(timestamps, admissions, now)
  /\ SendsInv
  /\ SpacingInv
  /\ UnspentInv

LEMMA LogsTyped ==
  ASSUME TypeOK
  PROVE  /\ Len(sends) \in Nat /\ Len(admissions) \in Nat
         /\ \A k \in 1 .. Len(sends) : sends[k].at \in Nat /\ sends[k].admission \in Nat
         /\ \A k \in 1 .. Len(admissions) : admissions[k] \in Nat
<1>1. Len(sends) \in Nat /\ Len(admissions) \in Nat
  BY LenProperties DEF TypeOK
<1>2. ASSUME NEW k \in 1 .. Len(sends)
      PROVE  sends[k].at \in Nat /\ sends[k].admission \in Nat
  <2>1. sends[k] \in [call : Calls, at : Nat, admission : Nat]
    BY ElementOfSeq DEF TypeOK
  <2> QED BY <2>1
<1>3. ASSUME NEW k \in 1 .. Len(admissions) PROVE admissions[k] \in Nat
  BY ElementOfSeq DEF TypeOK
<1> QED BY <1>1, <1>2, <1>3

(* The invariant gives the bound: RateLimit + 1 submissions further on     *)
(* there have been at least as many admissions, so RateLimit of them lie   *)
(* between the next admission and that submission's own.                   *)
LEMMA RateBound == RateInv => SubmissionRate
<1> SUFFICES ASSUME RateInv, NEW i \in 1 .. Len(sends), i + RateLimit + 1 =< Len(sends)
             PROVE  sends[i + RateLimit + 1].at - sends[i].at > Window
  BY DEF SubmissionRate
<1> DEFINE j == i + RateLimit + 1
           a == sends[i].admission
           b == sends[j].admission
<1>1. /\ Len(sends) \in Nat /\ Len(admissions) \in Nat
      /\ \A k \in 1 .. Len(sends) : sends[k].at \in Nat /\ sends[k].admission \in Nat
      /\ \A k \in 1 .. Len(admissions) : admissions[k] \in Nat
  BY LogsTyped DEF RateInv
<1>2. j \in 1 .. Len(sends) /\ i =< j /\ j - i = RateLimit + 1
  BY <1>1, RateLimitAssumption
<1> HIDE DEF j
<1>3. RateLimit + 1 =< b - a
  BY <1>2 DEF RateInv, SpacingInv
<1>4. a \in 1 .. Len(admissions) /\ b \in 1 .. Len(admissions) /\ admissions[b] =< sends[j].at
  BY <1>2 DEF RateInv, SendsInv
<1> HIDE DEF a, b
<1>5. /\ a + 1 \in 1 .. Len(admissions) /\ a < a + 1
      /\ (a + 1) + RateLimit \in 1 .. Len(admissions) /\ (a + 1) + RateLimit =< b
  <2>1. /\ a \in Nat /\ b \in Nat /\ RateLimit \in Nat /\ Len(admissions) \in Nat
        /\ 1 =< a /\ b =< Len(admissions)
    BY <1>1, <1>4, RateLimitAssumption
  <2>2. (a + 1) + RateLimit =< b
    BY <1>3, <2>1
  <2> QED BY <2>1, <2>2
<1>6. sends[i].at =< admissions[a + 1]
  BY <1>5 DEF RateInv, SendsInv, a
<1>7. admissions[(a + 1) + RateLimit] - admissions[a + 1] > Window
  BY <1>1, <1>5 DEF RateInv, DequeInv, Spread
<1>8. admissions[(a + 1) + RateLimit] =< admissions[b]
  BY <1>4, <1>5 DEF RateInv, DequeInv, Chronological
<1>9. sends[j].at - sends[i].at > Window
  <2>1. /\ sends[i].at \in Nat /\ sends[j].at \in Nat
        /\ admissions[a + 1] \in Nat /\ admissions[b] \in Nat
        /\ admissions[(a + 1) + RateLimit] \in Nat
    BY <1>1, <1>2, <1>4, <1>5
  <2>2. admissions[b] =< sends[j].at
    BY <1>4
  <2> QED BY <1>6, <1>7, <1>8, <2>1, <2>2, WindowAssumption
<1> QED BY <1>9 DEF j

-----------------------------------------------------------------------------
(* The steps that matter to the rate: an admission, a submission, a check  *)
(* that refuses, a tick.                                                   *)
LEMMA RateAdmit ==
  ASSUME RateInv, NEW c \in Calls, Admit(c)
  PROVE  DequeInv(timestamps, admissions, now)' /\ SendsInv' /\ SpacingInv' /\ UnspentInv'
<1>1. /\ admissions \in Seq(Nat) /\ now \in Nat /\ Len(sends) \in Nat /\ Len(admissions) \in Nat
      /\ \A k \in 1 .. Len(sends) : sends[k].at \in Nat /\ sends[k].admission \in Nat
  BY LogsTyped DEF RateInv, TypeOK
<1>2. admissions' = Append(admissions, now) /\ sends' = sends /\ now' = now
  BY DEF Admit
<1>3. /\ Len(admissions') = Len(admissions) + 1
      /\ \A k \in 1 .. Len(admissions) : admissions'[k] = admissions[k]
      /\ admissions'[Len(admissions) + 1] = now
  BY <1>1, <1>2, AppendProperties
<1>4. DequeInv(timestamps, admissions, now)'
  <2>1. DequeInv(Append(Evict(timestamps, now), now), Append(admissions, now), now)
    BY <1>1, DequeInvRecord DEF RateInv, Admit
  <2> QED BY <2>1 DEF Admit
<1>5. SendsInv'
  <2> SUFFICES ASSUME NEW k \in 1 .. Len(sends)
               PROVE  /\ sends[k].admission \in 1 .. Len(admissions')
                      /\ admissions'[sends[k].admission] =< sends[k].at
                      /\ sends[k].at =< now
                      /\ \A a \in 1 .. Len(admissions') :
                           sends[k].admission < a => sends[k].at =< admissions'[a]
    BY <1>2 DEF SendsInv
  <2>1. /\ sends[k].admission \in 1 .. Len(admissions)
        /\ admissions[sends[k].admission] =< sends[k].at
        /\ sends[k].at =< now
    BY DEF RateInv, SendsInv
  <2>2. ASSUME NEW a \in 1 .. Len(admissions'), sends[k].admission < a
        PROVE  sends[k].at =< admissions'[a]
    <3>1. CASE a = Len(admissions) + 1
      BY <1>3, <2>1, <3>1
    <3>2. CASE a \in 1 .. Len(admissions)
      <4>1. admissions'[a] = admissions[a]
        BY <1>3, <3>2
      <4> QED BY <2>2, <3>2, <4>1 DEF RateInv, SendsInv
    <3> QED BY <1>1, <1>3, <3>1, <3>2
  <2>3. admissions'[sends[k].admission] = admissions[sends[k].admission]
    BY <1>3, <2>1
  <2>4. sends[k].admission \in 1 .. Len(admissions')
    BY <1>1, <1>3, <2>1
  <2> QED BY <2>1, <2>2, <2>3, <2>4
<1>6. SpacingInv'
  BY <1>2 DEF RateInv, SpacingInv
<1>7. UnspentInv'
  <2>1. \A k \in 1 .. Len(sends) : sends[k].admission < Len(admissions')
    BY <1>1, <1>3 DEF RateInv, SendsInv
  <2>2. Len(admissions') > 0
    BY <1>1, <1>3
  <2> QED BY <1>2, <2>1, <2>2 DEF UnspentInv
<1> QED BY <1>4, <1>5, <1>6, <1>7

LEMMA RateSend ==
  ASSUME RateInv, NEW c \in Calls, Send(c)
  PROVE  DequeInv(timestamps, admissions, now)' /\ SendsInv' /\ SpacingInv' /\ UnspentInv'
<1> DEFINE n == Len(sends)
           last == Len(admissions)
<1>1. /\ admissions \in Seq(Nat) /\ now \in Nat /\ n \in Nat /\ last \in Nat
      /\ \A k \in 1 .. n : sends[k].at \in Nat /\ sends[k].admission \in Nat
      /\ \A k \in 1 .. last : admissions[k] \in Nat
  BY LogsTyped DEF RateInv, TypeOK
<1>2. /\ sends' = Append(sends, [call |-> c, at |-> now, admission |-> last])
      /\ admissions' = admissions /\ now' = now /\ timestamps' = timestamps
  BY DEF Send, history
<1>3. /\ Len(sends') = n + 1
      /\ \A k \in 1 .. n : sends'[k] = sends[k]
      /\ sends'[n + 1].at = now /\ sends'[n + 1].admission = last
  <2>1. [call |-> c, at |-> now, admission |-> last] \in [call : Calls, at : Nat, admission : Nat]
    BY <1>1
  <2>2. sends \in Seq([call : Calls, at : Nat, admission : Nat])
    BY DEF RateInv, TypeOK
  <2> QED BY <1>2, <2>1, <2>2, AppendProperties
<1>4. last > 0 /\ \A k \in 1 .. n : sends[k].admission < last
  BY DEF Send, RateInv, UnspentInv
<1>5. DequeInv(timestamps, admissions, now)'
  BY <1>2 DEF RateInv
<1> HIDE DEF n, last
<1>6. SendsInv'
  <2> SUFFICES ASSUME NEW k \in 1 .. n + 1
               PROVE  /\ sends'[k].admission \in 1 .. last
                      /\ admissions[sends'[k].admission] =< sends'[k].at
                      /\ sends'[k].at =< now
                      /\ \A a \in 1 .. last :
                           sends'[k].admission < a => sends'[k].at =< admissions[a]
    BY <1>2, <1>3 DEF SendsInv, last
  <2>1. CASE k = n + 1
    <3>1. admissions[last] =< now /\ last \in 1 .. last
      BY <1>1, <1>4 DEF RateInv, DequeInv, Chronological, last
    <3> QED BY <1>1, <1>3, <2>1, <3>1
  <2>2. CASE k \in 1 .. n
    <3>1. sends'[k] = sends[k]
      BY <1>3, <2>2
    <3> QED BY <2>2, <3>1 DEF RateInv, SendsInv, n, last
  <2> QED BY <1>1, <2>1, <2>2
<1>7. SpacingInv'
  <2> SUFFICES ASSUME NEW k \in 1 .. n + 1, NEW l \in 1 .. n + 1, k =< l
               PROVE  l - k =< sends'[l].admission - sends'[k].admission
    BY <1>3 DEF SpacingInv
  <2>1. CASE l \in 1 .. n
    <3>1. k \in 1 .. n
      BY <1>1, <2>1
    <3>2. sends'[k] = sends[k] /\ sends'[l] = sends[l]
      BY <1>3, <2>1, <3>1
    <3> QED BY <2>1, <3>1, <3>2 DEF RateInv, SpacingInv, n
  <2>2. CASE l = n + 1 /\ k \in 1 .. n
    <3>1. n \in 1 .. n /\ k =< n
      BY <1>1, <2>2
    <3>2. n - k =< sends[n].admission - sends[k].admission
      BY <2>2, <3>1 DEF RateInv, SpacingInv, n
    <3>3. sends[n].admission < last /\ sends[n].admission \in Nat /\ sends[k].admission \in Nat
      BY <1>1, <1>4, <2>2, <3>1
    <3>4. sends'[k] = sends[k] /\ sends'[l].admission = last
      BY <1>3, <2>2
    <3>5. n \in Nat /\ k \in Nat /\ last \in Nat
      BY <1>1, <2>2
    <3>6. (n + 1) - k =< last - sends[k].admission
      BY <3>2, <3>3, <3>5
    <3> QED BY <2>2, <3>4, <3>6
  <2>3. CASE l = n + 1 /\ k = n + 1
    BY <1>1, <1>3, <2>3
  <2> QED BY <1>1, <2>1, <2>2, <2>3
<1>8. UnspentInv'
  <2>1. \A d \in Calls : pc'[d] \notin {"registering", "waiting", "clearing", "sending"}
    BY DEF Send, Goto, RateInv, GateIsExclusive, TypeOK, Gated
  <2> QED BY <2>1 DEF UnspentInv
<1> QED BY <1>5, <1>6, <1>7, <1>8

LEMMA RateTick ==
  ASSUME RateInv, Tick
  PROVE  DequeInv(timestamps, admissions, now)' /\ SendsInv' /\ SpacingInv' /\ UnspentInv'
<1>1. /\ now \in Nat /\ now' \in Nat /\ now =< now'
      /\ timestamps' = timestamps /\ admissions' = admissions /\ sends' = sends /\ pc' = pc
  BY DEF RateInv, TypeOK, Tick, history
<1>2. DequeInv(timestamps, admissions, now)'
  <2>1. DequeInv(timestamps, admissions, now')
    BY <1>1, DequeInvTick DEF RateInv
  <2> QED BY <1>1, <2>1
<1>3. SendsInv'
  <2>1. \A k \in 1 .. Len(sends) : sends[k].at \in Nat
    BY LogsTyped DEF RateInv
  <2> QED BY <1>1, <2>1 DEF RateInv, SendsInv
<1> QED BY <1>1, <1>2, <1>3 DEF RateInv, SpacingInv, UnspentInv

(* A step that neither admits nor sends, and brings no call into the       *)
(* dialog that was not there.                                              *)
LEMMA RateOther ==
  ASSUME RateInv, UNCHANGED <<now, admissions, sends>>,
         timestamps' \in {timestamps, Evict(timestamps, now)},
         \A c \in Calls : pc'[c] \in {"registering", "waiting", "clearing", "sending"}
                            => pc[c] \in {"registering", "waiting", "clearing", "sending"}
  PROVE  DequeInv(timestamps, admissions, now)' /\ SendsInv' /\ SpacingInv' /\ UnspentInv'
<1>1. now \in Nat
  BY DEF RateInv, TypeOK
<1>2. DequeInv(timestamps', admissions, now)
  BY <1>1, DequeInvEvict DEF RateInv
<1> QED BY <1>2 DEF RateInv, SendsInv, SpacingInv, UnspentInv

LEMMA RateStep == RateInv /\ [Next]_vars => RateInv'
<1> SUFFICES ASSUME RateInv, [Next]_vars PROVE RateInv'
  OBVIOUS
<1>0. TypeOK' /\ GateIsExclusive'
  BY TypeStep, ExclusiveStep DEF RateInv
<1> USE DEF approval, history
<1>1. ASSUME NEW c \in Calls,
             Start(c) \/ LocalStep(c) \/ RpcStep(c) \/ Operator(c) \/ Walletd(c)
      PROVE  DequeInv(timestamps, admissions, now)' /\ SendsInv' /\ SpacingInv' /\ UnspentInv'
  <2>0. pc \in [Calls -> Places]
    BY DEF RateInv, TypeOK
  <2>1. CASE Admit(c)
    BY <2>1, RateAdmit
  <2>2. CASE Send(c)
    BY <2>2, RateSend
  <2>3. CASE Start(c) \/ Acquire(c) \/ RefuseRate(c) \/ Register(c)
    BY <2>0, <2>3, RateOther DEF Start, Acquire, RefuseRate, Register, Goto, Return
  <2>4. CASE ReceiveYes(c) \/ ReceiveNo(c) \/ Abandon(c) \/ ClearInflight(c) \/ AuditCompletion(c)
    BY <2>0, <2>4, RateOther DEF ReceiveYes, ReceiveNo, Abandon, ClearInflight, AuditCompletion,
                                 Goto, Return
  <2>5. CASE RpcStep(c)
    BY <2>0, <2>5, RateOther DEF RpcStep, PrepareFails, Panic, Enqueue, SubmitReply, SubmitFails,
                                 WaitResult, Goto, Return
  <2>6. CASE Operator(c) \/ Walletd(c)
    BY <2>6, RateOther DEF Operator, Respond, Walletd
  <2> QED BY <1>1, <2>1, <2>2, <2>3, <2>4, <2>5, <2>6 DEF LocalStep
<1>2. CASE Tick
  BY <1>0, <1>2, RateTick DEF RateInv
<1>3. CASE UNCHANGED vars
  BY <1>0, <1>3, RateOther DEF RateInv, vars
<1> QED BY <1>0, <1>1, <1>2, <1>3 DEF Next, Quiescent, RateInv

LEMMA RateInit == Init => RateInv
<1> SUFFICES ASSUME Init PROVE RateInv
  OBVIOUS
<1>1. timestamps = << >> /\ admissions = << >> /\ sends = << >> /\ now = 0
  BY DEF Init
<1>2. << >> \in Seq(Nat) /\ Len(<< >>) = 0
  BY EmptySeq
<1>3. DequeInv(<< >>, << >>, 0)
  BY <1>2, RateLimitAssumption DEF DequeInv, SuffixOf, Chronological, Spread, ForgottenIsExpired
<1>4. SendsInv /\ SpacingInv
  BY <1>1, <1>2 DEF SendsInv, SpacingInv
<1>5. UnspentInv
  BY DEF Init, UnspentInv
<1>6. GateIsExclusive
  BY CallsAssumption DEF Init, GateIsExclusive, Gated
<1> QED BY <1>1, <1>3, <1>4, <1>5, <1>6, TypeInit DEF RateInv

(* At most RateLimit + 1 transactions are really submitted in any closed   *)
(* window, however long their dialogs took.                                *)
THEOREM GateSubmissionRate == Spec => []SubmissionRate
BY RateInit, RateStep, RateBound, PTL DEF Spec

-----------------------------------------------------------------------------
(* The process.  To the write tier its life is made of the tier's own      *)
(* steps and of ProcessEnds, which kills every call at once.               *)
GatewayInv ==
  /\ GatewayTypeOK
  /\ GateInv
  /\ Alive => Configured
  /\ OnlyTheTokenOpens
  /\ UnfinishedIsKilled

LEMMA GatewaySteps == [GatewayNext]_gatewayVars => [Next]_vars \/ ProcessEnds
<1> SUFFICES ASSUME [GatewayNext]_gatewayVars PROVE [Next]_vars \/ ProcessEnds
  OBVIOUS
<1>1. ASSUME NEW c \in Calls, Enter(c) \/ Answer(c) \/ Handler(c) PROVE Next
  BY <1>1 DEF Enter, Answer, Handler, Next
<1>2. CASE World
  BY <1>2 DEF World, Next
<1>3. CASE Boot \/ BeginCheck \/ CheckEnds \/ Serve \/ Signal
  BY <1>3 DEF Boot, BeginCheck, CheckEnds, Serve, Signal
<1>4. CASE StartFails \/ StopReturns \/ Crash
  BY <1>4 DEF StartFails, StopReturns, Crash
<1>5. CASE UNCHANGED gatewayVars
  BY <1>5 DEF gatewayVars
<1> QED BY <1>1, <1>2, <1>3, <1>4, <1>5 DEF GatewayNext, Startup

LEMMA EndKeepsType == ASSUME TypeOK, ProcessEnds PROVE TypeOK'
<1>1. << >> \in Seq(Nat) /\ << >> \in Seq(Calls)
      /\ << >> \in Seq([call : Calls, at : Nat, admission : Nat])
  BY EmptySeq
<1>2. pc' \in [Calls -> Places]
  BY DEF TypeOK, ProcessEnds, Places
<1>3. channel' \in [Calls -> ChannelStates]
  BY DEF ProcessEnds, ChannelStates
<1> QED BY <1>1, <1>2, <1>3 DEF TypeOK, ProcessEnds

(* A killed call keeps nothing of the gate, and its result, if it came to  *)
(* one, was true when it did.                                              *)
LEMMA EndKeepsGate ==
  ASSUME GateInv, ProcessEnds
  PROVE  GateInv'
<1>0. TypeOK /\ TypeOK'
  BY EndKeepsType DEF GateInv
<1>1. \A c \in Calls : pc'[c] = IF Running(c) THEN "done" ELSE pc[c]
  BY DEF ProcessEnds
<1>2. \A c \in Calls : pc'[c] \in {"idle", "done"}
  BY <1>1 DEF Running
<1>3. GateIsExclusive'
  BY <1>2, CallsAssumption DEF ProcessEnds, GateIsExclusive, Gated
<1>4. InflightIsTheHolders'
  BY DEF ProcessEnds, InflightIsTheHolders
<1>5. ASSUME NEW c \in Calls PROVE CallInv(c)'
  <2>1. /\ CallInv(c) /\ inflight' = NoCall
        /\ tx' = tx /\ outcome' = outcome /\ audit' = audit /\ answered' = answered
    BY DEF GateInv, ProcessEnds
  <2>2. CASE ~ Running(c)
    <3>1. pc'[c] = pc[c] /\ pc[c] \in {"idle", "done"}
      BY <1>1, <2>2 DEF Running
    <3> QED BY <2>1, <3>1, CallsAssumption
         DEF CallInv, UnansweredBeforeDialog, BeforeDialog, NoDialogInAuto, DialogInv,
             SubmissionInv, CompletionInv, OutcomeIsTrue, Authorized, Accepted
  <2>3. CASE Running(c)
    <3>1. pc'[c] = "done" /\ pc[c] \notin {"idle", "done"}
      BY <1>1, <2>3 DEF Running
    <3>2. OutcomeIsTrue(c)
      <4>1. CASE pc[c] = "auditing"
        BY <2>1, <4>1 DEF CallInv, CompletionInv
      <4>2. CASE pc[c] = "clearing"
        BY <2>1, <4>2 DEF CallInv, DialogInv, OutcomeIsTrue
      <4>3. CASE pc[c] \notin {"auditing", "clearing"}
        BY <2>1, <3>1, <4>3 DEF CallInv, CompletionInv, OutcomeIsTrue
      <4> QED BY <4>1, <4>2, <4>3
    <3>3. audit[c] \in {"none", "Started"}
      BY <2>1, <3>1 DEF CallInv, CompletionInv
    <3> QED BY <2>1, <3>1, <3>2, <3>3, CallsAssumption
         DEF CallInv, UnansweredBeforeDialog, BeforeDialog, NoDialogInAuto, DialogInv,
             SubmissionInv, CompletionInv, OutcomeIsTrue, Authorized, Accepted
  <2> QED BY <2>2, <2>3
<1> QED BY <1>0, <1>3, <1>4, <1>5 DEF GateInv

LEMMA GatewayTypeStep ==
  ASSUME GatewayTypeOK, TypeOK', [GatewayNext]_gatewayVars
  PROVE  GatewayTypeOK'
<1> USE DEF GatewayTypeOK, Phases
<1>1. CASE Boot
  BY <1>1, EnvironmentAssumption DEF Boot
<1>2. CASE BeginCheck \/ CheckEnds \/ Serve \/ Signal
  BY <1>2 DEF BeginCheck, CheckEnds, Serve, Signal
<1>3. ASSUME NEW c \in Calls, Enter(c) \/ Answer(c) PROVE GatewayTypeOK'
  BY <1>3 DEF Enter, Answer
<1>4. ASSUME UNCHANGED process PROVE GatewayTypeOK'
  BY <1>4 DEF process
<1>5. CASE StartFails \/ StopReturns \/ Crash
  BY <1>5 DEF StartFails, StopReturns, Crash, ProcessEnds
<1> QED BY <1>1, <1>2, <1>3, <1>4, <1>5
     DEF GatewayNext, Startup, Handler, World, gatewayVars

(* The process serves only when it is configured, and then its token is    *)
(* the one it was given: no other header is let in.                        *)
LEMMA TokenStep ==
  ASSUME GatewayTypeOK, Alive => Configured, OnlyTheTokenOpens, [GatewayNext]_gatewayVars
  PROVE  (Alive => Configured)' /\ OnlyTheTokenOpens'
<1>1. ASSUME NEW c \in Calls, Enter(c) \/ Answer(c)
      PROVE  (Alive => Configured)' /\ OnlyTheTokenOpens'
  <2>1. env \in EnvironmentRecords /\ Configured
    BY <1>1, EnvironmentAssumption DEF Enter, Answer, GatewayTypeOK
  <2>2. env.token = "secret"
    BY <2>1 DEF EnvironmentRecords, Configured
  <2>3. letIn' \subseteq {"secret"}
    BY <1>1, <2>2 DEF Enter, Answer, LetsIn, OnlyTheTokenOpens
  <2> QED BY <1>1, <2>1, <2>3 DEF Enter, Answer, OnlyTheTokenOpens, Configured, Alive
<1>2. CASE Boot \/ BeginCheck \/ CheckEnds \/ Serve \/ Signal
  BY <1>2 DEF Boot, BeginCheck, CheckEnds, Serve, Signal, Alive, Configured, OnlyTheTokenOpens
<1>3. CASE StartFails \/ StopReturns \/ Crash
  BY <1>3 DEF StartFails, StopReturns, Crash, ProcessEnds, Alive, OnlyTheTokenOpens
<1>4. ASSUME UNCHANGED process PROVE (Alive => Configured)' /\ OnlyTheTokenOpens'
  BY <1>4 DEF process, Alive, Configured, OnlyTheTokenOpens
<1> QED BY <1>1, <1>2, <1>3, <1>4 DEF GatewayNext, Startup, Handler, World, gatewayVars

(* A step of the tier ends a call only with a completion audited, or with  *)
(* a panic, and that is the end of it; so it is the end of the process     *)
(* alone that leaves any other call with Started.                          *)
Panicked(c) == outcome[c] = "Panicked"

LEMMA StartedStep ==
  ASSUME GateInv, NEW c \in Calls,
         Start(c) \/ LocalStep(c) \/ RpcStep(c) \/ Operator(c) \/ Walletd(c)
  PROVE  \A d \in Calls :
           audit'[d] = "Started" =>
             /\ audit[d] = "Started" \/ Running(d)'
             /\ Running(d) => Running(d)' \/ Panicked(d)'
             /\ Panicked(d) => Panicked(d)'
<1> USE DEF approval, history, Running, Panicked
<1>0. /\ pc \in [Calls -> Places] /\ audit \in [Calls -> Statuses] /\ outcome \in [Calls -> Outcomes]
      /\ \A d \in Calls : outcome[d] = "Panicked" => pc[d] = "done"
  BY DEF GateInv, TypeOK, CallInv, CompletionInv
<1>1. CASE Start(c)
  BY <1>0, <1>1 DEF Start, Goto
<1>2. CASE AuditCompletion(c)
  <2>1. StatusOf(outcome[c]) # "Started"
    BY DEF StatusOf
  <2> QED BY <1>0, <1>2, <2>1 DEF AuditCompletion, Goto
<1>3. CASE LocalStep(c) /\ ~ AuditCompletion(c)
  BY <1>0, <1>3 DEF LocalStep, Acquire, Admit, RefuseRate, Register, ReceiveYes, ReceiveNo, Abandon,
              ClearInflight, Send, Return, Goto
<1>4. CASE RpcStep(c)
  BY <1>0, <1>4 DEF RpcStep, PrepareFails, Panic, Enqueue, SubmitReply, SubmitFails, WaitResult,
                    Return, Goto
<1>5. CASE Operator(c) \/ Walletd(c)
  BY <1>5 DEF Operator, Respond, Walletd
<1> QED BY <1>1, <1>2, <1>3, <1>4, <1>5

LEMMA KilledStep ==
  ASSUME GateInv, GateInv', UnfinishedIsKilled, [GatewayNext]_gatewayVars
  PROVE  UnfinishedIsKilled'
<1> USE DEF UnfinishedIsKilled
<1>0. \A d \in Calls : Panicked(d)' => tx'[d] = "unsent"
  BY DEF GateInv, CallInv, CompletionInv, Panicked
<1>1. ASSUME NEW c \in Calls, Enter(c) \/ Answer(c) \/ Handler(c)
      PROVE  UnfinishedIsKilled'
  <2>1. Alive /\ Alive' /\ killed' = killed
    BY <1>1 DEF Enter, Answer, Handler, process, Alive
  <2>2. \A d \in Calls :
          audit'[d] = "Started" =>
            /\ audit[d] = "Started" \/ Running(d)'
            /\ Running(d) => Running(d)' \/ Panicked(d)'
            /\ Panicked(d) => Panicked(d)'
    BY <1>1, StartedStep DEF Enter, Answer, Handler
  <2> QED BY <1>0, <2>1, <2>2 DEF Panicked
<1>2. CASE World
  <2>1. UNCHANGED <<pc, outcome, audit, killed, phase>>
    BY <1>2 DEF World, Tick, Walletd, process
  <2> QED BY <1>0, <2>1 DEF Alive, Running, Panicked
<1>3. CASE Boot \/ BeginCheck \/ CheckEnds \/ Serve \/ Signal
  BY <1>3 DEF Boot, BeginCheck, CheckEnds, Serve, Signal, Alive, Running, vars
<1>4. CASE StartFails \/ StopReturns \/ Crash
  BY <1>4 DEF StartFails, StopReturns, Crash, ProcessEnds
<1>5. CASE UNCHANGED gatewayVars
  BY <1>5 DEF gatewayVars, vars, process, Alive, Running
<1> QED BY <1>1, <1>2, <1>3, <1>4, <1>5 DEF GatewayNext, Startup

LEMMA GatewayInvariant == GatewaySpec => []GatewayInv
<1>1. GatewayInit => GatewayInv
  <2> SUFFICES ASSUME GatewayInit PROVE GatewayInv
    OBVIOUS
  <2>1. TypeOK /\ GateInv
    BY GateInit DEF GatewayInit, GateInv
  <2>2. GatewayTypeOK
    BY <2>1, EnvironmentAssumption DEF GatewayInit, GatewayTypeOK, Phases
  <2>3. OnlyTheTokenOpens /\ UnfinishedIsKilled /\ ~ Alive
    BY DEF GatewayInit, Init, OnlyTheTokenOpens, UnfinishedIsKilled, Alive
  <2> QED BY <2>1, <2>2, <2>3 DEF GatewayInv
<1>2. GatewayInv /\ [GatewayNext]_gatewayVars => GatewayInv'
  <2> SUFFICES ASSUME GatewayInv, [GatewayNext]_gatewayVars PROVE GatewayInv'
    OBVIOUS
  <2>1. GateInv' /\ TypeOK'
    BY GatewaySteps, GateStep, EndKeepsGate DEF GatewayInv, GateInv
  <2> QED BY <2>1, GatewayTypeStep, TokenStep, KilledStep DEF GatewayInv
<1> QED BY <1>1, <1>2, PTL DEF GatewaySpec

(* Every variable of the process stays in its range. *)
THEOREM GatewayTyped == GatewaySpec => []GatewayTypeOK
<1>1. GatewayInv => GatewayTypeOK
  BY DEF GatewayInv
<1> QED BY <1>1, GatewayInvariant, PTL

(* Whatever the environments, only the configured token lets anybody in.   *)
THEOREM GatewayTokenOpens == GatewaySpec => []OnlyTheTokenOpens
<1>1. GatewayInv => OnlyTheTokenOpens
  BY DEF GatewayInv
<1> QED BY <1>1, GatewayInvariant, PTL

(* Only a call that is running, died with its process or panicked before   *)
(* it sent anything has Started as its last entry.                         *)
THEOREM GatewayUnfinished == GatewaySpec => []UnfinishedIsKilled
<1>1. GatewayInv => UnfinishedIsKilled
  BY DEF GatewayInv
<1> QED BY <1>1, GatewayInvariant, PTL

(* No restart makes an audited completion false. *)
THEOREM GatewayAuditTellsTheTruth == GatewaySpec => []AuditTellsTheTruth
<1>1. GatewayInv => AuditTellsTheTruth
  BY AuditIsTrue DEF GatewayInv
<1> QED BY <1>1, GatewayInvariant, PTL

(* Nor does one make walletd receive what nobody approved. *)
THEOREM GatewaySentOnlyIfApproved == GatewaySpec => []SentOnlyIfApproved
<1>1. GatewayInv => SentOnlyIfApproved
  BY SentIsApproved DEF GatewayInv
<1> QED BY <1>1, GatewayInvariant, PTL

(* An accepted answer is final, whatever the process does after it.        *)
THEOREM GatewayAnswerStands == GatewaySpec => AnswerStands
<1>1. GatewayInv /\ [GatewayNext]_gatewayVars
        => [\A c \in Calls : answered[c] # "none" => answered'[c] = answered[c]]_vars
  <2>1. ProcessEnds => answered' = answered
    BY DEF ProcessEnds
  <2> QED BY <2>1, GatewaySteps, AnsweredStays DEF GatewayInv
<1> QED BY <1>1, GatewayInvariant, PTL DEF GatewaySpec, AnswerStands

(* Nothing is sent twice, by a later process either. *)
THEOREM GatewaySubmittedOnce == GatewaySpec => SubmittedOnce
<1>1. GatewayInv /\ [GatewayNext]_gatewayVars
        => [\A c \in Calls :
              Len(sends') > Len(sends) /\ sends'[Len(sends')].call = c => tx[c] = "unsent"]_vars
  <2>1. ASSUME GateInv, ProcessEnds PROVE ~ (Len(sends') > Len(sends))
    <3>1. sends' = << >> /\ sends \in Seq([call : Calls, at : Nat, admission : Nat])
      BY <2>1 DEF ProcessEnds, GateInv, TypeOK
    <3> QED BY <3>1, EmptySeq, LenProperties
  <2> QED BY <2>1, GatewaySteps, SentOnce DEF GatewayInv
<1> QED BY <1>1, GatewayInvariant, PTL DEF GatewaySpec, SubmittedOnce

(* Nor is the permit ever lost with the call that had it: it is one of its *)
(* process, and nobody of a later one waits for it.                        *)
THEOREM GatewayPermitIsHandedOn == GatewaySpec => []PermitIsHandedOn
<1>1. GatewayInit => QueueInv
  BY QueueInit DEF GatewayInit
<1>2. GatewayInv /\ QueueInv /\ [GatewayNext]_gatewayVars => QueueInv'
  <2>1. ASSUME ProcessEnds PROVE QueueInv'
    <3>1. queue' = << >> /\ Len(<< >>) = 0 /\ \A c \in Calls : pc'[c] # "queued"
      BY <2>1, EmptySeq DEF ProcessEnds, Running
    <3> QED BY <3>1 DEF QueueInv
  <2> QED BY <2>1, GatewaySteps, QueueStep DEF GatewayInv, GateInv
<1>3. GatewayInv => TypeOK /\ GateIsExclusive
  BY DEF GatewayInv, GateInv
<1> QED BY <1>1, <1>2, <1>3, GatewayInvariant, QueueHandsOn, PTL DEF GatewaySpec

(* The end of the process is one step of the promise: every call under way *)
(* is refused, or executed if it was sent.                                 *)
LEMMA EndIsAllEnd ==
  ASSUME GateInv, GateInv', ProcessEnds
  PROVE  Tier!AllEnd
<1>1. TypeOK /\ TypeOK' /\ \A c \in Calls : CallInv(c)
  BY DEF GateInv
<1>2. \A c \in Calls : pc'[c] = IF Running(c) THEN "done" ELSE pc[c]
  BY DEF ProcessEnds
<1>3. holder' = NoCall /\ answered' = answered /\ tx' = tx
  BY DEF ProcessEnds
<1>4. ASSUME NEW c \in Calls
      PROVE  StageOf(c)' = IF StageOf(c) \in {"requested", "considered", "authorized"} THEN "refused"
                           ELSE IF StageOf(c) = "sent" THEN "executed" ELSE StageOf(c)
  <2>0. CallInv(c) /\ pc[c] \in Places
    BY <1>1 DEF TypeOK
  <2>1. CASE pc[c] \in {"idle", "done"}
    <3>1. pc'[c] = pc[c]
      BY <1>2, <2>1 DEF Running
    <3> QED BY <1>1, <1>3, <2>1, <3>1, Stages, StagesNext
  <2>2. CASE pc[c] = "auditing"
    <3>1. pc'[c] = "done"
      BY <1>2, <2>2 DEF Running
    <3> QED BY <1>1, <1>3, <2>2, <3>1, Stages, StagesNext
  <2>3. CASE pc[c] \in {"submitting", "resultWait"}
    <3>1. pc'[c] = "done" /\ tx[c] # "unsent"
      BY <1>2, <2>0, <2>3 DEF Running, CallInv, SubmissionInv
    <3> QED BY <1>1, <1>3, <2>3, <3>1, Stages, StagesNext
  <2>4. CASE pc[c] \notin {"idle", "done", "auditing", "submitting", "resultWait"}
    <3>1. pc'[c] = "done" /\ tx[c] = "unsent"
      BY <1>2, <2>0, <2>4 DEF Running, CallInv, UnansweredBeforeDialog, BeforeDialog, DialogInv,
                              SubmissionInv, Places, Gated
    <3>2. StageOf(c) \in {"requested", "considered", "authorized"}
      BY <1>1, <2>0, <2>4, Stages DEF Places, Gated
    <3> QED BY <1>1, <1>3, <3>1, <3>2, StagesNext
  <2> QED BY <2>1, <2>2, <2>3, <2>4
<1> QED BY <1>3, <1>4 DEF Tier!AllEnd

(* The gateway implements the promise with restarts: its processes may end *)
(* whenever they like.                                                     *)
THEOREM GatewayImplementsTier == GatewaySpec => ImplementsRestartedTier
<1>1. GatewayInv /\ GatewayInv' /\ [GatewayNext]_gatewayVars
        => [Tier!TierNext \/ Tier!AllEnd]_Tier!tierVars
  BY GatewaySteps, TierStep, EndIsAllEnd DEF GatewayInv
<1>2. GatewayInit => Tier!TierInit
  BY TierStart DEF GatewayInit
<1> QED BY <1>1, <1>2, GatewayInvariant, PTL
     DEF GatewaySpec, ImplementsRestartedTier, Tier!RestartedTierSpec

(* A process begins with an empty deque and has sent nothing: the bound on *)
(* submissions holds again in each of its lives.                           *)
LEMMA EndKeepsRate ==
  ASSUME RateInv, ProcessEnds
  PROVE  RateInv'
<1>1. TypeOK' /\ now' \in Nat
  BY EndKeepsType DEF RateInv, TypeOK
<1>2. timestamps' = << >> /\ admissions' = << >> /\ sends' = << >>
  BY DEF ProcessEnds
<1>3. << >> \in Seq(Nat) /\ Len(<< >>) = 0
  BY EmptySeq
<1>4. DequeInv(<< >>, << >>, now')
  BY <1>3, RateLimitAssumption DEF DequeInv, SuffixOf, Chronological, Spread, ForgottenIsExpired
<1>5. SendsInv' /\ SpacingInv'
  BY <1>2, <1>3 DEF SendsInv, SpacingInv
<1>6. \A c \in Calls : pc'[c] \in {"idle", "done"}
  BY DEF ProcessEnds, Running
<1>7. UnspentInv' /\ GateIsExclusive'
  BY <1>6, CallsAssumption DEF UnspentInv, GateIsExclusive, Gated, ProcessEnds
<1> QED BY <1>1, <1>2, <1>4, <1>5, <1>7 DEF RateInv

(* At most RateLimit + 1 submissions of one process in any closed window,  *)
(* in every life and however the one before it ended.                      *)
THEOREM GatewaySubmissionRate == GatewaySpec => []SubmissionRate
<1>1. GatewayInit => RateInv
  BY RateInit DEF GatewayInit
<1>2. RateInv /\ [GatewayNext]_gatewayVars => RateInv'
  BY GatewaySteps, RateStep, EndKeepsRate
<1> QED BY <1>1, <1>2, RateBound, PTL DEF GatewaySpec

=============================================================================
