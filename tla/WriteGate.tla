----------------------------- MODULE WriteGate -----------------------------
(***************************************************************************)
(* The write tier: call_ootle_write_function (src/tools/write.rs) and      *)
(* call_ootle_write_sequence (src/tools/sequence.rs) share one permit      *)
(* (WRITE_DIALOG_GATE), one slot for the request that awaits an operator   *)
(* (INFLIGHT), one limiter (WRITE_RATE_LIMITER) and one answering tool     *)
(* (approve_ootle_write).  Every call is a task of its own; an action is   *)
(* what a task does between two await points, or under one lock.           *)
(***************************************************************************)
EXTENDS SlidingWindow

CONSTANTS Calls,           \* the handler tasks, one per tool call
          SequenceCalls,   \* those that run call_ootle_write_sequence
          NoCall,          \* `None`: an empty slot, a free permit
          AutoApprove,     \* config.unsafe_auto_approve
          DialogTimeout,   \* DIALOG_TIMEOUT_SECS
          MaxTime          \* bound of the model: the clock stops here

ASSUME CallsAssumption == SequenceCalls \subseteq Calls /\ NoCall \notin Calls
ASSUME ModeAssumption == AutoApprove \in BOOLEAN
ASSUME TimeAssumption == DialogTimeout \in Nat /\ MaxTime \in Nat

VARIABLES
  now,          \* the monotonic clock
  pc,           \* where each call stands in its handler
  queue,        \* tasks awaiting WRITE_DIALOG_GATE, first come first served
  holder,       \* the task that has the permit
  timestamps,   \* WRITE_RATE_LIMITER's deque
  inflight,     \* the call whose request id INFLIGHT holds
  channel,      \* the oneshot channel of each call's await_approval
  deadline,     \* when each call's approval timer expires
  tx,           \* what has become of each call's transaction at walletd
  outcome,      \* the Result of execute_write_call / execute_write_sequence
  audit,        \* the last status audited for each call
  answered,     \* history: the answer approve_ootle_write accepted for a call
  admissions,   \* history: when the limiter said yes
  sends         \* history: when submit_instruction was sent, after how many admissions

history == <<answered, admissions, sends>>
approval == <<inflight, channel, deadline>>
vars == <<now, pc, queue, holder, timestamps, approval, tx, outcome, audit, history>>

(* Places where the task owns the permit, and places where it waits for an *)
(* RPC of the indexer or of walletd, which the code awaits with no timeout *)
(* of its own.                                                             *)
Gated == {"admitting", "registering", "waiting", "clearing", "sending",
          "submitting", "resultWait"}
AwaitsRpc == {"preparing", "submitting", "resultWait"}
Places == Gated \cup {"idle", "preparing", "queued", "auditing", "done"}

ChannelStates == {"none", "open", "true", "false", "senderGone", "receiverGone"}
TxStates == {"unsent", "inTransit", "lost", "accepted", "committed", "rejected"}
Outcomes == {"none", "Ok", "PrepareError", "RateLimited", "Denied", "Timeout",
             "InternalError", "WalletdError", "WaitResultTimedOut", "TransactionRejected",
             "Panicked"}
Statuses == {"none", "Started", "Success", "AutoApproved", "Denied", "RateLimited",
             "Timeout", "Error"}

Init ==
  /\ now = 0
  /\ pc = [c \in Calls |-> "idle"]
  /\ queue = << >>
  /\ holder = NoCall
  /\ timestamps = << >>
  /\ inflight = NoCall
  /\ channel = [c \in Calls |-> "none"]
  /\ deadline = [c \in Calls |-> 0]
  /\ tx = [c \in Calls |-> "unsent"]
  /\ outcome = [c \in Calls |-> "none"]
  /\ audit = [c \in Calls |-> "none"]
  /\ answered = [c \in Calls |-> "none"]
  /\ admissions = << >>
  /\ sends = << >>

Goto(c, place) == pc' = [pc EXCEPT ![c] = place]

(* The permit is a guard of the execute function's scope: any return drops *)
(* it, before the tool records the completion in the audit log.            *)
MutantReturn(c, result) ==
  /\ Goto(c, "auditing")
  /\ outcome' = [outcome EXCEPT ![c] = result]
  /\ UNCHANGED holder
Return(c, result) ==
  /\ Goto(c, "auditing")
  /\ outcome' = [outcome EXCEPT ![c] = result]
  /\ holder' = IF holder = c THEN NoCall ELSE holder

-----------------------------------------------------------------------------
(* The tool handler audits Started, then runs the execute function.        *)
Start(c) ==
  /\ pc[c] = "idle"
  /\ Goto(c, "preparing")
  /\ audit' = [audit EXCEPT ![c] = "Started"]
  /\ UNCHANGED <<now, queue, holder, timestamps, approval, tx, outcome, history>>

(* Resolving the target, reading its ABI, building the instructions,       *)
(* configuring walletd or ensure_wallet_ready failed: nothing was queued.  *)
MutantPrepareFails(c) ==
  /\ pc[c] = "preparing"
  /\ Goto(c, "done")
  /\ outcome' = [outcome EXCEPT ![c] = "PrepareError"]
  /\ UNCHANGED <<now, queue, holder, timestamps, approval, tx, audit, history>>
PrepareFails(c) ==
  /\ pc[c] = "preparing"
  /\ Return(c, "PrepareError")
  /\ UNCHANGED <<now, queue, timestamps, approval, tx, audit, history>>

(* The builder of a sequence runs out of workspace ids and panics: the     *)
(* task is unwound, before it asked for the permit, and audits nothing     *)
(* more.  The runtime catches the panic, and the process lives on.         *)
Panic(c) ==
  /\ c \in SequenceCalls
  /\ pc[c] = "preparing"
  /\ Goto(c, "done")
  /\ outcome' = [outcome EXCEPT ![c] = "Panicked"]
  /\ UNCHANGED <<now, queue, holder, timestamps, approval, tx, audit, history>>

(* All of that succeeded; the task joins the semaphore's FIFO queue.       *)
Enqueue(c) ==
  /\ pc[c] = "preparing"
  /\ Goto(c, "queued")
  /\ queue' = Append(queue, c)
  /\ UNCHANGED <<now, holder, timestamps, approval, tx, outcome, audit, history>>

(* A slip: the permit is granted without looking whether it is free. *)
MutantAcquire(c) ==
  /\ pc[c] = "queued"
  /\ Head(queue) = c
  /\ Goto(c, "admitting")
  /\ queue' = Tail(queue)
  /\ holder' = c
  /\ UNCHANGED <<now, timestamps, approval, tx, outcome, audit, history>>
Acquire(c) ==
  /\ pc[c] = "queued"
  /\ holder = NoCall
  /\ queue # << >>
  /\ Head(queue) = c
  /\ Goto(c, "admitting")
  /\ queue' = Tail(queue)
  /\ holder' = c
  /\ UNCHANGED <<now, timestamps, approval, tx, outcome, audit, history>>

(* check_transaction_allowed() is true; auto-approval skips the dialog. *)
MutantAdmit(c) ==
  /\ pc[c] = "admitting"
  /\ HasQuota(timestamps, now)
  /\ timestamps' = Append(Evict(timestamps, now), now)
  /\ admissions' = Append(admissions, now)
  /\ Goto(c, "sending")
  /\ UNCHANGED <<now, queue, holder, approval, tx, outcome, audit, answered, sends>>
Admit(c) ==
  /\ pc[c] = "admitting"
  /\ HasQuota(timestamps, now)
  /\ timestamps' = Append(Evict(timestamps, now), now)
  /\ admissions' = Append(admissions, now)
  /\ Goto(c, IF AutoApprove THEN "sending" ELSE "registering")
  /\ UNCHANGED <<now, queue, holder, approval, tx, outcome, audit, answered, sends>>

(* check_transaction_allowed() is false. *)
RefuseRate(c) ==
  /\ pc[c] = "admitting"
  /\ ~ HasQuota(timestamps, now)
  /\ timestamps' = Evict(timestamps, now)
  /\ Return(c, "RateLimited")
  /\ UNCHANGED <<now, queue, approval, tx, audit, history>>

(* await_approval stores the request and its sender in INFLIGHT (whatever  *)
(* entry was there is dropped, and its channel with it) and starts its     *)
(* timer.                                                                  *)
Register(c) ==
  /\ pc[c] = "registering"
  /\ Goto(c, "waiting")
  /\ inflight' = c
  /\ channel' = [d \in Calls |-> IF d = c THEN "open"
                                 ELSE IF d = inflight /\ channel[d] = "open"
                                      THEN "senderGone" ELSE channel[d]]
  /\ deadline' = [deadline EXCEPT ![c] = now + DialogTimeout]
  /\ UNCHANGED <<now, queue, holder, timestamps, tx, outcome, audit, history>>

(* Send on the channel of call d: nothing happens if its receiver is gone. *)
Sent(d, value) ==
  [channel EXCEPT ![d] = IF @ = "open" THEN value ELSE @]

(* respond_to_write for the request id of call c, under INFLIGHT's lock:   *)
(* the entry is taken and answered Ok whatever the send returned           *)
(* (`let _unused = ...`).  An empty slot, or an entry of another id, which *)
(* is put back under the same lock, gives the operator an error and leaves *)
(* the state as it was: a stuttering step.                                 *)
MutantRespond(c, approved) ==
  /\ inflight \in Calls
  /\ inflight' = NoCall
  /\ channel' = IF inflight = c THEN Sent(c, IF approved THEN "true" ELSE "false")
                                ELSE Sent(inflight, "senderGone")
  /\ answered' = IF inflight # c THEN answered
                 ELSE [answered EXCEPT ![c] = IF approved THEN "yes" ELSE "no"]
  /\ UNCHANGED <<now, pc, queue, holder, timestamps, deadline, tx, outcome, audit,
                 admissions, sends>>
MutantRespondKeeps(c, approved) ==
  /\ inflight = c
  /\ channel' = Sent(c, IF approved THEN "true" ELSE "false")
  /\ answered' = [answered EXCEPT ![c] = IF approved THEN "yes" ELSE "no"]
  /\ UNCHANGED <<now, pc, queue, holder, timestamps, inflight, deadline, tx, outcome, audit,
                 admissions, sends>>
Respond(c, approved) ==
  /\ inflight = c
  /\ inflight' = NoCall
  /\ channel' = Sent(c, IF approved THEN "true" ELSE "false")
  /\ answered' = [answered EXCEPT ![c] = IF approved THEN "yes" ELSE "no"]
  /\ UNCHANGED <<now, pc, queue, holder, timestamps, deadline, tx, outcome, audit,
                 admissions, sends>>

(* Ok(Ok(true)): the timer's future polls the channel first, so an answer  *)
(* that is there wins even when the deadline is past.                      *)
ReceiveYes(c) ==
  /\ pc[c] = "waiting"
  /\ channel[c] = "true"
  /\ Goto(c, "sending")
  /\ channel' = [channel EXCEPT ![c] = "receiverGone"]
  /\ UNCHANGED <<now, queue, holder, timestamps, inflight, deadline, tx, outcome, audit, history>>

(* Ok(Ok(false)). *)
MutantReceiveNo(c) ==
  /\ pc[c] = "waiting"
  /\ channel[c] = "false"
  /\ Goto(c, "sending")
  /\ channel' = [channel EXCEPT ![c] = "receiverGone"]
  /\ UNCHANGED <<now, queue, holder, timestamps, inflight, deadline, tx, outcome, audit, history>>
ReceiveNo(c) ==
  /\ pc[c] = "waiting"
  /\ channel[c] = "false"
  /\ Return(c, "Denied")
  /\ channel' = [channel EXCEPT ![c] = "receiverGone"]
  /\ UNCHANGED <<now, queue, timestamps, inflight, deadline, tx, audit, history>>

(* Err(Elapsed), or Ok(Err(closed)) when the sender was dropped: the       *)
(* receiver is dropped, and only then is INFLIGHT's lock asked for.        *)
Abandon(c) ==
  /\ pc[c] = "waiting"
  /\ channel[c] \in {"open", "senderGone"}
  /\ channel[c] = "open" => now >= deadline[c]
  /\ Goto(c, "clearing")
  /\ channel' = [channel EXCEPT ![c] = "receiverGone"]
  /\ outcome' = [outcome EXCEPT ![c] = IF channel[c] = "open" THEN "Timeout" ELSE "InternalError"]
  /\ UNCHANGED <<now, queue, holder, timestamps, inflight, deadline, tx, audit, history>>

(* clear_inflight takes whatever entry it finds and answers it `false`.    *)
MutantClearInflight(c) ==
  /\ pc[c] = "clearing"
  /\ Return(c, outcome[c])
  /\ UNCHANGED <<now, queue, timestamps, inflight, channel, deadline, tx, audit, history>>
ClearInflight(c) ==
  /\ pc[c] = "clearing"
  /\ inflight' = NoCall
  /\ channel' = IF inflight \in Calls THEN Sent(inflight, "false") ELSE channel
  /\ Return(c, outcome[c])
  /\ UNCHANGED <<now, queue, timestamps, deadline, tx, audit, history>>

(* submit_instruction leaves for walletd. *)
Send(c) ==
  /\ pc[c] = "sending"
  /\ Goto(c, "submitting")
  /\ tx' = [tx EXCEPT ![c] = "inTransit"]
  /\ sends' = Append(sends, [call |-> c, at |-> now, admission |-> Len(admissions)])
  /\ UNCHANGED <<now, queue, holder, timestamps, approval, outcome, audit, answered, admissions>>

(* walletd: a request that arrives is accepted, and its transaction later  *)
(* finalized; it may also be lost or refused.                              *)
Walletd(c) ==
  /\ \E next \in TxStates :
       /\ <<tx[c], next>> \in {<<"inTransit", "accepted">>, <<"inTransit", "lost">>,
                               <<"accepted", "committed">>, <<"accepted", "rejected">>}
       /\ tx' = [tx EXCEPT ![c] = next]
  /\ UNCHANGED <<now, pc, queue, holder, timestamps, approval, outcome, audit, history>>

Accepted(c) == tx[c] \in {"accepted", "committed", "rejected"}

(* submit_instruction answers with a transaction id.  A single write is    *)
(* done; a sequence goes on to wait for the result, permit in hand.        *)
SubmitReply(c) ==
  /\ pc[c] = "submitting"
  /\ Accepted(c)
  /\ IF c \in SequenceCalls
     THEN Goto(c, "resultWait") /\ UNCHANGED <<outcome, holder>>
     ELSE Return(c, "Ok")
  /\ UNCHANGED <<now, queue, timestamps, approval, tx, audit, history>>

(* The RPC fails at the gateway, whatever walletd has made of it.  It is   *)
(* not tried again.                                                        *)
MutantSubmitFails(c) ==
  /\ pc[c] = "submitting"
  /\ Goto(c, "sending")
  /\ UNCHANGED <<now, queue, holder, timestamps, approval, tx, outcome, audit, history>>
SubmitFails(c) ==
  /\ pc[c] = "submitting"
  /\ Return(c, "WalletdError")
  /\ UNCHANGED <<now, queue, timestamps, approval, tx, audit, history>>

(* What wait_transaction_result may come back with: a timeout (walletd's   *)
(* timed_out, or no result) or an RPC error at any time, a verdict only    *)
(* when there is one.                                                      *)
MutantWaitResults(c) ==
  {"WaitResultTimedOut", "WalletdError"}
    \cup (IF tx[c] \in {"committed", "rejected"} THEN {"Ok"} ELSE {})
WaitResults(c) ==
  {"WaitResultTimedOut", "WalletdError"}
    \cup (IF tx[c] = "committed" THEN {"Ok"} ELSE {})
    \cup (IF tx[c] = "rejected" THEN {"TransactionRejected"} ELSE {})

WaitResult(c) ==
  /\ pc[c] = "resultWait"
  /\ \E result \in WaitResults(c) : Return(c, result)
  /\ UNCHANGED <<now, queue, timestamps, approval, tx, audit, history>>

(* The `match &result` of both tools. *)
StatusOf(result) ==
  IF result = "Ok" THEN IF AutoApprove THEN "AutoApproved" ELSE "Success"
  ELSE IF result \in {"Denied", "RateLimited", "Timeout"} THEN result ELSE "Error"

(* The completion is audited, after the permit is gone. *)
AuditCompletion(c) ==
  /\ pc[c] = "auditing"
  /\ Goto(c, "done")
  /\ audit' = [audit EXCEPT ![c] = StatusOf(outcome[c])]
  /\ UNCHANGED <<now, queue, holder, timestamps, approval, tx, outcome, history>>

Tick ==
  /\ now < MaxTime
  /\ now' = now + 1
  /\ UNCHANGED <<pc, queue, holder, timestamps, approval, tx, outcome, audit, history>>

-----------------------------------------------------------------------------
(* What a task does on its own once scheduled; what it does when an RPC    *)
(* answers; what the environment does.                                     *)
LocalStep(c) ==
  \/ Acquire(c) \/ Admit(c) \/ RefuseRate(c) \/ Register(c)
  \/ ReceiveYes(c) \/ ReceiveNo(c) \/ Abandon(c) \/ ClearInflight(c)
  \/ Send(c) \/ AuditCompletion(c)

RpcStep(c) ==
  \/ PrepareFails(c) \/ Panic(c) \/ Enqueue(c)
  \/ SubmitReply(c) \/ SubmitFails(c) \/ WaitResult(c)

(* approve_ootle_write, without the two audit entries of its own.          *)
Operator(c) == \E approved \in BOOLEAN : Respond(c, approved)

(* Every call has come to its end: nothing is left to do. *)
Quiescent ==
  /\ \A c \in Calls : pc[c] = "done"
  /\ UNCHANGED vars

Next ==
  \/ \E c \in Calls :
       Start(c) \/ LocalStep(c) \/ RpcStep(c) \/ Operator(c) \/ Walletd(c)
  \/ Tick
  \/ Quiescent

Spec == Init /\ [][Next]_vars

(* The runtime polls every task that is ready, the semaphore serves its    *)
(* queue in order, and timers fire.  Nothing is assumed of the operator,   *)
(* of walletd or of the indexer.                                           *)
Fairness == \A c \in Calls : WF_vars(LocalStep(c))

FairSpec == Spec /\ Fairness

-----------------------------------------------------------------------------
(* Every variable stays in its range. *)
TypeOK ==
  /\ now \in Nat
  /\ pc \in [Calls -> Places]
  /\ queue \in Seq(Calls)
  /\ holder \in Calls \cup {NoCall}
  /\ timestamps \in Seq(Nat)
  /\ inflight \in Calls \cup {NoCall}
  /\ channel \in [Calls -> ChannelStates]
  /\ deadline \in [Calls -> Nat]
  /\ tx \in [Calls -> TxStates]
  /\ outcome \in [Calls -> Outcomes]
  /\ audit \in [Calls -> Statuses]
  /\ answered \in [Calls -> {"none", "yes", "no"}]
  /\ admissions \in Seq(Nat)
  /\ sends \in Seq([call : Calls, at : Nat, admission : Nat])

(* The permit covers everything between the limiter and the last RPC: the  *)
(* calls in those places are exactly its holder, so there is at most one,  *)
(* and a call that has returned, by any path, does not keep it.            *)
GateIsExclusive == \A c \in Calls : pc[c] \in Gated <=> holder = c

(* INFLIGHT has no owner check of its own: register overwrites it and      *)
(* clear_inflight takes whatever it finds.  It is safe because an entry    *)
(* there always belongs to the permit's holder, while it waits or cleans   *)
(* up.                                                                     *)
InflightIsTheHolders ==
  inflight # NoCall => holder = inflight /\ pc[inflight] \in {"waiting", "clearing"}

(* A call that still waits and was not answered can be answered: neither a *)
(* mismatching answer, nor another call's registration, timeout or cleanup *)
(* takes its entry away or closes its channel.                             *)
PendingIsAnswerable ==
  \A c \in Calls : pc[c] = "waiting" /\ answered[c] = "none"
                     => inflight = c /\ channel[c] = "open"

(* Nothing is sent to walletd without an operator's yes to that very call, *)
(* unless the server runs with --unsafe-auto-approve.                      *)
SentOnlyIfApproved ==
  \A c \in Calls : tx[c] # "unsent" => AutoApprove \/ answered[c] = "yes"

(* What the completion entry of the audit log says is true of walletd and  *)
(* of the operator: Success and AutoApproved of a transaction walletd has  *)
(* (committed, for a sequence), Denied only of a call the operator denied, *)
(* and no refusal of a call that was sent.                                 *)
AuditTellsTheTruth ==
  \A c \in Calls :
    /\ audit[c] \in {"Success", "AutoApproved"} =>
         /\ Accepted(c)
         /\ c \in SequenceCalls => tx[c] = "committed"
         /\ audit[c] = "Success" => answered[c] = "yes"
         /\ audit[c] = "AutoApproved" => answered[c] = "none"
    /\ audit[c] = "Denied" => answered[c] = "no"
    /\ audit[c] \in {"Denied", "RateLimited", "Timeout"} => tx[c] = "unsent"

(* The limiter counts admissions, and an admitted call is sent only after  *)
(* its dialog.  Still the permit keeps the two in step: a closed window    *)
(* contains at most RateLimit + 1 real submissions.                        *)
SubmissionRate ==
  \A i \in 1 .. Len(sends) :
    i + RateLimit + 1 =< Len(sends) => sends[i + RateLimit + 1].at - sends[i].at > Window

(* The operator's answer to a call is final: once one was accepted, no     *)
(* second answer to the same request id is.                                *)
AnswerStands ==
  [][\A c \in Calls : answered[c] # "none" => answered'[c] = answered[c]]_vars

(* One approval is good for one submission: submit_instruction leaves only *)
(* for a call that nothing was sent for, also when an RPC that failed may  *)
(* have reached walletd.                                                   *)
SubmittedOnce ==
  [][\A c \in Calls :
       Len(sends') > Len(sends) /\ sends'[Len(sends')].call = c => tx[c] = "unsent"]_vars

(* Every call that was started ends, its completion audited unless it      *)
(* panicked, whatever the operator does, provided that the RPCs come back: *)
(* the permit is handed on, no timer is missed, and no queue entry is      *)
(* forgotten.                                                              *)
CallsComplete ==
  (\A c \in Calls : []<>(pc[c] \notin AwaitsRpc))
    => \A c \in Calls : pc[c] # "idle" ~> pc[c] = "done"

(* The write tier implements its promise: the permit is the turn, the      *)
(* places of the handler are the stages.                                   *)
StageOf(c) ==
  CASE pc[c] = "idle" -> "new"
    [] pc[c] \in {"preparing", "queued"} -> "requested"
    [] pc[c] \in {"admitting", "registering", "waiting", "clearing"} -> "considered"
    [] pc[c] = "sending" -> "authorized"
    [] pc[c] \in {"submitting", "resultWait"} -> "sent"
    [] pc[c] \in {"auditing", "done"} -> IF tx[c] = "unsent" THEN "refused" ELSE "executed"

Tier == INSTANCE WriteTier
          WITH turn <- holder, stage <- [c \in Calls |-> StageOf(c)], answer <- answered

ImplementsTier == Tier!TierSpec

(* An answer is accepted only while its call still listens; the comment on *)
(* await_approval says a late one gets a clean error.                      *)
LateAnswerIsRefused ==
  [][\A c \in Calls : answered'[c] # answered[c] => pc[c] = "waiting"]_vars

(* Every transaction executed under auto-approval is audited AutoApproved, *)
(* even leaving aside the calls whose RPCs failed: what main.rs says of    *)
(* --unsafe-auto-approve.                                                  *)
AutoApprovedIsAudited ==
  \A c \in Calls :
    AutoApprove /\ pc[c] = "done" /\ tx[c] = "committed" /\ outcome[c] # "WalletdError"
      => audit[c] = "AutoApproved"

=============================================================================
