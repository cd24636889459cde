----------------------------- MODULE CreateCall -----------------------------
(***************************************************************************)
(* The create tier: call_ootle_create_function (src/tools/create.rs).  It  *)
(* has neither permit nor dialog: concurrent calls share a limiter of      *)
(* their own, CREATE_RATE_LIMITER, and nothing else.  An action is what a  *)
(* call's task does between two await points.                              *)
(***************************************************************************)
EXTENDS SlidingWindow

CONSTANTS Calls,     \* the handler tasks, one per tool call
          MaxTime    \* bound of the model: the clock stops here

ASSUME TimeAssumption == MaxTime \in Nat

VARIABLES
  now,          \* the monotonic clock
  pc,           \* where each call stands in its handler
  timestamps,   \* CREATE_RATE_LIMITER's deque
  tx,           \* what has become of each call's transaction at walletd
  outcome,      \* the Result of execute_create_call
  audit,        \* the last status audited for each call
  sends         \* history: when submit_instruction was sent

vars == <<now, pc, timestamps, tx, outcome, audit, sends>>

AwaitsRpc == {"preparing", "submitting", "resultWait"}
Places == AwaitsRpc \cup {"idle", "admitting", "auditing", "done"}
(* A committed transaction may lack the component address that is looked   *)
(* for: then it is "barren".                                               *)
TxStates == {"unsent", "inTransit", "lost", "accepted", "created", "barren", "rejected"}
Outcomes == {"none", "Ok", "PrepareError", "RateLimited", "WalletdError",
             "WaitResultTimedOut", "TransactionRejected", "NoComponentAddressInResult"}

Init ==
  /\ now = 0
  /\ pc = [c \in Calls |-> "idle"]
  /\ timestamps = << >>
  /\ tx = [c \in Calls |-> "unsent"]
  /\ outcome = [c \in Calls |-> "none"]
  /\ audit = [c \in Calls |-> "none"]
  /\ sends = << >>

Goto(c, place) == pc' = [pc EXCEPT ![c] = place]

Return(c, result) ==
  /\ Goto(c, "auditing")
  /\ outcome' = [outcome EXCEPT ![c] = result]

-----------------------------------------------------------------------------
(* The tool handler audits Started, then runs execute_create_call. *)
Start(c) ==
  /\ pc[c] = "idle"
  /\ Goto(c, "preparing")
  /\ audit' = [audit EXCEPT ![c] = "Started"]
  /\ UNCHANGED <<now, timestamps, tx, outcome, sends>>

(* A component address, an unknown function, no constructor, arguments     *)
(* that do not encode, the indexer, the configuration, or a wallet that is *)
(* not ready: nothing was counted and nothing is sent.                     *)
PrepareFails(c) ==
  /\ pc[c] = "preparing"
  /\ Return(c, "PrepareError")
  /\ UNCHANGED <<now, timestamps, tx, audit, sends>>

Prepared(c) ==
  /\ pc[c] = "preparing"
  /\ Goto(c, "admitting")
  /\ UNCHANGED <<now, timestamps, tx, outcome, audit, sends>>

(* The limiter says yes, and submit_instruction leaves in the same breath: *)
(* there is no await point in between.                                     *)
MutantAdmit(c) ==
  /\ pc[c] = "admitting"
  /\ \A d \in Calls : pc[d] \notin {"submitting", "resultWait"}
  /\ HasQuota(timestamps, now)
  /\ timestamps' = Append(Evict(timestamps, now), now)
  /\ tx' = [tx EXCEPT ![c] = "inTransit"]
  /\ sends' = Append(sends, now)
  /\ Goto(c, "submitting")
  /\ UNCHANGED <<now, outcome, audit>>
Admit(c) ==
  /\ pc[c] = "admitting"
  /\ HasQuota(timestamps, now)
  /\ timestamps' = Append(Evict(timestamps, now), now)
  /\ tx' = [tx EXCEPT ![c] = "inTransit"]
  /\ sends' = Append(sends, now)
  /\ Goto(c, "submitting")
  /\ UNCHANGED <<now, outcome, audit>>

RefuseRate(c) ==
  /\ pc[c] = "admitting"
  /\ ~ HasQuota(timestamps, now)
  /\ timestamps' = Evict(timestamps, now)
  /\ Return(c, "RateLimited")
  /\ UNCHANGED <<now, tx, audit, sends>>

(* walletd: a request that arrives is accepted, and its transaction later  *)
(* finalized; it may also be lost or refused.                              *)
Walletd(c) ==
  /\ \E next \in TxStates :
       /\ <<tx[c], next>> \in {"inTransit"} \X {"accepted", "lost"}
                               \cup {"accepted"} \X {"created", "barren", "rejected"}
       /\ tx' = [tx EXCEPT ![c] = next]
  /\ UNCHANGED <<now, pc, timestamps, outcome, audit, sends>>

Final == {"created", "barren", "rejected"}

SubmitReply(c) ==
  /\ pc[c] = "submitting"
  /\ tx[c] \in Final \cup {"accepted"}
  /\ Goto(c, "resultWait")
  /\ UNCHANGED <<now, timestamps, tx, outcome, audit, sends>>

(* The RPC fails at the gateway, whatever walletd has made of it. *)
SubmitFails(c) ==
  /\ pc[c] = "submitting"
  /\ Return(c, "WalletdError")
  /\ UNCHANGED <<now, timestamps, tx, audit, sends>>

(* What wait_transaction_result may come back with, and what is made of    *)
(* it: no verdict at any time, a verdict only when there is one; a reject  *)
(* is looked for before the component's address is.                        *)
MutantWaitResults(c) ==
  {"WaitResultTimedOut", "WalletdError"}
    \cup (IF tx[c] = "rejected" THEN {"TransactionRejected"} ELSE {})
    \cup (IF tx[c] \in {"created", "barren"} THEN {"Ok"} ELSE {})
WaitResults(c) ==
  {"WaitResultTimedOut", "WalletdError"}
    \cup (IF tx[c] = "rejected" THEN {"TransactionRejected"} ELSE {})
    \cup (IF tx[c] = "barren" THEN {"NoComponentAddressInResult"} ELSE {})
    \cup (IF tx[c] = "created" THEN {"Ok"} ELSE {})

WaitResult(c) ==
  /\ pc[c] = "resultWait"
  /\ \E result \in WaitResults(c) : Return(c, result)
  /\ UNCHANGED <<now, timestamps, tx, audit, sends>>

StatusOf(result) ==
  IF result = "Ok" THEN "Success"
  ELSE IF result = "RateLimited" THEN "RateLimited" ELSE "Error"

AuditCompletion(c) ==
  /\ pc[c] = "auditing"
  /\ Goto(c, "done")
  /\ audit' = [audit EXCEPT ![c] = StatusOf(outcome[c])]
  /\ UNCHANGED <<now, timestamps, tx, outcome, sends>>

Tick ==
  /\ now < MaxTime
  /\ now' = now + 1
  /\ UNCHANGED <<pc, timestamps, tx, outcome, audit, sends>>

-----------------------------------------------------------------------------
LocalStep(c) == Admit(c) \/ RefuseRate(c) \/ AuditCompletion(c)

RpcStep(c) ==
  PrepareFails(c) \/ Prepared(c) \/ SubmitReply(c) \/ SubmitFails(c) \/ WaitResult(c)

Next ==
  \/ \E c \in Calls : Start(c) \/ LocalStep(c) \/ RpcStep(c) \/ Walletd(c)
  \/ Tick

Spec == Init /\ [][Next]_vars

(* Tasks are polled; nothing is assumed of walletd or of the indexer. *)
Fairness == \A c \in Calls : WF_vars(LocalStep(c))

FairSpec == Spec /\ Fairness

-----------------------------------------------------------------------------
(* Every variable stays in its range. *)
TypeOK ==
  /\ now \in Nat
  /\ pc \in [Calls -> Places]
  /\ timestamps \in Seq(Nat) /\ Len(timestamps) =< RateLimit
  /\ tx \in [Calls -> TxStates]
  /\ outcome \in [Calls -> Outcomes]
  /\ audit \in [Calls -> {"none", "Started", "Success", "RateLimited", "Error"}]
  /\ sends \in Seq(Nat)

(* Success in the audit log is a transaction that was accepted and made a  *)
(* component; a call audited as rate limited was never sent; and a call    *)
(* that was never sent is audited as an error of its preparation or of the *)
(* limiter, never as anything walletd did.                                 *)
AuditTellsTheTruth ==
  \A c \in Calls :
    /\ audit[c] = "Success" => tx[c] = "created"
    /\ audit[c] = "RateLimited" => tx[c] = "unsent"
    /\ pc[c] = "done" /\ tx[c] = "unsent" => outcome[c] \in {"PrepareError", "RateLimited"}

(* However many creates run at once, a closed window contains at most      *)
(* RateLimit submissions: unlike in the write tier, none can be kept back. *)
SubmissionRate == Spread(sends)

(* A call ends if its own RPCs come back, whatever happens to the RPCs of  *)
(* the other calls: here nobody waits for anybody.                         *)
CallsCompleteAlone ==
  \A c \in Calls : []<>(pc[c] \notin AwaitsRpc) => (pc[c] # "idle" ~> pc[c] = "done")

=============================================================================
