# A formal model of tari-ootle-mcp-gateway

The gateway is an MCP server in Rust.  An MCP client (usually an agent) calls
its tools over HTTP; the tools read the Tari Ootle network through an indexer
and submit real transactions through a wallet daemon (walletd).  Every call of
the write tier waits for a human operator, who answers through another tool,
`approve_ootle_write`.  This directory holds TLA+ modules of the gateway's own
logic, the TLC configurations that check them on small instances, and proofs
that TLAPS checks for every value of the constants.  Source paths below are
relative to the repository; line numbers are in `PROJECT.json`.

## 1. Inventory

| Part | State it keeps | Operations | Hard because |
|---|---|---|---|
| Rate limiter, `src/rate_limiter.rs` | a deque of instants | `check_transaction_allowed` | boundary of the sliding window, limit 0 |
| Write tier, `src/tools/write.rs`, `src/tools/sequence.rs` | statics: one permit, one in-flight slot, one limiter; per call a oneshot channel and a timer | `call_ootle_write_function`, `call_ootle_write_sequence`, `approve_ootle_write` | many handler tasks, timer against answer, a slot nobody owns, RPCs that fail after they took effect |
| Sequence builder, `src/tools/sequence.rs` | local: instruction list, key table, next workspace id | `build_sequence_instructions`, `encode_call_args` | references between steps, id arithmetic, order of checks |
| Create tier, `src/tools/create.rs` | a limiter of its own | `call_ootle_create_function` | no permit, no dialog, unknown outcomes |
| Read tool, discovery tools, `src/tools/read.rs`, `discovery.rs` | none | dry runs, indexer queries | a chain of RPCs and checks, each with its own way out, all of which must reach the completion's audit |
| Instruction shapes, `src/tools/instruction.rs` | none | pure functions of an ABI entry | four tools, three admission rules and one address rule that must fit together |
| Audit log, `src/audit.rs` | ring buffer, line count, files | `record`, `_rotate`, cleanup, `get_recent`, restart | background writes, failed renames, crashes |
| Server manager, `src/server.rs` | task handle, shutdown sender, port | `start`, `stop`, `restart` | a lock released between check and store |
| Bearer-token middleware, `src/server.rs` | the configured token's digest | `ServerConfig::from_env`, `auth_middleware` | an unset, an empty and a missing token must not meet |
| Process, `src/main.rs` | none of its own | startup check, serve, shutdown | it waits for a wallet before it serves, and exits while handlers run |
| Clients, `src/walletd_client.rs`, `src/indexer_client.rs` | none | RPC wrappers, `from_env`, `connect` | no timeout of their own; each error is one its caller must audit |

How they interact.  `tools/mod.rs` merges the tools' routers into one handler
per MCP session; sessions share state only through statics, so there is one
permit, one slot and one limiter for the whole process.  A write handler
audits `Started`, prepares its instructions (indexer and walletd RPCs), queues
for the permit, asks the limiter, registers in the slot and waits; the
operator's `approve_ootle_write` runs in another task and takes the slot's
entry; the handler then submits, perhaps waits for the result, releases the
permit and audits its completion.  A sequence differs from a single write in
its building step, in waiting for the result with the permit in hand, and in
the errors that can follow.

What makes each part correct:

* limiter: no closed window holds more admissions than the limit, and a call
  is refused only when the window is really full;
* write tier: one dialog at a time, nothing sent without a yes to that call,
  a pending call can always be answered, an answer is final, the audit log
  does not lie, and every call comes to an end;
* sequence builder: every workspace reference names the bucket of the
  withdrawal the caller named, and that withdrawal comes earlier;
* audit log: the ring holds the newest entries, a recorded entry is on disk
  until its file's turn to be deleted comes, files and their number stay
  within what failures of the disk allow;
* server manager: it speaks only of a server that listens, no server is out of
  reach, its operations return, and in the end nothing but its server listens;
* create tier: an audited success is a created component, calls do not wait
  for each other;
* the tools' checks: a call is let through exactly if it fits its ABI entry
  and its tool, walletd hears of no other, and whatever fails, the completion
  is audited;
* process and middleware: nothing but the configured token lets a request in,
  the gateway comes up whatever the wallet says and goes down whatever its
  calls wait for, and a call without completion in the audit log is one that
  still runs, that died with the process, or that panicked before it had sent
  anything.

## 2. Plan

Done, in this order: the write tier with its limiter and the promise it
implements (`SlidingWindow`, `RateLimiter`, `WriteTier`, `WriteGate`), the
audit log (`AuditLog`), the server manager (`ServerManager`), the create tier
(`CreateCall`), the sequence builder (`SequenceBuilder`), the tools' checks
with the two clients (`ToolCall`), and the process around the write tier with
its middleware, crashes and restarts (`Gateway`).  Every invariant and every
safety property of a step that the runs check is also proved.

Left: the create tier inside the process, next to the write tier, and the
rate of submissions in a window over several restarts.

## 3. The modules and the code

| Module | Models | State |
|---|---|---|
| `SlidingWindow` | the arithmetic of `TransactionRateLimiter` | none: operators on deque and clock |
| `RateLimiter` | the limiter behind its mutex | `timestamps`; `now` is `Instant::now()`; `admitted` is a history |
| `WriteTier` | no code: what the write tier promises its operator | `turn`, `stage`, `answer` |
| `WriteGate` | both write tools and `approve_ootle_write` | `holder` and `queue` are `WRITE_DIALOG_GATE`, `timestamps` `WRITE_RATE_LIMITER`, `inflight` `INFLIGHT`, `channel` and `deadline` the oneshot and timer of `await_approval`; `tx` is walletd's side |
| `AuditLog` | `AuditLog` and the files it leaves | `buffer`, `lineCount`, `live`, `rotated`, `files`; `pending` are writes that `write_all` accepted and the disk has not seen |
| `ServerManager` | `start`, `stop`, `restart` and the serving task | `managed` is the three fields of the manager; `told` what a server's `shutdown_rx` has seen |
| `CreateCall` | `call_ootle_create_function` | `timestamps` is `CREATE_RATE_LIMITER` |
| `SequenceBuilder` | `build_sequence_instructions` and the checks before it | its local variables, under their names |
| `ToolCall` | one call of a discovery tool or of the read tool, and of the write and create tools and of a sequence with one call step up to where the modules above take over: `resolve_target`, the ABI, the argument and shape checks, the admission rules, the account; what the walletd client finds in the environment | `stage` in the handler, `result`, the last `audit` status, what walletd was `asked` |
| `Gateway` | `main`, the startup check, `ServerConfig::from_env`, `auth_middleware`, shutdown, crash and restart, around an extended `WriteGate` | `phase` of `main`, `env`, `life`; `killed` and `letIn` are histories |

`MC<module>` and its `.cfg` files are the instances TLC checks;
`<module>Proofs` holds the theorems; those of `Gateway` are in
`WriteGateProofs`, since they rest on the same invariants.  `Mutant...` operators are slips a programmer might make; each
property is known to fail under one of them.

**Grain.**  The runtime is tokio: between two await points a handler runs
undisturbed as far as shared state is concerned, because all of it is behind
locks.  An action is therefore what a task does between two await points, or
under one lock.  Two examples where this matters: `Abandon` and
`ClearInflight` are two actions, because `await_approval` drops its receiver
before it asks for the lock on `INFLIGHT` (`write.rs` 286-299); `Admit` in
`CreateCall` is one, because `submit_instruction` leaves with no await between
the limiter's lock and the request.  In `WriteGate` `Admit` and `Send` are
separate, because the dialog lies between.

**Order within a handler.**  In `WriteGate` a call goes idle, preparing,
queued, admitting, registering, waiting, (clearing), sending, submitting,
(resultWait), auditing, done.  Every `return` and `?` is a `Return` action
from one of these places, which gives the permit back, as dropping `_permit`
does, before the completion is audited.  One way out audits nothing: `Panic`,
the `expect` on a sequence's next workspace id (`sequence.rs` 560), which
unwinds the handler before it has asked for the permit, in a process that
lives on.

**Abstractions.**

* Preparing a call (target, ABI, arguments, configuration, wallet) is one step
  of `WriteGate` and `CreateCall` that succeeds or fails; a sequence's may also
  panic.  What it does for a single call is `ToolCall`, for a sequence
  `SequenceBuilder`; a sequence with one call step and nothing else is in both.
* In `ToolCall` a call carries what the parsers and the indexer will say of
  it: whether the address parses, whether the function is known, what each
  argument is.  The checks between two RPCs are a list in the order of the
  code, and the first that fails names the error.  Encoded bytes are not
  modelled.
* Two digests are equal in `Gateway` if their tokens are.
* walletd may accept, lose, commit or reject a transaction; an RPC may come
  back with what walletd says, fail although walletd did its part, or never
  come back.
* A request id is the call it belongs to: ids are random (v4 UUIDs, `write.rs`
  570, `sequence.rs` 762) and are assumed never to repeat.  An answer with a wrong id is a stuttering step, since the
  code puts the entry back under the same lock.
* The branch of `await_approval` for a dropped sender is modelled, and
  `PendingIsAnswerable` shows that it is not taken.
* A client that disconnects does not cancel its handler; the process's exit
  does (`ProcessEnds` in `Gateway`).
* A file is named by the order of its creation.  The stamp in a rotated file's
  name is in seconds: with the fault "stamp" a rotation may fall into the same
  second as the last one and replaces the file renamed then.  A line lands
  whole or not at all.
* `stop` may stop waiting at any time, as its timer of 5 s may fire whatever
  the server's task has come to: the listener may still be open then.  A told
  server closes it some time, and its connections may drain for ever.
* A sequence step carries what the indexer will say of it, and an argument is
  a workspace key or a literal.  That a lookup or an encoding fails is possible
  at any step, after the checks the code makes before it.

## 4. What TLC checks

| Run | Bounds | Question |
|---|---|---|
| `limiter` | window 3, limit 2, clock to 9 | no closed window holds more than the limit, and no check is refused without need |
| `write_gate_dialog` | 2 writes, 1 sequence, limit 1, window 0, dialog 1, clock to 2 (660 thousand states) | permit, slot, approval, audit, single submission, submission rate, and `WriteTier` |
| `audit_log` | ring 2, 2 lines a file, 1 rotated file kept, 7 entries, 1 crash, failed removal or listing cut off, all faults of the disk (1.1 million states) | what `get_recent` returns and what the files hold |
| `server_manager` | 3 operations, 2 with the same port, 1 with port 0 | whether the manager tells the truth, whom each server can be stopped by, whether operations return, and what listens in the end |
| `create_call` | 3 calls, limit 1, window 0, clock to 1 | rate, audit, independence |
| `sequence_builder` | 3 keys, last id 2, requests of up to 4 of 17 steps | which requests are accepted, and what is built |
| `tool_call` | functions and methods of up to 2 arguments, argument lists of up to 2, every address, target and environment (1.3 million states) | which calls are let through, what walletd hears of, how the tools' policies fit, and that calls end |
| `gateway` | 1 write and 1 sequence, 2 lives, 5 environments, limit 1, window 0, clock to 1 (350 thousand states) | who gets in, what a crash leaves behind, `WriteTier` with restarts, that the process comes up, goes down and completes its calls |
| `late_answer`, `auto_audit`, `audit_elsewhere`, `server_twice` | smallest that show it | the disagreements of section 6 |

Why these bounds are enough.  In the write tier one call holds the permit, one
heads the queue and a third shows that the queue moves on.  With a limit of 1,
three calls are limit + 2, which is what `SubmissionRate` (at most limit + 1)
needs to fail; a window of 0 still lets two submissions fall into one instant,
one of them late by a dialog, and a dialog of 1 lets an answer come before,
at and after the deadline.  Longer windows are the matter of the `limiter`
run.  Seven entries in files of two lines make three rotations, the second of
which removes a file, and leave room for a crash in the middle; a ring of two
wraps.  Three operations are a start and a stop that meet while another start
is under way.  Four steps are three withdrawals, the last of which has no id
left, and the call without which a request is refused at once.  No check of
`ToolCall` looks at more than the first argument of a function or at more than
two of a list: one bad argument before another is what the order of parsing
and encoding can show.  Two calls in the process are one that has the permit
and one that waits for it when the process ends; two lives are one that ends
and one that finds what it left.  The rate of
submissions needs three calls in one life, too many for this run: over
restarts it is proved only.

`CHECK_DEADLOCK FALSE` stands where the modelled part may really stop: nobody
has to call a tool or write an entry, and the clock's bound is the model's.
In `WriteGate` a state in which all calls are done may stutter (`Quiescent`),
and TLC does look for deadlocks: a permit that is never given back is one.

The properties that say most:

* `InflightIsTheHolders` and `PendingIsAnswerable`: the slot has no owner
  check of its own (`register` overwrites, `clear_inflight` takes what it
  finds), and it needs none as long as the permit is held around it.
* `SubmissionRate`: the limiter counts admissions, the transaction leaves up
  to 120 s later.  The permit keeps the excess at one.
* `SubmittedOnce`: an RPC that failed may have reached walletd, so whoever
  sends again spends twice on one approval; the gateway never does.
* `AuditTellsTheTruth`: a success is a transaction that walletd has, a refusal
  one that was never sent.  Nothing can be said of `Error`: a call whose RPC
  failed may have been executed.
* `ImplementsTier`: `WriteGate` with `turn <- holder` and its places mapped to
  stages is a `WriteTier`.
* `ImplementsRestartedTier`: in `Gateway` too, if `WriteTier` may lose all calls
  under way at any moment (`AllEnd`).  A request that an operator approved and
  that was not sent when the process ended is refused for good, and no answer
  reaches a call of an earlier process.
* `FilesAreInOrder` and `LiveFileIsBounded`: late writes reach the file they
  were opened for; a failed rename, which still resets `line_count`, lets the
  file grow by `MAX_LOG_LINES` once more, and so does a restart that cannot
  open the file to count its lines and begins at 0 (`audit.rs` 121-125).
* `RotatedFilesAreBounded`: a removal that fails, a crash in the middle of a
  cleanup, and a directory that cannot be read, or not to its end
  (`audit.rs` 185-186), each leave at most one file too many, for the next
  cleanup to remove.
* `NoServerIsOrphaned`: storing over another server's sender drops it, which
  that server takes for a signal.
* `AcceptsExactlyTheWellFormed`: the one pass over the steps, with a key table
  filled as it goes, accepts the same requests as a declarative definition.
* `AdmitsExactlyWhatFits` and `PoliciesFit`: the checks run in four different
  orders in four tools and stop at the first failure, and still agree with one
  definition of a good call.  A function is taken by the read tool or by the
  write tool, never by both; nothing that mutates is submitted without the
  human gate.  The converse does not hold, and the property says so: a sequence
  takes every function behind the gate, also a constructor that the create tool
  submits without asking anybody.
* `UnfinishedIsKilled`: in the audit log a `Started` without completion is a
  call that runs, one that died with the process, or one that panicked and sent
  nothing, over restarts; together with `AuditTellsTheTruth` this is what the
  log may be trusted for.
* `ComesUp`: a wallet that answers with an error, or is not configured, does
  not keep the gateway from serving; one that never answers does, since the
  startup check has no timeout, and the property says so in its premise.

One part of a property is not exercised by any passing run: in
`AuditTellsTheTruth` of `WriteGate`, what `AutoApproved` stands for, since these
runs ask the operator (`AutoApprove = FALSE`).  It is proved, as the rest of the
property is, for both values (`GateAuditTellsTheTruth`,
`GatewayAuditTellsTheTruth`), and `auto_audit` runs with auto-approval.

## 5. Fairness

* `WriteGate` and `CreateCall`: weak fairness of each task's own steps.  tokio
  polls what is ready, its semaphore serves in order (the queue is part of the
  state), and timers fire.  Nothing is assumed of the operator, the indexer or
  walletd.  RPCs have no timeout in the gateway, so `CallsComplete` has the
  premise that they come back, for every call: one that hangs with the permit
  in hand stops the write tier.  `CallsCompleteAlone` needs the premise for
  the call itself only: creates hold nothing while they wait.
* `ToolCall`: weak fairness of the handler's own steps, those that await no
  RPC; `CallEnds` has the premise that the call's RPCs come back.
* `Gateway`: weak fairness of `main`'s own steps (`Startup`), of `StopReturns`
  (its timer of 5 s fires whatever the connections do), and of the handlers'
  own steps while the process is alive; none of `CheckEnds`, which is an RPC,
  and none of the user or of the operator.
* `ServerManager`: weak fairness of each operation's steps and of a told
  server's closing its listener; none of a connection's end.
* `RateLimiter`, `AuditLog`, `SequenceBuilder`: safety only.

The clock has no fairness.  In the `gateway` run the dialog's timeout is 0, so
the timer may expire at any time after it was set, which covers every real
timing; `CallsComplete` is checked there, crashes and restarts included.

## 6. Where code and documents disagree

1. `late_answer`: `write.rs` 265-267 says a late answer gets a clean error.
   Between the drop of the receiver and `clear_inflight`'s lock it is accepted
   with "ok" and has no effect; the call ends as `Timeout`.
2. `auto_audit`: `main.rs` 36-37 says every transaction executed under
   `--unsafe-auto-approve` is audited `AutoApproved`.  A sequence whose wait
   for the result timed out is audited `Error`, and may commit.
3. `audit_elsewhere`: `audit.rs` 47 says how many rotated files are kept.  With
   the path overridden by one without `mcp_audit.` none is ever removed.
4. `server_twice`: `server.rs` 174-176 says a second start returns the port of
   the server that runs.  On port 0 two starts at the same time return two
   ports.  `NoServerIsOrphaned` shows that the first server is told to stop.

Seen while modelling, without a run of their own:

* `get_ootle_template_abi` tells an agent that a function which mutates is not
  callable yet (`discovery.rs` 158-160, 184-187), but
  `call_ootle_write_function` takes it (`write.rs` 513-514), and so does a
  sequence.  `PoliciesFit` demands of the summary only that it says "read" of
  exactly what the read tool takes.
* `main.rs` 107-112 says that a misconfigured or unreachable walletd is logged
  and audited by the startup check.  When `connect` fails (163-166) `Started`
  is audited and never its end.
* The doc of `clear_inflight` (`write.rs` 321) has it for use on server
  shutdown.  `stop` does not call it; in `Gateway`
  `Signal` leaves the slot alone, and a call that waits for its operator may
  still be answered while `stop` waits.

## 7. What TLAPS proves

For all values of the constants, under the assumptions named in the modules
(`Window`, `RateLimit`, `DialogTimeout` and the clock's bound are natural
numbers, `NoCall` is no call, `NoServer` no task, the fixed-port tasks are
tasks; the set of calls may be infinite):

* `SlidingWindowProofs`: what `Evict` returns, and that `DequeInv` is kept by
  time passing, by an eviction and by a recorded admission.  `DequeInv` says
  that the deque is a suffix of the history, that the history is in order and
  not in the future, that what the deque forgot is expired, and that the
  history is `Spread`.  The third part is why it is inductive: an admission is
  made when the deque is short, and whatever it lacks is too old to count.
* `RateLimiterProofs`: `TypeOK`, `WindowBound` and `ExactQuota`, from
  `LimiterInv`.  What an eviction leaves is a suffix of the history that begins
  at its first fresh entry, so the recent admissions are an interval of
  indices and their number is the length of the deque.
* `WriteGateProofs`: every safety property of the write tier, from `GateInv`:
  types, the permit, the slot, and for every call what its place says of its
  answer, its channel, its transaction and its outcome.  `GateExclusive` and
  `GateInflight` carry the rest: every step of another call leaves the
  holder's slot alone because it is not the holder.  `GateImplementsTier`
  shows the refinement, one step of `WriteTier` or a stutter for each action.
  `QueueInv`, that the semaphore's queue holds the waiting calls once each,
  gives `PermitIsHandedOn`: the safety half of `CallsComplete`, which no run
  checks by itself.
* The rate, in the same module: `SubmissionRate`, from `RateInv`.  A call that
  is sent was admitted last, because it has the permit; so the k-th
  submission lies between its admission and the next one, and two submissions
  limit + 1 apart have at least limit + 1 admissions, hence more than a window,
  between them.
* The process, in the same module: every safety property of `Gateway`, from
  `GatewayInv`.  `GatewaySteps` says what a process is to the tier: its own
  steps, and `ProcessEnds`.  So `GateInv` and `RateInv` need only that a call
  may die anywhere: `EndKeepsGate` shows that what is known of a place is enough
  for the place "done" (a call that died has no outcome, or a true one), and
  `EndIsAllEnd` that the stage of each call moves as the promise with restarts
  says.  `TokenStep` shows why the token is the configured one: a process that
  serves has passed `ServerConfig::from_env` in its own environment.
* `ToolCallProofs`: every invariant of `ToolCall`, for ABI entries and argument
  lists of any length.  The order of checks is dealt with once:
  `FirstErrorIsBlamed` says that the verdict of a list of checks is Ok exactly
  if none fails and otherwise the error of one that fails, and `ConcatBlames`
  that lists one after the other blame what either blames.  From there each
  group of checks is a set of errors (`ArgChecksBlame`, `ShapeChecksBlame`,
  `ClientChecksBlame`), and `VerdictIsFair` says for every tool what passing
  them means; `FitsIsPassing` and `MeantIsSuiting` turn that into the
  declarative definitions.  Nothing is assumed of the environment or the ABI.
* `ServerManagerProofs`: every invariant of the manager, for any number of
  tasks, from `ManagerInv`, which says in whose hands each server is: unborn,
  its starter's, the manager's, a stop's.  Nothing in it depends on how long a
  stop waits.
* `AuditLogProofs`: every safety property of the audit log, whatever the
  sizes and whichever of the modelled failures happen (renames, opens, writes,
  removals, directory listings, recounts, crashes).  `RingInv` says what the ring's i-th entry is.
  `OrderInv` adds to `FilesAreInOrder` that nothing is written before it is
  recorded; since the live file is the one created last, a line goes to the
  newest file and is newer than all others.  `KeptInv` adds to
  `EntriesAreKept` that cleanup's list has only files with `MaxRotated` newer
  ones, and `NewerRemoved` that removing one of those takes nobody else below
  that number.  `LinesInv` bounds the live file by `line_count` and the renames
  that failed; a crash sets the count to what is there, or to 0 if the file
  cannot be opened, which `allowance` accounts for.  `RotatedInv`
  bounds the rotated files by those that cleanup spares (`SparedAreFew`, a
  pigeonhole argument) and those it has yet to remove;
  `LogRotatedFilesAreBounded` has the assumption `CleanupSees`, without which
  `audit_elsewhere` refutes it.
* `SequenceBuilderProofs`: every property of the builder, for requests of any
  length and any end of the id type.  `BuilderInv` says that instructions are
  laid out as the steps are (`Layout`), that every key in the table is that of
  an earlier withdrawal and has its bucket (`KeysAreOfWithdraws`,
  `KeysHaveBuckets`), that ids are fresh (`PutsAreFresh`), and what the pass
  has already judged (`Judged`).  The id of a withdrawal is the number of
  those before it, and that number grows by one at each.
* `CreateCallProofs`: every invariant of the create tier, from `CreateInv`:
  `DequeInv` with the submissions as its history, and what a call's place says
  of its transaction.

Only model-checked: the liveness properties (`CallsComplete`,
`CallsCompleteAlone`, `OperationsReturn`, `OnlyTheManagedListens`, `CallEnds`,
`ComesUp`, `StopEnds`), which rest on fairness and on ENABLED and are out of the
prover's reach, and the four runs that refute what a document says.  Only
proved: `PermitIsHandedOn`, the types of `WriteGate`, `Gateway` and `ToolCall`,
and the rate, the approvals and the answers of `WriteGate` over restarts.

## 8. What is not modelled

* The crate root, which declares modules, and of the tool registry what merges
  routers and makes a handler per session: its effect, that all sessions share
  the statics and nothing else, is why there is one instance of each.
* The encoding of arguments to bytes, the paging of the template catalogue, the
  wording of texts and log lines, the permissions of the log's directory.
* The audit entries that `approve_ootle_write` makes of itself: `Started`, then
  `Success` or `Error` by what `respond_to_write` returned.
* A read that fails in the middle of the recount of the log's lines: a recount
  succeeds, or the file cannot be opened.
* `get_account_balance` and `detect_transaction_inputs` of the walletd client,
  which nothing calls.
* The create tier and the audit log inside `Gateway`: a restart treats the
  create tier's calls as the write tier's, and the log's own restart is `Crash`
  in `AuditLog`.
* Rates over a restart: the limiters live in memory, so each life has a quota
  of its own.  `SubmissionRate` is about the submissions of one process, and
  `sends` and `admissions` begin anew with each: a window that contains a
  restart may hold twice as many.
