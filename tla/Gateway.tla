------------------------------ MODULE Gateway ------------------------------
(***************************************************************************)
(* The process around the write tier: src/main.rs starts, looks for        *)
(* walletd, reads its configuration, serves until a signal and stops; the  *)
(* middleware of src/server.rs lets requests in.  Whatever the process     *)
(* keeps in memory goes with it, and it may be started again, in another   *)
(* environment; what walletd has received, and what was audited, stays.    *)
(***************************************************************************)
EXTENDS WriteGate

CONSTANTS Environments,  \* the environments a process may be started in
          MaxLives       \* bound of the model: how often it is started

(* The token is unset, empty or not; the listen address parses or not; the *)
(* wallet's API key is missing, a client cannot be made of its endpoint,   *)
(* or it is set.                                                           *)
EnvironmentRecords ==
  [token : {"unset", "", "secret"}, address : BOOLEAN, walletd : {"noKey", "badEndpoint", "set"}]

ASSUME EnvironmentAssumption == Environments \subseteq EnvironmentRecords /\ MaxLives \in Nat

(* An Authorization header: none, another scheme, or the token it bears.   *)
Bearers == {"", "secret", "guess"}
Headers == {"absent", "Basic"} \cup Bearers

VARIABLES
  phase,      \* where main stands
  env,        \* the environment of this life
  life,       \* how often the process was started
  startup,    \* the startup check's last audit entry in this life
  killed,     \* history: calls that died with the process
  letIn       \* history: headers that got past the middleware

process == <<phase, env, life, startup, killed, letIn>>
gatewayVars == <<vars, process>>

Phases == {"down", "booting", "checking", "configuring", "serving", "stopping"}

(* The tasks of the handlers run until main returns. *)
Alive == phase \in {"serving", "stopping"}

GatewayInit ==
  /\ Init
  /\ phase = "down"
  /\ env \in Environments
  /\ life = 0
  /\ startup = "none"
  /\ killed = {}
  /\ letIn = {}

-----------------------------------------------------------------------------
Boot ==
  /\ phase = "down"
  /\ life < MaxLives
  /\ phase' = "booting"
  /\ env' \in Environments
  /\ life' = life + 1
  /\ startup' = "none"
  /\ UNCHANGED <<vars, killed, letIn>>

(* walletd_startup_connectivity_check up to its RPC.  Without an API key   *)
(* nothing is audited; when connect() fails, nothing after Started.        *)
BeginCheck ==
  /\ phase = "booting"
  /\ phase' = IF env.walletd = "set" THEN "checking" ELSE "configuring"
  /\ startup' = IF env.walletd = "noKey" THEN "none" ELSE "Started"
  /\ UNCHANGED <<vars, env, life, killed, letIn>>

(* get_accounts_list answers or fails; main awaits it before it serves. *)
MutantCheckEnds ==
  /\ phase = "checking"
  /\ startup' \in {"Success", "Error"}
  /\ phase' = IF startup' = "Success" THEN "configuring" ELSE "checking"
  /\ UNCHANGED <<vars, env, life, killed, letIn>>
CheckEnds ==
  /\ phase = "checking"
  /\ startup' \in {"Success", "Error"}
  /\ phase' = "configuring"
  /\ UNCHANGED <<vars, env, life, killed, letIn>>

(* ServerConfig::from_env. *)
MutantConfigured == env.address /\ env.token # "unset"
Configured == env.address /\ env.token \notin {"unset", ""}

Serve ==
  /\ phase = "configuring"
  /\ Configured
  /\ phase' = "serving"
  /\ UNCHANGED <<vars, env, life, startup, killed, letIn>>

(* auth_middleware compares hashes; for them to be equal is for the tokens *)
(* to be.  A header that is turned away changes nothing.                   *)
LetsIn(header) == header \in Bearers /\ header = env.token

(* A request comes in, and its handler starts; also while stop waits, on a *)
(* connection that is not yet drained.                                     *)
Enter(c) ==
  /\ Alive
  /\ \E header \in Headers : LetsIn(header) /\ letIn' = letIn \cup {header}
  /\ Start(c)
  /\ UNCHANGED <<phase, env, life, startup, killed>>

(* approve_ootle_write is a tool behind the same middleware. *)
Answer(c) ==
  /\ Alive
  /\ \E header \in Headers : LetsIn(header) /\ letIn' = letIn \cup {header}
  /\ Operator(c)
  /\ UNCHANGED <<phase, env, life, startup, killed>>

Handler(c) == Alive /\ (LocalStep(c) \/ RpcStep(c)) /\ UNCHANGED process

(* Ctrl+C or SIGTERM; McpServerManager::stop begins.  It does not touch the *)
(* request that awaits an operator.                                        *)
MutantSignal ==
  /\ phase = "serving"
  /\ phase' = "stopping"
  /\ inflight' = NoCall
  /\ channel' = IF inflight \in Calls THEN Sent(inflight, "false") ELSE channel
  /\ UNCHANGED <<now, pc, queue, holder, timestamps, deadline, tx, outcome, audit, history,
                 env, life, startup, killed, letIn>>
Signal ==
  /\ phase = "serving"
  /\ phase' = "stopping"
  /\ UNCHANGED <<vars, env, life, startup, killed, letIn>>

(* What the process kept in memory is gone: its tasks, permit, request,    *)
(* channels, and the limiter's deque.  Admissions and submissions are from *)
(* here on recorded of the next process; what a transaction has come to,   *)
(* what was audited and what was answered are not forgotten.               *)
Running(c) == pc[c] \notin {"idle", "done"}

MutantProcessEnds ==
  /\ phase' = "down"
  /\ killed' = killed \cup {c \in Calls : Running(c)}
  /\ pc' = [c \in Calls |-> IF Running(c) THEN "done" ELSE pc[c]]
  /\ queue' = << >>
  /\ holder' = NoCall
  /\ timestamps' = << >>
  /\ admissions' = << >>
  /\ sends' = << >>
  /\ UNCHANGED <<now, inflight, channel, deadline, tx, outcome, audit, answered, env, life,
                 startup, letIn>>
ProcessEnds ==
  /\ phase' = "down"
  /\ killed' = killed \cup {c \in Calls : Running(c)}
  /\ pc' = [c \in Calls |-> IF Running(c) THEN "done" ELSE pc[c]]
  /\ queue' = << >>
  /\ holder' = NoCall
  /\ timestamps' = << >>
  /\ inflight' = NoCall
  /\ channel' = [c \in Calls |-> "none"]
  /\ admissions' = << >>
  /\ sends' = << >>
  /\ UNCHANGED <<now, deadline, tx, outcome, audit, answered, env, life, startup, letIn>>

(* The configuration is refused, or the listen address cannot be bound:    *)
(* main exits.                                                             *)
StartFails == phase = "configuring" /\ ProcessEnds

(* stop returns when the connections are drained, and after five seconds   *)
(* if they are not; main returns, and nobody waits for a handler.          *)
MutantStopReturns ==
  /\ phase = "stopping"
  /\ \A c \in Calls : ~ Running(c)
  /\ ProcessEnds
StopReturns == phase = "stopping" /\ ProcessEnds

Crash == phase # "down" /\ ProcessEnds

World == (Tick \/ \E c \in Calls : Walletd(c)) /\ UNCHANGED process

Startup == BeginCheck \/ Serve \/ StartFails

GatewayNext ==
  \/ Boot \/ Startup \/ CheckEnds \/ Signal \/ StopReturns \/ Crash
  \/ \E c \in Calls : Enter(c) \/ Answer(c) \/ Handler(c)
  \/ World

GatewaySpec == GatewayInit /\ [][GatewayNext]_gatewayVars

(* main and the handlers' tasks are polled, and stop's timer fires; nothing *)
(* is assumed of walletd, the indexer, the operator or the user.           *)
GatewayFairSpec ==
  /\ GatewaySpec
  /\ WF_gatewayVars(Startup)
  /\ WF_gatewayVars(StopReturns)
  /\ \A c \in Calls : WF_gatewayVars(Alive /\ LocalStep(c) /\ UNCHANGED process)

-----------------------------------------------------------------------------
(* Every variable stays in its range. *)
GatewayTypeOK ==
  /\ TypeOK
  /\ phase \in Phases
  /\ env \in Environments
  /\ life \in 0 .. MaxLives
  /\ startup \in {"none", "Started", "Success", "Error"}
  /\ killed \subseteq Calls
  /\ letIn \subseteq Headers

(* Only the configured token opens the gateway, in any environment in      *)
(* which it serves: a header without a token never does.                   *)
OnlyTheTokenOpens == letIn \subseteq {"secret"}

(* A started call whose last entry is Started is still running, has died   *)
(* with the process, or has panicked over its own steps and sent nothing;  *)
(* no other way out of a handler leaves the log without a completion.  A   *)
(* restart finishes no call, and forgets none of the entries.              *)
UnfinishedIsKilled ==
  \A c \in Calls :
    audit[c] = "Started" =>
      \/ Running(c) /\ Alive
      \/ c \in killed
      \/ outcome[c] = "Panicked" /\ tx[c] = "unsent"

(* Inside its process too the tier does as it promises: whenever the       *)
(* process ends, nothing of what was being considered, not even a request  *)
(* already approved, is answered or sent by the next one.                  *)
ImplementsRestartedTier == Tier!RestartedTierSpec

(* A gateway that is started comes up, or goes down because its            *)
(* configuration, its port or its user wants it, whatever the wallet is    *)
(* like, unless the wallet keeps the startup check waiting for ever.       *)
ComesUp ==
  []<>~(phase = "checking" /\ startup = "Started")
    => (phase = "booting" ~> phase \in {"serving", "down"})

(* A gateway told to stop stops, whatever its calls wait for. *)
StopEnds == phase = "stopping" ~> phase = "down"

=============================================================================
