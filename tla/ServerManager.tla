--------------------------- MODULE ServerManager ---------------------------
(***************************************************************************)
(* McpServerManager (src/server.rs), the library's handle on its HTTP      *)
(* server: start, stop and restart by tasks that run at the same time.     *)
(* They share three fields behind an RwLock, which are always set and      *)
(* taken together and so are one variable here.  A task starts at most one *)
(* server, which has the task's name.                                      *)
(***************************************************************************)
EXTENDS FiniteSets

CONSTANTS Tasks,      \* the callers of start, stop and restart
          NoServer,   \* `None` in the manager's fields
          FixedPort   \* those whose config.listen_addr names the port, not port 0

ASSUME TasksAssumption == NoServer \notin Tasks
ASSUME PortAssumption == FixedPort \subseteq Tasks

VARIABLES
  op,       \* the operation each task runs
  pc,       \* where it stands
  managed,  \* whose server_handle, shutdown_tx and bound_port the manager has
  taken,    \* what each stop took out of the manager
  told,     \* servers whose shutdown_rx has seen `true`, or its sender dropped
  server,   \* the life of each server's task
  result    \* what each operation returned: a server's port, or how it ended

vars == <<op, pc, managed, taken, told, server, result>>

Operations == {"start", "stop", "restart"}
Places == {"idle", "checking", "binding", "storing", "taking", "signalling", "awaiting", "done"}

Init ==
  /\ op = [c \in Tasks |-> "none"]
  /\ pc = [c \in Tasks |-> "idle"]
  /\ managed = NoServer
  /\ taken = [c \in Tasks |-> NoServer]
  /\ told = {}
  /\ server = [c \in Tasks |-> "none"]
  /\ result = [c \in Tasks |-> "none"]

Goto(c, place) == pc' = [pc EXCEPT ![c] = place]

Finish(c, value) ==
  /\ Goto(c, "done")
  /\ result' = [result EXCEPT ![c] = value]

Call(c) ==
  /\ pc[c] = "idle"
  /\ \E o \in Operations :
       /\ op' = [op EXCEPT ![c] = o]
       /\ Goto(c, IF o = "start" THEN "checking" ELSE "taking")
  /\ UNCHANGED <<managed, taken, told, server, result>>

-----------------------------------------------------------------------------
(* start looks at the manager under a read lock, which it gives back.      *)
CheckRunning(c) ==
  /\ pc[c] = "checking"
  /\ IF managed # NoServer THEN Finish(c, managed)
                           ELSE Goto(c, "binding") /\ UNCHANGED result
  /\ UNCHANGED <<op, managed, taken, told, server>>

Listening == {s \in Tasks : server[s] = "serving"}

(* The bind succeeds and the server's task is spawned: a fixed port must   *)
(* be free, port 0 always finds one.                                       *)
Bind(c) ==
  /\ pc[c] = "binding"
  /\ c \in FixedPort => Listening \cap FixedPort = {}
  /\ server' = [server EXCEPT ![c] = "serving"]
  /\ Goto(c, "storing")
  /\ UNCHANGED <<op, managed, taken, told, result>>

(* The port is taken, by this process or by another one. *)
BindFails(c) ==
  /\ pc[c] = "binding"
  /\ Finish(c, "BindFailed")
  /\ UNCHANGED <<op, managed, taken, told, server>>

(* The fields are overwritten under the write lock, with no second look.   *)
(* The sender that was there is dropped, which ends its server's wait_for. *)
MutantStore(c) ==
  /\ pc[c] = "storing"
  /\ managed' = c
  /\ Finish(c, c)
  /\ UNCHANGED <<op, taken, told, server>>
Store(c) ==
  /\ pc[c] = "storing"
  /\ managed' = c
  /\ told' = told \cup ({managed} \ {NoServer})
  /\ Finish(c, c)
  /\ UNCHANGED <<op, taken, server>>

-----------------------------------------------------------------------------
(* stop takes the fields out under the write lock. *)
MutantTake(c) ==
  /\ pc[c] = "taking"
  /\ taken' = [taken EXCEPT ![c] = managed]
  /\ Goto(c, "signalling")
  /\ UNCHANGED <<op, managed, told, server, result>>
Take(c) ==
  /\ pc[c] = "taking"
  /\ taken' = [taken EXCEPT ![c] = managed]
  /\ managed' = NoServer
  /\ Goto(c, "signalling")
  /\ UNCHANGED <<op, told, server, result>>

(* It sends `true` after it has given the lock back. *)
Signal(c) ==
  /\ pc[c] = "signalling"
  /\ told' = told \cup ({taken[c]} \ {NoServer})
  /\ Goto(c, "awaiting")
  /\ UNCHANGED <<op, managed, taken, server, result>>

(* The server's task has ended, or there was none, or the 5 seconds are    *)
(* over, whatever the task does: its connections may still drain, and it   *)
(* may even have the listener still.  restart goes on to start.            *)
MutantStopped(c) ==
  /\ pc[c] = "awaiting"
  /\ taken[c] # NoServer => server[taken[c]] = "exited"
  /\ IF op[c] = "restart" THEN Goto(c, "checking") /\ UNCHANGED result
                          ELSE Finish(c, "stopped")
  /\ UNCHANGED <<op, managed, taken, told, server>>
Stopped(c) ==
  /\ pc[c] = "awaiting"
  /\ IF op[c] = "restart" THEN Goto(c, "checking") /\ UNCHANGED result
                          ELSE Finish(c, "stopped")
  /\ UNCHANGED <<op, managed, taken, told, server>>

-----------------------------------------------------------------------------
(* axum::serve: told to stop, it drops its listener, then waits for the    *)
(* connections it has, for as long as they last.                           *)
CloseListener(s) ==
  /\ server[s] = "serving"
  /\ s \in told
  /\ server' = [server EXCEPT ![s] = "draining"]
  /\ UNCHANGED <<op, pc, managed, taken, told, result>>

Drained(s) ==
  /\ server[s] = "draining"
  /\ server' = [server EXCEPT ![s] = "exited"]
  /\ UNCHANGED <<op, pc, managed, taken, told, result>>

Step(c) ==
  \/ CheckRunning(c) \/ Bind(c) \/ BindFails(c) \/ Store(c)
  \/ Take(c) \/ Signal(c) \/ Stopped(c)

Next == \E c \in Tasks : Call(c) \/ Step(c) \/ CloseListener(c) \/ Drained(c)

Spec == Init /\ [][Next]_vars

(* Tasks are polled, the lock is fair, and a server that was told is       *)
(* scheduled.  Nothing is assumed of its connections.                      *)
Fairness == \A c \in Tasks : WF_vars(Step(c)) /\ WF_vars(CloseListener(c))

FairSpec == Spec /\ Fairness

-----------------------------------------------------------------------------
(* Every variable stays in its range. *)
TypeOK ==
  /\ op \in [Tasks -> Operations \cup {"none"}]
  /\ pc \in [Tasks -> Places]
  /\ managed \in Tasks \cup {NoServer}
  /\ taken \in [Tasks -> Tasks \cup {NoServer}]
  /\ told \subseteq Tasks
  /\ server \in [Tasks -> {"none", "serving", "draining", "exited"}]
  /\ result \in [Tasks -> Tasks \cup {"none", "BindFailed", "stopped"}]

Running(s) == server[s] = "serving" /\ s \notin told

(* is_running and port tell the truth: the server they speak of listens,   *)
(* and nobody has told it to stop.                                         *)
RunningIsTrue == managed # NoServer => Running(managed)

(* No server gets out of reach: one that runs and was not told to stop is  *)
(* the manager's, or is about to be, or is about to be told by the stop    *)
(* that took it.  Two starts at the same time on port 0 are no exception.  *)
NoServerIsOrphaned ==
  \A s \in Tasks : Running(s) =>
    \/ managed = s
    \/ pc[s] = "storing"
    \/ \E c \in Tasks : taken[c] = s /\ pc[c] = "signalling"

(* Starts that nobody stops agree on the port they return: "returns its    *)
(* existing port without starting a second one".                           *)
StartsAgree ==
  (\A c \in Tasks : op[c] \in {"none", "start"})
    => \A c, d \in Tasks : result[c] \in Tasks /\ result[d] \in Tasks => result[c] = result[d]

(* Every operation returns, however long connections take to drain. *)
OperationsReturn == \A c \in Tasks : pc[c] # "idle" ~> pc[c] = "done"

(* In the end nothing listens but the manager's server, also when a stop   *)
(* or a restart gave up waiting for the server that it took.               *)
OnlyTheManagedListens == \A s \in Tasks : <>[](server[s] = "serving" => managed = s)

=============================================================================
