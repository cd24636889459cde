------------------------ MODULE ServerManagerProofs ------------------------
(***************************************************************************)
(* Proofs about ServerManager, for any set of tasks.  The invariant says   *)
(* in which hands a server is at each moment of its life: not born, in the *)
(* hands of the start that will store it, the manager's, taken by a stop.  *)
(***************************************************************************)
EXTENDS ServerManager, TLAPS

(* Before a task binds, its name belongs to no server. *)
Unborn(s) ==
  /\ server[s] = "none"
  /\ s \notin told
  /\ s # managed
  /\ \A c \in Tasks : taken[c] # s

(* Between bind and store the server runs and nobody else knows it. *)
InItsStartersHands(s) ==
  /\ Running(s)
  /\ s # managed
  /\ \A c \in Tasks : taken[c] # s

NamesAreFresh ==
  \A s \in Tasks :
    /\ pc[s] \in Places \ {"storing", "done"} => Unborn(s)
    /\ pc[s] = "storing" => InItsStartersHands(s)

TakenIsNotManaged == \A c \in Tasks : taken[c] # NoServer => taken[c] # managed

ManagerInv ==
  /\ TypeOK
  /\ NamesAreFresh
  /\ TakenIsNotManaged
  /\ RunningIsTrue
  /\ NoServerIsOrphaned

(* The initial state is one of these. *)
LEMMA ManagerInit == Init => ManagerInv
  BY TasksAssumption
  DEF Init, ManagerInv, TypeOK, NamesAreFresh, Unborn, InItsStartersHands, TakenIsNotManaged,
      RunningIsTrue, NoServerIsOrphaned, Running, Places, Operations

(* Types. *)
LEMMA ManagerTypeStep == TypeOK /\ [Next]_vars => TypeOK'
<1> SUFFICES ASSUME TypeOK, [Next]_vars PROVE TypeOK'
  OBVIOUS
<1> USE TasksAssumption DEF TypeOK
<1>1. ASSUME NEW c \in Tasks, Call(c) PROVE TypeOK'
  BY <1>1 DEF Call, Goto, Places, Operations
<1>2. ASSUME NEW c \in Tasks, CheckRunning(c) PROVE TypeOK'
  BY <1>2 DEF CheckRunning, Goto, Finish, Places
<1>3. ASSUME NEW c \in Tasks, Bind(c) PROVE TypeOK'
  BY <1>3 DEF Bind, Goto, Places
<1>4. ASSUME NEW c \in Tasks, BindFails(c) PROVE TypeOK'
  BY <1>4 DEF BindFails, Goto, Finish, Places
<1>5. ASSUME NEW c \in Tasks, Store(c) PROVE TypeOK'
  BY <1>5 DEF Store, Goto, Finish, Places
<1>6. ASSUME NEW c \in Tasks, Take(c) PROVE TypeOK'
  BY <1>6 DEF Take, Goto, Places
<1>7. ASSUME NEW c \in Tasks, Signal(c) PROVE TypeOK'
  BY <1>7 DEF Signal, Goto, Places
<1>8. ASSUME NEW c \in Tasks, Stopped(c) PROVE TypeOK'
  BY <1>8 DEF Stopped, Goto, Finish, Places
<1>9. ASSUME NEW c \in Tasks, CloseListener(c) PROVE TypeOK'
  BY <1>9 DEF CloseListener
<1>10. ASSUME NEW c \in Tasks, Drained(c) PROVE TypeOK'
  BY <1>10 DEF Drained
<1>11. CASE UNCHANGED vars
  BY <1>11 DEF vars
<1> QED
  BY <1>1, <1>2, <1>3, <1>4, <1>5, <1>6, <1>7, <1>8, <1>9, <1>10, <1>11 DEF Next, Step

(* Every step keeps the rest of the invariant. *)
LEMMA ManagerStep == ManagerInv /\ [Next]_vars => ManagerInv'
<1> SUFFICES ASSUME ManagerInv, [Next]_vars PROVE ManagerInv'
  OBVIOUS
<1>t. TypeOK /\ TypeOK'
  BY ManagerTypeStep DEF ManagerInv
<1> DEFINE Rest == /\ NamesAreFresh
                   /\ TakenIsNotManaged
                   /\ RunningIsTrue
                   /\ NoServerIsOrphaned
<1> SUFFICES Rest'
  BY <1>t DEF ManagerInv
<1>r. Rest
  BY DEF ManagerInv
<1> USE TasksAssumption, <1>t, <1>r
    DEF TypeOK, NamesAreFresh, Unborn, InItsStartersHands, TakenIsNotManaged,
        RunningIsTrue, NoServerIsOrphaned, Running, Goto
<1>1. ASSUME NEW c \in Tasks, Call(c) PROVE Rest'
  BY <1>1 DEF Call, Places, Operations
<1>2. ASSUME NEW c \in Tasks, CheckRunning(c) PROVE Rest'
  BY <1>2 DEF CheckRunning, Finish, Places
<1>3. ASSUME NEW c \in Tasks, Bind(c) PROVE Rest'
  BY <1>3 DEF Bind, Places
<1>4. ASSUME NEW c \in Tasks, BindFails(c) PROVE Rest'
  BY <1>4 DEF BindFails, Finish, Places
<1>5. ASSUME NEW c \in Tasks, Store(c) PROVE Rest'
  BY <1>5 DEF Store, Finish, Places
<1>6. ASSUME NEW c \in Tasks, Take(c) PROVE Rest'
  BY <1>6 DEF Take, Places
<1>7. ASSUME NEW c \in Tasks, Signal(c) PROVE Rest'
  BY <1>7 DEF Signal, Places
<1>8. ASSUME NEW c \in Tasks, Stopped(c) PROVE Rest'
  BY <1>8 DEF Stopped, Finish, Places
<1>9. ASSUME NEW c \in Tasks, CloseListener(c) PROVE Rest'
  BY <1>9 DEF CloseListener, Places
<1>10. ASSUME NEW c \in Tasks, Drained(c) PROVE Rest'
  BY <1>10 DEF Drained, Places
<1>11. CASE UNCHANGED vars
  BY <1>11 DEF vars
<1> QED
  BY <1>1, <1>2, <1>3, <1>4, <1>5, <1>6, <1>7, <1>8, <1>9, <1>10, <1>11 DEF Next, Step

(* The invariant holds throughout. *)
THEOREM ManagerInvariance == Spec => []ManagerInv
  BY ManagerInit, ManagerStep, PTL DEF Spec

(* Type correctness of the manager. *)
THEOREM ManagerTypeOK == Spec => []TypeOK
  BY ManagerInvariance, PTL DEF ManagerInv

(* is_running never speaks of a server that does not listen. *)
THEOREM ManagerRunningIsTrue == Spec => []RunningIsTrue
  BY ManagerInvariance, PTL DEF ManagerInv

(* No interleaving of starts, stops and restarts leaves a server that runs *)
(* and that nobody will ever tell to stop.                                 *)
THEOREM ManagerOrphansNone == Spec => []NoServerIsOrphaned
  BY ManagerInvariance, PTL DEF ManagerInv

=============================================================================
