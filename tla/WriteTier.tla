----------------------------- MODULE WriteTier -----------------------------
(***************************************************************************)
(* What the write tier promises its operator, with nothing of how the      *)
(* permit, the slot, the channels and the timers bring it about: calls are *)
(* considered one at a time, a call is answered at most once and only      *)
(* while it is the one considered, it is sent only with an operator's yes  *)
(* to it (or with the human gate switched off), and a call once refused is *)
(* never sent.                                                             *)
(***************************************************************************)
CONSTANTS Calls, NoCall, AutoApprove

VARIABLES turn,     \* the call being considered or executed, if any
          stage,    \* how far each call has come
          answer    \* the operator's answer to each call

tierVars == <<turn, stage, answer>>

TierInit ==
  /\ turn = NoCall
  /\ stage = [c \in Calls |-> "new"]
  /\ answer = [c \in Calls |-> "none"]

Advance(c, from, to) ==
  /\ stage[c] = from
  /\ stage' = [stage EXCEPT ![c] = to]

Request(c) == Advance(c, "new", "requested") /\ UNCHANGED <<turn, answer>>

Consider(c) ==
  /\ turn = NoCall
  /\ turn' = c
  /\ Advance(c, "requested", "considered")
  /\ UNCHANGED answer

Answer(c, value) ==
  /\ turn = c
  /\ stage[c] = "considered"
  /\ answer[c] = "none"
  /\ answer' = [answer EXCEPT ![c] = value]
  /\ UNCHANGED <<turn, stage>>

Authorize(c) ==
  /\ AutoApprove \/ answer[c] = "yes"
  /\ Advance(c, "considered", "authorized")
  /\ UNCHANGED <<turn, answer>>

Execute(c) == Advance(c, "authorized", "sent") /\ UNCHANGED <<turn, answer>>

Finish(c) ==
  /\ turn' = NoCall
  /\ Advance(c, "sent", "executed")
  /\ UNCHANGED answer

(* Before its turn or during it, a call may be refused: invalid, over the  *)
(* quota, denied, not answered in time (or answered too late).             *)
Refuse(c) ==
  \/ /\ Advance(c, "requested", "refused")
     /\ UNCHANGED <<turn, answer>>
  \/ /\ Advance(c, "considered", "refused")
     /\ turn' = NoCall
     /\ UNCHANGED answer

TierNext ==
  \E c \in Calls :
    \/ Request(c) \/ Consider(c) \/ Authorize(c) \/ Execute(c) \/ Finish(c) \/ Refuse(c)
    \/ \E value \in {"yes", "no"} : Answer(c, value)

TierSpec == TierInit /\ [][TierNext]_tierVars

(* The process around the tier may end at any moment, and every call under *)
(* way ends with it: none of them is sent afterwards, by a later process.  *)
(* Calls that were sent count as executed, as far as anybody can know.     *)
AllEnd ==
  /\ turn' = NoCall
  /\ stage' = [c \in Calls |->
                 IF stage[c] \in {"requested", "considered", "authorized"} THEN "refused"
                 ELSE IF stage[c] = "sent" THEN "executed" ELSE stage[c]]
  /\ UNCHANGED answer

RestartedTierSpec == TierInit /\ [][TierNext \/ AllEnd]_tierVars

=============================================================================
