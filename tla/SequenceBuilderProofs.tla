----------------------- MODULE SequenceBuilderProofs -----------------------
(***************************************************************************)
(* Proofs about SequenceBuilder, for requests of any length over any set   *)
(* of steps.  The invariant says of the steps processed so far where their *)
(* instructions are, which ids their buckets have, and that they fit.      *)
(***************************************************************************)
EXTENDS SequenceBuilder, FiniteSetTheorems, SequenceTheorems, TLAPS

(* A step is what its kind says. *)
LEMMA StepTypes ==
  ASSUME TypeOK, NEW i \in 1 .. Len(steps)
  PROVE  /\ steps[i].kind \in {"withdraw", "call"}
         /\ steps[i].def \in Definitions
         /\ steps[i].component \in BOOLEAN
         /\ steps[i].kind = "withdraw" => steps[i].key \in Keys
         /\ steps[i].kind = "call" => steps[i].args \in Seq(Keys \cup {Literal})
<1>1. steps[i] \in WithdrawSteps \cup CallSteps
  BY StepAssumption DEF TypeOK
<1>2. CASE steps[i] \in WithdrawSteps
  BY <1>2 DEF WithdrawSteps
<1>3. CASE steps[i] \in CallSteps
  BY <1>3 DEF CallSteps
<1> QED BY <1>1, <1>2, <1>3

(* What an encoded argument list is, when the step's keys are bound. *)
LEMMA EncodedTypes ==
  ASSUME TypeOK, NEW i \in 1 .. Len(steps), steps[i].kind = "call", CallVerdict(steps[i]) = "Ok"
  PROVE  EncodedArgs(steps[i]) \in Seq(Int)
<1> DEFINE args == steps[i].args
<1>1. args \in Seq(Keys \cup {Literal})
  BY StepTypes
<1>2. \A j \in 1 .. Len(args) : args[j] \in Keys => args[j] \in DOMAIN workspace_ids
  BY DEF CallVerdict, Bound
<1>3. \A k \in DOMAIN workspace_ids : workspace_ids[k] \in Int
  BY DEF TypeOK
<1>4. \A j \in 1 .. Len(args) :
        (IF args[j] \in Keys THEN workspace_ids[args[j]] ELSE LiteralId) \in Int
  BY <1>2, <1>3 DEF LiteralId
<1>5. Len(args) \in Nat
  BY <1>1
<1> HIDE DEF args
<1>6. [j \in 1 .. Len(args) |-> IF args[j] \in Keys THEN workspace_ids[args[j]] ELSE LiteralId]
        \in [1 .. Len(args) -> Int]
  BY <1>4
<1>7. [j \in 1 .. Len(args) |-> IF args[j] \in Keys THEN workspace_ids[args[j]] ELSE LiteralId]
        \in Seq(Int)
  BY <1>5, <1>6
<1> QED BY <1>7 DEF EncodedArgs, args

-----------------------------------------------------------------------------
(* The number of withdrawals before a step is a number, does not decrease, *)
(* and grows by one after a withdrawal.                                    *)
LEMMA WithdrawsCount ==
  ASSUME NEW i \in Nat
  PROVE  /\ IsFiniteSet({j \in 1 .. i - 1 : steps[j].kind = "withdraw"})
         /\ WithdrawsBefore(i) \in Nat
<1>1. IsFiniteSet(1 .. i - 1)
  BY FS_Interval
<1>2. {j \in 1 .. i - 1 : steps[j].kind = "withdraw"} \in SUBSET (1 .. i - 1)
  OBVIOUS
<1> QED BY <1>1, <1>2, FS_Subset, FS_CardinalityType DEF WithdrawsBefore

LEMMA WithdrawsType == \A i \in Nat : WithdrawsBefore(i) \in Nat
  BY WithdrawsCount, Zenon

LEMMA WithdrawsGrow ==
  ASSUME NEW i \in Nat \ {0}
  PROVE  WithdrawsBefore(i + 1) =
           IF steps[i].kind = "withdraw" THEN WithdrawsBefore(i) + 1 ELSE WithdrawsBefore(i)
<1> DEFINE before == {j \in 1 .. i - 1 : steps[j].kind = "withdraw"}
           upto == {j \in 1 .. (i + 1) - 1 : steps[j].kind = "withdraw"}
<1>1. IsFiniteSet(before)
  BY WithdrawsCount
<1>2. i \notin before
  OBVIOUS
<1>3. CASE steps[i].kind = "withdraw"
  <2>1. upto = before \cup {i}
    BY <1>3
  <2> QED BY <2>1, <1>1, <1>2, <1>3, FS_AddElement DEF WithdrawsBefore
<1>4. CASE steps[i].kind # "withdraw"
  <2>1. upto = before
    BY <1>4
  <2> QED BY <2>1, <1>4 DEF WithdrawsBefore
<1> QED BY <1>3, <1>4

LEMMA WithdrawsMonotone ==
  ASSUME NEW i \in Nat, NEW k \in Nat, i =< k
  PROVE  WithdrawsBefore(i) =< WithdrawsBefore(k)
<1>1. {j \in 1 .. i - 1 : steps[j].kind = "withdraw"}
        \in SUBSET {j \in 1 .. k - 1 : steps[j].kind = "withdraw"}
  OBVIOUS
<1> QED BY <1>1, WithdrawsCount, FS_Subset DEF WithdrawsBefore

LEMMA WithdrawsFrame ==
  ASSUME steps' = steps, NEW i \in Nat
  PROVE  WithdrawsBefore(i)' = WithdrawsBefore(i)
  BY DEF WithdrawsBefore

-----------------------------------------------------------------------------
(* Every instruction is for a step that was processed. *)
StepsAreOld == \A q \in 1 .. Len(instructions) : instructions[q].step \in 1 .. index - 1

(* No two buckets have one id, and the next id is not in use. *)
PutsAreFresh ==
  \A q, r \in 1 .. Len(instructions) :
    instructions[q].op = "put" =>
      /\ instructions[q].id \in 0 .. next_workspace_id - 1
      /\ Puts(r, instructions[q].id) => r = q

(* The key table has the keys of the withdrawals processed, and the bucket *)
(* of each is on the workspace under the id the table gives.               *)
IsBucket(q, id, key) ==
  /\ Puts(q, id)
  /\ q - 1 \in 1 .. Len(instructions)
  /\ instructions[q - 1].op = "withdraw"
  /\ steps[instructions[q - 1].step].key = key

KeysHaveBuckets ==
  \A k \in DOMAIN workspace_ids :
    \E q \in 1 .. Len(instructions) : IsBucket(q, workspace_ids[k], k)

KeysAreOfWithdraws ==
  /\ \A k \in DOMAIN workspace_ids :
       \E j \in 1 .. index - 1 : steps[j].kind = "withdraw" /\ steps[j].key = k
  /\ \A j \in 1 .. index - 1 :
       steps[j].kind = "withdraw" => steps[j].key \in DOMAIN workspace_ids

(* The instructions of step i stand where the steps before it put them.    *)
Laid(i) ==
  LET p == i + WithdrawsBefore(i) IN
  /\ instructions[p].step = i
  /\ instructions[p].op = steps[i].kind
  /\ steps[i].kind = "withdraw" =>
       instructions[p + 1] = [op |-> "put", step |-> i, args |-> << >>, id |-> WithdrawsBefore(i)]

Layout ==
  /\ next_workspace_id = WithdrawsBefore(index)
  /\ Len(instructions) = index - 1 + WithdrawsBefore(index)
  /\ \A i \in 1 .. index - 1 : Laid(i)

(* What a processed step has shown of itself. *)
GoodStep(i) ==
  /\ steps[i].def.known
  /\ ShapeFits(steps[i])
  /\ steps[i].kind = "withdraw" =>
       /\ steps[i].component
       /\ steps[i].def.arity = 2
       /\ \A j \in 1 .. i - 1 : steps[j].kind = "withdraw" => steps[j].key # steps[i].key
  /\ steps[i].kind = "call" =>
       /\ Len(steps[i].args) = steps[i].def.arity
       /\ \A a \in 1 .. Len(steps[i].args) : steps[i].args[a] \in Keys =>
            \E j \in 1 .. i - 1 : steps[j].kind = "withdraw" /\ steps[j].key = steps[i].args[a]

HasCall == \E i \in 1 .. Len(steps) : steps[i].kind = "call"

Judged ==
  /\ \A i \in 1 .. index - 1 : GoodStep(i)
  /\ result \in {"building", "Ok", "LookupFailed", "Panic"} => HasCall
  /\ result = "Ok" => index = Len(steps) + 1
  /\ result \in Refusals => ~ WellFormed
  /\ result = "Panic" => WithdrawsBefore(Len(steps) + 1) > MaxWorkspaceId

BuilderInv ==
  /\ TypeOK
  /\ StepsAreOld
  /\ PutsAreFresh
  /\ KeysHaveBuckets
  /\ KeysAreOfWithdraws
  /\ Layout
  /\ ReferencesResolve
  /\ Judged

(* The first state: nothing is processed. *)
LEMMA BuilderInit == Init => BuilderInv
<1> SUFFICES ASSUME Init PROVE BuilderInv
  OBVIOUS
<1>1. steps \in Seq(Steps)
  <2>1. PICK n \in 0 .. MaxSteps : steps \in [1 .. n -> Steps]
    BY DEF Init
  <2>2. n \in Nat
    BY StepAssumption
  <2> QED BY <2>1, <2>2
<1>2. WithdrawsBefore(1) = 0
  <2>1. {j \in 1 .. 1 - 1 : steps[j].kind = "withdraw"} = {}
    OBVIOUS
  <2> QED BY <2>1, FS_EmptySet DEF WithdrawsBefore
<1>3. Len(steps) \in Nat
  BY <1>1
<1>4. DOMAIN workspace_ids = {} /\ Len(instructions) = 0 /\ index = 1
  BY DEF Init
<1>5. TypeOK
  BY <1>1, <1>3, <1>4, IdAssumption DEF Init, TypeOK
<1>6. StepsAreOld /\ PutsAreFresh /\ KeysHaveBuckets /\ KeysAreOfWithdraws /\ ReferencesResolve
  BY <1>4 DEF StepsAreOld, PutsAreFresh, KeysHaveBuckets, KeysAreOfWithdraws, ReferencesResolve
<1>7. Layout
  BY <1>2, <1>4 DEF Init, Layout
<1>8. Judged
  BY <1>4 DEF Init, Judged, Refusals
<1> QED BY <1>5, <1>6, <1>7, <1>8 DEF BuilderInv

-----------------------------------------------------------------------------
(* The step a successful action processes has shown to be good, by what    *)
(* the key table says of the steps before it.                              *)
LEMMA GoodByVerdict ==
  ASSUME BuilderInv, index \in 1 .. Len(steps), Verdict(steps[index]) = "Ok"
  PROVE  GoodStep(index)
<1> DEFINE s == steps[index]
<1>1. s.kind \in {"withdraw", "call"} /\ s.def \in Definitions /\ s.component \in BOOLEAN
  BY StepTypes DEF BuilderInv
<1>2. KeysAreOfWithdraws
  BY DEF BuilderInv
<1>3. CASE s.kind = "withdraw"
  <2>1. WithdrawVerdict(s) = "Ok"
    BY <1>3 DEF Verdict
  <2>2. s.key \notin DOMAIN workspace_ids /\ s.component /\ s.def.known /\ IsWithdrawShaped(s.def)
    BY <2>1 DEF WithdrawVerdict, Bound
  <2>3. \A j \in 1 .. index - 1 : steps[j].kind = "withdraw" => steps[j].key # s.key
    BY <1>2, <2>2 DEF KeysAreOfWithdraws
  <2> QED BY <1>1, <1>3, <2>2, <2>3 DEF GoodStep, IsWithdrawShaped, ShapeFits, Definitions
<1>4. CASE s.kind = "call"
  <2>1. CallVerdict(s) = "Ok"
    BY <1>4 DEF Verdict
  <2>2. s.def.known /\ Len(s.args) = s.def.arity /\ ShapeFits(s)
    BY <2>1 DEF CallVerdict
  <2>3. \A i \in 1 .. Len(s.args) : s.args[i] \in Keys => s.args[i] \in DOMAIN workspace_ids
    BY <2>1 DEF CallVerdict, Bound
  <2>4. \A i \in 1 .. Len(s.args) : s.args[i] \in Keys =>
          \E j \in 1 .. index - 1 : steps[j].kind = "withdraw" /\ steps[j].key = s.args[i]
    BY <1>2, <2>3 DEF KeysAreOfWithdraws
  <2> QED BY <1>4, <2>2, <2>4 DEF GoodStep
<1> QED BY <1>1, <1>3, <1>4

(* A step that is refused is not good, so the request makes no sense.      *)
LEMMA BadByVerdict ==
  ASSUME BuilderInv, index \in 1 .. Len(steps), Verdict(steps[index]) # "Ok"
  PROVE  ~ WellFormed
<1> DEFINE s == steps[index]
<1>1. s.kind \in {"withdraw", "call"} /\ s.def \in Definitions /\ s.component \in BOOLEAN
  BY StepTypes DEF BuilderInv
<1>2. KeysAreOfWithdraws
  BY DEF BuilderInv
<1>3. SUFFICES ASSUME GoodStep(index) PROVE FALSE
  BY DEF WellFormed, GoodStep
<1>4. CASE s.kind = "withdraw"
  <2>1. s.def.known /\ ShapeFits(s) /\ s.component /\ s.def.arity = 2
    BY <1>3, <1>4 DEF GoodStep
  <2>2. \A j \in 1 .. index - 1 : steps[j].kind = "withdraw" => steps[j].key # s.key
    BY <1>3, <1>4 DEF GoodStep
  <2>3. ~ Bound(s.key)
    BY <1>2, <2>2 DEF KeysAreOfWithdraws, Bound
  <2>4. WithdrawVerdict(s) = "Ok"
    BY <1>1, <2>1, <2>3 DEF WithdrawVerdict, IsWithdrawShaped, ShapeFits, Definitions
  <2> QED BY <1>4, <2>4 DEF Verdict
<1>5. CASE s.kind = "call"
  <2>1. s.def.known /\ ShapeFits(s) /\ Len(s.args) = s.def.arity
    BY <1>3, <1>5 DEF GoodStep
  <2>2. \A i \in 1 .. Len(s.args) : s.args[i] \in Keys =>
          \E j \in 1 .. index - 1 : steps[j].kind = "withdraw" /\ steps[j].key = s.args[i]
    BY <1>3, <1>5 DEF GoodStep
  <2>3. \A i \in 1 .. Len(s.args) : s.args[i] \in Keys => Bound(s.args[i])
    BY <1>2, <2>2 DEF KeysAreOfWithdraws, Bound
  <2>4. CallVerdict(s) = "Ok"
    BY <2>1, <2>3 DEF CallVerdict
  <2> QED BY <1>5, <2>4 DEF Verdict
<1> QED BY <1>1, <1>4, <1>5

(* The verdict of a refused step is the name of a refusal. *)
LEMMA VerdictNames ==
  ASSUME NEW s, Verdict(s) # "Ok"
  PROVE  Verdict(s) \in Refusals
  BY DEF Verdict, WithdrawVerdict, CallVerdict, Refusals

-----------------------------------------------------------------------------
(* A step that changes nothing but the result leaves all but the judgement *)
(* as it was.                                                              *)
LEMMA ResultStep ==
  ASSUME BuilderInv, UNCHANGED <<steps, index, instructions, workspace_ids, next_workspace_id>>,
         result' \in {"new", "building", "Ok", "LookupFailed", "Panic"} \cup Refusals,
         Judged'
  PROVE  BuilderInv'
<1> USE DEF BuilderInv
<1>1. TypeOK'
  BY DEF TypeOK
<1>2. StepsAreOld' /\ PutsAreFresh' /\ KeysAreOfWithdraws'
  BY DEF StepsAreOld, PutsAreFresh, KeysAreOfWithdraws, Puts
<1>3. KeysHaveBuckets'
  BY DEF KeysHaveBuckets, IsBucket, Puts
<1>4. Layout'
  BY DEF Layout, Laid, WithdrawsBefore
<1>5. ReferencesResolve'
  <2>1. \A q, p, id, key : Provides(q, p, id, key) => Provides(q, p, id, key)'
    BY DEF Provides, Puts
  <2> QED BY <2>1 DEF ReferencesResolve
<1> QED BY <1>1, <1>2, <1>3, <1>4, <1>5

(* What Judged says of the steps processed does not depend on the result.  *)
LEMMA JudgedFrame ==
  ASSUME UNCHANGED <<steps, index>>
  PROVE  /\ WellFormed' <=> WellFormed
         /\ HasCall' <=> HasCall
         /\ (\A i \in 1 .. index - 1 : GoodStep(i)) => (\A i \in 1 .. index - 1 : GoodStep(i))'
         /\ WithdrawsBefore(Len(steps) + 1)' = WithdrawsBefore(Len(steps) + 1)
<1>1. WellFormed' <=> WellFormed
  BY DEF WellFormed, ShapeFits
<1>2. HasCall' <=> HasCall
  BY DEF HasCall
<1>3. (\A i \in 1 .. index - 1 : GoodStep(i)) => (\A i \in 1 .. index - 1 : GoodStep(i))'
  BY DEF GoodStep, ShapeFits
<1>4. WithdrawsBefore(Len(steps) + 1)' = WithdrawsBefore(Len(steps) + 1)
  BY DEF WithdrawsBefore
<1> QED BY <1>1, <1>2, <1>3, <1>4

LEMMA CheckListStep == BuilderInv /\ CheckList => BuilderInv'
<1> SUFFICES ASSUME BuilderInv, CheckList PROVE BuilderInv'
  OBVIOUS
<1>1. UNCHANGED <<steps, index, instructions, workspace_ids, next_workspace_id>>
  BY DEF CheckList
<1>2. result' \in {"EmptySequence", "NoCallStep", "building"}
  BY DEF CheckList
<1>3. Len(steps) \in Nat /\ (steps # << >> => Len(steps) > 0)
  BY DEF BuilderInv, TypeOK
<1>4. result' = "building" => HasCall
  <2> SUFFICES ASSUME result' = "building" PROVE HasCall
    OBVIOUS
  <2>1. PICK i \in 1 .. Len(steps) : steps[i].kind # "withdraw"
    BY DEF CheckList
  <2>2. steps[i].kind = "call"
    BY <2>1, StepTypes DEF BuilderInv
  <2> QED BY <2>2 DEF HasCall
<1>5. result' # "building" => ~ WellFormed
  BY <1>3 DEF CheckList, WellFormed
<1>6. Judged'
  BY <1>1, <1>2, <1>4, <1>5, JudgedFrame DEF BuilderInv, Judged, Refusals
<1> QED BY <1>1, <1>2, <1>6, ResultStep DEF Refusals

LEMMA RefuseStep == BuilderInv /\ Refuse => BuilderInv'
<1> SUFFICES ASSUME BuilderInv, Refuse PROVE BuilderInv'
  OBVIOUS
<1>1. UNCHANGED <<steps, index, instructions, workspace_ids, next_workspace_id>>
  BY DEF Refuse
<1>2. index \in 1 .. Len(steps)
  BY DEF Refuse, BuilderInv, TypeOK
<1>3. result' \in Refusals
  BY VerdictNames DEF Refuse
<1>4. ~ WellFormed
  BY <1>2, BadByVerdict DEF Refuse
<1>5. Judged'
  BY <1>1, <1>3, <1>4, JudgedFrame DEF BuilderInv, Judged, Refusals
<1> QED BY <1>1, <1>3, <1>5, ResultStep

(* The ids have run out: as many withdrawals as there are ids came before. *)
LEMMA OverflowStep == BuilderInv /\ Overflow => BuilderInv'
<1> SUFFICES ASSUME BuilderInv, Overflow PROVE BuilderInv'
  OBVIOUS
<1>1. UNCHANGED <<steps, index, instructions, workspace_ids, next_workspace_id>>
  BY DEF Overflow
<1>2. index \in Nat \ {0} /\ index =< Len(steps) /\ Len(steps) \in Nat
  BY DEF Overflow, Processing, BuilderInv, TypeOK
<1>3. WithdrawsBefore(index) = MaxWorkspaceId
  BY DEF Overflow, BuilderInv, Layout
<1>4. WithdrawsBefore(index + 1) = MaxWorkspaceId + 1
  BY <1>2, <1>3, WithdrawsGrow DEF Overflow, Processing
<1>5. WithdrawsBefore(index + 1) =< WithdrawsBefore(Len(steps) + 1)
  BY <1>2, WithdrawsMonotone
<1>6. WithdrawsBefore(Len(steps) + 1) > MaxWorkspaceId
  <2>1. WithdrawsBefore(Len(steps) + 1) \in Nat
    BY <1>2, WithdrawsType
  <2> QED BY <2>1, <1>4, <1>5, IdAssumption
<1>7. Judged'
  BY <1>1, <1>6, JudgedFrame, IdAssumption DEF BuilderInv, Judged, Refusals, Overflow, Processing
<1> QED BY <1>1, <1>7, ResultStep DEF Overflow

LEMMA LookupFailsStep == BuilderInv /\ LookupFails => BuilderInv'
<1> SUFFICES ASSUME BuilderInv, LookupFails PROVE BuilderInv'
  OBVIOUS
<1>1. UNCHANGED <<steps, index, instructions, workspace_ids, next_workspace_id>>
  BY DEF LookupFails
<1>2. Judged'
  BY <1>1, JudgedFrame DEF BuilderInv, Judged, Refusals, LookupFails
<1> QED BY <1>1, <1>2, ResultStep DEF LookupFails

LEMMA FinishStep == BuilderInv /\ Finish => BuilderInv'
<1> SUFFICES ASSUME BuilderInv, Finish PROVE BuilderInv'
  OBVIOUS
<1>1. UNCHANGED <<steps, index, instructions, workspace_ids, next_workspace_id>>
  BY DEF Finish
<1>2. index = Len(steps) + 1
  BY DEF Finish, BuilderInv, TypeOK
<1>3. Judged'
  BY <1>1, <1>2, JudgedFrame DEF BuilderInv, Judged, Refusals, Finish
<1> QED BY <1>1, <1>3, ResultStep DEF Finish

-----------------------------------------------------------------------------
(* The instructions of the steps before this one are in the list, and stay *)
(* what they are when the list grows.                                      *)
LEMMA EarlierLaid ==
  ASSUME Layout, index \in Nat, NEW i \in 1 .. index - 1
  PROVE  /\ i \in Nat \ {0} /\ Laid(i)
         /\ i + WithdrawsBefore(i) \in 1 .. Len(instructions)
         /\ steps[i].kind = "withdraw" => i + WithdrawsBefore(i) + 1 \in 1 .. Len(instructions)
<1>1. i \in Nat \ {0} /\ i =< index /\ i + 1 =< index /\ i + 1 \in Nat
  OBVIOUS
<1>2. /\ WithdrawsBefore(i) \in Nat /\ WithdrawsBefore(i + 1) \in Nat
      /\ WithdrawsBefore(index) \in Nat
  BY <1>1, WithdrawsType
<1>3. WithdrawsBefore(i) =< WithdrawsBefore(index)
  BY <1>1, WithdrawsMonotone
<1>4. WithdrawsBefore(i + 1) =< WithdrawsBefore(index)
  BY <1>1, WithdrawsMonotone
<1>5. steps[i].kind = "withdraw" => WithdrawsBefore(i + 1) = WithdrawsBefore(i) + 1
  BY <1>1, WithdrawsGrow
<1>6. Len(instructions) = index - 1 + WithdrawsBefore(index) /\ Laid(i)
  BY DEF Layout
<1>7. i + WithdrawsBefore(i) \in 1 .. Len(instructions)
  BY <1>1, <1>2, <1>3, <1>6
<1>8. ASSUME steps[i].kind = "withdraw"
      PROVE  i + WithdrawsBefore(i) + 1 \in 1 .. Len(instructions)
  <2>1. WithdrawsBefore(i) + 1 =< WithdrawsBefore(index)
    BY <1>4, <1>5, <1>8
  <2> QED BY <1>1, <1>2, <1>6, <2>1
<1> QED BY <1>1, <1>6, <1>7, <1>8

LEMMA LaidFrame ==
  ASSUME NEW i \in Nat, NEW n \in Nat, Laid(i), steps' = steps,
         \A q \in 1 .. n : instructions'[q] = instructions[q],
         i + WithdrawsBefore(i) \in 1 .. n,
         steps[i].kind = "withdraw" => i + WithdrawsBefore(i) + 1 \in 1 .. n
  PROVE  Laid(i)'
<1>1. WithdrawsBefore(i)' = WithdrawsBefore(i)
  BY WithdrawsFrame
<1> QED BY <1>1 DEF Laid

-----------------------------------------------------------------------------
(* A call: one instruction at the end of the list. *)
LEMMA CallStepStep == BuilderInv /\ CallStep => BuilderInv'
<1> SUFFICES ASSUME BuilderInv, CallStep PROVE BuilderInv'
  OBVIOUS
<1> DEFINE s == steps[index]
           n == Len(instructions)
           new == [op |-> "call", step |-> index, args |-> EncodedArgs(s), id |-> LiteralId]
<1>1. TypeOK /\ result = "building" /\ index \in 1 .. Len(steps) /\ Len(steps) \in Nat
  BY DEF CallStep, Processing, BuilderInv, TypeOK
<1>2. s.kind = "call" /\ CallVerdict(s) = "Ok"
  BY DEF CallStep, Processing, Verdict
<1>3. new \in Instructions
  <2>1. EncodedArgs(s) \in Seq(Int)
    BY <1>1, <1>2, EncodedTypes
  <2> QED BY <1>1, <2>1 DEF Instructions, LiteralId
<1>4. /\ instructions' = Append(instructions, new)
      /\ index' = index + 1
      /\ UNCHANGED <<steps, workspace_ids, next_workspace_id, result>>
  BY DEF CallStep
<1>5. /\ n \in Nat
      /\ Len(instructions)' = n + 1
      /\ \A q \in 1 .. n : instructions'[q] = instructions[q]
      /\ instructions'[n + 1] = new
  BY <1>1, <1>3, <1>4, AppendProperties DEF TypeOK
<1>6. new.op = "call" /\ new.step = index /\ new.args = EncodedArgs(s)
  OBVIOUS
<1>7. index - 1 + 1 = index /\ (index + 1) - 1 = index
  BY <1>1
<1>8. TypeOK'
  BY <1>1, <1>3, <1>4, AppendProperties DEF TypeOK
<1> HIDE DEF n, new
<1>9. StepsAreOld'
  BY <1>1, <1>4, <1>5, <1>6 DEF BuilderInv, StepsAreOld
<1>10. PutsAreFresh'
  BY <1>4, <1>5, <1>6 DEF BuilderInv, PutsAreFresh, Puts, n
<1>11. KeysHaveBuckets'
  <2> SUFFICES ASSUME NEW k \in DOMAIN workspace_ids
      PROVE \E q \in 1 .. n + 1 : IsBucket(q, workspace_ids[k], k)'
    BY <1>4, <1>5 DEF KeysHaveBuckets
  <2>1. PICK q \in 1 .. n : IsBucket(q, workspace_ids[k], k)
    BY DEF BuilderInv, KeysHaveBuckets, n
  <2>2. IsBucket(q, workspace_ids[k], k)'
    BY <2>1, <1>4, <1>5 DEF IsBucket, Puts, n
  <2> QED BY <1>5, <2>2
<1>12. KeysAreOfWithdraws'
  BY <1>1, <1>2, <1>4 DEF BuilderInv, KeysAreOfWithdraws
<1>13. Layout'
  <2>0. index \in Nat \ {0} /\ index' = index + 1 /\ steps' = steps
    BY <1>1, <1>4
  <2>1. \A i \in Nat : WithdrawsBefore(i)' = WithdrawsBefore(i)
    BY <1>4, WithdrawsFrame
  <2>2. WithdrawsBefore(index + 1) = WithdrawsBefore(index) /\ WithdrawsBefore(index) \in Nat
    <3>1. index \in Nat \ {0}
      BY <1>1
    <3> QED BY <3>1, <1>2, WithdrawsGrow, WithdrawsType
  <2>3. n = index - 1 + WithdrawsBefore(index) /\ next_workspace_id = WithdrawsBefore(index)
    BY DEF BuilderInv, Layout, n
  <2>4. ASSUME NEW k, k = index PROVE Laid(k)'
    <3>1. k \in Nat /\ k + WithdrawsBefore(k) = n + 1
      BY <1>1, <2>2, <2>3, <2>4
    <3>2. WithdrawsBefore(k)' = WithdrawsBefore(k)
      BY <2>1, <3>1
    <3> QED BY <1>2, <1>4, <1>5, <1>6, <2>4, <3>1, <3>2 DEF Laid
  <2>5. ASSUME NEW i \in 1 .. index - 1 PROVE Laid(i)'
    <3>1. /\ i \in Nat \ {0} /\ Laid(i) /\ i + WithdrawsBefore(i) \in 1 .. n
          /\ steps[i].kind = "withdraw" => i + WithdrawsBefore(i) + 1 \in 1 .. n
      BY <2>0, EarlierLaid DEF BuilderInv, n
    <3>2. n \in Nat /\ \A q \in 1 .. n : instructions'[q] = instructions[q]
      BY <1>5
    <3> QED BY <2>0, <3>1, <3>2, LaidFrame
  <2>6. \A i \in 1 .. (index + 1) - 1 : Laid(i)'
    <3> SUFFICES ASSUME NEW i \in 1 .. index PROVE Laid(i)'
      BY <1>1
    <3>1. CASE i = index
      BY <2>4, <3>1
    <3>2. CASE i \in 1 .. index - 1
      BY <2>5, <3>2
    <3> QED BY <1>1, <3>1, <3>2
  <2>7. ASSUME NEW k, k = index PROVE WithdrawsBefore(k + 1)' = WithdrawsBefore(k + 1)
    BY <1>1, <2>1, <2>7
  <2>8. WithdrawsBefore(index)' = WithdrawsBefore(index + 1)
    BY <1>4, <2>7
  <2>9. next_workspace_id' = WithdrawsBefore(index)'
    BY <1>4, <2>2, <2>3, <2>8
  <2>10. Len(instructions)' = index' - 1 + WithdrawsBefore(index)'
    <3>1. Len(instructions)' = n + 1
      BY <1>5
    <3> QED BY <2>0, <2>2, <2>3, <2>8, <3>1
  <2>11. \A i \in 1 .. index' - 1 : Laid(i)'
    BY <2>0, <2>6
  <2> QED BY <2>9, <2>10, <2>11 DEF Layout
<1>14. ReferencesResolve'
  <2>1. ASSUME NEW q \in 1 .. n, NEW p \in 1 .. n + 1, NEW id, NEW key, Provides(q, p, id, key)
        PROVE  Provides(q, p, id, key)'
    <3>1. q < p /\ instructions'[q] = instructions[q] /\ instructions[q].op = "put"
          /\ instructions[q].id = id
      BY <1>5, <2>1 DEF Provides, Puts
    <3>2. /\ q - 1 \in 1 .. n /\ instructions[q - 1].op = "withdraw"
          /\ steps[instructions[q - 1].step].key = key
      BY <2>1 DEF Provides, n
    <3>3. instructions'[q - 1] = instructions[q - 1] /\ q - 1 \in 1 .. n + 1 /\ steps' = steps
          /\ Len(instructions)' = n + 1
      BY <1>4, <1>5, <3>2
    <3>4. \A r \in 1 .. n + 1 : instructions'[r].op = "put" /\ instructions'[r].id = id => r = q
      <4>1. \A r \in 1 .. n : instructions[r].op = "put" /\ instructions[r].id = id => r = q
        BY <2>1 DEF Provides, Puts, n
      <4>2. instructions'[n + 1].op = "call"
        BY <1>5, <1>6
      <4> QED BY <1>5, <4>1, <4>2
    <3> QED BY <3>1, <3>2, <3>3, <3>4 DEF Provides, Puts
  <2>2. ASSUME NEW p \in 1 .. n, instructions[p].op = "call",
               NEW i \in 1 .. Len(steps[instructions[p].step].args),
               steps[instructions[p].step].args[i] \in Keys
        PROVE  \E q \in 1 .. n : \E id, key :
                 /\ id = instructions[p].args[i]
                 /\ key = steps[instructions[p].step].args[i]
                 /\ Provides(q, p, id, key)'
    <3>1. PICK q \in 1 .. n :
            Provides(q, p, instructions[p].args[i], steps[instructions[p].step].args[i])
      BY <2>2 DEF BuilderInv, ReferencesResolve, n
    <3> QED BY <1>4, <1>5, <2>1, <3>1
  <2>3. ASSUME NEW i \in 1 .. Len(s.args), s.args[i] \in Keys
        PROVE  \E q \in 1 .. n : \E p, id, key :
                 /\ p = n + 1
                 /\ id = EncodedArgs(s)[i]
                 /\ key = s.args[i]
                 /\ Provides(q, p, id, key)'
    <3>1. s.args[i] \in DOMAIN workspace_ids
      BY <1>2, <2>3 DEF CallVerdict, Bound
    <3>2. EncodedArgs(s)[i] = workspace_ids[s.args[i]]
      BY <2>3 DEF EncodedArgs
    <3>3. PICK q \in 1 .. n : IsBucket(q, workspace_ids[s.args[i]], s.args[i])
      BY <3>1 DEF BuilderInv, KeysHaveBuckets, n
    <3>4. Provides(q, n + 1, EncodedArgs(s)[i], s.args[i])
      BY <3>2, <3>3, <1>5 DEF Provides, IsBucket, BuilderInv, PutsAreFresh, Puts, n
    <3> QED BY <1>5, <2>1, <3>4
  <2>4. ASSUME NEW p \in 1 .. n + 1, instructions'[p].op = "call",
               NEW i \in 1 .. Len(steps[instructions'[p].step].args),
               steps[instructions'[p].step].args[i] \in Keys
        PROVE  \E q \in 1 .. n + 1 : \E id, key :
                 /\ id = instructions'[p].args[i]
                 /\ key = steps[instructions'[p].step].args[i]
                 /\ Provides(q, p, id, key)'
    <3>1. CASE p \in 1 .. n
      <4>1. instructions'[p] = instructions[p]
        BY <1>5, <3>1
      <4>2. \E q \in 1 .. n : \E id, key :
                 /\ id = instructions[p].args[i]
                 /\ key = steps[instructions[p].step].args[i]
                 /\ Provides(q, p, id, key)'
        BY <2>2, <2>4, <3>1, <4>1
      <4>3. 1 .. n \subseteq 1 .. n + 1
        BY <1>5
      <4> QED BY <4>1, <4>2, <4>3
    <3>2. CASE p = n + 1
      BY <1>5, <1>6, <2>3, <2>4, <3>2
    <3> QED BY <1>5, <3>1, <3>2
  <2> QED
    BY <1>4, <1>5, <2>4 DEF ReferencesResolve
<1>15. Judged'
  <2>1. GoodStep(index)
    BY <1>1, GoodByVerdict DEF CallStep
  <2>2. \A i \in 1 .. index : GoodStep(i)
    BY <1>1, <2>1 DEF BuilderInv, Judged
  <2>3. \A i \in 1 .. index : GoodStep(i)'
    BY <1>4, <2>2 DEF GoodStep, ShapeFits
  <2>4. HasCall'
    BY <1>1, <1>4 DEF BuilderInv, Judged, HasCall
  <2> QED BY <1>1, <1>4, <1>7, <2>3, <2>4 DEF Judged, Refusals
<1> QED
  BY <1>8, <1>9, <1>10, <1>11, <1>12, <1>13, <1>14, <1>15 DEF BuilderInv

-----------------------------------------------------------------------------
(* A withdrawal: a call, a put under the next id, and a new key. *)
LEMMA WithdrawStep == BuilderInv /\ Withdraw => BuilderInv'
<1> SUFFICES ASSUME BuilderInv, Withdraw PROVE BuilderInv'
  OBVIOUS
<1> DEFINE s == steps[index]
           n == Len(instructions)
           id0 == next_workspace_id
           new == [op |-> "withdraw", step |-> index, args |-> << >>, id |-> LiteralId]
           put == [op |-> "put", step |-> index, args |-> << >>, id |-> id0]
<1>1. /\ TypeOK /\ result = "building" /\ index \in 1 .. Len(steps) /\ Len(steps) \in Nat
      /\ index \in Nat \ {0}
  BY DEF Withdraw, Processing, BuilderInv, TypeOK
<1>2. s.kind = "withdraw" /\ WithdrawVerdict(s) = "Ok" /\ s.key \in Keys
  BY <1>1, StepTypes DEF Withdraw, Processing, Verdict
<1>3. id0 \in Nat /\ id0 + 1 \in 0 .. MaxWorkspaceId
  BY <1>1, IdAssumption DEF Withdraw, TypeOK
<1>4. /\ instructions' = instructions \o <<new, put>>
      /\ index' = index + 1
      /\ next_workspace_id' = id0 + 1
      /\ workspace_ids' = [k \in DOMAIN workspace_ids \cup {s.key} |->
                             IF k = s.key THEN id0 ELSE workspace_ids[k]]
      /\ UNCHANGED <<steps, result>>
  BY DEF Withdraw
<1>5. new \in Instructions /\ put \in Instructions
  BY <1>1, <1>3 DEF Instructions, LiteralId
<1>6. /\ n \in Nat
      /\ Len(instructions)' = n + 2
      /\ \A q \in 1 .. n : instructions'[q] = instructions[q]
      /\ instructions'[n + 1] = new
      /\ instructions'[n + 2] = put
      /\ instructions' \in Seq(Instructions)
  <2>1. instructions \in Seq(Instructions) /\ <<new, put>> \in Seq(Instructions)
    BY <1>1, <1>5 DEF TypeOK
  <2>2. Len(<<new, put>>) = 2 /\ <<new, put>>[1] = new /\ <<new, put>>[2] = put
    OBVIOUS
  <2> HIDE DEF new, put
  <2> QED BY <1>4, <2>1, <2>2, ConcatProperties
<1>7. new.op = "withdraw" /\ new.step = index
  OBVIOUS
<1>8. put.op = "put" /\ put.step = index /\ put.id = id0
  OBVIOUS
<1>9. TypeOK'
  BY <1>1, <1>2, <1>3, <1>4, <1>6 DEF TypeOK
<1> HIDE DEF n, new, put, id0
<1>10. \A r \in 1 .. n + 2 : instructions'[r].op = "put" =>
         \/ r \in 1 .. n /\ instructions'[r] = instructions[r]
         \/ r = n + 2 /\ instructions'[r].id = id0
  <2> SUFFICES ASSUME NEW r \in 1 .. n + 2, instructions'[r].op = "put"
      PROVE \/ r \in 1 .. n /\ instructions'[r] = instructions[r]
            \/ r = n + 2 /\ instructions'[r].id = id0
    OBVIOUS
  <2>1. r \in 1 .. n \/ r = n + 1 \/ r = n + 2
    BY <1>6
  <2>2. r # n + 1
    BY <1>6, <1>7
  <2> QED BY <2>1, <2>2, <1>6, <1>8
<1>11. StepsAreOld'
  <2>1. index' = index + 1 /\ index \in Nat \ {0}
    BY <1>1, <1>4
  <2>2. ASSUME NEW q \in 1 .. n + 2 PROVE instructions'[q].step \in 1 .. index' - 1
    <3>1. q \in 1 .. n \/ q = n + 1 \/ q = n + 2
      BY <1>6
    <3>2. CASE q \in 1 .. n
      <4>1. instructions[q].step \in 1 .. index - 1 /\ instructions'[q] = instructions[q]
        BY <1>6, <3>2 DEF BuilderInv, StepsAreOld, n
      <4> QED BY <2>1, <4>1
    <3>3. CASE q = n + 1 \/ q = n + 2
      <4>1. instructions'[q].step = index
        BY <1>6, <1>7, <1>8, <3>3
      <4> QED BY <2>1, <4>1
    <3> QED BY <3>1, <3>2, <3>3
  <2>3. Len(instructions)' = n + 2
    BY <1>6
  <2> QED BY <2>2, <2>3 DEF StepsAreOld
<1>12. \A q \in 1 .. n : instructions[q].op = "put" =>
         instructions[q].id \in 0 .. id0 - 1 /\ instructions[q].id # id0
  BY <1>3 DEF BuilderInv, PutsAreFresh, n, id0
<1>13. PutsAreFresh'
  <2> SUFFICES ASSUME NEW q \in 1 .. n + 2, NEW r \in 1 .. n + 2, instructions'[q].op = "put"
      PROVE /\ instructions'[q].id \in 0 .. (id0 + 1) - 1
            /\ instructions'[r].op = "put" /\ instructions'[r].id = instructions'[q].id => r = q
    BY <1>4, <1>6 DEF PutsAreFresh, Puts
  <2>1. CASE q \in 1 .. n /\ r \in 1 .. n
    BY <2>1, <1>3, <1>6, <1>12 DEF BuilderInv, PutsAreFresh, Puts, n
  <2>2. CASE q \in 1 .. n /\ r \notin 1 .. n
    <3>1. instructions[q].op = "put" /\ instructions'[q].id = instructions[q].id
      BY <2>2, <1>6
    <3>2. instructions[q].id \in 0 .. id0 - 1 /\ instructions[q].id # id0
      BY <2>2, <3>1, <1>12
    <3>3. instructions'[r].op = "put" => instructions'[r].id = id0
      BY <2>2, <1>10
    <3> QED BY <3>1, <3>2, <3>3, <1>3
  <2>3. CASE q \notin 1 .. n
    <3>1. q = n + 2
      BY <2>3, <1>6, <1>7
    <3> QED BY <3>1, <1>3, <1>6, <1>7, <1>8, <1>12
  <2> QED BY <2>1, <2>2, <2>3
<1>14. KeysHaveBuckets'
  <2> SUFFICES ASSUME NEW k \in DOMAIN workspace_ids \cup {s.key}
      PROVE \E q \in 1 .. n + 2 : IsBucket(q, workspace_ids[k], k)'
    BY <1>4, <1>6 DEF KeysHaveBuckets
  <2>1. CASE k = s.key
    <3>1. workspace_ids'[k] = id0
      BY <2>1, <1>4
    <3>2. (n + 2) - 1 = n + 1 /\ n + 1 \in 1 .. n + 2 /\ n + 2 \in 1 .. n + 2
      BY <1>6
    <3>3. ASSUME NEW q, q = n + 2 PROVE IsBucket(q, workspace_ids[k], k)'
      BY <2>1, <3>1, <3>2, <3>3, <1>4, <1>6, <1>7, <1>8 DEF IsBucket, Puts
    <3> QED BY <3>2, <3>3
  <2>2. CASE k # s.key
    <3>1. k \in DOMAIN workspace_ids /\ workspace_ids'[k] = workspace_ids[k]
      BY <2>2, <1>4
    <3>2. PICK q \in 1 .. n : IsBucket(q, workspace_ids[k], k)
      BY <3>1 DEF BuilderInv, KeysHaveBuckets, n
    <3>3. IsBucket(q, workspace_ids[k], k)'
      BY <3>1, <3>2, <1>4, <1>6 DEF IsBucket, Puts, n
    <3> QED BY <1>6, <3>3
  <2> QED BY <2>1, <2>2
<1>15. KeysAreOfWithdraws'
  <2>1. DOMAIN workspace_ids' = DOMAIN workspace_ids \cup {s.key}
    BY <1>4
  <2>2. (index + 1) - 1 = index
    BY <1>1
  <2>3. \A k \in DOMAIN workspace_ids \cup {s.key} :
          \E j \in 1 .. index : steps[j].kind = "withdraw" /\ steps[j].key = k
    BY <1>1, <1>2 DEF BuilderInv, KeysAreOfWithdraws
  <2>4. \A j \in 1 .. index :
          steps[j].kind = "withdraw" => steps[j].key \in DOMAIN workspace_ids \cup {s.key}
    BY <1>1 DEF BuilderInv, KeysAreOfWithdraws
  <2> QED BY <1>4, <2>1, <2>2, <2>3, <2>4 DEF KeysAreOfWithdraws
<1>16. Layout'
  <2>0. index \in Nat \ {0} /\ index' = index + 1 /\ steps' = steps
    BY <1>1, <1>4
  <2>1. \A i \in Nat : WithdrawsBefore(i)' = WithdrawsBefore(i)
    BY <1>4, WithdrawsFrame
  <2>2. WithdrawsBefore(index + 1) = WithdrawsBefore(index) + 1 /\ WithdrawsBefore(index) \in Nat
    BY <1>1, <1>2, WithdrawsGrow, WithdrawsType
  <2>3. n = index - 1 + WithdrawsBefore(index) /\ id0 = WithdrawsBefore(index)
    BY DEF BuilderInv, Layout, n, id0
  <2>4. ASSUME NEW k, k = index PROVE Laid(k)'
    <3>1. k \in Nat /\ k + WithdrawsBefore(k) = n + 1 /\ (n + 1) + 1 = n + 2
      <4>1. n \in Nat /\ n = k - 1 + WithdrawsBefore(k) /\ WithdrawsBefore(k) \in Nat /\ k \in Nat
        BY <1>6, <2>0, <2>2, <2>3, <2>4
      <4> QED BY <4>1
    <3>2. WithdrawsBefore(k)' = WithdrawsBefore(k)
      BY <2>1, <3>1
    <3>3. put = [op |-> "put", step |-> k, args |-> << >>, id |-> WithdrawsBefore(k)]
      BY <2>3, <2>4 DEF put
    <3>4. /\ instructions'[n + 1] = new /\ instructions'[n + 2] = put
          /\ new.op = "withdraw" /\ new.step = k
      BY <1>6, <1>7, <2>4
    <3>5. steps'[k].kind = "withdraw"
      BY <1>2, <2>0, <2>4
    <3> QED BY <3>1, <3>2, <3>3, <3>4, <3>5 DEF Laid
  <2>5. ASSUME NEW i \in 1 .. index - 1 PROVE Laid(i)'
    <3>1. /\ i \in Nat \ {0} /\ Laid(i) /\ i + WithdrawsBefore(i) \in 1 .. n
          /\ steps[i].kind = "withdraw" => i + WithdrawsBefore(i) + 1 \in 1 .. n
      BY <2>0, EarlierLaid DEF BuilderInv, n
    <3>2. n \in Nat /\ \A q \in 1 .. n : instructions'[q] = instructions[q]
      BY <1>6
    <3> QED BY <2>0, <3>1, <3>2, LaidFrame
  <2>6. \A i \in 1 .. (index + 1) - 1 : Laid(i)'
    <3> SUFFICES ASSUME NEW i \in 1 .. index PROVE Laid(i)'
      BY <1>1
    <3>1. CASE i = index
      BY <2>4, <3>1
    <3>2. CASE i \in 1 .. index - 1
      BY <2>5, <3>2
    <3> QED BY <1>1, <3>1, <3>2
  <2>7. ASSUME NEW k, k = index PROVE WithdrawsBefore(k + 1)' = WithdrawsBefore(k + 1)
    BY <1>1, <2>1, <2>7
  <2>8. WithdrawsBefore(index)' = WithdrawsBefore(index + 1)
    BY <1>4, <2>7
  <2>9. next_workspace_id' = WithdrawsBefore(index)'
    BY <1>4, <2>2, <2>3, <2>8
  <2>10. Len(instructions)' = index' - 1 + WithdrawsBefore(index)'
    <3>1. Len(instructions)' = n + 2
      BY <1>6
    <3> QED BY <2>0, <2>2, <2>3, <2>8, <3>1
  <2>11. \A i \in 1 .. index' - 1 : Laid(i)'
    BY <2>0, <2>6
  <2> QED BY <2>9, <2>10, <2>11 DEF Layout
<1>17. ReferencesResolve'
  <2>1. ASSUME NEW q \in 1 .. n, NEW p \in 1 .. n, NEW id, NEW key, Provides(q, p, id, key)
        PROVE  Provides(q, p, id, key)'
    <3>1. instructions[q].op = "put" /\ instructions[q].id = id /\ id # id0
      BY <2>1, <1>12 DEF Provides, Puts
    <3>2. \A r \in 1 .. n + 2 : instructions'[r].op = "put" /\ instructions'[r].id = id => r = q
      <4>1. \A r \in 1 .. n : instructions[r].op = "put" /\ instructions[r].id = id => r = q
        BY <2>1 DEF Provides, Puts, n
      <4> QED BY <3>1, <4>1, <1>10
    <3>3. q \in 1 .. p - 1 /\ instructions'[q] = instructions[q] /\ q \in 1 .. n + 2
      BY <1>6, <2>1 DEF Provides
    <3>4. /\ q - 1 \in 1 .. n /\ instructions[q - 1].op = "withdraw"
          /\ steps[instructions[q - 1].step].key = key
      BY <2>1 DEF Provides, n
    <3>5. instructions'[q - 1] = instructions[q - 1] /\ q - 1 \in 1 .. n + 2 /\ steps' = steps
          /\ Len(instructions)' = n + 2
      BY <1>4, <1>6, <3>4
    <3> QED BY <3>1, <3>2, <3>3, <3>4, <3>5 DEF Provides, Puts
  <2>2. ASSUME NEW p \in 1 .. n + 2, instructions'[p].op = "call",
               NEW i \in 1 .. Len(steps[instructions'[p].step].args),
               steps[instructions'[p].step].args[i] \in Keys
        PROVE  \E q \in 1 .. n + 2 : \E id, key :
                 /\ id = instructions'[p].args[i]
                 /\ key = steps[instructions'[p].step].args[i]
                 /\ Provides(q, p, id, key)'
    <3>1. p \in 1 .. n /\ instructions'[p] = instructions[p]
      BY <2>2, <1>6, <1>7, <1>8
    <3>2. PICK q \in 1 .. n :
            Provides(q, p, instructions[p].args[i], steps[instructions[p].step].args[i])
      BY <2>2, <3>1 DEF BuilderInv, ReferencesResolve, n
    <3> QED BY <1>6, <2>1, <3>1, <3>2
  <2>3. Len(instructions)' = n + 2 /\ steps' = steps
    BY <1>4, <1>6
  <2> QED
    BY <2>2, <2>3 DEF ReferencesResolve
<1>18. Judged'
  <2>1. GoodStep(index)
    BY <1>1, GoodByVerdict DEF Withdraw
  <2>2. \A i \in 1 .. index : GoodStep(i)
    BY <1>1, <2>1 DEF BuilderInv, Judged
  <2>3. \A i \in 1 .. index : GoodStep(i)'
    BY <1>4, <2>2 DEF GoodStep, ShapeFits
  <2>4. HasCall'
    BY <1>1, <1>4 DEF BuilderInv, Judged, HasCall
  <2>5. (index + 1) - 1 = index
    BY <1>1
  <2> QED BY <1>1, <1>4, <2>3, <2>4, <2>5 DEF Judged, Refusals
<1> QED
  BY <1>9, <1>11, <1>13, <1>14, <1>15, <1>16, <1>17, <1>18 DEF BuilderInv

-----------------------------------------------------------------------------
LEMMA BuilderStep == BuilderInv /\ [Next]_vars => BuilderInv'
<1> SUFFICES ASSUME BuilderInv, [Next]_vars PROVE BuilderInv'
  OBVIOUS
<1>1. CASE UNCHANGED vars
  <2>1. UNCHANGED <<steps, index, instructions, workspace_ids, next_workspace_id, result>>
    BY <1>1 DEF vars
  <2>2. Judged'
    BY <2>1, JudgedFrame DEF BuilderInv, Judged
  <2> QED BY <2>1, <2>2, ResultStep DEF BuilderInv, TypeOK
<1> QED
  BY <1>1, CheckListStep, WithdrawStep, OverflowStep, CallStepStep, RefuseStep, LookupFailsStep,
     FinishStep DEF Next

(* The invariant holds of every request, however long. *)
LEMMA BuilderInvariant == Spec => []BuilderInv
  BY BuilderInit, BuilderStep, PTL DEF Spec

(* Type correctness: ids never leave the range of their type. *)
THEOREM BuilderTypeOK == Spec => []TypeOK
<1>1. BuilderInv => TypeOK
  BY DEF BuilderInv
<1> QED BY <1>1, BuilderInvariant, PTL

(* Every workspace argument names the bucket of the step whose key the     *)
(* caller wrote (encode_call_args, build_sequence_instructions).           *)
THEOREM BuilderReferencesResolve == Spec => []ReferencesResolve
<1>1. BuilderInv => ReferencesResolve
  BY DEF BuilderInv
<1> QED BY <1>1, BuilderInvariant, PTL

(* The instruction list is the step list, in its order. *)
THEOREM BuilderInstructionsFollowSteps == Spec => []InstructionsFollowSteps
<1>1. BuilderInv => InstructionsFollowSteps
  <2> SUFFICES ASSUME BuilderInv, result = "Ok" PROVE InstructionsFollowSteps
    BY DEF InstructionsFollowSteps
  <2>1. index = Len(steps) + 1 /\ Len(steps) \in Nat
    BY DEF BuilderInv, Judged, TypeOK
  <2>2. Len(instructions) = Len(steps) + WithdrawsBefore(Len(steps) + 1)
    BY <2>1, WithdrawsType DEF BuilderInv, Layout
  <2>3. \A i \in 1 .. Len(steps) : Laid(i)
    BY <2>1 DEF BuilderInv, Layout
  <2> QED BY <2>2, <2>3 DEF InstructionsFollowSteps, Laid
<1> QED BY <1>1, BuilderInvariant, PTL

(* The one pass over the steps accepts exactly the requests that make      *)
(* sense, and panics only when the ids run out.                            *)
THEOREM BuilderAcceptsExactlyTheWellFormed == Spec => []AcceptsExactlyTheWellFormed
<1>1. BuilderInv => AcceptsExactlyTheWellFormed
  <2> SUFFICES ASSUME BuilderInv PROVE AcceptsExactlyTheWellFormed
    OBVIOUS
  <2>1. result = "Ok" => WellFormed
    <3> SUFFICES ASSUME result = "Ok" PROVE WellFormed
      OBVIOUS
    <3>1. index = Len(steps) + 1 /\ Len(steps) \in Nat /\ HasCall
      BY DEF BuilderInv, Judged, TypeOK
    <3>2. \A i \in 1 .. Len(steps) : GoodStep(i)
      BY <3>1 DEF BuilderInv, Judged
    <3> QED BY <3>1, <3>2 DEF WellFormed, GoodStep, HasCall
  <2> QED BY <2>1 DEF BuilderInv, Judged, AcceptsExactlyTheWellFormed
<1> QED BY <1>1, BuilderInvariant, PTL

=============================================================================
