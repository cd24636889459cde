-------------------------- MODULE SequenceBuilder --------------------------
(***************************************************************************)
(* How call_ootle_write_sequence (src/tools/sequence.rs) turns its steps   *)
(* into the instructions of one transaction.  Each step is looked up in    *)
(* the ABI on chain, one RPC after the other; a withdraw step becomes a    *)
(* call and a put on the transaction's workspace under a fresh id, and a   *)
(* later call may name that bucket by the withdraw step's key.             *)
(*                                                                         *)
(* A step carries what the indexer will say of it: whether the address is  *)
(* a component's, and the function's ABI entry, reduced to what is asked   *)
(* of it: does it exist, has it a `self`, how many other arguments.        *)
(***************************************************************************)
EXTENDS Integers, Sequences, FiniteSets

CONSTANTS Keys,            \* workspace keys, the callers' labels
          Literal,         \* any argument that is not a workspace key
          MaxWorkspaceId,  \* WorkspaceId::MAX
          Steps,           \* the steps a request is made of
          MaxSteps         \* bound of the model: steps in a request

Definitions == [known : BOOLEAN, self : BOOLEAN, arity : Nat]
WithdrawSteps == [kind : {"withdraw"}, component : BOOLEAN, def : Definitions, key : Keys]
CallSteps == [kind : {"call"}, component : BOOLEAN, def : Definitions,
              args : Seq(Keys \cup {Literal})]

ASSUME KeyAssumption == Literal \notin Keys
ASSUME IdAssumption == MaxWorkspaceId \in Nat
ASSUME StepAssumption == Steps \subseteq WithdrawSteps \cup CallSteps /\ MaxSteps \in Nat

VARIABLES
  steps,            \* the request
  index,            \* the step that is processed
  instructions,     \* what was built, each with the index of the step it is for
  workspace_ids,    \* the key table
  next_workspace_id,
  result            \* "new", "building", "Ok", or the error's name

vars == <<steps, index, instructions, workspace_ids, next_workspace_id, result>>

LiteralId == -1

Init ==
  /\ steps \in UNION {[1 .. n -> Steps] : n \in 0 .. MaxSteps}
  /\ index = 1
  /\ instructions = << >>
  /\ workspace_ids = << >>
  /\ next_workspace_id = 0
  /\ result = "new"

(* execute_write_sequence looks at the list before anything else. *)
CheckList ==
  /\ result = "new"
  /\ result' = IF steps = << >> THEN "EmptySequence"
               ELSE IF \A i \in 1 .. Len(steps) : steps[i].kind = "withdraw" THEN "NoCallStep"
               ELSE "building"
  /\ UNCHANGED <<steps, index, instructions, workspace_ids, next_workspace_id>>

-----------------------------------------------------------------------------
Bound(key) == key \in DOMAIN workspace_ids

(* A method wants a component's address, a function a template's. *)
ShapeFits(s) == s.def.self = s.component

(* withdraw(&self, resource, amount). *)
IsWithdrawShaped(def) == def.self /\ def.arity = 2

(* The checks of a step, in their order; the first that fails names the    *)
(* error.                                                                  *)
MutantWithdrawVerdict(s) ==
  IF ~ s.component THEN "WithdrawAccountMustBeComponent"
  ELSE IF ~ s.def.known THEN "UnknownFunction"
  ELSE IF ~ IsWithdrawShaped(s.def) THEN "NotAWithdrawFunction"
  ELSE "Ok"
WithdrawVerdict(s) ==
  IF Bound(s.key) THEN "DuplicateWorkspaceKey"
  ELSE IF ~ s.component THEN "WithdrawAccountMustBeComponent"
  ELSE IF ~ s.def.known THEN "UnknownFunction"
  ELSE IF ~ IsWithdrawShaped(s.def) THEN "NotAWithdrawFunction"
  ELSE "Ok"

CallVerdict(s) ==
  IF ~ s.def.known THEN "UnknownFunction"
  ELSE IF Len(s.args) # s.def.arity THEN "ArgCountMismatch"
  ELSE IF \E i \in 1 .. Len(s.args) : s.args[i] \in Keys /\ ~ Bound(s.args[i])
       THEN "UnknownWorkspaceKey"
  ELSE IF ~ ShapeFits(s) THEN "InstructionShape"
  ELSE "Ok"

Verdict(s) == IF s.kind = "withdraw" THEN WithdrawVerdict(s) ELSE CallVerdict(s)

Processing(kind) == result = "building" /\ index =< Len(steps) /\ steps[index].kind = kind

(* Arguments are encoded in place: a key becomes the id it is bound to. *)
EncodedArgs(s) ==
  [i \in 1 .. Len(s.args) |-> IF s.args[i] \in Keys THEN workspace_ids[s.args[i]] ELSE LiteralId]

(* The two instructions of a withdrawal, the next id, and only then the    *)
(* key.                                                                    *)
MutantWithdraw ==
  /\ Processing("withdraw")
  /\ Verdict(steps[index]) = "Ok"
  /\ next_workspace_id < MaxWorkspaceId
  /\ instructions' = instructions \o
       <<[op |-> "withdraw", step |-> index, args |-> << >>, id |-> LiteralId],
         [op |-> "put", step |-> index, args |-> << >>, id |-> next_workspace_id + 1]>>
  /\ workspace_ids' = [k \in DOMAIN workspace_ids \cup {steps[index].key} |->
       IF k = steps[index].key THEN next_workspace_id ELSE workspace_ids[k]]
  /\ next_workspace_id' = next_workspace_id + 1
  /\ index' = index + 1
  /\ UNCHANGED <<steps, result>>
Withdraw ==
  /\ Processing("withdraw")
  /\ Verdict(steps[index]) = "Ok"
  /\ next_workspace_id < MaxWorkspaceId
  /\ instructions' = instructions \o
       <<[op |-> "withdraw", step |-> index, args |-> << >>, id |-> LiteralId],
         [op |-> "put", step |-> index, args |-> << >>, id |-> next_workspace_id]>>
  /\ workspace_ids' = [k \in DOMAIN workspace_ids \cup {steps[index].key} |->
       IF k = steps[index].key THEN next_workspace_id ELSE workspace_ids[k]]
  /\ next_workspace_id' = next_workspace_id + 1
  /\ index' = index + 1
  /\ UNCHANGED <<steps, result>>

(* checked_add(1).expect(..): the last id is never handed out. *)
Overflow ==
  /\ Processing("withdraw")
  /\ Verdict(steps[index]) = "Ok"
  /\ next_workspace_id = MaxWorkspaceId
  /\ result' = "Panic"
  /\ UNCHANGED <<steps, index, instructions, workspace_ids, next_workspace_id>>

CallStep ==
  /\ Processing("call")
  /\ Verdict(steps[index]) = "Ok"
  /\ instructions' = Append(instructions,
       [op |-> "call", step |-> index, args |-> EncodedArgs(steps[index]), id |-> LiteralId])
  /\ index' = index + 1
  /\ UNCHANGED <<steps, workspace_ids, next_workspace_id, result>>

Refuse ==
  /\ result = "building"
  /\ index =< Len(steps)
  /\ Verdict(steps[index]) # "Ok"
  /\ result' = Verdict(steps[index])
  /\ UNCHANGED <<steps, index, instructions, workspace_ids, next_workspace_id>>

(* The indexer does not answer, or an address or a literal argument does   *)
(* not parse or encode: after the key and the kind of address were         *)
(* checked.                                                                *)
LookupFails ==
  /\ result = "building"
  /\ index =< Len(steps)
  /\ Verdict(steps[index]) \notin {"DuplicateWorkspaceKey", "WithdrawAccountMustBeComponent"}
  /\ result' = "LookupFailed"
  /\ UNCHANGED <<steps, index, instructions, workspace_ids, next_workspace_id>>

Finish ==
  /\ result = "building"
  /\ index > Len(steps)
  /\ result' = "Ok"
  /\ UNCHANGED <<steps, index, instructions, workspace_ids, next_workspace_id>>

Next == CheckList \/ Withdraw \/ Overflow \/ CallStep \/ Refuse \/ LookupFails \/ Finish

Spec == Init /\ [][Next]_vars

-----------------------------------------------------------------------------
Instructions == [op : {"withdraw", "put", "call"}, step : Nat, args : Seq(Int), id : Int]

Refusals == {"EmptySequence", "NoCallStep", "DuplicateWorkspaceKey",
             "WithdrawAccountMustBeComponent", "UnknownFunction", "NotAWithdrawFunction",
             "ArgCountMismatch", "UnknownWorkspaceKey", "InstructionShape"}

(* Every variable stays in its range; ids stay below the type's last. *)
TypeOK ==
  /\ steps \in Seq(Steps)
  /\ index \in 1 .. Len(steps) + 1
  /\ instructions \in Seq(Instructions)
  /\ DOMAIN workspace_ids \subseteq Keys
  /\ \A k \in DOMAIN workspace_ids : workspace_ids[k] \in 0 .. next_workspace_id - 1
  /\ next_workspace_id \in 0 .. MaxWorkspaceId
  /\ result \in {"new", "building", "Ok", "LookupFailed", "Panic"} \cup Refusals

(* What the engine will find: instruction q puts the bucket that p names,  *)
(* it is the output of a withdrawal that has just been made, and no other  *)
(* put uses that id.                                                       *)
Puts(q, id) == instructions[q].op = "put" /\ instructions[q].id = id

Provides(q, p, id, key) ==
  /\ q < p
  /\ Puts(q, id)
  /\ q - 1 \in 1 .. Len(instructions)
  /\ instructions[q - 1].op = "withdraw"
  /\ steps[instructions[q - 1].step].key = key
  /\ \A r \in 1 .. Len(instructions) : Puts(r, id) => r = q

(* Every workspace argument of every instruction is the id of the bucket   *)
(* that the caller's key names, put there by an earlier instruction, right *)
(* after the withdrawal of the step with that key.                         *)
ReferencesResolve ==
  \A p \in 1 .. Len(instructions) : instructions[p].op = "call" =>
    LET named == steps[instructions[p].step].args IN
    \A i \in 1 .. Len(named) : named[i] \in Keys =>
      \E q \in 1 .. Len(instructions) : Provides(q, p, instructions[p].args[i], named[i])

WithdrawsBefore(i) == Cardinality({j \in 1 .. i - 1 : steps[j].kind = "withdraw"})

(* The list is the steps in their order, one instruction for a call and    *)
(* two for a withdrawal, and nothing else.                                 *)
InstructionsFollowSteps ==
  result = "Ok" =>
    /\ Len(instructions) = Len(steps) + WithdrawsBefore(Len(steps) + 1)
    /\ \A i \in 1 .. Len(steps) :
         LET p == i + WithdrawsBefore(i) IN
         /\ instructions[p].step = i
         /\ instructions[p].op = steps[i].kind
         /\ steps[i].kind = "withdraw" =>
              instructions[p + 1] = [op |-> "put", step |-> i, args |-> << >>,
                                     id |-> WithdrawsBefore(i)]

(* A request that makes sense: keys are unique, a reference names a key of *)
(* a strictly earlier step, and every step fits its ABI entry.             *)
WellFormed ==
  /\ \E i \in 1 .. Len(steps) : steps[i].kind = "call"
  /\ \A i \in 1 .. Len(steps) :
       /\ steps[i].def.known
       /\ ShapeFits(steps[i])
       /\ steps[i].kind = "withdraw" =>
            /\ steps[i].component
            /\ steps[i].def.arity = 2
            /\ \A j \in 1 .. i - 1 : steps[j].kind = "withdraw" => steps[j].key # steps[i].key
       /\ steps[i].kind = "call" =>
            /\ Len(steps[i].args) = steps[i].def.arity
            /\ \A a \in 1 .. Len(steps[i].args) : steps[i].args[a] \in Keys =>
                 \E j \in 1 .. i - 1 : steps[j].kind = "withdraw" /\ steps[j].key = steps[i].args[a]

(* The one pass over the steps accepts exactly the requests that make      *)
(* sense: none of the others, and it refuses none of them; it panics only  *)
(* when the ids run out.                                                   *)
AcceptsExactlyTheWellFormed ==
  /\ result = "Ok" => WellFormed
  /\ result \in Refusals => ~ WellFormed
  /\ result = "Panic" => WithdrawsBefore(Len(steps) + 1) > MaxWorkspaceId

=============================================================================
