------------------------------ MODULE ToolCall ------------------------------
(***************************************************************************)
(* A call of the tools that ask the indexer for a template's ABI:          *)
(* get_ootle_template_abi and list_ootle_templates (src/tools/             *)
(* discovery.rs), call_ootle_read_function (read.rs), and, up to the point *)
(* where WriteGate or CreateCall takes over, call_ootle_write_function     *)
(* (write.rs), call_ootle_create_function (create.rs) and a call_ootle_    *)
(* write_sequence of one call step (sequence.rs; SequenceBuilder has its   *)
(* longer ones).  The checks they share are those of instruction.rs.       *)
(*                                                                         *)
(* A call carries what the indexer and the parsers will say of it.  An     *)
(* action is what a handler does between two RPCs.                         *)
(***************************************************************************)
EXTENDS Integers, Sequences

CONSTANTS Definitions,   \* the ABI entries considered
          ArgLists       \* the argument lists considered

(* A FunctionDef, and whether its name is too long for the engine; what a  *)
(* JSON argument is to the typed-argument DSL (a workspace key does not    *)
(* encode outside a sequence, nor in one whose only step is the call);     *)
(* what prefix an address has.                                             *)
FunctionDefs == [is_mut : BOOLEAN, arguments : Seq({"self", "other"}),
                 output : {"component", "other"}, longName : BOOLEAN]
ArgKinds == {"good", "noArgValue", "noEncoding"}
Addresses == {"component", "template"}

ASSUME DataAssumption == Definitions \subseteq FunctionDefs /\ ArgLists \subseteq Seq(ArgKinds)

AbiTools == {"list", "abi"}
CallTools == {"read", "write", "create", "sequence"}

(* `parses`: ComponentAddress::from_str takes a component's address.       *)
(* `hex`: TemplateAddress::from_hex takes the template's, given or found.  *)
(* `known`: the template has a function of that name.                      *)
Calls == [tool : AbiTools \cup CallTools, address : Addresses, parses : BOOLEAN,
          hex : BOOLEAN, known : BOOLEAN, def : Definitions, args : ArgLists]

(* What the process's environment says: is the API key there, can a client *)
(* be made of the endpoint, is the network's name one.                     *)
Environments == [key : BOOLEAN, endpoint : BOOLEAN, network : BOOLEAN]

VARIABLES
  call,     \* the call
  env,      \* the environment
  stage,    \* where it stands in its handler
  result,   \* the Result of the handler, or that the call goes on
  asked,    \* what walletd was asked for it
  audit     \* the last status audited

vars == <<call, env, stage, result, asked, audit>>

AwaitsRpc == {"resolving", "reading", "account", "dryRunning"}
Stages == AwaitsRpc \cup {"idle", "auditing", "done"}

ShapeErrors == {"InvalidFunctionName", "ExpectedComponentAddress", "ExpectedTemplateAddress"}
ArgErrors == {"ArgCountMismatch", "InvalidArgValue", "ArgEncoding"}
TargetErrors == {"InvalidComponent", "RefusedComponentAddress", "InvalidAddress"}
PolicyErrors == {"RefusedMutatingFunction", "RefusedNonMutatingFunction", "NotAConstructor"}
(* Errors that blame the request, and errors that blame the rest.          *)
Refusals == ShapeErrors \cup ArgErrors \cup TargetErrors \cup PolicyErrors \cup {"UnknownFunction"}
IndexerErrors == {"Request", "HttpStatus", "Decode"}
Failures == IndexerErrors \cup {"NotAComponent", "Config", "Walletd", "WalletNotReady", "NoOwnerKey"}

Init ==
  /\ call \in Calls
  /\ env \in Environments
  /\ stage = "idle"
  /\ result = "none"
  /\ asked = "nothing"
  /\ audit = "none"

-----------------------------------------------------------------------------
(* instruction.rs: the operators on an ABI entry. *)

MutantHasSelf(def) == \E i \in 1 .. Len(def.arguments) : def.arguments[i] = "self"
HasSelf(def) == def.arguments # << >> /\ Head(def.arguments) = "self"

ExpectedArgs(def) == Len(def.arguments) - (IF HasSelf(def) THEN 1 ELSE 0)

(* Checks in the order in which the code makes them: the first that fails  *)
(* names the error.                                                        *)
Check(holds, error) == [holds |-> holds, error |-> error]

FirstError(checks) ==
  LET failed == {i \in 1 .. Len(checks) : ~ checks[i].holds} IN
  IF failed = {} THEN "Ok"
  ELSE checks[CHOOSE i \in failed : \A j \in failed : i =< j].error

All(args, wrong) == \A i \in 1 .. Len(args) : args[i] # wrong

(* encode_instruction_args parses all arguments before it encodes one. *)
ArgChecks(c) == <<
  Check(Len(c.args) = ExpectedArgs(c.def), "ArgCountMismatch"),
  Check(All(c.args, "noArgValue"), "InvalidArgValue"),
  Check(All(c.args, "noEncoding"), "ArgEncoding")>>

(* encode_call_args of sequence.rs ends one argument before the next. *)
SequenceArgChecks(c) ==
  <<Check(Len(c.args) = ExpectedArgs(c.def), "ArgCountMismatch")>>
  \o [i \in 1 .. Len(c.args) |->
        Check(c.args[i] = "good",
              IF c.args[i] = "noArgValue" THEN "InvalidArgValue" ELSE "ArgEncoding")]

(* build_call_instruction: a method wants a component, a function none. *)
ShapeChecks(c) == <<
  Check(~ c.def.longName, "InvalidFunctionName"),
  Check(HasSelf(c.def) => c.address = "component", "ExpectedComponentAddress"),
  Check(c.address = "component" => HasSelf(c.def), "ExpectedTemplateAddress")>>

(* WalletdConfig::from_env and WalletdClientWrapper::connect. *)
ClientChecks == <<Check(env.key, "Config"), Check(env.endpoint, "Walletd")>>

-----------------------------------------------------------------------------
(* Whose business a function is: the dry run's in build_instruction of     *)
(* read.rs, the gate's in ensure_write_target_is_mutating, the create      *)
(* tool's in ensure_target_is_constructor.                                 *)
IsReadOnly(def) == ~ def.is_mut

IsMutating(def) == def.is_mut

MutantConstructorByOutput(def) == ~ HasSelf(def) /\ def.output = "component"
IsConstructor(def) == ~ def.is_mut /\ ~ HasSelf(def) /\ def.output = "component"

(* What each tool checks once it has the ABI, up to its first RPC to       *)
(* walletd.                                                                *)
MutantReadChecks(c) ==
  <<Check(c.known, "UnknownFunction")>> \o ArgChecks(c)
  \o <<Check(c.hex, "InvalidAddress")>>
  \o ShapeChecks(c)
  \o <<Check(env.network, "Config")>> \o ClientChecks
ReadChecks(c) ==
  <<Check(c.known, "UnknownFunction")>> \o ArgChecks(c)
  \o <<Check(c.hex, "InvalidAddress"), Check(IsReadOnly(c.def), "RefusedMutatingFunction")>>
  \o ShapeChecks(c)
  \o <<Check(env.network, "Config")>> \o ClientChecks

WriteChecks(c) ==
  <<Check(c.known, "UnknownFunction"), Check(IsMutating(c.def), "RefusedNonMutatingFunction")>>
  \o ArgChecks(c) \o <<Check(c.hex, "InvalidAddress")>> \o ShapeChecks(c) \o ClientChecks

CreateChecks(c) ==
  <<Check(c.known, "UnknownFunction"), Check(IsConstructor(c.def), "NotAConstructor")>>
  \o ArgChecks(c) \o <<Check(c.hex, "InvalidAddress")>> \o ShapeChecks(c) \o ClientChecks

(* The sequence tool has no rule: behind the gate it takes any function.   *)
SequenceChecks(c) ==
  <<Check(c.known, "UnknownFunction")>>
  \o SequenceArgChecks(c) \o <<Check(c.hex, "InvalidAddress")>> \o ShapeChecks(c) \o ClientChecks

Verdict(c) ==
  FirstError(CASE c.tool = "read" -> ReadChecks(c)
               [] c.tool = "write" -> WriteChecks(c)
               [] c.tool = "create" -> CreateChecks(c)
               [] c.tool = "sequence" -> SequenceChecks(c))

(* What get_ootle_template_abi tells an agent to do with a function. *)
Summary(def) ==
  IF def.is_mut THEN "not callable" ELSE IF HasSelf(def) THEN "read method" ELSE "read function"

-----------------------------------------------------------------------------
Goto(place) == stage' = place

MutantReturn(value) ==
  /\ Goto(IF value = "Walletd" THEN "done" ELSE "auditing")
  /\ result' = value
Return(value) == Goto("auditing") /\ result' = value

(* All six tools audit Started first. *)
Start ==
  /\ stage = "idle"
  /\ audit' = "Started"
  /\ Goto(IF call.tool \in CallTools THEN "resolving" ELSE "reading")
  /\ UNCHANGED <<call, env, result, asked>>

(* The create tool refuses a component, the others look up its template.   *)
RefuseTarget ==
  /\ stage = "resolving"
  /\ call.address = "component"
  /\ \/ call.tool = "create" /\ Return("RefusedComponentAddress")
     \/ call.tool # "create" /\ ~ call.parses /\ Return("InvalidComponent")
  /\ UNCHANGED <<call, env, asked, audit>>

AsksForSubstate ==
  stage = "resolving" /\ call.address = "component" /\ call.tool # "create" /\ call.parses

ResolveTarget ==
  /\ \/ (AsksForSubstate \/ (stage = "resolving" /\ call.address = "template"))
        /\ Goto("reading") /\ UNCHANGED result
     \/ AsksForSubstate /\ Return("NotAComponent")
  /\ UNCHANGED <<call, env, asked, audit>>

(* A GET of the indexer gets no answer, another status, or a body that     *)
(* does not decode.                                                        *)
IndexerFails ==
  /\ AsksForSubstate \/ stage = "reading"
  /\ \E error \in IndexerErrors : Return(error)
  /\ UNCHANGED <<call, env, asked, audit>>

(* GET /templates/{address} or the catalogue: the ABI tools are done, ... *)
AnswerAbi ==
  /\ stage = "reading"
  /\ call.tool \in AbiTools
  /\ Return("Ok")
  /\ UNCHANGED <<call, env, asked, audit>>

(* ... the others make their checks, and go on to walletd. *)
CheckCall ==
  /\ stage = "reading"
  /\ call.tool \in CallTools
  /\ IF Verdict(call) # "Ok" THEN Return(Verdict(call)) /\ UNCHANGED asked
     ELSE Goto("account") /\ asked' = "account" /\ UNCHANGED result
  /\ UNCHANGED <<call, env, audit>>

(* The read tool fetches the account that would pay, named or default, and *)
(* wants its owner's key.                                                  *)
FetchAccount ==
  /\ stage = "account"
  /\ call.tool = "read"
  /\ \/ \E error \in {"Walletd", "NoOwnerKey"} : Return(error) /\ UNCHANGED asked
     \/ Goto("dryRunning") /\ asked' = "dry run" /\ UNCHANGED result
  /\ UNCHANGED <<call, env, audit>>

(* The others only see that walletd answers with their key, and go on to   *)
(* queue, or to be counted.                                                *)
EnsureWalletReady ==
  /\ stage = "account"
  /\ call.tool # "read"
  /\ \E value \in {"WalletNotReady", "Admitted"} : Return(value)
  /\ UNCHANGED <<call, env, asked, audit>>

DryRun ==
  /\ stage = "dryRunning"
  /\ \E value \in {"Ok", "Walletd"} : Return(value)
  /\ UNCHANGED <<call, env, asked, audit>>

(* The completion's status.  That of an admitted call is WriteGate's or    *)
(* CreateCall's to say.                                                    *)
StatusOf(value) ==
  CASE value = "Ok" -> "Success" [] value = "Admitted" -> "Started" [] OTHER -> "Error"

AuditCompletion ==
  /\ stage = "auditing"
  /\ Goto("done")
  /\ audit' = StatusOf(result)
  /\ UNCHANGED <<call, env, result, asked>>

Rpc ==
  \/ ResolveTarget \/ IndexerFails \/ AnswerAbi \/ CheckCall
  \/ FetchAccount \/ EnsureWalletReady \/ DryRun

Next == Start \/ RefuseTarget \/ Rpc \/ AuditCompletion

Spec == Init /\ [][Next]_vars

(* The handler's task is polled; nothing is assumed of the indexer or of   *)
(* walletd.                                                                *)
FairSpec == Spec /\ WF_vars(RefuseTarget \/ AuditCompletion)

-----------------------------------------------------------------------------
(* Every variable stays in its range. *)
TypeOK ==
  /\ call \in Calls
  /\ env \in Environments
  /\ stage \in Stages
  /\ result \in {"none", "Ok", "Admitted"} \cup Refusals \cup Failures
  /\ asked \in {"nothing", "account", "dry run"}
  /\ audit \in {"none", "Started", "Success", "Error"}

(* A request that fits its ABI entry, and what each tool is for: the dry   *)
(* run for what does not mutate, the write tool for what does, the create  *)
(* tool for constructors, which are no method, do not mutate and return a  *)
(* component, and a sequence for anything.                                 *)
Fits(c) ==
  /\ c.known /\ c.hex /\ ~ c.def.longName
  /\ c.address = "component" => c.parses
  /\ c.args \in [1 .. Len(c.args) -> {"good"}]
  /\ IF c.address = "component"
     THEN Len(c.def.arguments) = Len(c.args) + 1 /\ c.def.arguments[1] = "self"
     ELSE Len(c.def.arguments) = Len(c.args)
          /\ (c.args # << >> => c.def.arguments[1] # "self")

Meant(c) ==
  /\ c.tool = "read" => ~ c.def.is_mut
  /\ c.tool = "write" => c.def.is_mut
  /\ c.tool = "create" =>
       ~ c.def.is_mut /\ c.address = "template" /\ c.def.output = "component"

(* A call is let through only if it fits and is meant for its tool, and is *)
(* blamed only if it does not or is not: the order of the checks, and what *)
(* they find out by then, never refuse a good call or pass a bad one.      *)
AdmitsExactlyWhatFits ==
  call.tool \in CallTools =>
    /\ result \in {"Ok", "Admitted"} => Fits(call) /\ Meant(call)
    /\ result \in Refusals => ~ (Fits(call) /\ Meant(call))

(* Walletd hears of a call only when the indexer and the ABI have nothing  *)
(* against it and the gateway is configured: a bad request costs no RPC    *)
(* with the wallet's key, and no mutating function is ever dry-run.        *)
WalletHearsOnlyOfGoodCalls ==
  asked # "nothing" =>
    /\ call.tool \in CallTools /\ Fits(call) /\ Meant(call)
    /\ env.key /\ env.endpoint
    /\ asked = "dry run" => call.tool = "read" /\ ~ call.def.is_mut

(* A well-made call of a function through a tool. *)
WellMade(tool, def) ==
  [tool |-> tool, address |-> IF HasSelf(def) THEN "component" ELSE "template",
   parses |-> TRUE, hex |-> TRUE, known |-> TRUE, def |-> def,
   args |-> [i \in 1 .. ExpectedArgs(def) |-> "good"]]

TakenBy(tool, def) == Verdict(WellMade(tool, def)) = "Ok"

(* The tools' policies fit together.  A function is for the dry run or for *)
(* the write tool, never for both and never for neither; what the create   *)
(* tool submits without asking a human is for the dry run, so that nothing *)
(* that mutates goes around the gate; a sequence, which asks a human, may  *)
(* call all of them, the create tool's constructors included; and a        *)
(* function's summary sends an agent to the read tool exactly if that tool *)
(* takes it.  (What the summary says of the others, that they are not      *)
(* callable yet, is out of date.)                                          *)
PoliciesFit ==
  stage = "idle" /\ env = [key |-> TRUE, endpoint |-> TRUE, network |-> TRUE]
    /\ ~ call.def.longName =>
    /\ TakenBy("read", call.def) <=> ~ TakenBy("write", call.def)
    /\ TakenBy("create", call.def) => TakenBy("read", call.def)
    /\ TakenBy("sequence", call.def)
    /\ Summary(call.def) # "not callable" <=> TakenBy("read", call.def)

(* A call that was started ends with its completion audited, if its own    *)
(* RPCs come back: also when an RPC has failed.                            *)
CallEnds ==
  []<>(stage \notin AwaitsRpc \/ ENABLED RefuseTarget)
    => [](stage # "idle" => <>(stage = "done" /\ (audit = "Started" => result = "Admitted")))

=============================================================================
