--------------------------- MODULE ToolCallProofs ---------------------------
(***************************************************************************)
(* What the tools let through and what they refuse, for ABI entries and    *)
(* argument lists of any length.                                           *)
(***************************************************************************)
EXTENDS ToolCall, SequenceTheorems, WellFoundedInduction, TLAPS

Errors == Refusals \cup Failures
CheckLists == Seq([holds : BOOLEAN, error : Errors])

(* The errors of the checks that fail. *)
Blames(checks) == {checks[i].error : i \in {j \in 1 .. Len(checks) : ~ checks[j].holds}}

LEMMA OkIsNoError == "Ok" \notin Errors /\ "Admitted" \notin Errors /\ "none" \notin Errors
BY DEF Errors, Refusals, Failures, ShapeErrors, ArgErrors, TargetErrors, PolicyErrors, IndexerErrors

LEMMA FailuresBlameNobody == Refusals \cap Failures = {}
BY DEF Refusals, Failures, ShapeErrors, ArgErrors, TargetErrors, PolicyErrors, IndexerErrors

(* The verdict on a list of checks is Ok exactly if none fails, and else   *)
(* is the error of one that does.                                          *)
LEMMA FirstErrorIsBlamed ==
  ASSUME NEW checks \in CheckLists
  PROVE  /\ Blames(checks) = {} => FirstError(checks) = "Ok"
         /\ Blames(checks) # {} => FirstError(checks) \in Blames(checks)
         /\ Blames(checks) \subseteq Errors
<1> DEFINE failed == {i \in 1 .. Len(checks) : ~ checks[i].holds}
<1>1. Len(checks) \in Nat /\ \A i \in 1 .. Len(checks) : checks[i].error \in Errors
  <2>1. \A i \in 1 .. Len(checks) : checks[i] \in [holds : BOOLEAN, error : Errors]
    BY ElementOfSeq DEF CheckLists
  <2> QED BY <2>1, LenProperties DEF CheckLists
<1>2. Blames(checks) = {checks[i].error : i \in failed}
  BY DEF Blames
<1>3. FirstError(checks) =
        IF failed = {} THEN "Ok"
        ELSE checks[CHOOSE i \in failed : \A j \in failed : i =< j].error
  BY DEF FirstError
<1>4. failed \subseteq 1 .. Len(checks)
  OBVIOUS
<1> HIDE DEF failed
<1>5. ASSUME failed # {} PROVE \E i \in failed : \A j \in failed : i =< j
  <2> DEFINE Less == {pair \in Nat \X Nat : pair[1] < pair[2]}
  <2>1. IsWellFoundedOn(Less, Nat)
    BY NatLessThanWellFounded DEF OpToRel
  <2>2. failed \subseteq Nat
    BY <1>1, <1>4
  <2>3. PICK i \in failed : \A j \in failed : ~ (<<j, i>> \in Less)
    <3> HIDE DEF Less
    <3> QED BY <1>5, <2>1, <2>2, WFMin
  <2>4. \A j \in failed : i \in Nat /\ j \in Nat /\ ~ (j < i)
    BY <2>2, <2>3
  <2> QED BY <2>4
<1>6. Blames(checks) # {} => FirstError(checks) \in Blames(checks)
  BY <1>2, <1>3, <1>5
<1>7. Blames(checks) = {} => FirstError(checks) = "Ok"
  BY <1>2, <1>3
<1>8. Blames(checks) \subseteq Errors
  BY <1>1, <1>2, <1>4
<1> QED BY <1>6, <1>7, <1>8

(* Two lists of checks, one after the other, blame what either blames. *)
LEMMA ConcatBlames ==
  ASSUME NEW s \in CheckLists, NEW t \in CheckLists
  PROVE  s \o t \in CheckLists /\ Blames(s \o t) = Blames(s) \cup Blames(t)
<1>1. /\ s \o t \in CheckLists
      /\ Len(s) \in Nat /\ Len(t) \in Nat /\ Len(s \o t) = Len(s) + Len(t)
      /\ \A i \in 1 .. Len(s) + Len(t) :
           (s \o t)[i] = IF i <= Len(s) THEN s[i] ELSE t[i - Len(s)]
  BY ConcatProperties, LenProperties DEF CheckLists
<1>2. \A i \in 1 .. Len(s) : i \in 1 .. Len(s \o t) /\ (s \o t)[i] = s[i]
  BY <1>1
<1>3. \A i \in 1 .. Len(t) : Len(s) + i \in 1 .. Len(s \o t) /\ (s \o t)[Len(s) + i] = t[i]
  BY <1>1
<1>4. \A i \in 1 .. Len(s \o t) : i \in 1 .. Len(s) \/ \E j \in 1 .. Len(t) : i = Len(s) + j
  <2> SUFFICES ASSUME NEW i \in 1 .. Len(s \o t), i \notin 1 .. Len(s)
               PROVE  \E j \in 1 .. Len(t) : i = Len(s) + j
    OBVIOUS
  <2>1. i - Len(s) \in 1 .. Len(t) /\ i = Len(s) + (i - Len(s))
    BY <1>1
  <2> QED BY <2>1
<1>5. ASSUME NEW e \in Blames(s) PROVE e \in Blames(s \o t)
  <2>1. PICK i \in 1 .. Len(s) : ~ s[i].holds /\ e = s[i].error
    BY DEF Blames
  <2>2. i \in 1 .. Len(s \o t) /\ (s \o t)[i] = s[i]
    BY <1>2
  <2> QED BY <2>1, <2>2 DEF Blames
<1>6. ASSUME NEW e \in Blames(t) PROVE e \in Blames(s \o t)
  <2>1. PICK i \in 1 .. Len(t) : ~ t[i].holds /\ e = t[i].error
    BY DEF Blames
  <2>2. Len(s) + i \in 1 .. Len(s \o t) /\ (s \o t)[Len(s) + i] = t[i]
    BY <1>3
  <2> QED BY <2>1, <2>2 DEF Blames
<1>7. ASSUME NEW e \in Blames(s \o t) PROVE e \in Blames(s) \cup Blames(t)
  <2>1. PICK i \in 1 .. Len(s \o t) : ~ (s \o t)[i].holds /\ e = (s \o t)[i].error
    BY DEF Blames
  <2>2. CASE i \in 1 .. Len(s)
    BY <1>2, <2>1, <2>2 DEF Blames
  <2>3. CASE \E j \in 1 .. Len(t) : i = Len(s) + j
    <3>1. PICK j \in 1 .. Len(t) : i = Len(s) + j
      BY <2>3
    <3>2. ~ t[j].holds /\ e = t[j].error
      BY <1>3, <2>1, <3>1
    <3> QED BY <3>2 DEF Blames
  <2> QED BY <1>4, <2>2, <2>3
<1> QED BY <1>1, <1>5, <1>6, <1>7

(* Short lists. *)
LEMMA OneCheck ==
  ASSUME NEW a \in BOOLEAN, NEW x \in Errors
  PROVE  /\ <<Check(a, x)>> \in CheckLists
         /\ Blames(<<Check(a, x)>>) = IF a THEN {} ELSE {x}
<1> DEFINE list == <<Check(a, x)>>
<1>1. /\ list \in CheckLists /\ Len(list) = 1
      /\ list[1].holds = a /\ list[1].error = x
  BY DEF CheckLists, Check
<1> HIDE DEF list
<1>2. \A i \in 1 .. Len(list) : i = 1
  BY <1>1
<1>3. \A e : e \in Blames(list) <=> ~ a /\ e = x
  BY <1>1, <1>2 DEF Blames
<1> QED BY <1>1, <1>3 DEF list

LEMMA TwoChecks ==
  ASSUME NEW a \in BOOLEAN, NEW b \in BOOLEAN, NEW x \in Errors, NEW y \in Errors
  PROVE  /\ <<Check(a, x), Check(b, y)>> \in CheckLists
         /\ Blames(<<Check(a, x), Check(b, y)>>) =
              (IF a THEN {} ELSE {x}) \cup (IF b THEN {} ELSE {y})
<1> DEFINE list == <<Check(a, x), Check(b, y)>>
<1>1. /\ list \in CheckLists /\ Len(list) = 2
      /\ list[1].holds = a /\ list[1].error = x
      /\ list[2].holds = b /\ list[2].error = y
  BY DEF CheckLists, Check
<1> HIDE DEF list
<1>2. \A i \in 1 .. Len(list) : i = 1 \/ i = 2
  BY <1>1
<1>3. \A e : e \in Blames(list) <=> (~ a /\ e = x) \/ (~ b /\ e = y)
  BY <1>1, <1>2 DEF Blames
<1> QED BY <1>1, <1>3 DEF list

LEMMA ThreeChecks ==
  ASSUME NEW a \in BOOLEAN, NEW b \in BOOLEAN, NEW c \in BOOLEAN,
         NEW x \in Errors, NEW y \in Errors, NEW z \in Errors
  PROVE  /\ <<Check(a, x), Check(b, y), Check(c, z)>> \in CheckLists
         /\ Blames(<<Check(a, x), Check(b, y), Check(c, z)>>) =
              (IF a THEN {} ELSE {x}) \cup (IF b THEN {} ELSE {y}) \cup (IF c THEN {} ELSE {z})
<1> DEFINE list == <<Check(a, x), Check(b, y), Check(c, z)>>
<1>1. /\ list \in CheckLists /\ Len(list) = 3
      /\ list[1].holds = a /\ list[1].error = x
      /\ list[2].holds = b /\ list[2].error = y
      /\ list[3].holds = c /\ list[3].error = z
  BY DEF CheckLists, Check
<1> HIDE DEF list
<1>2. \A i \in 1 .. Len(list) : i = 1 \/ i = 2 \/ i = 3
  BY <1>1
<1>3. \A e : e \in Blames(list) <=> (~ a /\ e = x) \/ (~ b /\ e = y) \/ (~ c /\ e = z)
  BY <1>1, <1>2 DEF Blames
<1> QED BY <1>1, <1>3 DEF list

-----------------------------------------------------------------------------
(* Calls with any entry and any arguments, those of the model among them.  *)
AnyCalls == [tool : AbiTools \cup CallTools, address : Addresses, parses : BOOLEAN,
             hex : BOOLEAN, known : BOOLEAN, def : FunctionDefs, args : Seq(ArgKinds)]

LEMMA CallsAreCalls == Calls \subseteq AnyCalls
BY DataAssumption DEF Calls, AnyCalls

LEMMA DefTyped ==
  ASSUME NEW def \in FunctionDefs
  PROVE  /\ HasSelf(def) \in BOOLEAN /\ def.is_mut \in BOOLEAN /\ def.longName \in BOOLEAN
         /\ def.arguments \in Seq({"self", "other"}) /\ Len(def.arguments) \in Nat
         /\ ExpectedArgs(def) \in Nat
         /\ HasSelf(def) <=> Len(def.arguments) > 0 /\ def.arguments[1] = "self"
         /\ ExpectedArgs(def) = IF HasSelf(def) THEN Len(def.arguments) - 1
                                                ELSE Len(def.arguments)
<1>1. def.arguments \in Seq({"self", "other"}) /\ def.is_mut \in BOOLEAN /\ def.longName \in BOOLEAN
  BY DEF FunctionDefs
<1>2. Len(def.arguments) \in Nat /\ (def.arguments # << >> <=> Len(def.arguments) > 0)
  BY <1>1, EmptySeq, LenProperties
<1>3. HasSelf(def) <=> Len(def.arguments) > 0 /\ def.arguments[1] = "self"
  BY <1>1, <1>2 DEF HasSelf
<1>4. HasSelf(def) \in BOOLEAN
  BY DEF HasSelf
<1>5. ExpectedArgs(def) = IF HasSelf(def) THEN Len(def.arguments) - 1 ELSE Len(def.arguments)
  BY <1>2 DEF ExpectedArgs
<1> QED BY <1>1, <1>2, <1>3, <1>4, <1>5

(* What each group of checks finds out. *)
ArgsFit(c) ==
  /\ Len(c.args) = ExpectedArgs(c.def)
  /\ All(c.args, "noArgValue")
  /\ All(c.args, "noEncoding")

ShapeFits(c) == ~ c.def.longName /\ (HasSelf(c.def) <=> c.address = "component")

ClientFits == env.key /\ env.endpoint

LEMMA ArgChecksBlame ==
  ASSUME NEW c \in AnyCalls
  PROVE  /\ ArgChecks(c) \in CheckLists
         /\ Blames(ArgChecks(c)) \subseteq ArgErrors
         /\ Blames(ArgChecks(c)) = {} <=> ArgsFit(c)
<1> DEFINE count == Len(c.args) = ExpectedArgs(c.def)
           parsed == All(c.args, "noArgValue")
           encoded == All(c.args, "noEncoding")
<1>1. count \in BOOLEAN /\ parsed \in BOOLEAN /\ encoded \in BOOLEAN
  BY DEF All
<1>2. /\ ArgChecks(c) = <<Check(count, "ArgCountMismatch"), Check(parsed, "InvalidArgValue"),
                          Check(encoded, "ArgEncoding")>>
      /\ ArgsFit(c) <=> count /\ parsed /\ encoded
  BY DEF ArgChecks, ArgsFit
<1>3. /\ "ArgCountMismatch" \in Errors /\ "InvalidArgValue" \in Errors
      /\ "ArgEncoding" \in Errors
      /\ ArgErrors = {"ArgCountMismatch", "InvalidArgValue", "ArgEncoding"}
  BY DEF Errors, Refusals, ArgErrors
<1> HIDE DEF count, parsed, encoded
<1>4. /\ ArgChecks(c) \in CheckLists
      /\ Blames(ArgChecks(c)) = (IF count THEN {} ELSE {"ArgCountMismatch"})
             \cup (IF parsed THEN {} ELSE {"InvalidArgValue"})
             \cup (IF encoded THEN {} ELSE {"ArgEncoding"})
  BY <1>1, <1>2, <1>3, ThreeChecks
<1> QED BY <1>2, <1>3, <1>4

LEMMA SequenceArgChecksBlame ==
  ASSUME NEW c \in AnyCalls
  PROVE  /\ SequenceArgChecks(c) \in CheckLists
         /\ Blames(SequenceArgChecks(c)) \subseteq ArgErrors
         /\ Blames(SequenceArgChecks(c)) = {} <=> ArgsFit(c)
<1> DEFINE Wrong(i) == IF c.args[i] = "noArgValue" THEN "InvalidArgValue" ELSE "ArgEncoding"
           each == [i \in 1 .. Len(c.args) |-> Check(c.args[i] = "good", Wrong(i))]
           count == Len(c.args) = ExpectedArgs(c.def)
<1>1. /\ {"ArgCountMismatch", "InvalidArgValue", "ArgEncoding"} \subseteq Errors
      /\ ArgErrors = {"ArgCountMismatch", "InvalidArgValue", "ArgEncoding"}
  BY DEF Errors, Refusals, ArgErrors
<1>2. /\ Len(c.args) \in Nat
      /\ \A i \in 1 .. Len(c.args) : c.args[i] \in {"good", "noArgValue", "noEncoding"}
  BY LenProperties, ElementOfSeq DEF AnyCalls, ArgKinds
<1>3. /\ each \in CheckLists /\ Len(each) = Len(c.args)
      /\ \A i \in 1 .. Len(c.args) :
           each[i].error = Wrong(i) /\ each[i].holds = (c.args[i] = "good")
  <2>1. \A i \in 1 .. Len(c.args) :
          /\ each[i] = [holds |-> c.args[i] = "good", error |-> Wrong(i)]
          /\ Wrong(i) \in Errors
    BY <1>1 DEF Check
  <2>2. each \in [1 .. Len(c.args) -> [holds : BOOLEAN, error : Errors]]
    BY <1>1 DEF Check
  <2>3. each \in CheckLists /\ Len(each) = Len(c.args)
    BY <1>2, <2>2 DEF CheckLists
  <2> HIDE DEF each, Wrong
  <2>4. ASSUME NEW i \in 1 .. Len(c.args)
        PROVE  each[i].error = Wrong(i) /\ each[i].holds = (c.args[i] = "good")
    <3>1. each[i] = [holds |-> c.args[i] = "good", error |-> Wrong(i)]
      BY <2>1
    <3> QED BY <3>1
  <2> QED BY <2>3, <2>4
<1>4. /\ <<Check(count, "ArgCountMismatch")>> \in CheckLists
      /\ Blames(<<Check(count, "ArgCountMismatch")>>) = IF count THEN {} ELSE {"ArgCountMismatch"}
  BY <1>1, OneCheck
<1>5. SequenceArgChecks(c) = <<Check(count, "ArgCountMismatch")>> \o each
  BY DEF SequenceArgChecks
<1> HIDE DEF each
<1>6. /\ Blames(each) \subseteq ArgErrors
      /\ Blames(each) = {} <=> \A i \in 1 .. Len(c.args) : c.args[i] = "good"
  BY <1>1, <1>3 DEF Blames
<1>7. /\ SequenceArgChecks(c) \in CheckLists
      /\ Blames(SequenceArgChecks(c)) = Blames(<<Check(count, "ArgCountMismatch")>>) \cup Blames(each)
  BY <1>3, <1>4, <1>5, ConcatBlames
<1>8. ArgsFit(c) <=> count /\ \A i \in 1 .. Len(c.args) : c.args[i] = "good"
  BY <1>2 DEF ArgsFit, All
<1> QED BY <1>1, <1>4, <1>6, <1>7, <1>8

LEMMA ShapeChecksBlame ==
  ASSUME NEW c \in AnyCalls
  PROVE  /\ ShapeChecks(c) \in CheckLists
         /\ Blames(ShapeChecks(c)) \subseteq ShapeErrors
         /\ Blames(ShapeChecks(c)) = {} <=> ShapeFits(c)
<1> DEFINE named == ~ c.def.longName
           method == HasSelf(c.def) => c.address = "component"
           function == c.address = "component" => HasSelf(c.def)
<1>1. named \in BOOLEAN /\ method \in BOOLEAN /\ function \in BOOLEAN
  BY DEF HasSelf
<1>2. /\ ShapeChecks(c) = <<Check(named, "InvalidFunctionName"),
                            Check(method, "ExpectedComponentAddress"),
                            Check(function, "ExpectedTemplateAddress")>>
      /\ ShapeFits(c) <=> named /\ method /\ function
  BY DEF ShapeChecks, ShapeFits, HasSelf
<1>3. /\ "InvalidFunctionName" \in Errors /\ "ExpectedComponentAddress" \in Errors
      /\ "ExpectedTemplateAddress" \in Errors
      /\ ShapeErrors = {"InvalidFunctionName", "ExpectedComponentAddress",
                        "ExpectedTemplateAddress"}
  BY DEF Errors, Refusals, ShapeErrors
<1> HIDE DEF named, method, function
<1>4. /\ ShapeChecks(c) \in CheckLists
      /\ Blames(ShapeChecks(c)) = (IF named THEN {} ELSE {"InvalidFunctionName"})
             \cup (IF method THEN {} ELSE {"ExpectedComponentAddress"})
             \cup (IF function THEN {} ELSE {"ExpectedTemplateAddress"})
  BY <1>1, <1>2, <1>3, ThreeChecks
<1> QED BY <1>2, <1>3, <1>4

LEMMA ClientChecksBlame ==
  ASSUME env \in Environments
  PROVE  /\ ClientChecks \in CheckLists
         /\ Blames(ClientChecks) \subseteq Failures
         /\ Blames(ClientChecks) = {} <=> ClientFits
<1>1. env.key \in BOOLEAN /\ env.endpoint \in BOOLEAN
  BY DEF Environments
<1>2. "Config" \in Errors /\ "Walletd" \in Errors /\ {"Config", "Walletd"} \subseteq Failures
  BY DEF Errors, Failures
<1>3. /\ ClientChecks \in CheckLists
      /\ Blames(ClientChecks) = (IF env.key THEN {} ELSE {"Config"})
             \cup (IF env.endpoint THEN {} ELSE {"Walletd"})
  BY <1>1, <1>2, TwoChecks DEF ClientChecks
<1> QED BY <1>2, <1>3 DEF ClientFits

-----------------------------------------------------------------------------
(* A request that fits its entry, as the checks put it, and the rule of    *)
(* the tool it was made through.                                           *)
PassesChecks(c) == c.known /\ c.hex /\ ArgsFit(c) /\ ShapeFits(c)

Suits(tool, def) ==
  /\ tool = "read" => IsReadOnly(def)
  /\ tool = "write" => IsMutating(def)
  /\ tool = "create" => IsConstructor(def)

(* What lists of checks say that blame the request or the configuration.   *)
Settles(checks, good, ready) ==
  /\ checks \in CheckLists
  /\ Blames(checks) = {} <=> good /\ ready
  /\ good => Blames(checks) \cap Refusals = {}

LEMMA SingleChecks ==
  ASSUME NEW c \in AnyCalls, env \in Environments
  PROVE  /\ <<Check(c.known, "UnknownFunction")>> \in CheckLists
         /\ Blames(<<Check(c.known, "UnknownFunction")>>) =
              IF c.known THEN {} ELSE {"UnknownFunction"}
         /\ <<Check(c.hex, "InvalidAddress")>> \in CheckLists
         /\ Blames(<<Check(c.hex, "InvalidAddress")>>) = IF c.hex THEN {} ELSE {"InvalidAddress"}
         /\ <<Check(env.network, "Config")>> \in CheckLists
         /\ Blames(<<Check(env.network, "Config")>>) = IF env.network THEN {} ELSE {"Config"}
         /\ {"UnknownFunction", "InvalidAddress"} \subseteq Refusals
         /\ "Config" \notin Refusals
<1>1. c.known \in BOOLEAN /\ c.hex \in BOOLEAN /\ env.network \in BOOLEAN
  BY DEF AnyCalls, Environments
<1>2. /\ {"UnknownFunction", "InvalidAddress"} \subseteq Refusals /\ "Config" \in Failures
      /\ "UnknownFunction" \in Errors /\ "InvalidAddress" \in Errors /\ "Config" \in Errors
  BY DEF Errors, Refusals, Failures, TargetErrors
<1> QED BY <1>1, <1>2, OneCheck, FailuresBlameNobody

LEMMA ReadSettles ==
  ASSUME NEW c \in AnyCalls, env \in Environments
  PROVE  Settles(ReadChecks(c), PassesChecks(c) /\ IsReadOnly(c.def), ClientFits /\ env.network)
<1> DEFINE target == <<Check(c.hex, "InvalidAddress"),
                       Check(IsReadOnly(c.def), "RefusedMutatingFunction")>>
           known == <<Check(c.known, "UnknownFunction")>>
           network == <<Check(env.network, "Config")>>
           checks == ReadChecks(c)
<1>1. /\ c.hex \in BOOLEAN /\ IsReadOnly(c.def) \in BOOLEAN
      /\ "InvalidAddress" \in Errors /\ "RefusedMutatingFunction" \in Errors
      /\ {"InvalidAddress", "RefusedMutatingFunction"} \subseteq Refusals
  BY DEF AnyCalls, IsReadOnly, Errors, Refusals, TargetErrors, PolicyErrors
<1>2. /\ target \in CheckLists
      /\ Blames(target) = (IF c.hex THEN {} ELSE {"InvalidAddress"})
            \cup (IF IsReadOnly(c.def) THEN {} ELSE {"RefusedMutatingFunction"})
  BY <1>1, TwoChecks
<1>3. /\ known \in CheckLists /\ Blames(known) = IF c.known THEN {} ELSE {"UnknownFunction"}
      /\ network \in CheckLists /\ Blames(network) = IF env.network THEN {} ELSE {"Config"}
      /\ "UnknownFunction" \in Refusals /\ "Config" \notin Refusals
  BY SingleChecks
<1>4. checks = known \o ArgChecks(c) \o target \o ShapeChecks(c) \o network \o ClientChecks
  BY DEF ReadChecks
<1> HIDE DEF target, known, network, checks
<1>5. /\ checks \in CheckLists
      /\ Blames(checks) = Blames(known) \cup Blames(ArgChecks(c)) \cup Blames(target)
              \cup Blames(ShapeChecks(c)) \cup Blames(network) \cup Blames(ClientChecks)
  BY <1>2, <1>3, <1>4, ConcatBlames, ArgChecksBlame, ShapeChecksBlame, ClientChecksBlame
<1>6. /\ Blames(ClientChecks) \cap Refusals = {}
      /\ Blames(ArgChecks(c)) = {} <=> ArgsFit(c)
      /\ Blames(ShapeChecks(c)) = {} <=> ShapeFits(c)
      /\ Blames(ClientChecks) = {} <=> ClientFits
  BY ArgChecksBlame, ShapeChecksBlame, ClientChecksBlame, FailuresBlameNobody
<1>7. Blames(target) = {} <=> c.hex /\ IsReadOnly(c.def)
  BY <1>2
<1>8. /\ Blames(known) = {} <=> c.known
      /\ Blames(network) = {} <=> env.network
      /\ Blames(network) \cap Refusals = {}
  BY <1>3
<1>9. Blames(checks) = {} <=> PassesChecks(c) /\ IsReadOnly(c.def) /\ ClientFits /\ env.network
  BY <1>5, <1>6, <1>7, <1>8 DEF PassesChecks
<1>10. PassesChecks(c) /\ IsReadOnly(c.def) => Blames(checks) \cap Refusals = {}
  BY <1>5, <1>6, <1>7, <1>8 DEF PassesChecks
<1> QED BY <1>5, <1>9, <1>10 DEF Settles, checks

(* The write and the create tool make the same checks, but for their rule. *)
LEMMA SubmitSettles ==
  ASSUME NEW c \in AnyCalls, env \in Environments, NEW rule \in BOOLEAN, NEW error \in PolicyErrors
  PROVE  Settles(<<Check(c.known, "UnknownFunction"), Check(rule, error)>>
                   \o ArgChecks(c) \o <<Check(c.hex, "InvalidAddress")>>
                   \o ShapeChecks(c) \o ClientChecks,
                 PassesChecks(c) /\ rule, ClientFits)
<1> DEFINE entry == <<Check(c.known, "UnknownFunction"), Check(rule, error)>>
           target == <<Check(c.hex, "InvalidAddress")>>
           checks == entry \o ArgChecks(c) \o target \o ShapeChecks(c) \o ClientChecks
<1>1. /\ c.known \in BOOLEAN /\ "UnknownFunction" \in Errors /\ error \in Errors
      /\ {"UnknownFunction", error} \subseteq Refusals
  BY DEF AnyCalls, Errors, Refusals
<1>2. /\ entry \in CheckLists
      /\ Blames(entry) = (IF c.known THEN {} ELSE {"UnknownFunction"})
            \cup (IF rule THEN {} ELSE {error})
  BY <1>1, TwoChecks
<1>3. /\ target \in CheckLists /\ Blames(target) = IF c.hex THEN {} ELSE {"InvalidAddress"}
  BY SingleChecks
<1>4. checks = entry \o ArgChecks(c) \o target \o ShapeChecks(c) \o ClientChecks
  OBVIOUS
<1> HIDE DEF entry, target, checks
<1>5. /\ checks \in CheckLists
      /\ Blames(checks) = Blames(entry) \cup Blames(ArgChecks(c)) \cup Blames(target)
              \cup Blames(ShapeChecks(c)) \cup Blames(ClientChecks)
  BY <1>2, <1>3, <1>4, ConcatBlames, ArgChecksBlame, ShapeChecksBlame, ClientChecksBlame
<1>6. /\ Blames(ClientChecks) \cap Refusals = {}
      /\ Blames(ArgChecks(c)) = {} <=> ArgsFit(c)
      /\ Blames(ShapeChecks(c)) = {} <=> ShapeFits(c)
      /\ Blames(ClientChecks) = {} <=> ClientFits
  BY ArgChecksBlame, ShapeChecksBlame, ClientChecksBlame, FailuresBlameNobody
<1>7. /\ Blames(entry) = {} <=> c.known /\ rule
      /\ Blames(target) = {} <=> c.hex
  BY <1>2, <1>3
<1>8. Blames(checks) = {} <=> PassesChecks(c) /\ rule /\ ClientFits
  BY <1>5, <1>6, <1>7 DEF PassesChecks
<1>9. PassesChecks(c) /\ rule => Blames(checks) \cap Refusals = {}
  BY <1>5, <1>6, <1>7 DEF PassesChecks
<1> QED BY <1>5, <1>8, <1>9 DEF Settles, checks, entry, target

(* A call in a sequence. *)
LEMMA SequenceSettles ==
  ASSUME NEW c \in AnyCalls, env \in Environments
  PROVE  Settles(SequenceChecks(c), PassesChecks(c), ClientFits)
<1> DEFINE known == <<Check(c.known, "UnknownFunction")>>
           target == <<Check(c.hex, "InvalidAddress")>>
           checks == SequenceChecks(c)
<1>1. /\ known \in CheckLists /\ Blames(known) = IF c.known THEN {} ELSE {"UnknownFunction"}
      /\ target \in CheckLists /\ Blames(target) = IF c.hex THEN {} ELSE {"InvalidAddress"}
  BY SingleChecks
<1>2. checks = known \o SequenceArgChecks(c) \o target \o ShapeChecks(c) \o ClientChecks
  BY DEF SequenceChecks
<1> HIDE DEF known, target, checks
<1>3. /\ checks \in CheckLists
      /\ Blames(checks) = Blames(known) \cup Blames(SequenceArgChecks(c)) \cup Blames(target)
              \cup Blames(ShapeChecks(c)) \cup Blames(ClientChecks)
  <2> DEFINE front == known \o SequenceArgChecks(c) \o target
  <2>1. /\ front \in CheckLists
        /\ Blames(front) = Blames(known) \cup Blames(SequenceArgChecks(c)) \cup Blames(target)
    BY <1>1, ConcatBlames, SequenceArgChecksBlame
  <2>2. checks = front \o ShapeChecks(c) \o ClientChecks
    BY <1>2
  <2> HIDE DEF front
  <2> QED BY <2>1, <2>2, ConcatBlames, ShapeChecksBlame, ClientChecksBlame
<1>4. /\ Blames(ClientChecks) \cap Refusals = {}
      /\ Blames(SequenceArgChecks(c)) = {} <=> ArgsFit(c)
      /\ Blames(ShapeChecks(c)) = {} <=> ShapeFits(c)
      /\ Blames(ClientChecks) = {} <=> ClientFits
  BY SequenceArgChecksBlame, ShapeChecksBlame, ClientChecksBlame, FailuresBlameNobody
<1>5. /\ Blames(known) = {} <=> c.known
      /\ Blames(target) = {} <=> c.hex
  BY <1>1
<1>6. Blames(checks) = {} <=> PassesChecks(c) /\ ClientFits
  BY <1>3, <1>4, <1>5 DEF PassesChecks
<1>7. PassesChecks(c) => Blames(checks) \cap Refusals = {}
  BY <1>3, <1>4, <1>5 DEF PassesChecks
<1> QED BY <1>3, <1>6, <1>7 DEF Settles, checks

(* The verdict of the tool a call was made through: it lets the call       *)
(* through exactly if it passes the checks and suits the tool, and blames  *)
(* it only if it does not.                                                 *)
LEMMA VerdictIsFair ==
  ASSUME NEW c \in AnyCalls, c.tool \in CallTools, env \in Environments
  PROVE  /\ Verdict(c) \in {"Ok"} \cup Errors
         /\ Verdict(c) = "Ok" => PassesChecks(c) /\ Suits(c.tool, c.def) /\ ClientFits
         /\ PassesChecks(c) /\ Suits(c.tool, c.def) =>
              /\ Verdict(c) \notin Refusals
              /\ ClientFits /\ env.network => Verdict(c) = "Ok"
<1>1. ASSUME NEW checks, NEW good \in BOOLEAN, NEW ready \in BOOLEAN, Settles(checks, good, ready)
      PROVE  /\ FirstError(checks) \in {"Ok"} \cup Errors
             /\ FirstError(checks) = "Ok" <=> good /\ ready
             /\ good => FirstError(checks) \notin Refusals
  <2>1. checks \in CheckLists
    BY <1>1 DEF Settles
  <2>2. /\ Blames(checks) = {} => FirstError(checks) = "Ok"
        /\ Blames(checks) # {} => FirstError(checks) \in Blames(checks)
        /\ Blames(checks) \subseteq Errors
    BY <2>1, FirstErrorIsBlamed
  <2>3. "Ok" \notin Errors /\ Refusals \subseteq Errors
    BY OkIsNoError DEF Errors
  <2> QED BY <1>1, <2>2, <2>3 DEF Settles
<1>2. CASE c.tool = "read"
  <2>1. Verdict(c) = FirstError(ReadChecks(c))
    BY <1>2 DEF Verdict
  <2>2. Suits(c.tool, c.def) <=> IsReadOnly(c.def)
    BY <1>2 DEF Suits
  <2>3. Settles(ReadChecks(c), PassesChecks(c) /\ IsReadOnly(c.def), ClientFits /\ env.network)
    BY ReadSettles
  <2>4. (PassesChecks(c) /\ IsReadOnly(c.def)) \in BOOLEAN /\ (ClientFits /\ env.network) \in BOOLEAN
    OBVIOUS
  <2>5. /\ FirstError(ReadChecks(c)) \in {"Ok"} \cup Errors
        /\ FirstError(ReadChecks(c)) = "Ok" <=>
             (PassesChecks(c) /\ IsReadOnly(c.def)) /\ (ClientFits /\ env.network)
        /\ PassesChecks(c) /\ IsReadOnly(c.def) => FirstError(ReadChecks(c)) \notin Refusals
    BY <1>1, <2>3, <2>4
  <2> QED BY <2>1, <2>2, <2>5
<1>3. ASSUME NEW rule \in BOOLEAN, NEW error \in PolicyErrors, Suits(c.tool, c.def) <=> rule,
             Verdict(c) = FirstError(<<Check(c.known, "UnknownFunction"), Check(rule, error)>>
                   \o ArgChecks(c) \o <<Check(c.hex, "InvalidAddress")>>
                   \o ShapeChecks(c) \o ClientChecks)
      PROVE  /\ Verdict(c) \in {"Ok"} \cup Errors
             /\ Verdict(c) = "Ok" => PassesChecks(c) /\ Suits(c.tool, c.def) /\ ClientFits
             /\ PassesChecks(c) /\ Suits(c.tool, c.def) =>
                  /\ Verdict(c) \notin Refusals
                  /\ ClientFits /\ env.network => Verdict(c) = "Ok"
  <2> DEFINE checks == <<Check(c.known, "UnknownFunction"), Check(rule, error)>>
                   \o ArgChecks(c) \o <<Check(c.hex, "InvalidAddress")>>
                   \o ShapeChecks(c) \o ClientChecks
  <2>1. Settles(checks, PassesChecks(c) /\ rule, ClientFits)
    BY SubmitSettles
  <2>2. Verdict(c) = FirstError(checks)
    BY <1>3
  <2> HIDE DEF checks
  <2>3. (PassesChecks(c) /\ rule) \in BOOLEAN /\ ClientFits \in BOOLEAN
    BY DEF ClientFits
  <2>4. /\ FirstError(checks) \in {"Ok"} \cup Errors
        /\ FirstError(checks) = "Ok" <=> (PassesChecks(c) /\ rule) /\ ClientFits
        /\ PassesChecks(c) /\ rule => FirstError(checks) \notin Refusals
    BY <1>1, <2>1, <2>3
  <2> QED BY <1>3, <2>2, <2>4
<1>4. CASE c.tool = "write"
  <2>1. /\ IsMutating(c.def) \in BOOLEAN /\ "RefusedNonMutatingFunction" \in PolicyErrors
        /\ Suits(c.tool, c.def) <=> IsMutating(c.def)
    BY <1>4 DEF Suits, IsMutating, PolicyErrors, AnyCalls, FunctionDefs
  <2>2. Verdict(c) = FirstError(WriteChecks(c))
    BY <1>4 DEF Verdict
  <2> QED BY <1>3, <2>1, <2>2 DEF WriteChecks
<1>5. CASE c.tool = "create"
  <2>1. /\ IsConstructor(c.def) \in BOOLEAN /\ "NotAConstructor" \in PolicyErrors
        /\ Suits(c.tool, c.def) <=> IsConstructor(c.def)
    BY <1>5 DEF Suits, IsConstructor, PolicyErrors
  <2>2. Verdict(c) = FirstError(CreateChecks(c))
    BY <1>5 DEF Verdict
  <2> QED BY <1>3, <2>1, <2>2 DEF CreateChecks
<1>6. CASE c.tool = "sequence"
  <2>1. Verdict(c) = FirstError(SequenceChecks(c)) /\ Suits(c.tool, c.def)
    BY <1>6 DEF Verdict, Suits
  <2>2. Settles(SequenceChecks(c), PassesChecks(c), ClientFits)
    BY SequenceSettles
  <2>3. PassesChecks(c) \in BOOLEAN /\ ClientFits \in BOOLEAN
    BY DEF ClientFits, PassesChecks
  <2>4. /\ FirstError(SequenceChecks(c)) \in {"Ok"} \cup Errors
        /\ FirstError(SequenceChecks(c)) = "Ok" <=> PassesChecks(c) /\ ClientFits
        /\ PassesChecks(c) => FirstError(SequenceChecks(c)) \notin Refusals
    BY <1>1, <2>2, <2>3
  <2> QED BY <2>1, <2>4
<1> QED BY <1>2, <1>4, <1>5, <1>6 DEF CallTools

-----------------------------------------------------------------------------
(* What the checks find out one by one is what Fits and Meant say at once. *)
LEMMA ArgsFitMeans ==
  ASSUME NEW c \in AnyCalls
  PROVE  ArgsFit(c) <=> /\ Len(c.args) = ExpectedArgs(c.def)
                        /\ c.args \in [1 .. Len(c.args) -> {"good"}]
<1>1. /\ c.args \in [1 .. Len(c.args) -> ArgKinds]
      /\ \A i \in 1 .. Len(c.args) : c.args[i] \in ArgKinds
  BY LenProperties DEF AnyCalls
<1>2. \A i \in 1 .. Len(c.args) :
        c.args[i] = "good" <=> c.args[i] # "noArgValue" /\ c.args[i] # "noEncoding"
  BY <1>1 DEF ArgKinds
<1>3. c.args \in [1 .. Len(c.args) -> {"good"}] <=> \A i \in 1 .. Len(c.args) : c.args[i] = "good"
  BY <1>1
<1> QED BY <1>2, <1>3 DEF ArgsFit, All

LEMMA FitsIsPassing ==
  ASSUME NEW c \in AnyCalls
  PROVE  Fits(c) <=> PassesChecks(c) /\ (c.address = "component" => c.parses)
<1> DEFINE given == Len(c.args)
           wanted == Len(c.def.arguments)
           good == c.args \in [1 .. Len(c.args) -> {"good"}]
<1>1. /\ HasSelf(c.def) <=> wanted > 0 /\ c.def.arguments[1] = "self"
      /\ ExpectedArgs(c.def) = IF HasSelf(c.def) THEN wanted - 1 ELSE wanted
      /\ wanted \in Nat /\ c.address \in {"component", "template"}
  <2>1. c.def \in FunctionDefs /\ c.address \in {"component", "template"}
    BY DEF AnyCalls, Addresses
  <2> QED BY <2>1, DefTyped
<1>2. given \in Nat /\ (c.args # << >> <=> given > 0)
  BY EmptySeq, LenProperties DEF AnyCalls
<1>3. ArgsFit(c) <=> given = ExpectedArgs(c.def) /\ good
  BY ArgsFitMeans
<1>4. Fits(c) <=>
        /\ c.known /\ c.hex /\ ~ c.def.longName
        /\ c.address = "component" => c.parses
        /\ good
        /\ IF c.address = "component"
           THEN wanted = given + 1 /\ c.def.arguments[1] = "self"
           ELSE wanted = given /\ (c.args # << >> => c.def.arguments[1] # "self")
  BY DEF Fits
<1> HIDE DEF given, wanted, good
<1>5. CASE c.address = "component"
  <2>1. given = ExpectedArgs(c.def) /\ HasSelf(c.def)
          <=> wanted = given + 1 /\ c.def.arguments[1] = "self"
    BY <1>1, <1>2
  <2> QED BY <1>3, <1>4, <1>5, <2>1 DEF PassesChecks, ShapeFits
<1>6. CASE c.address # "component"
  <2>1. given = ExpectedArgs(c.def) /\ ~ HasSelf(c.def)
          <=> wanted = given /\ (c.args # << >> => c.def.arguments[1] # "self")
    BY <1>1, <1>2
  <2> QED BY <1>3, <1>4, <1>6, <2>1 DEF PassesChecks, ShapeFits
<1> QED BY <1>5, <1>6

LEMMA MeantIsSuiting ==
  ASSUME NEW c \in AnyCalls, c.tool \in CallTools, PassesChecks(c)
  PROVE  Meant(c) <=> Suits(c.tool, c.def)
<1>1. (HasSelf(c.def) <=> c.address = "component") /\ c.address \in {"component", "template"}
  BY DEF PassesChecks, ShapeFits, AnyCalls, Addresses
<1>2. CASE c.tool = "read"
  BY <1>2 DEF Meant, Suits, IsReadOnly
<1>3. CASE c.tool = "write"
  BY <1>3 DEF Meant, Suits, IsMutating
<1>4. CASE c.tool = "create"
  <2>1. Meant(c) <=> ~ c.def.is_mut /\ c.address = "template" /\ c.def.output = "component"
    BY <1>4 DEF Meant
  <2> QED BY <1>1, <1>4, <2>1 DEF Suits, IsConstructor
<1>5. CASE c.tool = "sequence"
  BY <1>5 DEF Meant, Suits
<1> QED BY <1>2, <1>3, <1>4, <1>5 DEF CallTools

-----------------------------------------------------------------------------
(* The policies, by the verdict on a well-made call. *)
LEMMA WellMadePasses ==
  ASSUME NEW tool \in CallTools, NEW def \in FunctionDefs, ~ def.longName
  PROVE  WellMade(tool, def) \in AnyCalls /\ PassesChecks(WellMade(tool, def))
<1> DEFINE c == WellMade(tool, def)
           args == [i \in 1 .. ExpectedArgs(def) |-> "good"]
<1>1. /\ c.tool = tool /\ c.parses = TRUE /\ c.hex = TRUE /\ c.known = TRUE /\ c.def = def
      /\ c.args = args /\ c.address = IF HasSelf(def) THEN "component" ELSE "template"
  BY DEF WellMade
<1>2. ExpectedArgs(def) \in Nat
  BY DefTyped
<1>3. args \in Seq(ArgKinds) /\ Len(args) = ExpectedArgs(def)
  BY <1>2 DEF ArgKinds
<1>4. c \in AnyCalls
  BY <1>3 DEF WellMade, AnyCalls, Addresses
<1>5. c.args \in [1 .. Len(c.args) -> {"good"}] /\ Len(c.args) = ExpectedArgs(c.def)
  BY <1>1, <1>3
<1> HIDE DEF c, args
<1>6. ArgsFit(c)
  BY <1>4, <1>5, ArgsFitMeans
<1>7. ShapeFits(c)
  BY <1>1 DEF ShapeFits
<1>8. PassesChecks(c)
  BY <1>1, <1>6, <1>7 DEF PassesChecks
<1> QED BY <1>4, <1>8 DEF c

LEMMA TakenBySuits ==
  ASSUME NEW tool \in CallTools, NEW def \in FunctionDefs, ~ def.longName,
         env = [key |-> TRUE, endpoint |-> TRUE, network |-> TRUE]
  PROVE  TakenBy(tool, def) <=> Suits(tool, def)
<1> DEFINE c == WellMade(tool, def)
<1>1. c \in AnyCalls /\ PassesChecks(c) /\ c.tool = tool /\ c.def = def
  BY WellMadePasses DEF WellMade
<1>2. env \in Environments /\ ClientFits /\ env.network
  BY DEF Environments, ClientFits
<1>3. TakenBy(tool, def) <=> Verdict(c) = "Ok"
  BY DEF TakenBy
<1> HIDE DEF c
<1> QED BY <1>1, <1>2, <1>3, VerdictIsFair

LEMMA PoliciesAlwaysFit ==
  ASSUME TypeOK
  PROVE  PoliciesFit
<1> SUFFICES ASSUME env = [key |-> TRUE, endpoint |-> TRUE, network |-> TRUE], ~ call.def.longName
             PROVE  /\ TakenBy("read", call.def) <=> ~ TakenBy("write", call.def)
                    /\ TakenBy("create", call.def) => TakenBy("read", call.def)
                    /\ TakenBy("sequence", call.def)
                    /\ Summary(call.def) # "not callable" <=> TakenBy("read", call.def)
  BY DEF PoliciesFit
<1>1. call.def \in FunctionDefs
  BY CallsAreCalls DEF TypeOK, AnyCalls
<1>2. \A tool \in CallTools : TakenBy(tool, call.def) <=> Suits(tool, call.def)
  BY <1>1, TakenBySuits
<1>3. {"read", "write", "create", "sequence"} \subseteq CallTools
  BY DEF CallTools
<1>4. /\ TakenBy("read", call.def) <=> ~ call.def.is_mut
      /\ TakenBy("write", call.def) <=> call.def.is_mut
      /\ TakenBy("create", call.def) => ~ call.def.is_mut
      /\ TakenBy("sequence", call.def)
  BY <1>2, <1>3 DEF Suits, IsReadOnly, IsMutating, IsConstructor
<1>5. Summary(call.def) # "not callable" <=> ~ call.def.is_mut
  BY DEF Summary
<1> QED BY <1>4, <1>5

-----------------------------------------------------------------------------
(* What a call's place says of it: once the target is resolved the address *)
(* is one its tool takes, and beyond the checks the call is a good one.    *)
PlaceInv ==
  /\ stage = "reading" /\ call.tool \in CallTools =>
       (call.address = "component" => call.tool # "create" /\ call.parses)
  /\ stage \in {"account", "dryRunning"} =>
       call.tool \in CallTools /\ Fits(call) /\ Meant(call) /\ env.key /\ env.endpoint
  /\ stage = "dryRunning" => call.tool = "read"

ToolCallInv == TypeOK /\ PlaceInv /\ AdmitsExactlyWhatFits /\ WalletHearsOnlyOfGoodCalls

LEMMA ToolCallInit == Init => ToolCallInv
BY DEF Init, ToolCallInv, TypeOK, PlaceInv, AdmitsExactlyWhatFits, WalletHearsOnlyOfGoodCalls, Stages,
       Refusals, ShapeErrors, ArgErrors, TargetErrors, PolicyErrors

Results == {"none", "Ok", "Admitted"} \cup Refusals \cup Failures

LEMMA ResultsAre ==
  /\ Errors \subseteq Results
  /\ {"InvalidComponent", "RefusedComponentAddress"} \subseteq Refusals
  /\ IndexerErrors \cup {"NotAComponent", "Walletd", "WalletNotReady", "NoOwnerKey"} \subseteq Failures
  /\ "none" \notin Refusals /\ "Ok" \notin Refusals /\ "Admitted" \notin Refusals
  /\ Refusals \cap Failures = {}
  /\ "Ok" \notin Failures /\ "Admitted" \notin Failures
<1>1. /\ Errors \subseteq Results /\ {"InvalidComponent", "RefusedComponentAddress"} \subseteq Refusals
      /\ IndexerErrors \cup {"NotAComponent", "Walletd", "WalletNotReady", "NoOwnerKey"} \subseteq Failures
  BY DEF Errors, Results, Refusals, Failures, TargetErrors
<1> QED BY <1>1, OkIsNoError, FailuresBlameNobody DEF Errors

(* A call that returns keeps the invariant if its result is in order. *)
LEMMA ReturnKeeps ==
  ASSUME ToolCallInv, NEW value \in Results, Return(value), UNCHANGED <<call, env, asked, audit>>,
         call.tool \in CallTools =>
           /\ value \in {"Ok", "Admitted"} => Fits(call) /\ Meant(call)
           /\ value \in Refusals => ~ (Fits(call) /\ Meant(call))
  PROVE  ToolCallInv'
<1>1. stage' = "auditing" /\ result' = value
  BY DEF Return, Goto
<1>2. TypeOK'
  BY <1>1 DEF ToolCallInv, TypeOK, Stages, Results
<1>3. PlaceInv'
  BY <1>1 DEF PlaceInv
<1>4. AdmitsExactlyWhatFits'
  BY <1>1 DEF AdmitsExactlyWhatFits, Fits, Meant
<1>5. WalletHearsOnlyOfGoodCalls'
  BY DEF ToolCallInv, WalletHearsOnlyOfGoodCalls, Fits, Meant
<1> QED BY <1>2, <1>3, <1>4, <1>5 DEF ToolCallInv

LEMMA CheckCallKeeps ==
  ASSUME ToolCallInv, CheckCall
  PROVE  ToolCallInv'
<1>1. call \in AnyCalls /\ env \in Environments /\ call.tool \in CallTools /\ stage = "reading"
  BY CallsAreCalls DEF ToolCallInv, TypeOK, CheckCall
<1>2. call.address = "component" => call.tool # "create" /\ call.parses
  BY <1>1 DEF ToolCallInv, PlaceInv
<1>3. Fits(call) /\ Meant(call) <=> PassesChecks(call) /\ Suits(call.tool, call.def)
  BY <1>1, <1>2, FitsIsPassing, MeantIsSuiting
<1>4. /\ Verdict(call) \in {"Ok"} \cup Errors
      /\ Verdict(call) = "Ok" => Fits(call) /\ Meant(call) /\ ClientFits
      /\ Verdict(call) \in Refusals => ~ (Fits(call) /\ Meant(call))
  BY <1>1, <1>3, VerdictIsFair
<1>5. CASE Verdict(call) # "Ok"
  <2>1. Return(Verdict(call)) /\ UNCHANGED <<call, env, asked, audit>>
    BY <1>5 DEF CheckCall
  <2>2. Verdict(call) \in Results /\ Verdict(call) \notin {"Ok", "Admitted"}
    BY <1>4, <1>5, OkIsNoError, ResultsAre
  <2> QED BY <1>4, <2>1, <2>2, ReturnKeeps
<1>6. CASE Verdict(call) = "Ok"
  <2>1. stage' = "account" /\ asked' = "account" /\ UNCHANGED <<call, env, result, audit>>
    BY <1>6 DEF CheckCall, Goto
  <2>2. Fits(call)' /\ Meant(call)' /\ (env.key /\ env.endpoint)'
    BY <1>4, <1>6, <2>1 DEF ClientFits, Fits, Meant
  <2>3. TypeOK' /\ PlaceInv' /\ WalletHearsOnlyOfGoodCalls'
    BY <1>1, <2>1, <2>2 DEF ToolCallInv, TypeOK, Stages, AwaitsRpc, PlaceInv, WalletHearsOnlyOfGoodCalls
  <2>4. AdmitsExactlyWhatFits'
    BY <2>1 DEF ToolCallInv, AdmitsExactlyWhatFits, Fits, Meant
  <2> QED BY <2>3, <2>4 DEF ToolCallInv
<1> QED BY <1>5, <1>6

LEMMA ToolCallStep == ToolCallInv /\ [Next]_vars => ToolCallInv'
<1> SUFFICES ASSUME ToolCallInv, [Next]_vars PROVE ToolCallInv'
  OBVIOUS
<1>0. TypeOK /\ PlaceInv /\ AdmitsExactlyWhatFits /\ WalletHearsOnlyOfGoodCalls
  BY DEF ToolCallInv
(* A step that returns nothing and asks nothing. *)
<1>1. ASSUME UNCHANGED <<call, env, result, asked>>, TypeOK', PlaceInv'
      PROVE  ToolCallInv'
  BY <1>0, <1>1 DEF ToolCallInv, AdmitsExactlyWhatFits, WalletHearsOnlyOfGoodCalls, Fits, Meant
<1>2. CASE Start
  <2>1. TypeOK' /\ PlaceInv'
    BY <1>0, <1>2 DEF Start, Goto, TypeOK, Stages, AwaitsRpc, PlaceInv, CallTools, AbiTools
  <2> QED BY <1>1, <1>2, <2>1 DEF Start
<1>3. CASE RefuseTarget
  <2>1. PICK value \in {"RefusedComponentAddress", "InvalidComponent"} :
          /\ Return(value)
          /\ call.address = "component"
          /\ value = "RefusedComponentAddress" => call.tool = "create"
          /\ value = "InvalidComponent" => ~ call.parses
    BY <1>3 DEF RefuseTarget
  <2>2. ~ (Fits(call) /\ Meant(call))
    BY <2>1 DEF Fits, Meant
  <2>3. value \in Refusals /\ value \in Results
    BY <2>1, ResultsAre DEF Results
  <2> QED BY <1>3, <2>1, <2>2, <2>3, ReturnKeeps DEF RefuseTarget
<1>4. CASE ResolveTarget
  <2>1. CASE Return("NotAComponent")
    <3>1. "NotAComponent" \in Results /\ "NotAComponent" \notin Refusals
      BY ResultsAre DEF Results
    <3> QED BY <1>4, <2>1, <3>1, ReturnKeeps DEF ResolveTarget
  <2>2. CASE /\ AsksForSubstate \/ (stage = "resolving" /\ call.address = "template")
             /\ Goto("reading") /\ UNCHANGED result
    <3>1. TypeOK' /\ PlaceInv'
      BY <1>0, <1>4, <2>2 DEF ResolveTarget, AsksForSubstate, Goto, TypeOK, Stages, AwaitsRpc, PlaceInv
    <3> QED BY <1>1, <1>4, <2>2, <3>1 DEF ResolveTarget
  <2> QED BY <1>4, <2>1, <2>2 DEF ResolveTarget
<1>5. CASE IndexerFails
  <2>1. PICK error \in IndexerErrors : Return(error)
    BY <1>5 DEF IndexerFails
  <2>2. error \in Results /\ error \notin Refusals /\ error \notin {"Ok", "Admitted"}
    BY ResultsAre DEF Results
  <2> QED BY <1>5, <2>1, <2>2, ReturnKeeps DEF IndexerFails
<1>6. CASE AnswerAbi
  <2>1. call.tool \notin CallTools /\ "Ok" \in Results
    BY <1>6 DEF AnswerAbi, AbiTools, CallTools, Results
  <2> QED BY <1>6, <2>1, ReturnKeeps DEF AnswerAbi
<1>7. CASE CheckCall
  BY <1>7, CheckCallKeeps
<1>8. CASE FetchAccount
  <2>1. call.tool = "read" /\ Fits(call) /\ Meant(call) /\ env.key /\ env.endpoint
    BY <1>0, <1>8 DEF FetchAccount, PlaceInv
  <2>2. CASE \E error \in {"Walletd", "NoOwnerKey"} : Return(error) /\ UNCHANGED asked
    <3>1. PICK error \in {"Walletd", "NoOwnerKey"} : Return(error) /\ UNCHANGED asked
      BY <2>2
    <3>2. error \in Results /\ error \notin Refusals /\ error \notin {"Ok", "Admitted"}
      BY ResultsAre DEF Results
    <3> QED BY <1>8, <3>1, <3>2, ReturnKeeps DEF FetchAccount
  <2>3. CASE Goto("dryRunning") /\ asked' = "dry run" /\ UNCHANGED result
    <3>1. UNCHANGED <<call, env, result, audit>> /\ stage' = "dryRunning" /\ asked' = "dry run"
      BY <1>8, <2>3 DEF FetchAccount, Goto
    <3>2. TypeOK' /\ PlaceInv' /\ AdmitsExactlyWhatFits' /\ WalletHearsOnlyOfGoodCalls'
      BY <1>0, <2>1, <3>1 DEF TypeOK, Stages, AwaitsRpc, PlaceInv, AdmitsExactlyWhatFits,
                              WalletHearsOnlyOfGoodCalls, Fits, Meant, CallTools
    <3> QED BY <3>2 DEF ToolCallInv
  <2> QED BY <1>8, <2>2, <2>3 DEF FetchAccount
<1>9. CASE EnsureWalletReady
  <2>1. PICK value \in {"WalletNotReady", "Admitted"} : Return(value)
    BY <1>9 DEF EnsureWalletReady
  <2>2. value \in Results /\ value \notin Refusals /\ Fits(call) /\ Meant(call)
    BY <1>0, <1>9, ResultsAre DEF Results, EnsureWalletReady, PlaceInv
  <2> QED BY <1>9, <2>1, <2>2, ReturnKeeps DEF EnsureWalletReady
<1>10. CASE DryRun
  <2>1. PICK value \in {"Ok", "Walletd"} : Return(value)
    BY <1>10 DEF DryRun
  <2>2. value \in Results /\ value \notin Refusals /\ Fits(call) /\ Meant(call)
    BY <1>0, <1>10, ResultsAre DEF Results, DryRun, PlaceInv
  <2> QED BY <1>10, <2>1, <2>2, ReturnKeeps DEF DryRun
<1>11. CASE AuditCompletion
  <2>1. StatusOf(result) \in {"Success", "Started", "Error"}
    BY DEF StatusOf
  <2>2. TypeOK' /\ PlaceInv'
    BY <1>0, <1>11, <2>1 DEF AuditCompletion, Goto, TypeOK, Stages, PlaceInv
  <2> QED BY <1>1, <1>11, <2>2 DEF AuditCompletion
<1>12. CASE UNCHANGED vars
  <2>1. UNCHANGED <<call, env, stage, result, asked, audit>>
    BY <1>12 DEF vars
  <2>2. TypeOK'
    BY <1>0, <2>1 DEF TypeOK
  <2>3. Fits(call)' = Fits(call) /\ Meant(call)' = Meant(call)
    BY <2>1 DEF Fits, Meant
  <2>4. PlaceInv'
    BY <1>0, <2>1, <2>3 DEF PlaceInv
  <2> QED BY <1>1, <2>1, <2>2, <2>4
<1> QED BY <1>2, <1>3, <1>4, <1>5, <1>6, <1>7, <1>8, <1>9, <1>10, <1>11, <1>12 DEF Next, Rpc

LEMMA ToolCallInvariant == Spec => []ToolCallInv
BY ToolCallInit, ToolCallStep, PTL DEF Spec

(* Every variable of a call stays in its range. *)
THEOREM ToolCallTypeOK == Spec => []TypeOK
<1>1. ToolCallInv => TypeOK
  BY DEF ToolCallInv
<1> QED BY <1>1, ToolCallInvariant, PTL

(* The checks of call_ootle_read_function, call_ootle_write_function,      *)
(* call_ootle_create_function and of a call in call_ootle_write_sequence,  *)
(* in their four orders, let a call through only if it fits its ABI entry  *)
(* and its tool, and blame only one that does not, for entries and lists   *)
(* of any length.                                                          *)
THEOREM ToolCallAdmitsExactlyWhatFits == Spec => []AdmitsExactlyWhatFits
<1>1. ToolCallInv => AdmitsExactlyWhatFits
  BY DEF ToolCallInv
<1> QED BY <1>1, ToolCallInvariant, PTL

(* Walletd is asked nothing for a call that does not fit, is not meant for *)
(* its tool, or comes to a gateway that is not configured.                 *)
THEOREM ToolCallWalletHearsOnlyOfGoodCalls == Spec => []WalletHearsOnlyOfGoodCalls
<1>1. ToolCallInv => WalletHearsOnlyOfGoodCalls
  BY DEF ToolCallInv
<1> QED BY <1>1, ToolCallInvariant, PTL

(* Whatever its entry: a function is taken by exactly one of the dry run   *)
(* and the write tool, nothing that mutates is submitted ungated, the      *)
(* gated sequence takes it in any case, and its summary names the read     *)
(* tool exactly if that tool takes it.                                     *)
THEOREM ToolCallPoliciesFit == Spec => []PoliciesFit
<1>1. ToolCallInv => PoliciesFit
  BY PoliciesAlwaysFit DEF ToolCallInv
<1> QED BY <1>1, ToolCallInvariant, PTL

=============================================================================
