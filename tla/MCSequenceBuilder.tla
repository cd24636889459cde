------------------------- MODULE MCSequenceBuilder -------------------------
(***************************************************************************)
(* The sequence builder on all requests of a few steps.                    *)
(***************************************************************************)
EXTENDS SequenceBuilder

Def(known, self, arity) == [known |-> known, self |-> self, arity |-> arity]

(* Withdrawals that fit, and one of each kind that does not. *)
MCWithdraws ==
  [kind : {"withdraw"}, component : {TRUE}, key : Keys, def : {Def(TRUE, TRUE, 2)}]
  \cup [kind : {"withdraw"}, component : {TRUE}, key : {"a"},
        def : {Def(TRUE, FALSE, 2), Def(TRUE, TRUE, 1), Def(FALSE, FALSE, 0)}]
  \cup [kind : {"withdraw"}, component : {FALSE}, key : {"a"}, def : {Def(TRUE, TRUE, 2)}]

(* Calls of a function with references in either place, and calls with the *)
(* wrong number of arguments, of a method on a template or of a function   *)
(* on a component, or of a name that the ABI does not know.                *)
MCCalls ==
  [kind : {"call"}, component : {FALSE}, def : {Def(TRUE, FALSE, 2)},
   args : {<<"a", "b">>, <<"b", "a">>, <<"c", "c">>, <<Literal, "a">>}]
  \cup [kind : {"call"}, component : BOOLEAN, args : {<< >>, <<"a">>}, def : {Def(TRUE, TRUE, 1)}]
  \cup [kind : {"call"}, component : {TRUE}, args : {<<Literal>>},
        def : {Def(TRUE, FALSE, 1), Def(FALSE, FALSE, 1)}]

MCSteps == MCWithdraws \cup MCCalls
=============================================================================
