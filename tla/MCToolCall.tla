----------------------------- MODULE MCToolCall -----------------------------
(***************************************************************************)
(* One call of each tool, of functions and methods of up to two arguments, *)
(* with lists of up to two arguments that are wrong in every way.          *)
(***************************************************************************)
EXTENDS ToolCall

MCDefinitions ==
  [is_mut : BOOLEAN, output : {"component", "other"}, longName : {FALSE},
   arguments : {<< >>, <<"self">>, <<"other">>, <<"self", "other">>, <<"other", "self">>,
                <<"other", "other">>}]
  \cup [is_mut : BOOLEAN, output : {"other"}, longName : {TRUE}, arguments : {<<"self">>}]

MCArgLists ==
  {<< >>, <<"good", "good">>, <<"good", "noEncoding">>, <<"noEncoding", "noArgValue">>}
  \cup {<<kind>> : kind \in ArgKinds}
=============================================================================
