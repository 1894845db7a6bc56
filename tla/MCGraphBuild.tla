---------------------------- MODULE MCGraphBuild ----------------------------
(***************************************************************************)
(* Prompt lists of three: numbered 0, 1, 2, or with two prompts that both  *)
(* have the default number 0; distinct names, a repeated one, or one       *)
(* prompt without a name; any histories, and one condition or abort        *)
(* condition that refers to any set of names.                              *)
(***************************************************************************)
EXTENDS GraphBuild

Names == {"a", "b", "c"}

Numberings == {<<0, 1, 2>>, <<0, 0, 1>>}
Namings == {<<"a", "b", "c">>, <<"a", "b", "a">>, <<"a", "b", NoName>>}

Lists(Numbering, Naming, Histories, Condition, Abort) ==
    {[i \in 1..3 |->
        [sequence |-> num[i], name |-> nms[i], history |-> h[i],
         condition |-> IF i = j THEN c ELSE {},
         abort_condition |-> IF i = j THEN a ELSE {}]] :
        num \in Numbering, nms \in Naming, h \in [1..3 -> Histories],
        j \in 1..3, c \in Condition, a \in Abort}

Singles == {{}} \cup {{n} : n \in Names}

MCPromptLists ==
    Lists(Numberings, Namings, Singles, Singles, Singles)
        \cup Lists({<<0, 1, 2>>}, {<<"a", "b", "c">>}, SUBSET Names, {{}}, {{}})

(* Lists as a caller writes them: numbered by position, all names different. *)
MCNumberedLists ==
    Lists({<<0, 1, 2>>}, {<<"a", "b", "c">>}, Singles, {{}}, Singles)
=============================================================================
