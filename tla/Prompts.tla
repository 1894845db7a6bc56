-------------------------------- MODULE Prompts --------------------------------
(***************************************************************************)
(* How a prompt becomes the text that is sent: {{name.response}} and       *)
(* {{name.response.field}} are replaced by earlier answers, and the        *)
(* interactions its history names are put in front. The code does it       *)
(* twice, for single calls (PromptBuilder) and for the graphs of workflows *)
(* (resolve_graph_prompt). A text is a sequence of words and references;   *)
(* what a replacement and its surroundings spell together is left out.     *)
(***************************************************************************)
EXTENDS Naturals, Sequences, SequencesExt

Word(name) == [reference |-> FALSE, name |-> name, field |-> ""]

Reference(name, field) == [reference |-> TRUE, name |-> name, field |-> field]

(* An answer: its text and, of one that is JSON, what a path in it leads to. *)
TextAnswer(text) == [json |-> FALSE, text |-> text, fields |-> <<>>]

JsonAnswer(text, fields) == [json |-> TRUE, text |-> text, fields |-> fields]

-----------------------------------------------------------------------------
(* prompt_utils *)

(* extract_json_field: nothing, where the path leads nowhere. A field of what
   is no JSON is all of it. *)
Value(answer, field) ==
    CASE field = "" \/ ~answer.json -> answer.text
      [] field \in DOMAIN answer.fields -> answer.fields[field]
      [] OTHER -> <<>>

Replaced(text, token, by) ==
    FlattenSeq([i \in DOMAIN text |-> IF text[i] = token THEN by ELSE << text[i] >>])

(* interpolate_prompt: the references of the prompt, one after the other, each
   replaced in all of the text there is by then, earlier answers included. *)
Interpolate(text, answers, strict) ==
    LET step(s, r) ==
            IF r.name \in DOMAIN answers
              THEN [s EXCEPT !.text = Replaced(@, r, Value(answers[r.name], r.field)),
                             !.names = @ \union {r.name}]
            ELSE [s EXCEPT !.text = Replaced(@, r, <<>>), !.refused = strict]
        once(s, r) == IF s.refused THEN s ELSE step(s, r)
    IN FoldLeft(once, [text |-> text, names |-> {}, refused |-> FALSE],
                SelectSeq(text, LAMBDA t : t.reference))

-----------------------------------------------------------------------------
(* PromptBuilder; attrs: the recorded prompts and answers, by name. *)

Named(attrs, name) == SelectSeq(attrs, LAMBDA a : a.name = name)

Answers(attrs) ==
    [name \in {attrs[k].name : k \in DOMAIN attrs} |-> Last(Named(attrs, name)).answer]

(* What is put in front, and the text that follows it. *)
Final(resolved, entries) ==
    [refused |-> FALSE, text |-> resolved.text, names |-> resolved.names,
     shown |-> SelectSeq(entries, LAMBDA e : e.name \notin resolved.names)]

RefusedPrompt == [refused |-> TRUE]

(* The prompts of the interactions are resolved again, with the answers there
   are now. *)
BuildPrompt(prompt, history, attrs, strict) ==
    LET answers == Answers(attrs)
        resolved == Interpolate(prompt, answers, strict)
        known == SelectSeq(history, LAMBDA name : name \in DOMAIN answers)
        asked(name) == Interpolate(Last(Named(attrs, name)).prompt, answers, strict) IN
    IF resolved.refused \/ \E name \in ToSet(known) : asked(name).refused THEN RefusedPrompt
    ELSE Final(resolved, [k \in DOMAIN known |->
                  [name |-> known[k], prompt |-> asked(known[k]).text, answer |-> answers[known[k]].text]])

-----------------------------------------------------------------------------
(* resolve_graph_prompt; results: the answers of the earlier levels. The results
   carry no prompt, so the name of an interaction stands for it. *)
ResolveGraphPrompt(prompt, history, results) ==
    LET known == SelectSeq(history, LAMBDA name : name \in DOMAIN results) IN
    Final(Interpolate(prompt, results, FALSE),
          [k \in DOMAIN known |->
              [name |-> known[k], prompt |-> << Word(known[k]) >>, answer |-> results[known[k]].text]])

-----------------------------------------------------------------------------
(* Every reference replaced at once. *)
Substituted(text, answers) ==
    FlattenSeq([i \in DOMAIN text |->
        IF ~text[i].reference THEN << text[i] >>
        ELSE IF text[i].name \in DOMAIN answers THEN Value(answers[text[i].name], text[i].field)
        ELSE <<>>])

(* No answer that is put into the text quotes a reference of it. *)
Unquoted(text, answers) ==
    \A i \in DOMAIN text :
       (text[i].reference /\ text[i].name \in DOMAIN answers)
          => ToSet(Value(answers[text[i].name], text[i].field)) \intersect {text[j] :
                j \in {k \in DOMAIN text : text[k].reference}} = {}

Unknown(text, answers) ==
    \E i \in DOMAIN text : text[i].reference /\ text[i].name \notin DOMAIN answers

(* Replacing one reference after the other comes to replacing all at once,
   unless an answer quotes a reference of the prompt; and strict refuses
   exactly what names somebody unknown, in the prompt or in one it is shown
   with, and changes nothing else. An answer the history asks for is quoted
   or shown, not both. A workflow quotes and shows the same answers as a single
   call would (core/prompt_utils.py:78-103, prompt_builder.py:72-128,
   graph_execution_helpers.py:78-130). *)
PromptsRight(prompt, history, attrs) ==
    LET answers == Answers(attrs)
        single == BuildPrompt(prompt, history, attrs, FALSE)
        graph == ResolveGraphPrompt(prompt, history, answers)
        strict == BuildPrompt(prompt, history, attrs, TRUE)
        asked == {name \in ToSet(history) : name \in DOMAIN answers}
        shown == {single.shown[k].name : k \in DOMAIN single.shown} IN
    /\ Unquoted(prompt, answers) => single.text = Substituted(prompt, answers)
    /\ \A k \in DOMAIN single.shown :
          LET stored == Last(Named(attrs, single.shown[k].name)).prompt IN
          Unquoted(stored, answers) => single.shown[k].prompt = Substituted(stored, answers)
    /\ strict.refused <=> \/ Unknown(prompt, answers)
                          \/ \E name \in asked : Unknown(Last(Named(attrs, name)).prompt, answers)
    /\ strict.refused \/ strict = single
    /\ asked \subseteq single.names \union shown /\ single.names \intersect shown = {}
    /\ graph.text = single.text /\ graph.names = single.names
    /\ [k \in DOMAIN graph.shown |-> <<graph.shown[k].name, graph.shown[k].answer>>]
          = [k \in DOMAIN single.shown |-> <<single.shown[k].name, single.shown[k].answer>>]
=============================================================================
