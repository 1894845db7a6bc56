------------------------------ MODULE Workflows ------------------------------
(***************************************************************************)
(* ffai.workflow: a workflow written as a mapping, as rows of a table or   *)
(* as a CSV text is loaded, checked, and handed step by step, each with a  *)
(* client and settings, to the graph executor. A text is a sequence of     *)
(* tokens; a blank or missing one is empty. A prompt is a sequence of      *)
(* lines.                                                                  *)
(***************************************************************************)
EXTENDS Naturals, Sequences, FiniteSets, SequencesExt, FiniteSetsExt, TLC

CONSTANTS Numbers,          \* the texts float() reads
          Configured        \* the clients config/clients.yaml knows

Refused == [refused |-> TRUE]

Blank == <<>>

Strip(text) ==
    LET kept == {k \in DOMAIN text : text[k] # " "} IN
    IF kept = {} THEN Blank ELSE SubSeq(text, Min(kept), Max(kept))

-----------------------------------------------------------------------------
(* Headers and cells of tables. *)

CanonicalColumn(header) ==
    CASE header = "step" -> "name" [] header = "depends_on" -> "history" [] OTHER -> header

ParseListField(text) ==
    LET commas == {0, Len(text) + 1} \union {k \in DOMAIN text : text[k] = ","}
        places == SetToSortSeq(commas, <)
        items == [k \in 1..Len(places) - 1 |-> Strip(SubSeq(text, places[k] + 1, places[k + 1] - 1))]
    IN SelectSeq(items, LAMBDA item : item # Blank)

(* What cannot be read as a number is dropped; a text that is not blank stays
   as it is, its blanks included. *)
CoerceValue(key, text) ==
    CASE key \in {"history", "tools"} -> ParseListField(text)
      [] key = "temperature" -> IF Strip(text) \in Numbers THEN Strip(text) ELSE Blank
      [] key = "strict" -> Strip(text) \in { <<"true">>, <<"yes">>, <<"1">> }
      [] key = "client" -> Strip(text)
      [] OTHER -> IF Strip(text) = Blank THEN Blank ELSE text

(* A row is a sequence of [header, text]; of two columns with one name the
   last counts. *)
Field(row, key) ==
    LET columns == {k \in DOMAIN row : CanonicalColumn(row[k].header) = key} IN
    CoerceValue(key, IF columns = {} THEN Blank ELSE row[Max(columns)].text)

StepOfRow(row) ==
    [key \in {"name", "prompt", "client", "history", "tools", "temperature", "strict"} |-> Field(row, key)]

-----------------------------------------------------------------------------
(* A spec: steps, defaults, clients (name -> model) and tools. *)

Spec(steps, defaults, clients, tools) ==
    [refused |-> FALSE, steps |-> steps, defaults |-> defaults, clients |-> clients, tools |-> tools]

Names(steps) == {step.name : step \in ToSet(steps)}

Valid(spec) ==
    /\ spec.steps # <<>>
    /\ \A j, k \in DOMAIN spec.steps : spec.steps[j].name = spec.steps[k].name => j = k
    /\ \A step \in ToSet(spec.steps) :
          /\ ToSet(step.history) \subseteq Names(spec.steps) \ {step.name}
          /\ ToSet(step.tools) \subseteq spec.tools

(* from_dict and the validation. *)
LoadMapping(steps, defaults, clients, tools) ==
    LET spec == Spec(steps, defaults, clients, tools) IN IF Valid(spec) THEN spec ELSE Refused

LoadRows(rows, defaults, clients, tools) ==
    LET steps == [k \in DOMAIN rows |-> StepOfRow(rows[k])] IN
    IF \E step \in ToSet(steps) : step.name = Blank \/ step.prompt = Blank THEN Refused
    ELSE LoadMapping(steps, defaults, clients, tools)

(* The settings of the defaults a mapping of a spec carries. *)
ToMapping(spec) ==
    [spec EXCEPT !.defaults = [client |-> @.client, strict |-> @.strict, temperature |-> Blank, system |-> Blank]]

-----------------------------------------------------------------------------
(* A CSV text: [settings, remarks, rows], the comment lines "# key: value" and
   those without a colon before the header, then the rows. Every line that
   starts with # and has a colon is a comment, in a quoted cell too. *)

IsComment(line) == line = "# key: value"

WithoutComments(row) ==
    [k \in DOMAIN row |->
        IF row[k].header = "prompt"
          THEN [row[k] EXCEPT !.text = SelectSeq(@, LAMBDA line : ~IsComment(line))]
        ELSE row[k]]

(* Keyword arguments come before comments; a comment's number that cannot be
   read stays a text. *)
MergeMetadata(settings, keywords) ==
    [key \in DOMAIN keywords |->
        IF keywords[key] # Blank THEN keywords[key] ELSE IF key \in DOMAIN settings THEN settings[key] ELSE Blank]

(* A remark is taken for the header, and the header for a row without name. *)
LoadCsv(csv, keywords, strict, clients, tools) ==
    LET defaults == MergeMetadata(csv.settings, keywords) @@ [client |-> Blank, strict |-> strict] IN
    IF csv.remarks \/ csv.rows = <<>> THEN Refused
    ELSE LoadRows([k \in DOMAIN csv.rows |-> WithoutComments(csv.rows[k])], defaults, clients, tools)

-----------------------------------------------------------------------------
(* The clients of the steps. Made are clients the factory created, in order;
   0 is the client of the engine. Cached are those asked for by name. *)

NoClients == [made |-> <<>>, cached |-> <<>>, of |-> <<>>]

(* A client written out in the step, << "inline", model >>, is no name. *)
Inline(client) == client # Blank /\ client[1] = "inline"

Known(spec, client) == Inline(client) \/ client \in DOMAIN spec.clients \/ client \in Configured

Model(spec, client) ==
    CASE Inline(client) -> SubSeq(client, 2, 2)
      [] client \in DOMAIN spec.clients -> spec.clients[client]
      [] OTHER -> << "config", client >>

(* Whether the engine serves the step. *)
Default(spec, step) == step.client = Blank \/ ~Known(spec, step.client)

(* Mutant: a client is created for every step that names it. *)
ResolveAnew(spec, state, step) ==
    IF Default(spec, step) THEN [state EXCEPT !.of = (step.name :> 0) @@ @]
    ELSE [state EXCEPT !.made = Append(@, Model(spec, step.client)),
                       !.of = (step.name :> Len(state.made) + 1) @@ @]

(* resolve: no client, or one nobody knows, means that of the engine. *)
Resolve(spec, state, step) ==
    CASE Default(spec, step) -> [state EXCEPT !.of = (step.name :> 0) @@ @]
      [] step.client \in DOMAIN state.cached ->
            [state EXCEPT !.of = (step.name :> state.cached[step.client]) @@ @]
      [] OTHER ->
            [made |-> Append(state.made, Model(spec, step.client)),
             cached |-> IF Inline(step.client) THEN state.cached
                        ELSE (step.client :> Len(state.made) + 1) @@ state.cached,
             of |-> (step.name :> Len(state.made) + 1) @@ state.of]

StepClients(spec) ==
    FoldLeft(LAMBDA state, step : Resolve(spec, state, step), NoClients, spec.steps)

Or(value, default) == IF value # Blank THEN value ELSE default

(* What reaches the graph executor for a step, and the client run_step takes. *)
Planned(spec) ==
    LET clients == StepClients(spec) IN
    [k \in DOMAIN spec.steps |->
        LET step == spec.steps[k] IN
        [sequence |-> k - 1, name |-> step.name, prompt |-> step.prompt, history |-> step.history,
         temperature |-> Or(step.temperature, spec.defaults.temperature),
         system |-> spec.defaults.system,
         strict |-> step.strict \/ spec.defaults.strict,
         client |-> clients.of[step.name],
         model |-> IF clients.of[step.name] = 0 THEN << "engine" >> ELSE clients.made[clients.of[step.name]]]]

-----------------------------------------------------------------------------
(* What the author of a table means: names without the blanks around them. *)
Meant(row) == [StepOfRow(row) EXCEPT !.name = Strip(@)]

Padded(rows) == \E k \in DOMAIN rows : StepOfRow(rows[k]).name # Meant(rows[k]).name

(* A table loads to what the same steps written as a mapping load to, and is
   refused where they are, unless a name has blanks around it, which only the
   name column keeps. A CSV text loads like its rows, but for the lines of its
   prompts that look like comments, and nothing loads once a remark stands
   before the header. What is loaded can be run: a name is one step, every
   history names other steps, each step has its settings before the defaults,
   two steps share a client exactly when they name the same known one, or are
   both left to the engine, and the client of a step is of the model it names. A spec written to a
   mapping and loaded again plans the same calls, but for the temperature and
   the instructions of the defaults, which are lost
   (workflow/tabular.py, tabular_csv.py, loader.py, spec.py, executor.py). *)
LoadedRight(table) ==
    LET rows == table.rows
        defaults == table.keywords @@ [client |-> Blank, strict |-> table.strict]
        loaded == LoadRows(rows, defaults, table.clients, table.tools)
        meant == LoadMapping([k \in DOMAIN rows |-> Meant(rows[k])], defaults, table.clients, table.tools)
        whole == \A k \in DOMAIN rows : Meant(rows[k]).name # Blank /\ Meant(rows[k]).prompt # Blank
    IN
    /\ ~Padded(rows) => loaded = (IF whole THEN meant ELSE Refused)
    /\ \A row \in ToSet(rows) : \A item \in ToSet(StepOfRow(row).history) : Strip(item) = item /\ item # Blank
    /\ ~loaded.refused => Len(loaded.steps) = Len(rows)

CsvRight(table) ==
    LET merged == MergeMetadata(table.settings, table.keywords) @@ [client |-> Blank, strict |-> table.strict]
        csv == [settings |-> table.settings, remarks |-> table.remarks, rows |-> table.rows]
        loaded == LoadCsv(csv, table.keywords, table.strict, table.clients, table.tools)
        rows == LoadRows(table.rows, merged, table.clients, table.tools)
        Lines(step) == SelectSeq(step.prompt, LAMBDA line : ~IsComment(line))
    IN
    /\ table.remarks => loaded.refused
    /\ ~table.remarks /\ ~loaded.refused =>
          /\ ~rows.refused /\ loaded.defaults = rows.defaults
          /\ \A k \in DOMAIN rows.steps :
                loaded.steps[k] = [rows.steps[k] EXCEPT !.prompt = Lines(rows.steps[k])]
    /\ \A key \in DOMAIN table.keywords :
          ~loaded.refused /\ table.keywords[key] # Blank => loaded.defaults[key] = table.keywords[key]

PlannedRight(spec) ==
    LET plan == Planned(spec)
        again == LoadMapping(ToMapping(spec).steps, ToMapping(spec).defaults, spec.clients, spec.tools)
        Mine(call, step) ==
            [call EXCEPT !.system = Blank, !.temperature = IF step.temperature = Blank THEN Blank ELSE @]
    IN
    /\ \A j, k \in DOMAIN plan :
          LET a == spec.steps[j]
              b == spec.steps[k] IN
          /\ plan[j].name = plan[k].name => j = k
          /\ plan[j].client = plan[k].client <=>
                \/ j = k
                \/ Default(spec, a) /\ Default(spec, b)
                \/ ~Default(spec, a) /\ ~Inline(a.client) /\ a.client = b.client
    /\ \A k \in DOMAIN plan :
          LET step == spec.steps[k] IN
          /\ \A name \in ToSet(plan[k].history) : \E j \in DOMAIN plan : j # k /\ plan[j].name = name
          /\ plan[k].model = IF Default(spec, step) THEN << "engine" >> ELSE Model(spec, step.client)
          /\ step.temperature # Blank => plan[k].temperature = step.temperature
          /\ plan[k].temperature = Blank => spec.defaults.temperature = Blank
    /\ ~again.refused
    /\ \A k \in DOMAIN plan : Mine(Planned(again)[k], spec.steps[k]) = Mine(plan[k], spec.steps[k])

WorkflowRight(table) ==
    LET loaded == LoadRows(table.rows, table.keywords @@ [client |-> Blank, strict |-> table.strict],
                           table.clients, table.tools) IN
    /\ LoadedRight(table) /\ CsvRight(table)
    /\ ~loaded.refused => PlannedRight(loaded)
=============================================================================
