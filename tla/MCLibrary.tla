------------------------------- MODULE MCLibrary -------------------------------
(***************************************************************************)
(* The parts of ffai that stand alone, one subject at a time: Init decides *)
(* which one a behaviour is about. The pure ones, the chunkers,            *)
(* conditions, search, workflow files and prompts, get all their input in  *)
(* Init; the others move: those of Parts, the vector stores and the        *)
(* histories. A behaviour about a part of Parts is one of its Spec.        *)
(***************************************************************************)
EXTENDS Parts, SequencesExt, TLC

CONSTANTS A, B, C, D, NoName

VARIABLES subject, input,
          chroma, qdrant, pgvector, sqlite, log,
          threads, turns, raw, attrs, ordered, sequence, recorded, overlapped, merged

pure == << subject, input >>
embeddings == << cache, local, calls, begun, raced, abandoned >>
links == << index, to_delete, added, readded >>
stores == << chroma, qdrant, pgvector, sqlite, log >>
verdicts == << said, call, made, usage, pc, plan, attempt, best, newest, critique, prompts, judged, result >>
facade == << conv, metered, wired, worker, main, dealt, deeds, told, torn >>
histories == << threads, turns, raw, attrs, ordered, sequence, recorded, overlapped, merged >>

-----------------------------------------------------------------------------
Call(name, history, kind, keys) == [name |-> name, history |-> history, kind |-> kind, keys |-> keys]

MCCalls ==
    { Call(A, <<>>, "text", <<>>), Call(A, <<>>, "none", <<>>), Call(A, <<B>>, "text", <<>>),
      Call(B, <<A>>, "text", <<>>), Call(B, <<C, A>>, "text", <<>>),
      Call(C, <<A, B>>, "json", <<A, C>>), Call(C, <<A>>, "none", <<>>), Call(C, <<B>>, "text", <<>>),
      Call(NoName, <<A>>, "text", <<>>) }

Other(id, name, place, history) ==
    [id |-> id, key |-> <<name>>, sequence |-> place, history |-> history, blank |-> FALSE]

MCMerged ==
    { << Other(11, A, 1, <<>>), Other(12, C, 2, <<A>>), Other(13, A, 3, <<C>>) >>,
      << Other(11, B, 1, <<A>>) >> }

History == INSTANCE Histories WITH
    Name <- {A, B, C}, Calls <- MCCalls, Merged <- MCMerged, Thread <- Threads,
    MaxRecords <- 3, MaxOverlapping <- 2

MCChunkCount(version) == IF version = 1 THEN 2 ELSE 1

Stores == INSTANCE VectorStores WITH
    Source <- {"a", "b"}, Version <- {1, 2}, Strategy <- {"s", "t"}, ChunkCount <- MCChunkCount,
    Named <- {2}, Page <- 3, MaxOperations <- 3

Workflow == INSTANCE Workflows WITH Numbers <- { <<"0.5">> }, Configured <- { <<"slow">> }

Chunkers == INSTANCE Splitters

Prompt == INSTANCE Prompts

Condition == INSTANCE Conditions

Retrieve == INSTANCE Retrieval WITH Doc <- {A, B, C, D}, Fetched <- 5, RrfK <- 2, WeightUnits <- 2

-----------------------------------------------------------------------------
(* Texts of up to five characters, and windows smaller than most of them. *)
ChunkInputs ==
    [kinds : BoundedSeq({"w", " ", "n", "#", "."}, 4) \union BoundedSeq({"w", " ", "n", "#"}, 5),
     size : {2, 3}, overlap : {0, 1}]

(* Conditions of depth two or three over the constants, properties and names
   that tell the operators apart. *)
Node(node) == [node |-> node, parts |-> <<>>]
Constant(value) == Node("Constant") @@ [value |-> value]
Variable(name, prop) == Node("Variable") @@ [name |-> name, prop |-> prop]
Name(id) == Node("Name") @@ [id |-> id]
Operation(node, op, parts) == [node |-> node, op |-> op, parts |-> parts]
Compare(ops, parts) == [node |-> "Compare", ops |-> ops, parts |-> parts]

Zero == Constant(Condition!Num(0))
One == Constant(Condition!Num(1))
Letter == Constant(Condition!Str(<<"a">>))
True == Constant(Condition!Bool(TRUE))
Status == Variable("done", "status")
Answer == Variable("done", "response")
Atoms == { Zero, One, Letter, True, Constant(Condition!None), Status, Answer,
           Variable("gone", "status"), Variable("done", "attempts"), Variable("done", "has_response") }

Terms ==
    Atoms
    \union {Operation("Call", fn, <<x>>) :
               fn \in {"len", "int", "bool", "is_null", "is_empty"}, x \in {Letter, Answer, One, Constant(Condition!None)}}
    \union {Operation("BinOp", op, <<x, y>>) : op \in {"%", "+", "-"}, x, y \in {One, Answer, Letter}}
    \union {[node |-> "Subscript", key |-> k, parts |-> <<x>>] : k \in {0, 1}, x \in {Answer, One}}
    \union {[node |-> "List", parts |-> <<x, y>>] : x, y \in {Zero, Letter}}
    \union {[node |-> "USub", parts |-> <<One>>]} \union {Name(id) : id \in {"true", "false", "unknown"}}

Tests ==
    {Compare(<<op>>, <<x, y>>) : op \in {"==", "!=", "<", ">", "in", "not in"}, x \in Atoms, y \in Terms}
    \union {Compare(<<op, ">">>, <<x, y, z>>) : op \in {">", "in"}, x, y, z \in {Zero, One, Letter}}

Shapes(parts) ==
    {Operation("BoolOp", op, <<x, y>>) : op \in {"and", "or"}, x, y \in parts}
    \union {[node |-> "Not", parts |-> <<x>>] : x \in parts}
    \union {[node |-> "IfExp", parts |-> <<x, y, z>>] : x, y, z \in parts}

Operands == { Zero, True, Answer, Variable("gone", "status"), Name("false"), Name("unknown"), Compare(<<"==">>, <<Answer, Letter>>),
              Operation("BoolOp", "or", <<Zero, Answer>>) }

Conditions ==
    Terms \union Tests \union Shapes(Operands)
    \union {Operation("BoolOp", op, <<x, t>>) : op \in {"and", "or"}, x \in {Zero}, t \in Tests}
    \union {Compare(<<"==">>, <<s, x>>) : s \in Shapes({Zero, Letter, True}), x \in {Zero, Letter, True}}

Outcome(status, response, attempts, has) ==
    [done |-> [status |-> status, response |-> response, attempts |-> attempts, has_response |-> has]]

Outcomes ==
    { Outcome(Condition!Str(<<"s">>), Condition!Str(<<"a">>), Condition!Num(1), Condition!Bool(TRUE)),
      Outcome(Condition!None, Condition!None, Condition!None, Condition!None) }

(* Two rankings of four documents, a filter, and what may follow the fusion.
   The names are interchangeable, so the vector store ranks them in order. *)
Documents == <<A, B, C, D>>
Rankings == {r \in BoundedSeq({A, B, C, D}, 4) : IsInjective(r)}
Query(vector, sparse) == [vector |-> vector, sparse |-> sparse]
MoreQueries == << Query(Documents, <<>>), Query(<<D, C>>, <<B>>) >>
Everything == {A, B, C, D}
Request(queries, fusions, topK, indexes, rerankers) ==
    [query : queries, queries : {<<>>, MoreQueries}, filter : {Everything, {B, D}}, alpha : fusions,
     topK : topK, indexes : indexes, reranker : rerankers, model : {<<>>, <<D, B, C, A>>},
     topic : {[d \in Everything |-> d = D]}]
Fused == [vector : {SubSeq(Documents, 1, n) : n \in 0..4}, sparse : Rankings]
Requests ==
    {r \in Request(Fused, 0..2, 1..2, {"both"}, {"none"}) : r.model = <<>>}
    \union Request([vector : {Documents}, sparse : Rankings], {1}, {2}, {"both"}, {"cross_encoder", "diversity"})
    \union Request({Query(Documents, <<D, C, B, A>>), Query(<<C, A>>, <<>>)}, {1}, 1..3,
                    {"store", "bm25", "neither"}, {"none", "cross_encoder", "diversity"})

(* Tables of two rows, or one, that differ in what names and lists say, in
   the clients and settings of the steps, or in what prompts say. *)
Column(header, text) == [header |-> header, text |-> text]
PlainRow(name, prompt, listed, client, temperature, strict) ==
    << Column("name", name), Column("prompt", prompt), Column("history", listed), Column("client", client),
       Column("temperature", temperature), Column("strict", strict) >>
AliasRow(name, before, listed, tools) ==
    << Column("step", name), Column("prompt", <<"do">>), Column("history", before), Column("depends_on", listed),
       Column("tools", tools) >>

NameCells == { <<"a">>, <<"b">>, <<" ", "a">>, <<" ">> }
NamedRows ==
    {AliasRow(name, before, listed, <<>>) :
        name \in NameCells, before \in { <<>>, <<"b">> },
        listed \in { <<>>, <<"a">>, <<"b">>, <<"a", ",", " ", "b">>, <<",">> }}
    \union {AliasRow(name, <<>>, <<>>, tools) : name \in NameCells, tools \in { <<"t">>, <<"u">> }}
SetRows(name) ==
    {PlainRow(name, <<"do">>, <<>>, client, temperature, strict) :
        client \in { <<>>, <<"fast">>, <<" ", "fast">>, <<"slow">>, <<"nobody">>, <<"inline", "m">> },
        temperature \in { <<"0.5">>, <<"hot">> }, strict \in { <<>>, <<"yes">> }}
PromptRows(name) ==
    {PlainRow(name, prompt, listed, <<>>, <<>>, <<>>) :
        prompt \in BoundedSeq({"do", "# key: value"}, 2), listed \in { <<>>, <<"a">> }}

Table(rows, settings, remarks, temperatures, strict) ==
    [rows : rows, settings : settings, remarks : remarks, strict : strict, tools : {{<<"t">>}},
     keywords : [temperature : temperatures, system : { <<>> }],
     clients : {[c \in { <<"fast">> } |-> <<"quick">>]}]
Nothing == {[k \in {} |-> <<>>]}
Hot == {[k \in {"temperature"} |-> <<"hot">>]}
Tables ==
    Table(NamedRows \X NamedRows, Nothing, {FALSE}, { <<>> }, {FALSE})
    \union Table(SetRows(<<"a">>) \X SetRows(<<"b">>), Nothing, {FALSE}, { <<>>, <<"0.7">> }, BOOLEAN)
    \union Table(PromptRows(<<"a">>) \X PromptRows(<<"b">>), Nothing \union Hot, BOOLEAN,
                 { <<>>, <<"0.7">> }, {FALSE})
    \union Table({<<r>> : r \in NamedRows} \union { <<>> }, Nothing, BOOLEAN, { <<>> }, {FALSE})

(* Prompts of up to three words and references, on what two calls recorded:
   answers that are JSON, missing, or quote a reference themselves. *)
Say == Prompt!Word("say")
Quote(name) == Prompt!Reference(name, "")
Field(name) == Prompt!Reference(name, "f")
Recorded(name, prompt, answer) == [name |-> name, prompt |-> prompt, answer |-> answer]
Spoken == Prompt!TextAnswer(<< Say >>)
Records ==
    { Recorded(A, << Say >>, Spoken), Recorded(A, << Quote(B) >>, Prompt!TextAnswer(<< Quote(B), Field(A) >>)),
      Recorded(A, << Quote(A), Quote(C) >>, Prompt!JsonAnswer(<< Say, Say >>, [f |-> << Quote(B) >>])),
      Recorded(B, << Field(A) >>, Prompt!TextAnswer(<<>>)), Recorded(B, << Say >>, Prompt!TextAnswer(<< Quote(A) >>)) }
PromptInputs ==
    [prompt : BoundedSeq({Say, Quote(A), Quote(B), Field(A)}, 3),
     history : { <<>>, <<A>>, <<B>>, <<A, B>>, <<C, A>> },
     attrs : BoundedSeq(Records, 2)]

(* The distances of the one query asked. *)
Order == << <<"a", 1, 2>>, <<"b", 2, 1>>, <<"a", 2, 1>>, <<"b", 1, 1>>, <<"a", 1, 1>>, <<"b", 1, 2>> >>

-----------------------------------------------------------------------------
Init ==
    /\ \/ subject = "chunks" /\ input \in ChunkInputs
       \/ subject = "conditions" /\ input \in [condition : Conditions, results : Outcomes]
       \/ subject = "search" /\ input \in Requests
       \/ subject = "workflows" /\ input \in Tables
       \/ subject = "prompts" /\ input \in PromptInputs
       \/ subject \in {"embeddings", "links", "stores", "verdicts", "facade", "histories"} /\ input = <<>>
    /\ Embedding!Init /\ Hierarchy!Init /\ Stores!Init /\ Validator!Init /\ Facades!Init /\ History!Init
    /\ subject # "embeddings" => local
    /\ subject # "facade" => wired["facade"] = A
    /\ subject # "verdicts" => plan = [retries |-> 0, executor |-> "none"]

Next ==
    /\ UNCHANGED pure
    /\ \/ subject = "embeddings" /\ Embedding!Next /\ UNCHANGED << links, stores, verdicts, facade, histories >>
       \/ subject = "links" /\ Hierarchy!Next /\ UNCHANGED << embeddings, stores, verdicts, facade, histories >>
       \/ subject = "stores" /\ Stores!Next /\ UNCHANGED << embeddings, links, verdicts, facade, histories >>
       \/ subject = "verdicts" /\ Validator!Next /\ UNCHANGED << embeddings, links, stores, facade, histories >>
       \/ subject = "facade" /\ Facades!Next /\ UNCHANGED << embeddings, links, stores, verdicts, histories >>
       \/ subject = "histories" /\ History!Next /\ UNCHANGED << embeddings, links, stores, verdicts, facade >>

Spec == Init /\ [][Next]_<< pure, embeddings, links, stores, verdicts, facade, histories >>

MCSymmetry == Permutations(Threads) \union Permutations(Texts)

-----------------------------------------------------------------------------
(* Every chunker, on every short text: Splitters!ChunksRight, of the
   splitters of ffai.rag.splitters. *)
ChunksRight ==
    subject = "chunks" =>
       Chunkers!ChunksRight(Chunkers!Text(input.kinds), input.size, input.overlap)

(* Every condition listed above, on a result and on one that is missing:
   Conditions!ConditionsLikePython, of core/condition_evaluator.py. *)
ConditionsLikePython ==
    subject = "conditions" => Condition!ConditionsLikePython(input.condition, input.results)

(* Every request listed above: Retrieval!SearchRight, of rag/search and
   rag.py. *)
SearchRight == subject = "search" => Retrieve!SearchRight(input)

(* Three calls on four backends: VectorStores!StoresRight, of rag/stores. *)
StoresRight == subject = "stores" => Stores!StoresRight(Order)

(* Every table listed above: Workflows!WorkflowRight, of ffai/workflow. *)
WorkflowRight == subject = "workflows" => Workflow!WorkflowRight(input)

(* Three interactions, two of which may be recorded by two threads at once,
   and a merge: Histories!ContextRight, of core/history and prompt_builder.
   And every prompt listed above: Prompts!PromptsRight, of prompt_utils. *)
ContextRight ==
    /\ subject = "histories" => History!ContextRight
    /\ subject = "prompts" => Prompt!PromptsRight(input.prompt, input.history, input.attrs)
=============================================================================
