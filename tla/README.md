# ffai in TLA+

ffai runs prompts against language models: single calls with a conversation,
graphs of prompts that depend on each other, agents that call tools, with
memory and retrieval beside them. This directory specifies the parts of it that
schedule, retry, suspend, record, remember, index and search. The modules are translated from the Python
source under `src/ffai`; `PROJECT.json` gives the lines behind every definition.

Contents: [the system](#the-system), [plan](#plan), [the modules](#the-modules),
[runs and bounds](#runs-and-bounds), [fairness](#fairness),
[divergences](#divergences), [proofs](#proofs), [what is left out](#what-is-left-out).

To check: `tlc -config GraphExecutor.cfg MCGraphExecutor`, in the same way for the
other runs, and `tlapm GraphExecutorProofs.tla`, in the same way for the other modules
whose name ends in `Proofs`.

## The system

For each part: what it keeps, what it does, whom it talks to, what is hard about
it, and what makes it correct.

**Workflow engine** (`core/workflow_engine.py`). Keeps the client, the conversation
manager, the histories and the price table. `generate_response` makes one call:
suspend the conversation if the prompt is declarative (it has a history list, or
it is interpolated), run the response executor, restore, read `last_usage`,
record. `execute_graph` runs a prompt list on clones of the client;
`validate_graph` builds a graph without running it. Hard: what it reads from the
client after the call belongs to whichever call touched the client last. Correct
if the conversation is restored on every path and each result is about its own call.

**Graph builder** (`core/graph.py`, `prompt_node.py`, `execution_state.py`). A pure
build: dependencies from history and the two conditions, levels by a recursive
walk with a cache and a path, an error on a cycle; `get_ready_prompts` over an
`ExecutionState`. Correct if cycles are found exactly, levels separate a prompt
from all it needs, and readiness drains the graph.

**Graph executor** (`core/async_executor.py`, `graph_execution_helpers.py`). Keeps
the results by name, the abort flag, a semaphore. Level by level it starts one
task per prompt under `asyncio.gather`; a task skips, fails or asks for a permit
and calls the engine. Hard: concurrency within a level, failures and
cancellations in any order, conditions on earlier results, aborts. Correct if no
prompt is called before its dependencies settled, none after an abort, no
more than `max_concurrency` at a time, and every prompt ends with one result.

**Condition evaluator** (`core/condition_evaluator.py`). Resolves `{{name.field}}`
over the results, then evaluates a restricted Python expression. No state.
Correct if an unresolved name is an error and operators mean what Python's mean.

**LiteLLM clients** (`Clients/BaseLiteLLMClient.py`, `FFLiteLLMClient.py`,
`AsyncFFLiteLLMClient.py`) and **retry policy** (`retry_utils.py`). A client keeps
`conversation_history` and `last_usage`. A call builds the request from the history,
tries the primary model up to `max_attempts` times, then each fallback once, and
appends the prompt and the answer (after a fallback, the answer only). Hard: the
history is shared and unlocked; several attempts make one call. Correct if exactly
what was answered is recorded, once. **FFMistralSmall** is an older client with
rules of its own.

**Conversation manager** (`core/conversation_manager.py`). A lock, and the client.
`suspend` copies the history and empties it, `restore` puts the saved messages back
in front of the new ones. Hard: the client's appends do not take the lock.

**Response executor** (`core/response_executor.py`, `structured_output.py`). No state
between calls: resolves the prompt, evaluates the condition, calls the client, and
for a structured answer asks again (three attempts).

**Agent loop** (`agent/agent_loop.py`), **tool registry** (`tools/tool_registry.py`),
**response validator** (`agent/response_validator.py`). The loop keeps its records
and counters; conversation and tool calls live in the client's history. Each round
asks the model and runs each tool call of the answer in a thread with a timeout.
Hard: timeouts, errors half-way through a list of calls, model failures in later
rounds. Correct if every request is one a provider accepts and the result says what
happened. The validator asks again while an answer fails its checks.

**Histories** (`core/history/*`, `response_context.py`): `record` writes a call to
five stores one after the other and hands the text to the memory thread. **History
manager and exporter** read them. Correct if the stores agree.

**Memory** (`core/memory/*`): a store of four parallel lists, embedded on a background
thread and persisted to one file; `reindex` re-embeds everything. Hard: reindex and
search against the background thread, crashes while the file is written, shutdown.
Correct if no entry is lost, no entry has an embedding of another model, and what
is loaded is what was persisted.

**Embeddings** (`core/embeddings.py`): an LRU cache used across awaits and threads.

**RAG** (`rag/`): `rag.py` indexes documents into a vector store, a sparse index and
a deduplicator, and searches them; splitters, rerankers and database adapters around
it. Hard: the three indexes are updated one after the other. Correct if they hold the
same documents and search fuses them fairly.

**Workflow files and executor** (`workflow/`): parse YAML and tables into prompts,
build a client per step, run the graph. **FFAI** (`FFAI.py`) wires all of this.
**Config**, **observability**, **response utilities** carry no protocol.

Interactions: FFAI -> engine -> (conversation manager, response executor) -> client;
the graph executor calls the engine through a callback; the agent loop calls the
client directly; the recorder, called by the engine, feeds the histories and the
memory thread. Shared state: the client's history (engine, agent loop, other
threads), `last_usage`, and the memory store.

The hazards of all of these, with their lines, are listed in `PROJECT.json`.

## Plan

In order of importance. Each step names its module, the abstract specification and
the theorem it aims at.

1. *Done.* `GraphExecutor` implements `DagContract`; proved for every graph.
2. *Done.* `GraphBuild`: the recursive build against definitions over paths, for every list
   of prompts.
3. *Done.* `ChatClient` with its callers `Conversation` (implements
   `ConversationLog`) and `AgentLoop`.
4. *Done.* `Memory` implements `RecallStore`: the embedding thread, the lists, reindex,
   the file, crashes.
5. *Done.* `RagIndex` on `SqliteVss` and `Bm25`: two indexes under overlapping calls,
   deletion, failure, cancellation and restart.
6. *Done.* Pure parts against definitions of what they should compute: `Conditions`,
   `Retrieval`, `Splitters`, `Workflows`, `Prompts`.
7. *Done.* Small systems: `EmbeddingCache`, `HierarchicalIndex`, `Histories`, `VectorStores`,
   `MistralClient` with `ResponseValidator`, `Facade`.
8. *Done.* Proofs of `Conversation` (one caller: implements `ConversationLog`), `AgentLoop`
   (`ToolCallsAnswered`, `ResultAddsUp`), `Memory` (`EntriesWhole`, `EveryTurnSomewhere`,
   `ImplementsStore`), `CountsAddUp`, of the properties of `RagIndex` and of `GraphBuild`.
9. *Done.* Proofs of the parts in `Parts`: `EmbeddingsRight`, `LinksAgree`, `JudgedRight`,
   `WiringRight`.
10. Next: `VectorStores` (`StoresRight`), and `Histories` without its recursion.

Recursion stays in `Conditions`, `Retrieval`, `Splitters` and `Histories`,
which only TLC uses.

## The modules

**DagContract** is what a caller can rely on of `execute_graph` as it is: each prompt is
called at most once, after everything it depends on settled, never when a
dependency failed, never after the run was stopped; after a failed dependency it is skipped, never
failed. A *skipped* dependency does not hold a prompt back: so
`should_skip_for_failed_deps` says and a test requires (`test_skipped_dep_does_not_cascade`), and the tutorial
says otherwise (the first of the [divergences](#divergences) without a run). No levels, no permits.

**GraphExecutor** is `AsyncGraphExecutor.execute` with the engine's callback as the
outcome of a call. Prompts are chosen in `Init` from `Workflows` and do not change.
| variable | code |
|---|---|
| `prompts`, `level` | `graph.nodes`; `level` satisfies the equation `assign_levels` solves (`IsLevelling`), so cyclic lists have no initial state, as they have no graph |
| `cur` | the `for level` variable |
| `task[n]` | the coroutine of node n: idle, waiting at `async with sem`, running, or its outcome: that of its call, or why there was none, `skipped` by its condition, `blocked` by a failed dependency, `abandoned` after an abort (all three have the status "skipped", `NotRun`) |
| `free` | the semaphore |
| `called` | history: nodes whose `executor_fn` was entered |
| `result` | `result_map` and `results_by_name` |
| `aborted`, `aborted_count`, `pc` | the locals of the same names, and how `execute` ended |

`StartTask` is `_execute_node` up to the semaphore (no await, so one step),
`EnterCall` and `LeaveCall` the two ends of the call, `MergeLevel` everything between
`gather` and the next level (no await), `RaiseAssertion` the assertion on a
`CancelledError`, `SkipLevel` a level after the abort.

**GraphBuild** is the build itself, the recursion of `assign_levels` as a stack of its calls:
| variable | code |
|---|---|
| `nodes` | the dependencies built so far: duplicate sequence numbers pool theirs, the last prompt of a name wins |
| `todo` | what `for seq in nodes` has not come to |
| `stack` | the calls of `assign_levels` under way, each with the dependencies it has still to ask |
| `path`, `cache` | `path` and `level_cache` |

`Call` is the head of a call: the cache is asked before the path, and a leaf stays on the path.
`NextDependency` calls it for any dependency left (they are a set), `AssignLevel` is the return,
`CycleDetected` the `ValueError`. `Validate` is `validate_graph` with the prompt list it
rebuilds; `StartReady` and `Complete` drain the graph as a user of `get_ready_prompts` does.

**ChatClient** is one client shared by `Caller`s. A message is `[role, id, num]` with
`id` the call it is about; text is left out. A call goes through the stages of
`generate_response`: `Prepare` or `Refuse`; `PrimaryAnswers` or `PrimaryFails` per
attempt; the fallbacks; `RecordUser` and `RecordReply` as two steps, because they are two
unlocked appends; `RecordFallback`. Which exception counts as transient is free.
`Conversation` and `AgentLoop` extend it.

**Conversation** is the engine around the client: `SuspendRead`/`SuspendClear` and
`RestoreRead`/`RestoreWrite` are the statements inside the lock, `Decline`, `Send`,
`Receive` and `Fail` the response executor, `Finish` the reading of the usage.
**ConversationLog** is its abstraction: a log to which one new message at a time is
appended. The refinement mapping `Log` puts the suspended messages in front.

**AgentLoop** is `AgentLoop.execute` and `_execute_single_tool`: `phase` is where
`execute` stands, `tool` the thread of the tool call being waited for, `records` the
`ToolCallRecord`s. `ToolTimesOut` is `future.result` giving up; `ToolEnds` is the
thread ending, which the code waits for in either case because it leaves the pool through
its context manager. Tool calls are read from the last assistant message of the
shared history, as in `_extract_tool_calls`.

**Memory** is the recorder's hand-over to its pool of one thread (`Record`, `Take`), that
thread (`Embed`, `Index`, `Collect`, `OpenFile`, `WriteFile`), the application's thread in
`search`, `reindex` and `clear` (`Search`, `Score`, `Reindex`, `Clear`, `Wipe`, `Readd`,
`Rebind`), and the process (`Close`, `Exit`, `Leave`, `Crash`, `Start`, `Repair`). `store` is the
four parallel lists; each append of the embedding thread is a step, because nothing keeps a
search from reading between two of them. `file` is written in place: opened (which
destroys it), then written. The four statements of the store's `clear()` and the four of an
`add()` by `reindex` are one step each: only a thread that overlaps could see them apart, and
what an overlap does to the store is already outside of what the properties promise. `overlapped`
records that: a reindex or clear ran beside an embedding, or an embedding began with a backend
that was replaced before it ended. **RecallStore** is a sequence of turns with a model each, and a
saved copy. The refinement counts an entry once its four parts are there and a reindexing
once the backend changes.

**Bm25** and **SqliteVss** are the two indexes as values that operations replace: the counters
BM25 keeps beside its documents, and the two tables sqlite-vss keeps in step by row
numbers. **RagIndex** runs `aindex` on them: `StartIndex` or `SkipIndex` up to the first await,
`Embedded`, `Commit` (the thread that writes the store), `FinishIndex` (the sparse index, on the
event loop), with `FailIndex` and `Cancel`; a cancelled call's thread goes on. `Delete`, `Search`
(which first compares the sizes of the indexes and may rebuild the sparse one) and
`Restart`, which keeps the store alone.

Eleven modules are about parts that touch none of the others' state. **Parts** gives four of them,
the embedding cache, the hierarchical index, the validator and the facade, their constants and
variables, and names the property of each; the proofs extend it. **MCLibrary** extends it with the others
for one run: `Init` chooses the `subject` of a behaviour, and only that part has inputs or moves. A behaviour
with a subject in `Parts` is, seen in its variables, one of that part's `Spec`.
| module | code | what is modelled |
|---|---|---|
| Splitters | `rag/splitters` | the five chunkers, on texts whose characters remember their place |
| Conditions | `core/condition_evaluator.py` | evaluation of a syntax tree, beside what Python makes of it |
| Retrieval | `rag/search`, the search of `rag.py` | both fusions, expansion by further queries, rerankers |
| Workflows | `workflow` | tables, CSV comments, mappings, the client of each step, the settings of each call |
| Prompts | `core/prompt_utils.py`, `prompt_builder.py`, `graph_execution_helpers.py` | references replaced by answers, strict or not, and the interactions put in front |
| EmbeddingCache | `core/embeddings.py` | the LRU dictionary, each statement on it a step of a thread |
| HierarchicalIndex | `rag/indexing/hierarchical.py` | chunks and the two directions of their links; `delete_by_reference` collects ids, then deletes one a step, in any order |
| Histories | `core/history`, `core/prompt_builder.py` | the stores `record` writes one after the other, merging, chains, what is injected |
| VectorStores | `rag/stores` | four backends under the same calls; `SqliteVss` is one of them |
| ResponseValidator on MistralClient | `agent/response_validator.py`, `Clients/FFMistralSmall.py` | judge, retry with the reason, and the conversation the verdicts leave |
| Facade | `FFAI.py`, the RAG adapter | `set_client` and `add_client_message` while a call or a RAG query is under way |

The databases behind Chroma, Qdrant and pgvector and the scores of BM25 are outside the repository
or real numbers: a store is modelled by what the statements sent to it do, a ranking by its
order. Concurrency is modelled where the code has it: threads on the embedding cache, the
histories and the client; elsewhere one caller.

The definitions whose comment begins with "Mutant" are plausible mistakes in the code.
Substituted for the definition that follows them they break a property; they play
no part in the specifications.

## Runs and bounds

| run | instance | shows |
|---|---|---|
| GraphExecutor | 3 prompts, 2 permits, all histories on earlier prompts, one condition and one abort condition on any name | `SemaphoreBound`, `CallsFollowDependencies`, `AbortStopsCalls`, `DecisionsStable`, `CountsAddUp`, `Termination`, `ImplementsContract` |
| GraphBuild | 3 prompts, repeated names and numbers, all histories, asked in every order | `CyclesFound`, `LevelsAreDepths`, `ReadyDrains` |
| Conversation | 1 caller, 2 calls, 2 attempts, 1 fallback, structured or not | `ImplementsLog`, `RequestContext`, `ReplyFollowsPrompt`, `UsageIsOwn` |
| ConversationThreads | 2 threads, 1 call each | `NoMessageTwice`, `TurnsEnd` |
| AgentLoop | 2 executions, 2 rounds, 0 to 2 tool calls, 2 attempts, 1 fallback, both settings of `continue_on_tool_error` | `ToolCallsAnswered`, `ResultAddsUp`, `ErrorStopsLoop`, `ExecutionEnds` |
| Memory | 2 embedding models, 2 recorded turns, 2 searches, reindexings or clearings, 1 end of the process | `EveryTurnSomewhere`, `EntriesWhole`, `SearchFailsOnlyMidAdd`, `EveryTurnSettles`, `ImplementsStore` |
| RagIndex | 2 sources, 2 versions of different length, 2 chunkers, 2 calls under way, 3 calls, 3 deletions, searches or restarts | `SparseCountersExact`, `WholeVersions`, `SkipsOnlyCurrent`, `IndexesAgree` |
| Library | see below | `ChunksRight`, `ConditionsLikePython`, `SearchRight`, `EmbeddingsRight`, `LinksAgree`, `ContextRight`, `StoresRight`, `JudgedRight`, `WorkflowRight`, `WiringRight` |
| GraphValidate, ConversationLost, AgentFallback, AgentTimeout | the smallest instance | the [divergences](#divergences) below |

Why this is enough. Three prompts give every shape the executor tells apart: two
siblings with a successor, a chain, a prompt whose condition names a prompt
that is no history of it, itself, or nobody; two permits for three prompts make one wait.
Larger graphs are the business of the proofs. Three prompts also hold every way a
cycle meets a shared leaf or a shared number. In Conversation the second call meets
whatever the first left behind, and no third state of the history exists that a
second call cannot see; two threads are what it takes for an append to fall between the
two statements of suspend or restore. In AgentLoop the second round and the second
execution are where unanswered tool calls would be sent, two tool calls are what it
takes to stop between them.

In Memory two turns make one wait while the other is embedded, or one be half appended beside a
whole one; two uses are a search or clear after, or in the middle of, a reindexing; one end leaves a file
that the next process reads, and with the torn file the process after that. In RagIndex a version with
fewer chunks after a longer one leaves a tail; three calls on two slots are two that overlap
and one that comes after whatever they left; three events are a restart, a search that rebuilds and
a deletion. In Library: every text of up to four characters of five kinds, or five of four, with
windows of two or three; conditions of depth two or three over values that tell the operators
apart; all pairs of rankings of up to four documents; tables of two rows; prompts
of up to three words and references over two recorded interactions; a cache of
one entry used by two threads for three texts, so that every insertion evicts and what one
thread stored may be evicted before it is put in order; four additions over three
chunk ids; two interactions recorded at once, then a third and a merge; three operations on
the stores; three attempts of the validator with a client that tries twice; two calls and two
switches on two clients.

Bounds that are not the program's: `MaxTurns` and `MaxExecutions` (calls and executions
made), `ToolCounts` (tool calls in an answer), `MaxRecords`, `MaxUses`, `MaxEnds` (Memory), `MaxStarts`,
`MaxEvents` (RagIndex), `MaxTexts`, `MaxEmbedded`, `MaxCalls`, `MaxAdded`, `MaxOverlapping`, `MaxOperations`, `MaxDeeds`, `Page`,
`Fetched`, `RrfK` and `WeightUnits` (Library; the last four stand for 10000, 50, 60 and the unit
interval). `MaxAttempts`, `Fallbacks`, `MaxRounds`, `MaxConcurrency`, `CacheSize` and `MaxRetries` are parameters
of the program.

The runs of the graph, the conversation and the agent loop check for deadlock; each of
these modules has a last step (`Terminated`, `Done`, `Stopped`) that only a finished run may take.
Memory, RagIndex and Library do not: they model libraries that wait for the next call, and
at the bounds, or with a pure subject, there is none.

Some properties are conditional, and the condition is part of what they say:
`CallsFollowDependencies`, `DecisionsStable` and `CountsAddUp` hold for distinct prompt
names, `ImplementsLog`, `RequestContext`, `ReplyFollowsPrompt` and `UsageIsOwn` for calls that do
not overlap, `ToolCallsAnswered` for `continue_on_tool_error`. The properties of Memory hold until
a reindex or clear overlaps an embedding (`overlapped`); `WholeVersions` and `SkipsOnlyCurrent` for
sources not replaced by a shorter text (`shrunk`); `IndexesAgree` while no call was cancelled late
and none ran beside another change of its source (`astray`). In Library: `EmbeddingsRight` lets calls
fail when threads overlap, and the cache stay over its size by one entry for each that did after it
stored one (`abandoned`), `LinksAgree` excludes ids added again, `ContextRight` weakens the order
for overlapping records and excuses answers that quote a reference of the prompt they are put into, `StoresRight` states for each backend what it keeps, `WiringRight` excludes
histories overwritten after they changed (`torn`), `ConditionsLikePython` excludes chained
comparisons and values taken from `or`, and compares with Python's value of the expression in which
`true` and `false` are spelled `True` and `False` (`Spelled`): the evaluator accepts both, Python knows no
such names. Each of these conditions is needed: without it the
property fails, and should. See below.
Where the code does what a property excludes, the note of the hazard in `PROJECT.json` says what is admitted:
entries that a reindexing loses, tool calls left unanswered after an error, the prompt FFMistralSmall leaves, a lost
file, the `KeyError` of the cache, orphaned vectors, chunks of a longer version, stores that disagree on the
latest answer, documents missing from one ranking.

## Fairness

Weak fairness only. *GraphExecutor*: the event loop runs every ready task, a permit
goes to the waiting task (the semaphore is a queue), a call ends because retries and
fallbacks are bounded and the provider's library times requests out by a default of its
own; ffai passes it no timeout. *Conversation*: a thread inside a call goes on and takes a
lock that stays free. *AgentLoop*: the loop's thread runs (`LoopFairSpec`); that tools
return is a separate assumption (`FairSpec`), which `ExecutionEnds` needs and
`TimeoutEndsTool` shows to be necessary. No fairness is assumed of a success: every call
may fail for ever. *Memory*: the embedding thread takes its
steps while its process runs (`FairSpec`); nothing is assumed of the application, and a crash may come at
any time. `GraphBuild`, `RagIndex` and `Library` have no liveness property.

## Divergences

Each has a run whose counterexample is a behaviour of the code.

- **ValidatedGraphsBuild** (GraphValidate). `tutorials/dag_execution.rst:71`: validate to check
  for cycles. `validate_graph` copies the prompts without `abort_condition`, so two prompts
  whose abort conditions name each other validate and then raise.
- **AnswersKept** (ConversationLost). `conversation_manager.py:20`: suspend and restore are
  thread-safe. The lock keeps them from each other, not from the client: an answer
  appended between the two statements of either is lost.
- **AskedToolsRun** (AgentFallback). `AgentLoop.execute` executes the tool calls of a
  response. `_record_fallback_response` records the text alone; the tool calls of a fallback
  model vanish and the execution is a success.
- **TimeoutEndsTool** (AgentTimeout). `tool_timeout` is a "timeout in seconds for individual
  tool execution". It bounds what is reported, not the waiting.

Divergences without a run. The first two are in the rules the executor's properties state, which are
the code's:

- `tutorials/condition_dsl.rst:146` says "Prompts that depend on a skipped prompt are also skipped", and so does its
  example (`:169`: `report` is skipped after `process`). `should_skip_for_failed_deps` looks for failed dependencies
  alone, its docstring says that skips do not cascade (`graph_execution_helpers.py:178`), and a test
  (`test_skipped_dep_does_not_cascade`) wants it so: a prompt after a skipped one is called if its own
  condition allows. `CallsFollowDependencies`, `DagContract!Call` and so `ImplementsContract` admit such calls, and
  `DecisionsStable` requires them (`DependencyFailed`). With the tutorial's rule all of them would be other properties,
  which the code violates: no prompt in `called` has a dependency whose task is "skipped".
- `async_executor.py:39` ("Number of prompts skipped by conditions") and `dag_execution.rst:121` say what
  `skipped_count` is. The code counts the results whose status is "skipped" (`async_executor.py:180`): also those of
  prompts blocked by a failed dependency and of those an abort left out, which `aborted_count` counts again.
  `CountsAddUp` states the sum the code returns; `CountOf("skipped") = Cardinality(Ended("skipped"))`, the
  documented meaning, is violated by one failed dependency or one abort.

Visible in the models:

- `tutorials/condition_dsl.rst:94` says a prompt whose abort condition is true has status
  "failed"; `MergeLevel` leaves it "success" (`async_executor.py:165-178`).
- `condition_evaluator.py:153` says `has_response` means a non-empty response;
  `async_executor.py:162` sets it for an empty string (`StoredResult("empty")`), while
  `workflow_engine.py:181` strips the response first.
- `dag_execution.rst:118` promises one result per prompt; results are keyed by name, and
  prompts of one name share one (`Merged`).
- `response_result.py:25` says usage is of this call; a prompt skipped by its condition
  makes no call and reports the `last_usage` of an earlier one (`Decline`, `Finish`).
- `fallback_and_switching.rst:25` says the result names the model that served; the engine
  always reports the one asked for (`workflow_engine.py:98,161`).
- `agent_tools.rst:81` says the loop repeats until a final answer or the round limit; a model
  failure after the first round ends it as a success whose last message still asks
  for tools (`CallFailed`).

Memory (`memory/*`, `history/recorder.py`):

- `memory.rst:278-282` says the embedding thread is a daemon that does not hold up the exit; the
  interpreter joins a pool's threads (`Exit`, `Leave`).
- `memory.py:151` says reindex re-embeds all stored texts. An entry the embedding thread adds after the entries were
  read is cleared (`memory.py:169`) and not added again; one added later may have an embedding of the old model; one
  whose four appends a `reindex` or `clear` falls between leaves the lists out of step for good
  (`overlapped`). A search in the middle of an append raises an IndexError.
- The file is overwritten in place (`persist.py:68`): a crash leaves one that `FFAI.__init__` refuses to read
  (`refused`). It does not name the embedding model, so a process with another model searches old vectors.
- A `memory=` given to FFAI with `memory_persist` set is saved over a file that was never read.

RAG (`rag/*`):

- `stores/base.py:115`: `needs_reindex` is true "if the source has changed or is not indexed". `index` upserts and
  deletes nothing, so a version with fewer chunks leaves the tail of the old one, in searches (`rag.py:308`,
  `shrunk`) and as the row `needs_reindex` may look at (`pgvector.py:251`). Chroma's `add` ignores ids it has
  (`chroma.py:90`): a new version over an old one is not stored, and is asked for again each time. `LastIsCurrent`
  says when this happens.
- `INSERT OR REPLACE` gives a chunk a new row and leaves its old vector, which takes a place of the
  `top_k` (`sqlite_vss.py:117`).
- The log of a failed rebuild says "search continues with current index"; the index was emptied
  before (`rag.py:624-631`). Two calls that overlap can leave a stale sparse index of equal size, which
  nothing notices (`astray`).
- Qdrant's ids are not those of BM25, so the same chunk is not fused; metadata named "content" replaces
  the text; listings stop at 10000 points. Chroma refuses a filter of several fields.
- The BM25 filter comes after the cut to the fetch count; a reranker sees `top_k` documents only;
  the diversity reranker reads a score fused results do not have.
- `embeddings.py:33` says `cache_size` is the maximum number of entries. A thread whose new entry another one
  evicts raises a KeyError from `move_to_end` before it trims, and later insertions evict one entry at
  most: the cache stays larger until it is cleared (`abandoned`).
- Offsets drift: children under leading blanks, recursive chunks without `keep_separator`,
  Markdown, code blocks. Recursive chunks exceed `chunk_size` by the overlap. Markdown without fallback drops
  long sections.

Conditions, histories, workflows, clients:

- `a < b < c` is not what Python makes of it, `and`/`or` evaluate everything and return a
  truth value, a negative number is an error, and so is an unknown name in a branch not taken. `true` and
  `false` are values (`condition_evaluator.py:523-530`), for which Python raises a `NameError`.
- Two overlapping `record` calls leave the stores disagreeing on the latest answer; a failed or
  skipped call hides an earlier answer; a JSON answer is stored under its keys, not its name;
  merging rewrites timestamps.
- `scripts/_nb_workflow_multi_client.py:83` says steps without a client use `defaults.client`; nothing reads it, and
  an unknown client name means the engine's own. Writing a workflow to a mapping loses the settings
  of its defaults. `strict: false` in a step does not override the default.
- The validator passes a verdict that contains "PASS" anywhere unless it starts with "FAIL:", swallows an
  exception of the second attempt, and does not return the response that passed.
- `FFMistralSmall` records the prompt before it reads the answer (`FFMistralSmall.py:289`).
- `suspend` reads its client twice: a `set_client` in between empties the new client's
  conversation; a switch during a suspended call moves the saved conversation to the new client;
  `add_client_message` rewrites the history it read and drops an exchange recorded meanwhile (`torn`).
- References are replaced one after the other in all of the text, so an answer that quotes a later
  reference of the prompt is itself filled in (`prompt_utils.py:101`). The history of a workflow step
  shows an interaction's name where a single call shows its prompt: results carry no prompt
  (`graph_execution_helpers.py:95`).
- The setter of `history_manager` leaves the exporter, the engine and the prompt builder on the old lists;
  `search_history` lowers the text and not the column it searches (`history_exporter.py:194`).
- `RETRYABLE_EXCEPTIONS` (`retry_utils.py:40`) names none of litellm's own exceptions, and a `retry_config` given
  to a client is not the one its decorator uses.

## Proofs

Each theorem holds for every value of the constants that the assumption of its module
allows. These assumptions say only that bounds are naturals (`MaxAttempts` and `MaxConcurrency`
positive, models numbered from 1), that lists are well-typed, that a chunker makes at least one chunk of a
text (`aindex` returns before it does anything when there is none), that the agent loop
is the one caller of its client, that finitely many threads use the cache of embeddings, that the value for "no parent" is not the id of a
chunk, and that a list of prompts is finite. Every invariant below was first checked by TLC on the
instance of the module's run.

**GraphExecutorProofs**, for every set of nodes and names, every prompt list and
`MaxConcurrency`:

| theorem | statement |
|---|---|
| `TypeCorrect` | `Spec => []TypeOK` |
| `SemaphoreHolds` | `Spec => []SemaphoreBound` |
| `CallsInOrder` | `Spec => []CallsFollowDependencies` |
| `NoCallAfterAbort` | `Spec => AbortStopsCalls` |
| `DecisionsHold` | `Spec => []DecisionsStable` |
| `Adds` | `Spec => []CountsAddUp` |
| `Refinement` | `DistinctNames => (Spec => ImplementsContract)` |

The inductive invariant `IInv` is `TypeOK /\ LevelInv /\ Permits /\ CallInv`. `SemaphoreBound` is
not inductive, as it says nothing of `free`: `Permits` says that permits and running calls add
up to the bound. `CallsFollowDependencies` needs to know that a dependency is on a
lower level, that all lower levels are settled (`LevelInv`), and that under distinct names the
stored result of a settled node is the one its task ended with (`CallInv`, with `MergedUnique` for
the step that stores a level). The same `LevelInv` says that after an abort nothing at
or above the current level has started, from which `NoCallAfterAbort` follows.
`DecisionInv` adds that what was decided of a node, a call, a skip by its condition or one for a failed
dependency, is what would be decided now; it survives
a merge because a verdict reads results of lower levels only (`VerdictStable`), and this is where
the edges for conditions are needed. `CountInv` makes `aborted_count` the number of
abandoned nodes, and `CountsAreNodes` turns the counts of results by name into counts of
nodes, which distinct names make the same. `QuietInv` (nothing in flight once the run ended) serves the
refinement, whose steps are: a merge is `Stop` or stutters, starting a task is `Decline` or
stutters, entering and leaving a call are `Call` and `Settle`, a skipped level is `Abandon`.
`Refinement` assumes distinct names because with two prompts of one name a
dependency may read the wrong result, and the contract then fails.

**GraphBuildProofs**, for every set of finite prompt lists:

| theorem | statement |
|---|---|
| `Invariant` | `Spec => []IInv` |
| `CyclesAreFound` | `Spec => []CyclesFound` |
| `LevelsAre` | `Spec => []LevelsAreDepths` |
| `Drains` | `Spec => []ReadyDrains` |
| `OneLevelling` | two levellings of one graph give each node the same level |

`IInv` is `WalkInv /\ GraphInv /\ DrainInv`. `WalkInv` says what the recursion guarantees in the middle of
it: the levels in the cache solve the equation of the levels (`Solved`); each call on the stack is made by
the one under it, has no level yet, and what it has asked has one; on the path there are only these calls and nodes
with a level (`StackOK`); and what the loop has come to has a level, but for the bottom of the stack (`TodoOK`).
A cycle is found in the stack itself: a call that meets the path meets a frame, and the frames from
there on are a chain that closes (`StackCycle`). That nothing else raises is the other half: a levelled
graph has no cycle (`LevelledAcyclic`, because levels fall strictly along a chain). That a level is
a longest chain takes one chain of that length, built from a minimal counterexample (`ChainOfLevel`), and that none
is longer (`ChainAtMost`); `OneLevelling` follows, so that the level `GraphExecutor`
takes from the equation is the one this build computes. `Drains` takes the lowest level that is not completed.

**ChatClientProofs** holds what the next two rest on: each step of a call keeps the client well-typed,
and either leaves the history alone or appends to it, the prompt first (`ClientStepIs`).

**ConversationProofs**, for every set of callers, attempts, fallbacks and turns:

| theorem | statement |
|---|---|
| `TypeCorrect` | `Spec => []TypeOK` |
| `NothingTwice` | `Spec => []NoMessageTwice`, threads included |
| `OwnContext` | `Spec => []RequestContext` |
| `Answered` | `Spec => []ReplyFollowsPrompt` |
| `OwnUsage` | `Spec => []UsageIsOwn` |
| `Implements` | `~Threaded => (Spec => ImplementsLog)` |

`IInv` is `TypeOK /\ PhaseInv /\ LockInv /\ UniqueInv /\ FreshInv`. `NoMessageTwice` alone is lost
in the next append or restore: it takes that nobody has recorded what is still to be recorded
(`FreshInv`), that what one suspended call set aside is in no other place (`UniqueInv`), and
that between the two statements of suspend and restore what was read is still there, which the lock gives
(`LockInv`: one holder) although the client appends without it. `OneInv` holds for calls that do not
overlap. `AloneInv` says that at most one is under way, so that what is read under the lock is what is
overwritten; `ContextInv` that the history is the caller's own while it is declarative and continues what was
there otherwise; `PairInv` that a prompt without its answer is the last message and its answer is coming;
`UsageInv` that `last_usage` is of the call that is about to be finished. `Implements` shows
each append to be the log's `Add` and every other step, suspend and restore among them, to be a stutter.

**AgentLoopProofs**, for every bound on rounds, executions, attempts and tool calls:

| theorem | statement |
|---|---|
| `TypeCorrect` | `Spec => []TypeOK` |
| `CallsAnswered` | `Spec => []ToolCallsAnswered` |
| `ResultsTrue` | `Spec => []ResultAddsUp` |
| `ErrorStops` | `Spec => ErrorStopsLoop` |

`ToolCallsAnswered` speaks of requests in flight; what makes it so is built up over the round before.
`HistoryInv` says at each phase which tool calls of the history are answered: all, or all but the last n of
the last answer, which are the ones in `todo` in that order (`Answering`). `ReplyInv` makes the answer of
a call the last message when the loop reads it, `ControlInv` ties the loop's phase to the client's stage,
`CountInv` counts the calls. `ResultAddsUp` needs `RecordInv` (one record for each tool message of
this execution, in order) and `RanInv` (what the final answer asked for has run or is in
`todo`).

**MemoryProofs**, for every set of models and any number of records, uses and processes:

| theorem | statement |
|---|---|
| `TypeCorrect` | `Spec => []TypeOK` |
| `NothingLost` | `Spec => []EveryTurnSomewhere` |
| `WholeEntries` | `Spec => []EntriesWhole` |
| `SearchFails` | `Spec => SearchFailsOnlyMidAdd` |
| `Implements` | `Spec => ImplementsStore` |

`IInv` is `TypeOK /\ ActorInv /\ ProcessInv /\ OverlapInv /\ StoreInv`. `OverlapInv` says that whoever
overlaps has been noticed; until then `StoreInv` holds: `ShapeInv` (whole entries, and in front of them the
parts that the step of the embedding thread says are written), `CopyInv` (what is about to be
written or re-embedded is the store, and what was re-embedded is the old row with the new model) and `TurnInv` (each
recorded turn is in exactly one of the queue with the thread, the store, or `gone`).
`ImplementsStore` follows from the same invariant: a step is one of
`RecallStore`, or changes nothing it sees.

**RagIndexProofs** begins with the operators of `Bm25` and `SqliteVss`, for every store and index:

| theorem | statement |
|---|---|
| `AddExact` | `add_document` of any id leaves the counters of the documents then held |
| `DeleteAllExact` | so does `delete_by_metadata` |
| `AddIs` | a transaction leaves each chunk at a row of its own with its vector, and the others as they were |

`Exact(documents)` is the index whose counters are those of its documents; each operation maps one such
index to another, and `ExactCounters` shows that these satisfy `CountersExact`. Loops over chunks and ids are
folds, which the community modules define by a `CHOOSE` of a recursive function. `FoldExists` shows
that there is such a function, and `SubsetInduction` (from well-founded induction over subsets, stated
with a set of subsets instead of a predicate) what it returns.

Then `RagIndex`, for every set of sources, texts, chunkers and calls, and any number of events:

| theorem | statement |
|---|---|
| `TypeCorrect` | `Spec => []TypeOK` |
| `CountersAreExact` | `Spec => []SparseCountersExact` |
| `VersionsAreWhole` | `Spec => []WholeVersions` |
| `VectorsAreThere` | `Spec => []VectorsOfRows(store)` |
| `SkipsAreCurrent` | `Spec => SkipsOnlyCurrent` |
| `SearchesAgree` | `Spec => IndexesAgree` |

`IInv` is `BasicInv /\ CallInv /\ StoreInv /\ SparseInv /\ VersionInv /\ AgreeInv`. `SparseInv` says that the
sparse index is `Exact`. `VersionInv` adds to `WholeVersions` that the rows of a source have one
metadata, so that the checksum `needs_reindex` meets speaks for all of them: this is what
`SkipsOnlyCurrent` needs. That equal sizes mean equal indexes takes `AgreeInv`: as long as nothing went
astray, each call is alone with its source (`AloneInv`), what it committed is still there when it
resumes (`ArrivedInv`), and the sparse index holds nothing that the store does not, with the same content unless
the chunk is on its way (`MatchInv`); a subset of equal size is the whole. A rebuild establishes
`MatchInv` whatever was there before.

**LibraryProofs**, about the four specifications in `Parts`:

| theorem | statement | for every |
|---|---|---|
| `CacheInvariant` | `Embedding!Spec => []CacheIInv` | finite set of threads, set of texts, size of the cache, |
| `EveryTextItsVector` | `Embedding!Spec => []EmbeddingsRight` | number and length of calls |
| `Links` | `Hierarchy!Spec => []LinksAgree` | set of chunks and references, number of calls |
| `Verdicts` | `Validator!Spec => []JudgedRight` | number of retries and of the client's attempts |
| `WiringHolds` | `Facades!Spec => []WiringRight` | set of clients, number of calls and deeds |

The cache: `CacheIInv` is `CacheTypeInv /\ EntriesInv /\ CallsInv /\ SizeInv /\ AloneInv`. That a finished call
answers each text takes what it owes before: `CallsInv` says at each statement which texts have their vector
and which are among those still missing, and `InOrderRight` that sorting by index undoes any order of the
answers (an injection of a finite set into itself is onto). `SizeInv` counts for each thread past its
insertion one entry; a thread that raises there leaves its entry to `abandoned`. `AloneInv` says
that what a thread found is still cached at its next statement while it is alone. Without `abandoned` the
bound of the size holds for two texts and fails for three, so the proof of `Order` needs it and the run has three.

The index: `HInv` is, while nothing was added again, `LinksOK`: the list of each parent holds its children in the
index (`Kids`), each once, and `parent_of` names the parent of exactly those chunks that have one; and
what is collected for deletion are chunk ids. It is stronger than `LinksAgree` in that a list never holds a chunk that is
gone, without which adding such a chunk later would list it twice. `delete_chunk` keeps it because a
list without one item (`WithoutRight`) still holds the others once; the grandchildren it leaves behind
keep a `parent_of` that names a chunk that is gone, which `LinksOK` allows.

The validator: `VInv` adds to its types what each stage of the loop knows (`VControlInv`, `VAttemptInv`: every verdict
before the current one is no acceptance; `VPromptInv`: a prompt belongs to a rejected attempt, the last one while
it is executed), and of the client that its history is `Orderly`: a prompt of a call is followed by the
answer of the same call or by those of later calls, and a request under way holds all of it.

The facade: `FInv` is `FTypeInv /\ WiredInv /\ FreshInv /\ KindInv /\ ToldInv /\ QuietInv`. `WiredInv` says which parts have the new client
at each statement of `set_client`. `ToldInv` is that, until a changed history is overwritten, the exchanges told are
`Spread`: each in one place of one conversation or of what the call set aside, no place holding anything else; the lemmas
about `Spread` cover the only ways histories change (set aside, put back in front, append a number that `FreshInv` calls unsaid).
That this makes `Heard` 1 or 0 needs that a sequence of different numbers up to N is no longer than N. `QuietInv` follows an
undisturbed call statement by statement from the conversations it began with.

Only model-checked: all liveness and what needs ENABLED (outside the prover's reach);
`Conditions`, `Retrieval`, `Splitters` and `Histories` (recursive operators); `VectorStores`, and the
tables and prompts of `Workflows` and `Prompts`, whose properties are about one evaluation of bounded input. The run of `RagIndex` lists deeper properties than `TypeOK`, which is proved.

## What is left out

Within the modelled parts: the layout of texts, log messages, waiting times of
retries, prices, request settings, the async client's own code (it is the sync client's with
`await`; callers that interleave at awaits are a special case of threads). Python's
memory model: list operations are atomic under the interpreter lock, and are single steps here.
Edges to a prompt from a reference inside another prompt's text do not exist in the code and
therefore not in the model.

Data throughout: embeddings and similarity, scores, token counts, the wording of prompts, verdicts and traces,
metadata that nothing branches on, YAML and Parquet as formats. Conditions leave out the methods of strings,
lists and dictionaries and the JSON helpers; Splitters the patterns of the programming languages; VectorStores
connections, schemas and the databases' own indexes.

Not modelled: the **history manager and exporter** read lists and build tables; their one hazard, keeping
a reference to a replaced list, is described above. **Configuration** is read once. **Observability** logs and
traces. Deduplication and contextual headers (`rag/indexing`) are called by nothing in the package. The
notebooks, examples and scripts, which are most of the repository's lines, use the library and hold no logic of
their own; nor do the exporters, the parsers of command lines and the formatting of answers. This is why the
specifications stand for a small share of all lines, and for most of the code that changes shared state.
