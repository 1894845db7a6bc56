--------------------------- MODULE GraphExecutor ---------------------------
(***************************************************************************)
(* AsyncGraphExecutor.execute: the prompts of a dependency graph run level *)
(* by level. The tasks of a level run concurrently under asyncio.gather    *)
(* and a semaphore, and their results become visible to the later levels   *)
(* only when the whole level has been gathered.                            *)
(*                                                                         *)
(* A node is the sequence number of a prompt (sequences are distinct and   *)
(* in list order, as execute_graph assigns them). The prompts of a run are *)
(* chosen in Init from the constant set Workflows and never change.        *)
(***************************************************************************)
EXTENDS Integers, FiniteSets

CONSTANTS Node,             \* sequence numbers
          Name,             \* prompt names
          Workflows,        \* the prompt lists to run
          MaxConcurrency    \* the bound given to asyncio.Semaphore

(* {{on.status}} == "success", {{on.has_response}}, not
   is_empty({{on.response}}), or no condition. *)
Condition == [on : Name, test : {"none", "succeeded", "has_response", "not_empty"}]

Prompt == [name : Name, history : SUBSET Name,
           condition : Condition, abort_condition : Condition]

ASSUME GraphAssumption ==
    /\ Node \subseteq Nat /\ IsFiniteSet(Node)
    /\ Workflows \subseteq [Node -> Prompt]
    /\ MaxConcurrency \in Nat \ {0}

VARIABLES prompts,        \* the run's prompt list
          level,          \* level[n]: PromptNode.level
          cur,            \* the level the for loop is at
          task,           \* task[n]: where the task of node n stands
          called,         \* the nodes whose executor_fn was entered
          free,           \* permits left in the semaphore
          result,         \* result_map and results_by_name, by prompt name
          aborted,
          aborted_count,
          pc              \* of execute itself

vars == <<prompts, level, cur, task, called, free, result, aborted,
          aborted_count, pc>>

-----------------------------------------------------------------------------
(* The graph: edges come from history, condition and abort_condition.      *)

NamedNodes(nm) == {m \in Node : prompts[m].name = nm}

(* prompt_by_name: the last prompt that carries the name. *)
PromptByName(nm) ==
    {m \in NamedNodes(nm) : \A k \in NamedNodes(nm) : k <= m}

(* Mutant: conditions create no edge. *)
RefersToNothing(c) == {}

Refers(c) == IF c.test = "none" THEN {} ELSE PromptByName(c.on)

Deps(n) ==
    (UNION {PromptByName(h) : h \in prompts[n].history})
        \cup (Refers(prompts[n].condition) \ {n})
        \cup (Refers(prompts[n].abort_condition) \ {n})

(* assign_levels, by the equation it solves (GraphBuild runs it). *)
IsLevelling ==
    \A n \in Node :
        /\ \A d \in Deps(n) : level[d] < level[n]
        /\ level[n] = 0 \/ \E d \in Deps(n) : level[n] = level[d] + 1

LevelNodes(l) == {n \in Node : level[n] = l}

PastMaxLevel == \A n \in Node : level[n] < cur

-----------------------------------------------------------------------------
(* Results, and the conditions evaluated on them.                          *)

NoResult == [status |-> "absent", response |-> "", has_response |-> FALSE]

(* Three ways to be skipped, which a result tells apart by its trace alone: by
   its condition, for a failed dependency, and because of an abort. *)
NotRun == {"skipped", "blocked", "abandoned"}

(* What is stored for each outcome of a task. "empty" is a successful call
   whose text is the empty string. *)
StoredResult(outcome) ==
    CASE outcome = "success" ->
            [status |-> "success", response |-> "text", has_response |-> TRUE]
      [] outcome = "empty" ->
            [status |-> "success", response |-> "", has_response |-> TRUE]
      [] outcome \in NotRun ->
            [status |-> "skipped", response |-> "", has_response |-> FALSE]
      [] OTHER ->
            [status |-> outcome, response |-> "", has_response |-> FALSE]

(* The status or the has_response flag of a name without a result does not
   resolve: the evaluator reports an error. *)
ConditionError(c, res) == c.test # "none" /\ res[c.on].status = "absent"

ConditionHolds(c, res) ==
    \/ c.test = "none"
    \/ c.test = "succeeded" /\ res[c.on].status = "success"
    \/ c.test = "has_response" /\ res[c.on].has_response
    \/ c.test = "not_empty" /\ res[c.on].response # ""

(* Mutant: skips only when every dependency failed. *)
EveryDependencyFailed(n) ==
    /\ Deps(n) # {}
    /\ \A d \in Deps(n) : result[prompts[d].name].status = "failed"

(* should_skip_for_failed_deps: direct dependencies only, and a skipped one
   does not count. *)
DependencyFailed(n) ==
    \E d \in Deps(n) : result[prompts[d].name].status = "failed"

(* check_abort_condition: an error, or no condition, does not abort. *)
AbortTriggered(n, res) ==
    LET c == prompts[n].abort_condition
    IN  /\ c.test # "none"
        /\ ~ConditionError(c, res)
        /\ ConditionHolds(c, res)

-----------------------------------------------------------------------------

Init ==
    /\ prompts \in Workflows
    /\ level \in [Node -> 0..Cardinality(Node)]
    /\ IsLevelling
    /\ cur = 0
    /\ task = [n \in Node |-> "idle"]
    /\ called = {}
    /\ free = MaxConcurrency
    /\ result = [nm \in Name |-> NoResult]
    /\ aborted = FALSE
    /\ aborted_count = 0
    /\ pc = "running"

(* _execute_node up to the semaphore: no await, so one step per task. *)
Verdict(n) ==
    LET c == prompts[n].condition
    IN  IF DependencyFailed(n) THEN "blocked"
        ELSE IF ConditionError(c, result) THEN "failed"
        ELSE IF ConditionHolds(c, result) THEN "waiting"
        ELSE "skipped"

(* Mutant: the abort flag is not looked at. *)
StartTaskAfterAbort(n) ==
    /\ pc = "running"
    /\ level[n] = cur /\ task[n] = "idle"
    /\ task' = [task EXCEPT ![n] = Verdict(n)]
    /\ UNCHANGED <<prompts, level, cur, called, free, result, aborted,
                   aborted_count, pc>>

StartTask(n) ==
    /\ pc = "running" /\ ~aborted
    /\ level[n] = cur /\ task[n] = "idle"
    /\ task' = [task EXCEPT ![n] = Verdict(n)]
    /\ UNCHANGED <<prompts, level, cur, called, free, result, aborted,
                   aborted_count, pc>>

(* Mutant: the permit is not waited for. *)
EnterCallUnbounded(n) ==
    /\ task[n] = "waiting"
    /\ task' = [task EXCEPT ![n] = "running"]
    /\ called' = called \cup {n}
    /\ free' = IF free > 0 THEN free - 1 ELSE 0
    /\ UNCHANGED <<prompts, level, cur, result, aborted, aborted_count, pc>>

(* async with sem, then executor_fn is entered. *)
EnterCall(n) ==
    /\ task[n] = "waiting" /\ free > 0
    /\ task' = [task EXCEPT ![n] = "running"]
    /\ called' = called \cup {n}
    /\ free' = free - 1
    /\ UNCHANGED <<prompts, level, cur, result, aborted, aborted_count, pc>>

(* executor_fn returns or raises. "failed" stands for a returned failure and
   for any Exception; "cancelled" is asyncio.CancelledError, which is not an
   Exception. The permit is given back on every path. *)
Outcome == {"success", "empty", "failed", "cancelled"}

(* Mutant: a failed call queues again for a permit. *)
LeaveCallTriesAgain(n) ==
    /\ task[n] = "running"
    /\ \E o \in Outcome :
          task' = [task EXCEPT ![n] = IF o = "failed" THEN "waiting" ELSE o]
    /\ free' = free + 1
    /\ UNCHANGED <<prompts, level, cur, called, result, aborted,
                   aborted_count, pc>>

LeaveCall(n) ==
    /\ task[n] = "running"
    /\ \E o \in Outcome : task' = [task EXCEPT ![n] = o]
    /\ free' = free + 1
    /\ UNCHANGED <<prompts, level, cur, called, result, aborted,
                   aborted_count, pc>>

TaskDone(n) == task[n] \in Outcome \cup {"skipped", "blocked"}

Gathered ==
    /\ pc = "running" /\ ~aborted
    /\ ~PastMaxLevel
    /\ \A n \in LevelNodes(cur) : TaskDone(n)

(* The last node of the level that carries the name: its entry stays. *)
LastNamed(nm) ==
    LET here == {n \in LevelNodes(cur) : prompts[n].name = nm}
    IN  {n \in here : \A m \in here : m <= n}

Merged ==
    [nm \in Name |-> IF LastNamed(nm) = {} THEN result[nm]
                     ELSE StoredResult(task[CHOOSE n \in LastNamed(nm) : TRUE])]

(* Mutant: no assertion on the outcome, as under python -O. *)
MergeLevelUnasserted ==
    /\ Gathered
    /\ result' = Merged
    /\ aborted' = \E n \in LevelNodes(cur) :
                     /\ Merged[prompts[n].name].status = "success"
                     /\ AbortTriggered(n, Merged)
    /\ cur' = cur + 1
    /\ UNCHANGED <<prompts, level, task, called, free, aborted_count, pc>>

(* gather returned: store the results, then look for the first successful
   node whose abort condition holds. No await in between. *)
MergeLevel ==
    /\ Gathered
    /\ \A n \in LevelNodes(cur) : task[n] # "cancelled"
    /\ result' = Merged
    /\ aborted' = \E n \in LevelNodes(cur) :
                     /\ Merged[prompts[n].name].status = "success"
                     /\ AbortTriggered(n, Merged)
    /\ cur' = cur + 1
    /\ UNCHANGED <<prompts, level, task, called, free, aborted_count, pc>>

(* A CancelledError among the outcomes fails the assertion on its type: the
   error leaves execute and every result gathered so far is lost. *)
RaiseAssertion ==
    /\ Gathered
    /\ \E n \in LevelNodes(cur) : task[n] = "cancelled"
    /\ pc' = "raised"
    /\ UNCHANGED <<prompts, level, cur, task, called, free, result, aborted,
                   aborted_count>>

(* Mutant: the nodes after an abort get no result. *)
SkipLevelUnrecorded ==
    /\ pc = "running" /\ aborted /\ ~PastMaxLevel
    /\ task' = [n \in Node |-> IF level[n] = cur THEN "abandoned" ELSE task[n]]
    /\ aborted_count' = aborted_count + Cardinality(LevelNodes(cur))
    /\ cur' = cur + 1
    /\ UNCHANGED <<prompts, level, called, free, result, aborted, pc>>

(* A level after the abort: its nodes are recorded as skipped. *)
SkipLevel ==
    /\ pc = "running" /\ aborted /\ ~PastMaxLevel
    /\ task' = [n \in Node |-> IF level[n] = cur THEN "abandoned" ELSE task[n]]
    /\ result' = [nm \in Name |->
                     IF \E n \in LevelNodes(cur) : prompts[n].name = nm
                     THEN StoredResult("abandoned") ELSE result[nm]]
    /\ aborted_count' = aborted_count + Cardinality(LevelNodes(cur))
    /\ cur' = cur + 1
    /\ UNCHANGED <<prompts, level, called, free, aborted, pc>>

Return ==
    /\ pc = "running" /\ PastMaxLevel
    /\ pc' = "returned"
    /\ UNCHANGED <<prompts, level, cur, task, called, free, result, aborted,
                   aborted_count>>

Terminated == pc # "running" /\ UNCHANGED vars

Next ==
    \/ \E n \in Node : StartTask(n) \/ EnterCall(n) \/ LeaveCall(n)
    \/ MergeLevel \/ RaiseAssertion \/ SkipLevel \/ Return
    \/ Terminated

Spec == Init /\ [][Next]_vars

(* The event loop runs every ready task, and a model call ends: retries and
   fallbacks are bounded, and the provider's library times every request out
   by a default of its own (ffai gives it none). *)
Fairness ==
    /\ \A n \in Node : /\ WF_vars(StartTask(n)) /\ WF_vars(EnterCall(n))
                       /\ WF_vars(LeaveCall(n))
    /\ WF_vars(MergeLevel) /\ WF_vars(RaiseAssertion)
    /\ WF_vars(SkipLevel) /\ WF_vars(Return)

FairSpec == Spec /\ Fairness

(* GraphResult's counts, over the result dictionary. *)
CountOf(status) == Cardinality({nm \in Name : result[nm].status = status})

-----------------------------------------------------------------------------
(* Properties.                                                             *)

TaskState == {"idle", "waiting", "running"} \cup NotRun \cup Outcome

ResultRecord == [status : {"absent", "success", "failed", "skipped"},
                 response : {"", "text"}, has_response : BOOLEAN]

(* The values every variable ranges over. *)
TypeOK ==
    /\ prompts \in [Node -> Prompt]
    /\ level \in [Node -> Nat]
    /\ cur \in Nat
    /\ task \in [Node -> TaskState]
    /\ called \in SUBSET Node
    /\ free \in Nat
    /\ result \in [Name -> ResultRecord]
    /\ aborted \in BOOLEAN
    /\ aborted_count \in Nat
    /\ pc \in {"running", "returned", "raised"}

Running == {n \in Node : task[n] = "running"}

UniqueNames == \A m, n \in Node : prompts[m].name = prompts[n].name => m = n

(* No more model calls are in flight than max_concurrency allows, whatever
   mix of successes, failures and cancellations the calls end in. *)
SemaphoreBound == Cardinality(Running) <= MaxConcurrency

(* A prompt reaches the model only when each of its dependencies already has
   a result in results_by_name, and none of these is a failure. A skipped
   dependency does not hold it back: so says should_skip_for_failed_deps
   (core/graph_execution_helpers.py:178-180), and so does a test
   (test_skipped_dep_does_not_cascade). The tutorial says the opposite
   (docs/sphinx/source/tutorials/condition_dsl.rst:146-170): what is stated here
   is the code's rule, and the disagreement is a divergence in README.md. *)
CallsFollowDependencies ==
    UniqueNames =>
        \A n \in called : \A d \in Deps(n) :
            result[prompts[d].name].status \in {"success", "skipped"}

(* No model call begins once an abort condition fired. *)
AbortStopsCalls == [][aborted => called' = called]_vars

(* The decision to call, skip, block or fail a node was taken on the results
   of the earlier levels; on the results execute returns it would come out the
   same. (A prompt whose condition names the prompt itself cannot be evaluated
   and is left out.) *)
DecisionsStable ==
    (pc = "returned" /\ UniqueNames) =>
        \A n \in Node :
            (task[n] # "abandoned" /\ Refers(prompts[n].condition) # {n}) =>
                Verdict(n) = IF n \in called THEN "waiting" ELSE task[n]

(* The prompts that ended in one way. *)
Ended(way) == {n \in Node : task[n] = way}

(* What execute returns adds up: every prompt has one result, each in one of
   the three counts. skipped_count (core/async_executor.py:180-182) is the sum
   of three: the prompts their conditions skipped, those a failed dependency
   blocked, and aborted_count. The docstring of GraphResult (:39) and
   tutorials/dag_execution.rst:121 say it is the first alone: that would be
   CountOf("skipped") = Cardinality(Ended("skipped")), which fails after a
   failed dependency or an abort, and is a divergence in README.md. *)
CountsAddUp ==
    (pc = "returned" /\ UniqueNames) =>
        /\ CountOf("success") + CountOf("failed") + CountOf("skipped")
               = Cardinality(Node)
        /\ CountOf("skipped")
               = Cardinality(Ended("skipped")) + Cardinality(Ended("blocked"))
                     + aborted_count
        /\ Cardinality(called) <= CountOf("success") + CountOf("failed")

(* execute comes back: no schedule of the tasks, and no mix of outcomes,
   leaves it waiting for a permit or for a task that never starts. *)
Termination == <>(pc # "running")

(* The executor implements the contract of DagContract. *)
StateOf(t) ==
    CASE t \in {"idle", "waiting"}      -> "pending"
      [] t = "running"                  -> "called"
      [] t \in {"success", "empty"}     -> "ok"
      [] t \in {"failed", "cancelled"}  -> "failed"
      [] t \in NotRun                   -> "skipped"

Contract ==
    INSTANCE DagContract WITH
        deps <- [n \in Node |-> Deps(n)],
        state <- [n \in Node |-> StateOf(task[n])],
        stopped <- aborted \/ pc = "raised"

(* Every behaviour of the executor, levels and semaphore included, is a
   behaviour of the contract: one call per prompt at most, dependencies
   first, nothing on a failed dependency or after a stop. *)
ImplementsContract == Contract!Spec
=============================================================================
