----------------------------- MODULE GraphBuild -----------------------------
(***************************************************************************)
(* build_execution_graph_with_edges (dependencies and levels of a prompt   *)
(* list, cycle detection), its use by validate_graph, and the readiness    *)
(* rule get_ready_prompts, which drains a built graph. The recursion of    *)
(* assign_levels is a stack of frames, one for each call under way.        *)
(***************************************************************************)
EXTENDS Integers, Sequences, FiniteSets, FiniteSetsExt

CONSTANTS PromptLists,  \* the prompt lists to build, sequences of prompts
          NoName        \* the name of a prompt without one

(* A prompt: [sequence, name, history, condition, abort_condition]; the last
   three are the sets of names they refer to. *)
ASSUME ListsAreFinite == \A ps \in PromptLists : IsFiniteSet(DOMAIN ps)

VARIABLES list,         \* the caller's prompts
          phase,        \* "start", "validating", "validated", "building" or "over"
          nodes,        \* the build under way: the dependencies of each node
          todo,         \* the nodes the loop over all of them has not come to
          stack,        \* calls of assign_levels: [seq, left], left to be asked
          path, cache,  \* path and level_cache
          graph,        \* what the build returned or raised
          validated,    \* what validate_graph said of the same list
          completed, in_progress   \* ExecutionState of the drain

walkVars == <<nodes, todo, stack, path, cache>>
drainVars == <<completed, in_progress>>
vars == <<list, phase, walkVars, graph, validated, drainVars>>

-----------------------------------------------------------------------------
SequenceNumbers(ps) == {ps[i].sequence : i \in DOMAIN ps}

(* prompt_by_name: the last prompt of that name; unnamed prompts have none. *)
PromptByName(ps, nm) ==
    LET named == {i \in DOMAIN ps : ps[i].name = nm /\ nm # NoName}
    IN  {ps[i].sequence : i \in {j \in named : \A k \in named : k <= j}}

Named(ps, names) == UNION {PromptByName(ps, nm) : nm \in names}

(* The dependencies of a sequence number, from every prompt that carries it:
   history as it stands, the two conditions without the prompt itself. *)
Dependencies(ps) ==
    [s \in SequenceNumbers(ps) |->
        UNION {Named(ps, ps[i].history)
                 \cup (Named(ps, ps[i].condition) \ {s})
                 \cup (Named(ps, ps[i].abort_condition) \ {s}) :
                  i \in {j \in DOMAIN ps : ps[j].sequence = s}}]

-----------------------------------------------------------------------------
NoGraph == [outcome |-> "none", deps |-> <<>>, level |-> <<>>]

(* validate_graph rebuilds the prompts: numbered by position, named, and
   without their abort_condition. *)
ValidationList(ps) ==
    [i \in DOMAIN ps |->
        [ps[i] EXCEPT !.sequence = i - 1, !.abort_condition = {},
                      !.name = IF @ = NoName THEN <<"unnamed", i - 1>> ELSE @]]

Init ==
    /\ list \in PromptLists
    /\ phase = "start"
    /\ nodes = <<>> /\ todo = {} /\ stack = <<>> /\ path = {} /\ cache = <<>>
    /\ graph = NoGraph /\ validated = "none"
    /\ completed = {} /\ in_progress = {}

Begin(ps) ==
    /\ nodes' = Dependencies(ps) /\ todo' = SequenceNumbers(ps)
    /\ stack' = <<>> /\ path' = {} /\ cache' = <<>>

Validate ==
    /\ phase = "start" /\ phase' = "validating"
    /\ Begin(ValidationList(list))
    /\ UNCHANGED <<list, graph, validated, drainVars>>

BuildGraph ==
    /\ phase = "validated" /\ phase' = "building"
    /\ Begin(list)
    /\ UNCHANGED <<list, graph, validated, drainVars>>

Walking == phase \in {"validating", "building"}

(* The build returns, or raises that it met a cycle. *)
Returns(outcome) ==
    /\ IF phase = "validating"
         THEN phase' = "validated" /\ validated' = outcome /\ UNCHANGED graph
       ELSE /\ phase' = "over" /\ UNCHANGED validated
            /\ graph' = IF outcome = "cycle" THEN [NoGraph EXCEPT !.outcome = outcome]
                        ELSE [outcome |-> outcome, deps |-> nodes, level |-> cache]
    /\ UNCHANGED <<list, walkVars, drainVars>>

-----------------------------------------------------------------------------
(* Mutant: a cached level is trusted only off the path of the walk. *)
AssignedOffPath(s, way) == s \in DOMAIN cache \ way

Assigned(s, way) == s \in DOMAIN cache

(* Mutant: one above the lowest dependency. *)
LevelAboveLowest(levels) == 1 + Min(levels)

LevelAbove(levels) == 1 + Max(levels)

Caches(s, level) == cache' = [n \in DOMAIN cache \cup {s} |-> IF n = s THEN level ELSE cache[n]]

(* assign_levels(s, way), called by the last of the frames below. The cache is
   asked before the path, on which prompts without dependencies stay. *)
Call(s, way, below) ==
    \/ /\ Assigned(s, way)
       /\ stack' = below /\ path' = way
       /\ UNCHANGED <<phase, nodes, cache, graph, validated>>
    \/ /\ ~Assigned(s, way) /\ s \notin way
       /\ path' = way \cup {s}
       /\ IF nodes[s] = {} THEN stack' = below /\ Caches(s, 0)
          ELSE stack' = Append(below, [seq |-> s, left |-> nodes[s]]) /\ UNCHANGED cache
       /\ UNCHANGED <<phase, nodes, graph, validated>>

Raises(s, way) == ~Assigned(s, way) /\ s \in way

(* for seq in nodes: a walk with a path of its own, in any order. *)
NextNode ==
    /\ Walking /\ stack = <<>>
    /\ \E s \in todo : todo' = todo \ {s} /\ Call(s, {}, stack)
    /\ UNCHANGED <<list, drainVars>>

Top == stack[Len(stack)]
Under == SubSeq(stack, 1, Len(stack) - 1)

(* The next dependency of the last call, in the order of a set. *)
NextDependency ==
    /\ Walking /\ stack # <<>>
    /\ \E d \in Top.left :
          Call(d, path, Append(Under, [Top EXCEPT !.left = @ \ {d}]))
    /\ UNCHANGED <<list, todo, drainVars>>

CycleDetected ==
    /\ Walking /\ stack # <<>>
    /\ \E d \in Top.left : Raises(d, path)
    /\ Returns("cycle")

(* All dependencies of the last call have a level. *)
AssignLevel ==
    /\ Walking /\ stack # <<>> /\ Top.left = {}
    /\ Caches(Top.seq, LevelAbove({cache[d] : d \in nodes[Top.seq]}))
    /\ stack' = Under /\ path' = path \ {Top.seq}
    /\ UNCHANGED <<list, phase, nodes, todo, graph, validated, drainVars>>

AllAssigned ==
    /\ Walking /\ stack = <<>> /\ todo = {}
    /\ Returns("built")

-----------------------------------------------------------------------------
Pending == DOMAIN graph.deps \ (completed \cup in_progress)

(* Mutant: a dependency that was merely started counts. *)
ReadyWhenStarted ==
    {s \in Pending : graph.deps[s] \subseteq completed \cup in_progress}

(* get_ready_prompts *)
Ready == {s \in Pending : graph.deps[s] \subseteq completed}

(* What its callers do with it: start a ready prompt, complete it. *)
StartReady ==
    /\ graph.outcome = "built"
    /\ \E s \in Ready : in_progress' = in_progress \cup {s}
    /\ UNCHANGED <<list, phase, walkVars, graph, validated, completed>>

Complete ==
    /\ \E s \in in_progress : /\ completed' = completed \cup {s}
                              /\ in_progress' = in_progress \ {s}
    /\ UNCHANGED <<list, phase, walkVars, graph, validated>>

Finished == \/ graph.outcome = "cycle"
            \/ graph.outcome = "built" /\ completed = DOMAIN graph.deps

Done == Finished /\ UNCHANGED vars

Walk == NextNode \/ NextDependency \/ CycleDetected \/ AssignLevel \/ AllAssigned

Next == Validate \/ BuildGraph \/ Walk \/ StartReady \/ Complete \/ Done

Spec == Init /\ [][Next]_vars

-----------------------------------------------------------------------------
(* Reference definitions, over the paths of the dependency relation.       *)

(* Chains of distinct sequence numbers, each depending on the one before. *)
Chains(deps) ==
    {p \in UNION {[1..k -> DOMAIN deps] : k \in 1..Cardinality(DOMAIN deps)} :
        /\ \A i, j \in DOMAIN p : p[i] = p[j] => i = j
        /\ \A i \in 1..(Len(p) - 1) : p[i] \in deps[p[i + 1]]}

Cyclic(deps) == \E p \in Chains(deps) : p[Len(p)] \in deps[p[1]]

(* The build raises exactly on the prompt lists whose dependencies form a
   cycle, whatever the order of the walk. *)
CyclesFound ==
    graph.outcome # "none" =>
        (graph.outcome = "cycle" <=> Cyclic(Dependencies(list)))

(* The level of a prompt is the length of the longest chain of dependencies
   below it: what runs at one level depends only on lower ones. *)
LevelsAreDepths ==
    graph.outcome = "built" =>
        \A s \in DOMAIN graph.deps :
            graph.level[s] =
                Max({Len(p) - 1 : p \in {q \in Chains(graph.deps) : q[Len(q)] = s}})

(* Draining a built graph through get_ready_prompts never stalls, and a
   prompt is handed out only after everything it depends on completed. *)
ReadyDrains ==
    graph.outcome = "built" =>
        /\ completed # DOMAIN graph.deps => Ready \cup in_progress # {}
        /\ \A s \in in_progress \cup completed : graph.deps[s] \subseteq completed

(* Stated by the DAG tutorial: validating a graph checks it for cycles. *)
ValidatedGraphsBuild ==
    (validated = "built" /\ graph # NoGraph) => graph.outcome = "built"
=============================================================================
