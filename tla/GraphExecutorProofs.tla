------------------------ MODULE GraphExecutorProofs ------------------------
(***************************************************************************)
(* Theorems of GraphExecutor, for every set of nodes, names and prompt     *)
(* lists and every max_concurrency.                                        *)
(***************************************************************************)
EXTENDS GraphExecutor, FiniteSetTheorems, FunctionTheorems, TLAPS

(* How a task that is done has ended. *)
Finished == {"success", "empty", "failed"} \cup NotRun

(* The status stored for it. *)
StatusOf(t) ==
    IF t = "empty" THEN "success" ELSE IF t \in NotRun THEN "skipped" ELSE t

(* What the executor stores is a result record. "cancelled" is not stored. *)
LEMMA StoredResultType ==
    \A o \in Finished : /\ StoredResult(o) \in ResultRecord
                        /\ StoredResult(o).status = StatusOf(o)
    BY DEF StoredResult, ResultRecord, Finished, NotRun, StatusOf

(* The entry MergeLevel writes for a name is the old one, or what is stored
   for a task of the level. *)
LEMMA MergedEntry ==
    ASSUME TypeOK, NEW nm \in Name
    PROVE  \/ Merged[nm] = result[nm]
           \/ \E n \in LevelNodes(cur) : /\ prompts[n].name = nm
                                         /\ Merged[nm] = StoredResult(task[n])
    BY DEF Merged, LastNamed

-----------------------------------------------------------------------------
(* Type correctness.                                                       *)

LEMMA InitTypeOK == Init => TypeOK
<1> SUFFICES ASSUME Init PROVE TypeOK
  OBVIOUS
<1>1. prompts \in [Node -> Prompt]
  BY GraphAssumption DEF Init
<1>2. level \in [Node -> Nat]
  BY GraphAssumption, FS_CardinalityType DEF Init
<1>3. result \in [Name -> ResultRecord]
  BY DEF Init, NoResult, ResultRecord
<1>4. QED
  BY <1>1, <1>2, <1>3, GraphAssumption DEF Init, TypeOK, TaskState

LEMMA NextTypeOK == TypeOK /\ [Next]_vars => TypeOK'
<1> SUFFICES ASSUME TypeOK, [Next]_vars PROVE TypeOK'
  OBVIOUS
<1>1. ASSUME NEW n \in Node, StartTask(n) PROVE TypeOK'
  <2>1. Verdict(n) \in {"skipped", "blocked", "failed", "waiting"}
    BY DEF Verdict
  <2>2. QED
    BY <1>1, <2>1 DEF TypeOK, TaskState, NotRun, Outcome, StartTask
<1>2. ASSUME NEW n \in Node, EnterCall(n) PROVE TypeOK'
  BY <1>2 DEF TypeOK, TaskState, EnterCall
<1>3. ASSUME NEW n \in Node, LeaveCall(n) PROVE TypeOK'
  BY <1>3 DEF TypeOK, TaskState, LeaveCall
<1>4. CASE MergeLevel
  <2>1. \A n \in LevelNodes(cur) : task[n] \in Finished
    BY <1>4 DEF MergeLevel, Gathered, TaskDone, Outcome, Finished, NotRun
  <2>2. \A nm \in Name : Merged[nm] \in ResultRecord
    BY <2>1, MergedEntry, StoredResultType DEF TypeOK
  <2>3. result' \in [Name -> ResultRecord]
    BY <1>4, <2>2 DEF MergeLevel, Merged
  <2>4. QED
    BY <1>4, <2>3 DEF MergeLevel, TypeOK
<1>5. CASE RaiseAssertion
  BY <1>5 DEF TypeOK, RaiseAssertion
<1>6. CASE SkipLevel
  <2>1. result' \in [Name -> ResultRecord]
    BY <1>6, StoredResultType DEF SkipLevel, TypeOK, Finished, NotRun
  <2>2. Cardinality(LevelNodes(cur)) \in Nat
    BY GraphAssumption, FS_Subset, FS_CardinalityType DEF LevelNodes
  <2>3. task' \in [Node -> TaskState]
    BY <1>6 DEF SkipLevel, TypeOK, TaskState, NotRun
  <2>4. QED
    BY <1>6, <2>1, <2>2, <2>3 DEF SkipLevel, TypeOK
<1>7. CASE Return
  BY <1>7 DEF TypeOK, Return
<1>8. CASE UNCHANGED vars
  BY <1>8 DEF TypeOK, vars
<1>9. QED
  BY <1>1, <1>2, <1>3, <1>4, <1>5, <1>6, <1>7, <1>8
  DEF Next, Terminated

(* Every variable keeps to its range. *)
THEOREM TypeCorrect == Spec => []TypeOK
<1>1. QED
  BY InitTypeOK, NextTypeOK, PTL DEF Spec

-----------------------------------------------------------------------------
(* Levels: below cur every task is settled, above cur none has started, and
   after an abort nothing at cur has started either. *)

LevelInv ==
    /\ IsLevelling
    /\ \A n \in Node : level[n] < cur => task[n] \in Finished
    /\ \A n \in Node : level[n] > cur => task[n] = "idle"
    /\ aborted => \A n \in Node : level[n] >= cur => task[n] = "idle"

LEMMA InitLevelInv == Init => LevelInv
  BY GraphAssumption DEF Init, LevelInv

LEMMA NextLevelInv == TypeOK /\ LevelInv /\ [Next]_vars => LevelInv'
<1> SUFFICES ASSUME TypeOK, LevelInv, [Next]_vars PROVE LevelInv'
  OBVIOUS
<1>0. UNCHANGED <<prompts, level>> => IsLevelling'
  BY DEF LevelInv, IsLevelling, Deps, Refers, PromptByName, NamedNodes
<1>1. ASSUME NEW n \in Node, StartTask(n) PROVE LevelInv'
  BY <1>0, <1>1 DEF StartTask, LevelInv, TypeOK
<1>2. ASSUME NEW n \in Node, EnterCall(n) PROVE LevelInv'
  BY <1>0, <1>2 DEF EnterCall, LevelInv, TypeOK, Finished, NotRun
<1>3. ASSUME NEW n \in Node, LeaveCall(n) PROVE LevelInv'
  BY <1>0, <1>3 DEF LeaveCall, LevelInv, TypeOK, Finished, NotRun
<1>4. CASE MergeLevel
  <2>1. \A n \in Node : level[n] = cur => task[n] \in Finished
    BY <1>4 DEF MergeLevel, Gathered, LevelNodes, TaskDone, Outcome, Finished, NotRun
  <2>2. \A n \in Node : level[n] < cur + 1 => task[n] \in Finished
    BY <2>1 DEF LevelInv, TypeOK
  <2>3. \A n \in Node : level[n] >= cur + 1 => task[n] = "idle"
    BY DEF LevelInv, TypeOK
  <2>4. QED
    BY <1>0, <1>4, <2>2, <2>3 DEF MergeLevel, LevelInv, TypeOK
<1>5. CASE RaiseAssertion
  BY <1>0, <1>5 DEF RaiseAssertion, LevelInv
<1>6. CASE SkipLevel
  <2>1. IsLevelling' /\ UNCHANGED <<level, aborted>> /\ aborted /\ cur' = cur + 1
    BY <1>0, <1>6 DEF SkipLevel
  <2>2. \A n \in Node : level[n] < cur + 1 => task'[n] \in Finished
    <3>1. ASSUME NEW n \in Node, level[n] = cur PROVE task'[n] \in Finished
      BY <1>6, <3>1 DEF SkipLevel, Finished, NotRun
    <3>2. ASSUME NEW n \in Node, level[n] < cur PROVE task'[n] \in Finished
      BY <1>6, <3>2 DEF SkipLevel, LevelInv, TypeOK
    <3>3. QED
      BY <3>1, <3>2 DEF TypeOK
  <2>3. \A n \in Node : level[n] >= cur + 1 => task'[n] = "idle"
    BY <1>6 DEF SkipLevel, LevelInv, TypeOK
  <2>4. QED
    BY <2>1, <2>2, <2>3 DEF LevelInv, TypeOK
<1>7. CASE Return
  BY <1>0, <1>7 DEF Return, LevelInv
<1>8. CASE UNCHANGED vars
  BY <1>0, <1>8 DEF vars, LevelInv
<1>9. QED
  BY <1>1, <1>2, <1>3, <1>4, <1>5, <1>6, <1>7, <1>8 DEF Next, Terminated

-----------------------------------------------------------------------------
(* The semaphore.                                                          *)

(* Each permit is either free or held by a running task. *)
Permits == free + Cardinality(Running) = MaxConcurrency

LEMMA RunningFinite == IsFiniteSet(Running) /\ Cardinality(Running) \in Nat
  BY GraphAssumption, FS_Subset, FS_CardinalityType DEF Running

LEMMA InitPermits == Init => Permits
<1>1. Init => Running = {}
  BY DEF Init, Running
<1>2. QED
  <2> SUFFICES ASSUME Init PROVE Permits
    OBVIOUS
  <2>1. Cardinality(Running) = 0
    BY <1>1, FS_EmptySet
  <2>2. QED
    BY <2>1, GraphAssumption DEF Init, Permits

LEMMA NextPermits ==
    TypeOK /\ LevelInv /\ Permits /\ [Next]_vars => Permits'
<1> SUFFICES ASSUME TypeOK, LevelInv, Permits, [Next]_vars PROVE Permits'
  OBVIOUS
<1>0. Permits' = (free' + Cardinality(Running') = MaxConcurrency)
  BY DEF Permits
<1>1. ASSUME NEW n \in Node, StartTask(n) PROVE Permits'
  <2>1. Verdict(n) # "running" /\ task[n] # "running"
    BY <1>1 DEF Verdict, StartTask
  <2>2. Running' = Running
    BY <1>1, <2>1 DEF StartTask, Running, TypeOK
  <2>3. QED
    BY <1>0, <1>1, <2>2 DEF StartTask, Permits
<1>2. ASSUME NEW n \in Node, EnterCall(n) PROVE Permits'
  <2>1. Running' = Running \cup {n} /\ n \notin Running
    BY <1>2 DEF EnterCall, Running, TypeOK
  <2>2. Cardinality(Running') = Cardinality(Running) + 1
    BY <2>1, RunningFinite, FS_AddElement
  <2>3. QED
    BY <1>0, <1>2, <2>2, RunningFinite, GraphAssumption
    DEF EnterCall, Permits, TypeOK
<1>3. ASSUME NEW n \in Node, LeaveCall(n) PROVE Permits'
  <2>1. Running' = Running \ {n} /\ n \in Running
    BY <1>3 DEF LeaveCall, Running, TypeOK, Outcome
  <2>2. Cardinality(Running') = Cardinality(Running) - 1
    BY <2>1, RunningFinite, FS_RemoveElement
  <2>3. QED
    BY <1>0, <1>3, <2>2, RunningFinite, GraphAssumption
    DEF LeaveCall, Permits, TypeOK
<1>4. CASE MergeLevel
  BY <1>0, <1>4 DEF MergeLevel, Permits, Running
<1>5. CASE RaiseAssertion
  BY <1>0, <1>5 DEF RaiseAssertion, Permits, Running
<1>6. CASE SkipLevel
  <2>1. Running' = Running
    BY <1>6 DEF SkipLevel, LevelInv, Running, TypeOK
  <2>2. QED
    BY <1>0, <1>6, <2>1 DEF SkipLevel, Permits
<1>7. CASE Return
  BY <1>0, <1>7 DEF Return, Permits, Running
<1>8. CASE UNCHANGED vars
  BY <1>0, <1>8 DEF vars, Permits, Running
<1>9. QED
  BY <1>1, <1>2, <1>3, <1>4, <1>5, <1>6, <1>7, <1>8 DEF Next, Terminated

-----------------------------------------------------------------------------
(* Model calls and the order of the graph.                                 *)

DepsUsable(n) ==
    \A d \in Deps(n) : /\ level[d] < cur
                       /\ result[prompts[d].name].status \in {"success", "skipped"}

(* With unique names: the levels below cur have their results stored, and a
   task passes the dependency check only on usable results. *)
CallInv ==
    UniqueNames =>
        /\ \A n \in Node : level[n] < cur =>
               result[prompts[n].name] = StoredResult(task[n])
        /\ \A n \in Node : task[n] = "waiting" => DepsUsable(n)
        /\ \A n \in called : level[n] <= cur /\ DepsUsable(n)

(* With unique names a level writes each of its own entries and no other. *)
LEMMA MergedUnique ==
    ASSUME TypeOK, UniqueNames, NEW n \in Node
    PROVE  Merged[prompts[n].name] = IF level[n] = cur THEN StoredResult(task[n])
                                     ELSE result[prompts[n].name]
<1> DEFINE nm == prompts[n].name
<1>1. nm \in Name
  BY DEF TypeOK, Prompt
<1>2. CASE level[n] = cur
  <2>1. \A m \in LevelNodes(cur) : prompts[m].name = nm => m = n
    BY DEF LevelNodes, UniqueNames
  <2>2. n \in LastNamed(nm)
    BY <1>2, <2>1, GraphAssumption DEF LastNamed, LevelNodes
  <2> LastNamed(nm) = {n}
    BY <2>1, <2>2 DEF LastNamed
  <2>3. QED
    BY <1>1, <1>2 DEF Merged
<1>3. CASE level[n] # cur
  <2>1. LastNamed(nm) = {}
    BY <1>3 DEF LastNamed, LevelNodes, UniqueNames
  <2>2. QED
    BY <1>1, <1>3, <2>1 DEF Merged
<1>4. QED
  BY <1>2, <1>3

LEMMA SameGraph ==
    UNCHANGED <<prompts, level>> =>
        /\ \A n \in Node : Deps(n)' = Deps(n)
        /\ UniqueNames' = UniqueNames
  BY DEF Deps, Refers, PromptByName, NamedNodes, UniqueNames

LEMMA DepsAreNodes == \A n \in Node : Deps(n) \subseteq Node
  BY DEF Deps, Refers, PromptByName, NamedNodes

LEMMA InitCallInv == Init => CallInv
  BY GraphAssumption DEF Init, CallInv

(* Steps inside a level leave the stored results alone. *)
LEMMA CallInvInLevel ==
    ASSUME TypeOK, CallInv, UNCHANGED <<prompts, level, cur, result>>,
           \A n \in Node : level[n] < cur => task'[n] = task[n],
           \A n \in Node : task'[n] = "waiting" =>
                              task[n] = "waiting" \/ DepsUsable(n),
           \A n \in called' : n \in called \/
                              (n \in Node /\ task[n] = "waiting" /\ level[n] <= cur)
    PROVE  CallInv'
<1> SUFFICES ASSUME UniqueNames PROVE CallInv'
  BY SameGraph DEF CallInv
<1>1. \A n \in Node : DepsUsable(n)' = DepsUsable(n)
  BY SameGraph DEF DepsUsable
<1>2. \A n \in Node : task[n] = "waiting" => DepsUsable(n)
  BY DEF CallInv
<1>3. \A n \in Node : task'[n] = "waiting" => DepsUsable(n)'
  BY <1>1, <1>2
<1>4. called \subseteq Node /\ \A n \in called : level[n] <= cur /\ DepsUsable(n)
  BY DEF CallInv, TypeOK
<1>5. \A n \in called' : (level[n] <= cur)' /\ DepsUsable(n)'
  BY <1>1, <1>2, <1>4
<1>6. \A n \in Node : (level[n] < cur)' =>
        result'[prompts'[n].name] = StoredResult(task[n])
  BY DEF CallInv
<1>7. \A n \in Node : (level[n] < cur)' =>
        result'[prompts'[n].name] = StoredResult(task'[n])
  BY <1>6
<1>8. QED
  BY <1>3, <1>5, <1>7 DEF CallInv, StoredResult

(* A level that is stored or skipped touches only its own entries. *)
LEMMA CallInvNextLevel ==
    ASSUME TypeOK, LevelInv, CallInv, UNCHANGED <<prompts, level, called>>,
           cur' = cur + 1,
           UniqueNames => \A n \in Node :
              result'[prompts[n].name] = IF level[n] = cur THEN StoredResult(task'[n])
                                         ELSE result[prompts[n].name],
           \A n \in Node : task'[n] # "waiting",
           \A n \in Node : level[n] < cur => task'[n] = task[n]
    PROVE  CallInv'
<1> SUFFICES ASSUME UniqueNames PROVE CallInv'
  BY SameGraph DEF CallInv
<1>1. ASSUME NEW n \in called PROVE (level[n] <= cur)' /\ DepsUsable(n)'
  <2>1. n \in Node /\ level[n] <= cur /\ DepsUsable(n)
    BY <1>1 DEF CallInv, TypeOK
  <2>2. \A d \in Deps(n) : d \in Node /\ level[d] < cur
    BY <2>1, DepsAreNodes DEF DepsUsable
  <2>3. \A d \in Deps(n) : result'[prompts[d].name] = result[prompts[d].name]
    BY <2>2 DEF TypeOK
  <2>4. QED
    BY <2>1, <2>2, <2>3, SameGraph DEF DepsUsable, TypeOK
<1>2. ASSUME NEW n \in Node, (level[n] < cur)'
      PROVE  result'[prompts'[n].name] = StoredResult(task'[n])
  <2>1. level[n] < cur \/ level[n] = cur
    BY <1>2 DEF TypeOK
  <2>2. level[n] < cur => result[prompts[n].name] = StoredResult(task[n])
    BY DEF CallInv
  <2>3. level[n] < cur => level[n] # cur /\ task'[n] = task[n]
    BY DEF TypeOK
  <2>4. QED
    BY <2>1, <2>2, <2>3
<1>3. QED
  BY <1>1, <1>2 DEF CallInv, StoredResult

LEMMA NextCallInv ==
    TypeOK /\ LevelInv /\ CallInv /\ [Next]_vars => CallInv'
<1> SUFFICES ASSUME TypeOK, LevelInv, CallInv, [Next]_vars PROVE CallInv'
  OBVIOUS
<1>1. ASSUME NEW n \in Node, StartTask(n) PROVE CallInv'
  <2>1. \A d \in Deps(n) : /\ d \in Node
                           /\ level[d] < cur /\ task[d] \in Finished
    BY <1>1, DepsAreNodes DEF StartTask, LevelInv, IsLevelling
  <2>2. ASSUME UniqueNames, Verdict(n) = "waiting" PROVE DepsUsable(n)
    <3>1. \A d \in Deps(n) : result[prompts[d].name].status # "failed"
      BY <2>2 DEF Verdict, DependencyFailed
    <3>2. \A d \in Deps(n) :
             result[prompts[d].name].status \in {"success", "failed", "skipped"}
      BY <2>1, <2>2, StoredResultType DEF CallInv, Finished, StatusOf
    <3>3. QED
      BY <2>1, <3>1, <3>2 DEF DepsUsable
  <2>3. CASE UniqueNames
    <3>1. \A m \in Node : task'[m] = "waiting" =>
             task[m] = "waiting" \/ DepsUsable(m)
      BY <1>1, <2>2, <2>3 DEF StartTask, TypeOK
    <3>2. \A m \in Node : level[m] < cur => task'[m] = task[m]
      BY <1>1 DEF StartTask, TypeOK
    <3>3. QED
      BY <1>1, <3>1, <3>2, CallInvInLevel DEF StartTask
  <2>4. CASE ~UniqueNames
    BY <1>1, <2>4, SameGraph DEF StartTask, CallInv
  <2>5. QED
    BY <2>3, <2>4
<1>2. ASSUME NEW n \in Node, EnterCall(n) PROVE CallInv'
  <2>1. level[n] = cur
    BY <1>2 DEF EnterCall, LevelInv, TypeOK, Finished, NotRun
  <2>2. QED
    BY <1>2, <2>1, CallInvInLevel DEF EnterCall, TypeOK
<1>3. ASSUME NEW n \in Node, LeaveCall(n) PROVE CallInv'
  <2>1. level[n] = cur
    BY <1>3 DEF LeaveCall, LevelInv, TypeOK, Finished, NotRun
  <2>2. \A m \in Node : task'[m] = "waiting" => task[m] = "waiting"
    BY <1>3 DEF LeaveCall, TypeOK, Outcome
  <2>3. \A m \in Node : level[m] < cur => task'[m] = task[m]
    BY <1>3, <2>1 DEF LeaveCall, TypeOK
  <2>4. QED
    BY <1>3, <2>2, <2>3, CallInvInLevel DEF LeaveCall
<1>4. CASE MergeLevel
  <2>1. \A n \in Node : task'[n] # "waiting"
    BY <1>4 DEF MergeLevel, Gathered, LevelNodes, TaskDone, Outcome, LevelInv,
                TypeOK, Finished, NotRun
  <2>2. QED
    BY <1>4, <2>1, MergedUnique, CallInvNextLevel DEF MergeLevel
<1>5. CASE RaiseAssertion
  BY <1>5, CallInvInLevel DEF RaiseAssertion
<1>6. CASE SkipLevel
  <2>1. \A n \in Node : task'[n] # "waiting"
    BY <1>6 DEF SkipLevel, LevelInv, TypeOK, Finished, NotRun
  <2>2. \A n \in Node : task'[n] = IF level[n] = cur THEN "abandoned" ELSE task[n]
    BY <1>6 DEF SkipLevel
  <2>3. ASSUME UniqueNames, NEW n \in Node
        PROVE  result'[prompts[n].name] = IF level[n] = cur THEN StoredResult(task'[n])
                                          ELSE result[prompts[n].name]
    <3>1. prompts[n].name \in Name
      BY DEF TypeOK, Prompt
    <3>2. (\E m \in LevelNodes(cur) : prompts[m].name = prompts[n].name)
             <=> level[n] = cur
      BY <2>3 DEF UniqueNames, LevelNodes
    <3>3. QED
      BY <1>6, <2>2, <3>1, <3>2 DEF SkipLevel
  <2>4. \A n \in Node : level[n] < cur => task'[n] = task[n]
    BY <2>2 DEF TypeOK
  <2>5. QED
    BY <1>6, <2>1, <2>3, <2>4, CallInvNextLevel DEF SkipLevel
<1>7. CASE Return
  BY <1>7, CallInvInLevel DEF Return
<1>8. CASE UNCHANGED vars
  BY <1>8, CallInvInLevel DEF vars
<1>9. QED
  BY <1>1, <1>2, <1>3, <1>4, <1>5, <1>6, <1>7, <1>8 DEF Next, Terminated

(* The inductive invariant behind the theorems below. *)
IInv == TypeOK /\ LevelInv /\ Permits /\ CallInv

LEMMA Inductive == Spec => []IInv
<1>1. Init => IInv
  BY InitTypeOK, InitLevelInv, InitPermits, InitCallInv DEF IInv
<1>2. IInv /\ [Next]_vars => IInv'
  BY NextTypeOK, NextLevelInv, NextPermits, NextCallInv DEF IInv
<1>3. QED
  BY <1>1, <1>2, PTL DEF Spec

(* At most max_concurrency model calls are in flight. *)
THEOREM SemaphoreHolds == Spec => []SemaphoreBound
<1>1. IInv => SemaphoreBound
  BY RunningFinite, GraphAssumption DEF IInv, Permits, SemaphoreBound, TypeOK
<1>2. QED
  BY <1>1, Inductive, PTL

(* A prompt reaches the model only after all its dependencies have a result,
   none of them a failure. *)
THEOREM CallsInOrder == Spec => []CallsFollowDependencies
<1>1. IInv => CallsFollowDependencies
  BY DEF IInv, CallInv, DepsUsable, CallsFollowDependencies
<1>2. QED
  BY <1>1, Inductive, PTL

(* Once an abort condition fired no model call begins. *)
THEOREM NoCallAfterAbort == Spec => AbortStopsCalls
<1>1. IInv /\ [Next]_vars => [aborted => called' = called]_vars
  <2> SUFFICES ASSUME IInv, [Next]_vars, aborted PROVE called' = called
    OBVIOUS
  <2>1. ASSUME NEW n \in Node, EnterCall(n) PROVE called' = called
    BY <2>1 DEF EnterCall, IInv, LevelInv, TypeOK, Finished, NotRun
  <2>2. QED
    BY <2>1 DEF Next, vars, StartTask, LeaveCall, MergeLevel, RaiseAssertion,
                SkipLevel, Return, Terminated
<1>2. QED
  BY <1>1, Inductive, PTL DEF Spec, AbortStopsCalls

-----------------------------------------------------------------------------
(* Decisions taken on the results of earlier levels stay right.            *)

(* A condition that names another prompt, or no prompt at all. *)
Decidable(n) == Refers(prompts[n].condition) # {n}

DecisionInv ==
    UniqueNames =>
        /\ \A nm \in Name : NamedNodes(nm) = {} => result[nm].status = "absent"
        /\ \A n \in called : task[n] \notin {"idle", "waiting"}
        /\ \A n \in Node :
              (task[n] \notin {"idle", "abandoned"} /\ Decidable(n))
                 => Verdict(n) = IF n \in called THEN "waiting" ELSE task[n]

(* Storing the level cur changes no verdict of a node up to that level. *)
LEMMA VerdictStable ==
    ASSUME TypeOK, LevelInv, UniqueNames, UNCHANGED <<prompts, level>>,
           \A m \in Node : level[m] < cur =>
              result'[prompts[m].name] = result[prompts[m].name],
           \A nm \in Name : NamedNodes(nm) = {} => result'[nm] = result[nm],
           NEW n \in Node, level[n] <= cur, Decidable(n)
    PROVE  Verdict(n)' = Verdict(n)
<1> DEFINE c == prompts[n].condition
<1>1. \A d \in Deps(n) : d \in Node /\ level[d] < cur
  BY DepsAreNodes DEF LevelInv, IsLevelling, TypeOK
<1>2. DependencyFailed(n)' = DependencyFailed(n)
  BY <1>1, SameGraph DEF DependencyFailed
<1>3. c.on \in Name
  BY DEF TypeOK, Prompt, Condition
<1>4. CASE c.test = "none"
  BY <1>2, <1>4 DEF Verdict, ConditionError, ConditionHolds
<1>5. CASE c.test # "none" /\ NamedNodes(c.on) = {}
  BY <1>2, <1>3, <1>5 DEF Verdict, ConditionError, ConditionHolds
<1>6. CASE c.test # "none" /\ NamedNodes(c.on) # {}
  <2>1. PICK d \in Node : prompts[d].name = c.on
    BY <1>6 DEF NamedNodes
  <2>2. d <= d
    BY GraphAssumption
  <2>3. PromptByName(c.on) = {d}
    BY <2>1, <2>2 DEF PromptByName, NamedNodes, UniqueNames
  <2>4. d \in Deps(n)
    BY <1>6, <2>3 DEF Decidable, Refers, Deps
  <2>5. result'[c.on] = result[c.on]
    BY <1>1, <2>1, <2>4
  <2>6. QED
    BY <1>2, <2>5 DEF Verdict, ConditionError, ConditionHolds
<1>7. QED
  BY <1>4, <1>5, <1>6

LEMMA SameDecidable ==
    UNCHANGED prompts => /\ \A n \in Node : Decidable(n)' = Decidable(n)
                         /\ \A nm \in Name : NamedNodes(nm)' = NamedNodes(nm)
                         /\ UniqueNames' = UniqueNames
  BY DEF Decidable, Refers, PromptByName, NamedNodes, UniqueNames

LEMMA SameVerdict ==
    UNCHANGED <<prompts, result>> => \A n \in Node : Verdict(n)' = Verdict(n)
  BY DEF Verdict, DependencyFailed, Deps, Refers, PromptByName, NamedNodes,
         ConditionError, ConditionHolds

LEMMA NextDecisionInv ==
    TypeOK /\ LevelInv /\ DecisionInv /\ [Next]_vars => DecisionInv'
<1> SUFFICES ASSUME TypeOK, LevelInv, DecisionInv, [Next]_vars, UniqueNames
             PROVE  DecisionInv'
  <2>1. [Next]_vars => UNCHANGED prompts
    BY DEF Next, vars, StartTask, EnterCall, LeaveCall, MergeLevel,
           RaiseAssertion, SkipLevel, Return, Terminated
  <2>2. QED
    BY <2>1, SameDecidable DEF DecisionInv
<1>1. ASSUME NEW n \in Node, StartTask(n) PROVE DecisionInv'
  <2>1. n \notin called
    BY <1>1 DEF StartTask, DecisionInv
  <2>2. task'[n] = Verdict(n) /\ \A m \in Node : m # n => task'[m] = task[m]
    BY <1>1 DEF StartTask, TypeOK
  <2>3. \A m \in called' : task'[m] \notin {"idle", "waiting"}
    BY <1>1, <2>1, <2>2 DEF StartTask, DecisionInv, TypeOK
  <2>4. QED
    BY <1>1, <2>1, <2>2, <2>3, SameDecidable, SameVerdict
    DEF StartTask, DecisionInv
<1>2. ASSUME NEW n \in Node, EnterCall(n) PROVE DecisionInv'
  <2>1. /\ task'[n] = "running" /\ \A m \in Node : m # n => task'[m] = task[m]
        /\ task[n] = "waiting" /\ called' = called \cup {n}
    BY <1>2 DEF EnterCall, TypeOK
  <2>2. QED
    BY <1>2, <2>1, SameDecidable, SameVerdict DEF EnterCall, DecisionInv, TypeOK
<1>3. ASSUME NEW n \in Node, LeaveCall(n) PROVE DecisionInv'
  <2>1. /\ task'[n] \in Outcome /\ \A m \in Node : m # n => task'[m] = task[m]
        /\ task[n] = "running" /\ called' = called
    BY <1>3 DEF LeaveCall, TypeOK
  <2>2. Verdict(n) # "running"
    BY DEF Verdict
  <2>3. QED
    BY <1>3, <2>1, <2>2, SameDecidable, SameVerdict
    DEF LeaveCall, DecisionInv, TypeOK, Outcome
<1>4. CASE MergeLevel
  <2>1. \A m \in Node : level[m] < cur =>
           result'[prompts[m].name] = result[prompts[m].name]
    BY <1>4, MergedUnique DEF MergeLevel, TypeOK
  <2>2. \A nm \in Name : NamedNodes(nm) = {} => result'[nm] = result[nm]
    BY <1>4 DEF MergeLevel, Merged, LastNamed, NamedNodes, LevelNodes
  <2>3. \A n \in Node : task[n] # "idle" => level[n] <= cur
    BY DEF LevelInv, TypeOK
  <2>4. \A n \in Node : task[n] # "idle" /\ Decidable(n) => Verdict(n)' = Verdict(n)
    BY <1>4, <2>1, <2>2, <2>3, VerdictStable DEF MergeLevel
  <2>5. ~aborted /\ UNCHANGED <<prompts, task, called>>
    BY <1>4 DEF MergeLevel, Gathered
  <2>6. QED
    BY <2>2, <2>4, <2>5, SameDecidable DEF DecisionInv
<1>5. CASE RaiseAssertion
  BY <1>5, SameDecidable, SameVerdict DEF RaiseAssertion, DecisionInv
<1>6. CASE SkipLevel
  <2>1. \A m \in Node : level[m] < cur =>
           result'[prompts[m].name] = result[prompts[m].name]
    BY <1>6 DEF SkipLevel, TypeOK, Prompt, LevelNodes, UniqueNames
  <2>2. \A nm \in Name : NamedNodes(nm) = {} => result'[nm] = result[nm]
    BY <1>6 DEF SkipLevel, NamedNodes, LevelNodes
  <2>3. \A n \in Node : task[n] # "idle" => level[n] <= cur
    BY DEF LevelInv, TypeOK
  <2>4. \A n \in Node : task[n] # "idle" /\ Decidable(n) => Verdict(n)' = Verdict(n)
    BY <1>6, <2>1, <2>2, <2>3, VerdictStable DEF SkipLevel
  <2>5. /\ aborted' /\ aborted /\ UNCHANGED <<prompts, called>>
        /\ \A n \in Node : task'[n] = "abandoned" \/ task'[n] = task[n]
    BY <1>6 DEF SkipLevel
  <2>6. \A nm \in Name : NamedNodes(nm)' = {} => result'[nm].status = "absent"
    BY <2>2, <2>5, SameDecidable DEF DecisionInv
  <2>7. \A n \in called' : task'[n] \notin {"idle", "waiting"}
    BY <2>5 DEF DecisionInv, TypeOK
  <2>8. QED
    BY <2>4, <2>5, <2>6, <2>7, SameDecidable DEF DecisionInv
<1>7. CASE Return
  BY <1>7, SameDecidable, SameVerdict DEF Return, DecisionInv
<1>8. CASE UNCHANGED vars
  BY <1>8, SameDecidable, SameVerdict DEF vars, DecisionInv
<1>9. QED
  BY <1>1, <1>2, <1>3, <1>4, <1>5, <1>6, <1>7, <1>8 DEF Next, Terminated

LEMMA DecisionsInductive == Spec => [](IInv /\ DecisionInv)
<1>1. Init => DecisionInv
  <2> SUFFICES ASSUME Init PROVE DecisionInv
    OBVIOUS
  <2>1. \A nm \in Name : result[nm].status = "absent"
    BY DEF Init, NoResult
  <2>2. called = {} /\ \A n \in Node : task[n] = "idle"
    BY DEF Init
  <2>3. QED
    BY <2>1, <2>2 DEF DecisionInv
<1>2. IInv /\ DecisionInv /\ [Next]_vars => DecisionInv'
  BY NextDecisionInv DEF IInv
<1>3. QED
  BY <1>1, <1>2, Inductive, PTL DEF Spec

(* No step makes a finished run look back at a task that has not started. *)
ReturnedInv == pc = "returned" => PastMaxLevel

LEMMA ReturnedPast == Spec => []ReturnedInv
<1>1. Init => ReturnedInv
  BY DEF Init, ReturnedInv
<1>2. ReturnedInv /\ [Next]_vars => ReturnedInv'
  BY DEF ReturnedInv, PastMaxLevel, Next, vars, StartTask, EnterCall, LeaveCall,
         MergeLevel, Gathered, RaiseAssertion, SkipLevel, Return, Terminated
<1>3. QED
  BY <1>1, <1>2, PTL DEF Spec

(* Each prompt was called, skipped or failed as its condition and dependencies
   say on the results execute returns. *)
THEOREM DecisionsHold == Spec => []DecisionsStable
<1>1. IInv /\ DecisionInv /\ ReturnedInv => DecisionsStable
  <2> SUFFICES ASSUME IInv, DecisionInv, ReturnedInv, pc = "returned", UniqueNames,
                      NEW n \in Node, task[n] # "abandoned", Decidable(n)
               PROVE  Verdict(n) = IF n \in called THEN "waiting" ELSE task[n]
    BY DEF DecisionsStable, Decidable
  <2>1. task[n] \in Finished
    BY DEF ReturnedInv, PastMaxLevel, IInv, LevelInv
  <2>2. task[n] # "idle"
    BY <2>1 DEF Finished, NotRun
  <2>3. QED
    BY <2>2 DEF DecisionInv
<1>2. QED
  BY <1>1, DecisionsInductive, ReturnedPast, PTL

-----------------------------------------------------------------------------
(* The counts of GraphResult.                                              *)

(* A prompt that was called is never declared skipped afterwards, and
   aborted_count counts the prompts abandoned. *)
CountInv ==
    /\ \A n \in called : task[n] \in {"running"} \cup Outcome
    /\ aborted_count = Cardinality(Ended("abandoned"))

LEMMA NodeSets ==
    ASSUME NEW S \in SUBSET Node
    PROVE  IsFiniteSet(S) /\ Cardinality(S) \in Nat
  BY GraphAssumption, FS_Subset, FS_CardinalityType

LEMMA DisjointNodes ==
    ASSUME NEW S \in SUBSET Node, NEW T \in SUBSET Node, S \cap T = {}
    PROVE  Cardinality(S \cup T) = Cardinality(S) + Cardinality(T)
<1>1. IsFiniteSet(S) /\ IsFiniteSet(T)
  BY NodeSets
<1>2. Cardinality(S) \in Nat /\ Cardinality(T) \in Nat
  BY NodeSets
<1>3. Cardinality(S \cup T) = Cardinality(S) + Cardinality(T) - Cardinality(S \cap T)
  BY <1>1, FS_Union
<1>4. Cardinality(S \cap T) = 0
  BY FS_EmptySet
<1>5. QED
  BY <1>2, <1>3, <1>4

LEMMA NextCountInv ==
    TypeOK /\ LevelInv /\ CountInv /\ [Next]_vars => CountInv'
<1> SUFFICES ASSUME TypeOK, LevelInv, CountInv, [Next]_vars PROVE CountInv'
  OBVIOUS
<1>0. ASSUME \A n \in Node : task'[n] = "abandoned" <=> task[n] = "abandoned",
             UNCHANGED aborted_count
      PROVE  aborted_count' = Cardinality(Ended("abandoned")')
  <2>1. Ended("abandoned")' = Ended("abandoned")
    BY <1>0 DEF Ended
  <2>2. QED
    BY <1>0, <2>1 DEF CountInv
<1>1. ASSUME NEW n \in Node, StartTask(n) PROVE CountInv'
  <2>1. n \notin called
    BY <1>1 DEF StartTask, CountInv, Outcome
  <2>2. task'[n] = Verdict(n) /\ \A m \in Node : m # n => task'[m] = task[m]
    BY <1>1 DEF StartTask, TypeOK
  <2>3. \A m \in Node : task'[m] = "abandoned" <=> task[m] = "abandoned"
    BY <1>1, <2>2 DEF StartTask, Verdict
  <2>4. \A m \in called' : task'[m] \in {"running"} \cup Outcome
    BY <1>1, <2>1, <2>2 DEF StartTask, CountInv, TypeOK
  <2>5. QED
    BY <1>0, <1>1, <2>3, <2>4 DEF StartTask, CountInv, Outcome
<1>2. ASSUME NEW n \in Node, EnterCall(n) PROVE CountInv'
  <2>1. \A m \in Node : task'[m] = IF m = n THEN "running" ELSE task[m]
    BY <1>2 DEF EnterCall, TypeOK
  <2>2. \A m \in Node : task'[m] = "abandoned" <=> task[m] = "abandoned"
    BY <1>2, <2>1 DEF EnterCall
  <2>3. \A m \in called' : task'[m] \in {"running"} \cup Outcome
    BY <1>2, <2>1 DEF EnterCall, CountInv, TypeOK
  <2>4. QED
    BY <1>0, <1>2, <2>2, <2>3 DEF EnterCall, CountInv, Outcome
<1>3. ASSUME NEW n \in Node, LeaveCall(n) PROVE CountInv'
  <2>1. task'[n] \in Outcome /\ \A m \in Node : m # n => task'[m] = task[m]
    BY <1>3 DEF LeaveCall, TypeOK
  <2>2. \A m \in Node : task'[m] = "abandoned" <=> task[m] = "abandoned"
    BY <1>3, <2>1 DEF LeaveCall, Outcome
  <2>3. \A m \in called' : task'[m] \in {"running"} \cup Outcome
    BY <1>3, <2>1 DEF LeaveCall, CountInv, TypeOK
  <2>4. QED
    BY <1>0, <1>3, <2>2, <2>3 DEF LeaveCall, CountInv, Outcome
<1>4. CASE MergeLevel \/ RaiseAssertion \/ Return \/ UNCHANGED vars
  <2>1. UNCHANGED <<task, called, aborted_count>>
    BY <1>4 DEF MergeLevel, RaiseAssertion, Return, vars
  <2>2. QED
    BY <1>0, <2>1 DEF CountInv, Outcome
<1>5. CASE SkipLevel
  <2>1. \A n \in LevelNodes(cur) : task[n] = "idle"
    BY <1>5 DEF SkipLevel, LevelInv, LevelNodes, TypeOK
  <2>2. \A n \in Node : task'[n] = IF n \in LevelNodes(cur) THEN "abandoned" ELSE task[n]
    BY <1>5 DEF SkipLevel, LevelNodes
  <2>3. Ended("abandoned")' = Ended("abandoned") \cup LevelNodes(cur)
    BY <2>2 DEF Ended, LevelNodes
  <2>4. /\ Ended("abandoned") \cap LevelNodes(cur) = {}
        /\ LevelNodes(cur) \in SUBSET Node /\ Ended("abandoned") \in SUBSET Node
    BY <2>1 DEF Ended, LevelNodes
  <2>5. Cardinality(Ended("abandoned") \cup LevelNodes(cur))
           = Cardinality(Ended("abandoned")) + Cardinality(LevelNodes(cur))
    BY <2>4, DisjointNodes
  <2>6. aborted_count' = Cardinality(Ended("abandoned")')
    BY <1>5, <2>3, <2>5 DEF SkipLevel, CountInv
  <2>7. ASSUME NEW n \in called PROVE task'[n] \in {"running"} \cup Outcome
    <3>1. n \in Node /\ task[n] # "idle" /\ task[n] \in {"running"} \cup Outcome
      BY DEF CountInv, TypeOK, Outcome
    <3>2. QED
      BY <2>1, <2>2, <3>1
  <2>8. called' = called
    BY <1>5 DEF SkipLevel
  <2>9. QED
    BY <2>6, <2>7, <2>8 DEF CountInv, Outcome
<1>6. QED
  BY <1>1, <1>2, <1>3, <1>4, <1>5 DEF Next, Terminated

(* The nodes whose result has the given status. *)
NodesOf(status) == {n \in Node : result[prompts[n].name].status = status}

(* Names without a prompt have no result, so a count over the names is one
   over the prompts. *)
LEMMA CountsAreNodes ==
    ASSUME TypeOK, UniqueNames, DecisionInv,
           NEW status \in {"success", "failed", "skipped"}
    PROVE  CountOf(status) = Cardinality(NodesOf(status))
<1> DEFINE names == {nm \in Name : result[nm].status = status}
           F == [n \in NodesOf(status) |-> prompts[n].name]
<1>1. \A n \in NodesOf(status) : n \in Node /\ prompts[n].name \in names
  BY DEF NodesOf, TypeOK, Prompt
<1>2. \A m, n \in NodesOf(status) : F[m] = F[n] => m = n
  BY <1>1 DEF UniqueNames
<1>3. ASSUME NEW nm \in names PROVE \E n \in NodesOf(status) : F[n] = nm
  <2>1. NamedNodes(nm) # {}
    BY DEF DecisionInv
  <2>2. QED
    BY <2>1 DEF NamedNodes, NodesOf
<1>4. F \in [NodesOf(status) -> names]
  BY <1>1
<1>5. F \in Bijection(NodesOf(status), names)
  BY <1>2, <1>3, <1>4, Fun_IsBij
<1>6. ExistsBijection(NodesOf(status), names)
  BY <1>5 DEF ExistsBijection
<1>7. IsFiniteSet(NodesOf(status))
  BY NodeSets DEF NodesOf
<1>8. QED
  BY <1>6, <1>7, FS_Bijection DEF CountOf

(* The result execute returns adds up: each prompt is in one of the three
   counts, the skipped ones were skipped, blocked or abandoned, and the called
   ones are not among them. *)
THEOREM Adds == Spec => []CountsAddUp
<1>1. Init => CountInv
  <2> SUFFICES ASSUME Init PROVE CountInv
    OBVIOUS
  <2>1. Ended("abandoned") = {} /\ called = {} /\ aborted_count = 0
    BY DEF Init, Ended
  <2>2. QED
    BY <2>1, FS_EmptySet DEF CountInv
<1>2. IInv /\ CountInv /\ [Next]_vars => CountInv'
  BY NextCountInv DEF IInv
<1>3. ASSUME IInv, DecisionInv, ReturnedInv, CountInv PROVE CountsAddUp
  <2> SUFFICES ASSUME pc = "returned", UniqueNames PROVE CountsAddUp!2
    BY DEF CountsAddUp
  <2> DEFINE ok == NodesOf("success")  bad == NodesOf("failed")
             out == NodesOf("skipped")
             by == Ended("skipped")  block == Ended("blocked")
             gone == Ended("abandoned")
  <2>1. ASSUME NEW n \in Node
        PROVE  /\ level[n] < cur /\ task[n] \in Finished
               /\ result[prompts[n].name].status = StatusOf(task[n])
    BY <1>3, StoredResultType
    DEF ReturnedInv, PastMaxLevel, IInv, LevelInv, CallInv
  <2>2. ok \cup bad \cup out = Node
    BY <2>1 DEF NodesOf, Finished, StatusOf
  <2>3. ok \cap bad = {} /\ (ok \cup bad) \cap out = {}
    BY DEF NodesOf
  <2>4. ok \in SUBSET Node /\ bad \in SUBSET Node /\ out \in SUBSET Node
    BY DEF NodesOf
  <2>5. Cardinality(ok \cup bad) = Cardinality(ok) + Cardinality(bad)
    BY <2>3, <2>4, DisjointNodes
  <2>6. Cardinality(Node) = Cardinality(ok \cup bad) + Cardinality(out)
    BY <2>2, <2>3, <2>4, DisjointNodes
  <2>7. out = (by \cup block) \cup gone
    BY <2>1 DEF NodesOf, Ended, Finished, StatusOf, NotRun
  <2>8. /\ by \in SUBSET Node /\ block \in SUBSET Node /\ gone \in SUBSET Node
        /\ by \cap block = {} /\ (by \cup block) \cap gone = {}
    BY DEF Ended
  <2>9. Cardinality(by \cup block) = Cardinality(by) + Cardinality(block)
    BY <2>8, DisjointNodes
  <2>10. Cardinality(out) = Cardinality(by \cup block) + Cardinality(gone)
    BY <2>7, <2>8, DisjointNodes
  <2>11. called \subseteq ok \cup bad
    BY <1>3, <2>1
    DEF CountInv, NodesOf, IInv, TypeOK, Outcome, Finished, NotRun, StatusOf
  <2>12. Cardinality(called) <= Cardinality(ok \cup bad)
    BY <2>4, <2>11, NodeSets, FS_Subset
  <2>13. /\ CountOf("success") = Cardinality(ok)
         /\ CountOf("failed") = Cardinality(bad)
         /\ CountOf("skipped") = Cardinality(out)
    BY <1>3, CountsAreNodes DEF IInv
  <2>14. aborted_count = Cardinality(gone)
    BY <1>3 DEF CountInv
  <2>15. /\ Cardinality(ok) \in Nat /\ Cardinality(bad) \in Nat
         /\ Cardinality(out) \in Nat
    BY <2>4, NodeSets
  <2>16. CountOf("skipped") = Cardinality(by) + Cardinality(block) + aborted_count
    BY <2>9, <2>10, <2>13, <2>14
  <2> HIDE DEF ok, bad, out, gone
  <2>17. QED
    BY <2>5, <2>6, <2>12, <2>13, <2>15, <2>16
<1>4. QED
  BY <1>1, <1>2, <1>3, Inductive, DecisionsInductive, ReturnedPast, PTL DEF Spec

-----------------------------------------------------------------------------
(* The executor implements the contract.                                   *)

DistinctNames ==
    \A p \in Workflows : \A m, n \in Node : p[m].name = p[n].name => m = n

LEMMA NamesStayUnique == DistinctNames => (Spec => []UniqueNames)
<1> SUFFICES ASSUME DistinctNames PROVE Spec => []UniqueNames
  OBVIOUS
<1>1. Init => UniqueNames
  BY DEF Init, DistinctNames, UniqueNames
<1>2. UniqueNames /\ [Next]_vars => UniqueNames'
  BY DEF Next, vars, StartTask, EnterCall, LeaveCall, MergeLevel,
         RaiseAssertion, SkipLevel, Return, Terminated, UniqueNames
<1>3. QED
  BY <1>1, <1>2, PTL DEF Spec

LEMMA StateOfValues ==
    /\ StateOf("idle") = "pending" /\ StateOf("waiting") = "pending"
    /\ StateOf("running") = "called"
    /\ StateOf("success") = "ok" /\ StateOf("empty") = "ok"
    /\ StateOf("failed") = "failed" /\ StateOf("cancelled") = "failed"
    /\ \A t \in NotRun : StateOf(t) = "skipped"
  BY DEF StateOf, NotRun

LEMMA ContractInit == Init => Contract!Init
<1> SUFFICES ASSUME Init PROVE Contract!Init
  OBVIOUS
<1>1. [n \in Node |-> Deps(n)] \in [Node -> SUBSET Node]
  BY DepsAreNodes
<1>2. [n \in Node |-> StateOf(task[n])] = [n \in Node |-> "pending"]
  BY StateOfValues DEF Init
<1>3. (aborted \/ pc = "raised") = FALSE
  BY DEF Init
<1>4. QED
  BY <1>1, <1>2, <1>3 DEF Contract!Init

(* When execute has ended, no task is under way. *)
QuietInv == pc # "running" => \A n \in Node : task[n] \notin {"waiting", "running"}

LEMMA NextQuietInv ==
    TypeOK /\ LevelInv /\ QuietInv /\ [Next]_vars => QuietInv'
<1> SUFFICES ASSUME TypeOK, LevelInv, QuietInv, [Next]_vars PROVE QuietInv'
  OBVIOUS
<1>1. ASSUME NEW n \in Node, StartTask(n) \/ EnterCall(n) \/ LeaveCall(n)
      PROVE  QuietInv'
  BY <1>1 DEF StartTask, EnterCall, LeaveCall, QuietInv, TypeOK
<1>2. CASE MergeLevel \/ SkipLevel
  BY <1>2 DEF MergeLevel, Gathered, SkipLevel, QuietInv
<1>3. CASE RaiseAssertion
  <2>1. \A n \in Node : level[n] = cur => task[n] \notin {"waiting", "running"}
    BY <1>3 DEF RaiseAssertion, Gathered, LevelNodes, TaskDone, Outcome
  <2>2. \A n \in Node : level[n] # cur => task[n] \notin {"waiting", "running"}
    BY DEF LevelInv, TypeOK, Finished, NotRun
  <2>3. QED
    BY <1>3, <2>1, <2>2 DEF RaiseAssertion, QuietInv
<1>4. CASE Return
  BY <1>4 DEF Return, PastMaxLevel, QuietInv, LevelInv, Finished, NotRun
<1>5. CASE UNCHANGED vars
  BY <1>5 DEF vars, QuietInv
<1>6. QED
  BY <1>1, <1>2, <1>3, <1>4, <1>5 DEF Next, Terminated

(* The step of one task, seen through the refinement mapping. *)
LEMMA OneTask ==
    ASSUME TypeOK, NEW n \in Node, NEW t \in TaskState,
           task' = [task EXCEPT ![n] = t]
    PROVE  [m \in Node |-> StateOf(task'[m])]
             = [[m \in Node |-> StateOf(task[m])] EXCEPT ![n] = StateOf(t)]
  BY DEF TypeOK

LEMMA ContractNext ==
    ASSUME IInv, QuietInv, UniqueNames, [Next]_vars
    PROVE  [Contract!Next]_(Contract!contractVars)
<1> DEFINE S == [n \in Node |-> StateOf(task[n])]
           D == [n \in Node |-> Deps(n)]
           P == aborted \/ pc = "raised"
           Stutter == S' = S /\ D' = D /\ P' = P
<1> USE DEF IInv
<1>0. UNCHANGED <<prompts, level>> => D' = D
  BY SameGraph
<1>s. Stutter => [Contract!Next]_(Contract!contractVars)
  BY DEF Contract!contractVars
<1>1. ASSUME NEW n \in Node, StartTask(n)
      PROVE  [Contract!Next]_(Contract!contractVars)
  <2>1. Verdict(n) \in {"skipped", "blocked", "failed", "waiting"}
    BY DEF Verdict
  <2>2. S' = [S EXCEPT ![n] = StateOf(Verdict(n))]
    BY <1>1, <2>1, OneTask DEF StartTask, TaskState, NotRun, Outcome
  <2>3. D' = D /\ P' = P /\ ~P /\ S[n] = "pending"
    BY <1>0, <1>1, StateOfValues DEF StartTask
  <2>4. CASE Verdict(n) = "waiting"
    <3>1. S' = S
      BY <2>2, <2>3, <2>4, StateOfValues
    <3>2. QED
      BY <3>1, <2>3, <1>s
  <2>5. CASE Verdict(n) \in {"skipped", "blocked", "failed"}
    <3>1. \A d \in D[n] : d \in Node /\ level[d] < cur /\ task[d] \in Finished
      BY <1>1, DepsAreNodes DEF StartTask, LevelInv, IsLevelling
    <3>2. \A d \in D[n] : S[d] \in Contract!Settled
      BY <3>1, StateOfValues DEF Finished, Contract!Settled
    <3>3. StateOf(Verdict(n)) \in {"failed", "skipped"}
      BY <2>5, StateOfValues DEF NotRun
    <3>4. ASSUME NEW d \in D[n], S[d] = "failed" PROVE StateOf(Verdict(n)) = "skipped"
      <4>1. task[d] = "failed"
        BY <3>1, <3>4, StateOfValues DEF Finished
      <4>2. result[prompts[d].name].status = "failed"
        BY <3>1, <4>1, StoredResultType DEF CallInv, Finished, StatusOf, NotRun
      <4>3. Verdict(n) = "blocked"
        BY <4>2 DEF Verdict, DependencyFailed
      <4>4. QED
        BY <4>3, StateOfValues DEF NotRun
    <3>5. Contract!Decline(n)
      BY <2>2, <2>3, <3>2, <3>3, <3>4 DEF Contract!Decline
    <3>6. QED
      BY <3>5 DEF Contract!Next
  <2>6. QED
    BY <2>1, <2>4, <2>5
<1>2. ASSUME NEW n \in Node, EnterCall(n)
      PROVE  [Contract!Next]_(Contract!contractVars)
  <2> "running" \in TaskState
    BY DEF TaskState
  <2>0. S' = [S EXCEPT ![n] = StateOf("running")]
    BY <1>2, OneTask DEF EnterCall
  <2>1. S' = [S EXCEPT ![n] = "called"]
    BY <2>0, StateOfValues
  <2>2. D' = D /\ P' = P /\ ~P /\ S[n] = "pending"
    BY <1>0, <1>2, StateOfValues DEF EnterCall, LevelInv, QuietInv, TypeOK, Finished, NotRun
  <2>3. ASSUME NEW d \in D[n] PROVE S[d] \in {"ok", "skipped"}
    <3>1. /\ d \in Node /\ level[d] < cur
          /\ result[prompts[d].name].status \in {"success", "skipped"}
      BY <1>2, DepsAreNodes DEF EnterCall, CallInv, DepsUsable
    <3>2. /\ task[d] \in Finished
          /\ result[prompts[d].name] = StoredResult(task[d])
      BY <3>1 DEF LevelInv, CallInv
    <3>3. task[d] # "failed"
      BY <3>1, <3>2, StoredResultType DEF Finished, StatusOf, NotRun
    <3>4. QED
      BY <3>1, <3>2, <3>3, StateOfValues DEF Finished
  <2>4. Contract!Call(n)
    BY <2>1, <2>2, <2>3 DEF Contract!Call
  <2>5. QED
    BY <2>4 DEF Contract!Next
<1>3. ASSUME NEW n \in Node, LeaveCall(n)
      PROVE  [Contract!Next]_(Contract!contractVars)
  <2>1. PICK o \in Outcome : task' = [task EXCEPT ![n] = o]
    BY <1>3 DEF LeaveCall
  <2>2. S' = [S EXCEPT ![n] = StateOf(o)]
    BY <2>1, OneTask DEF TaskState
  <2>3. D' = D /\ P' = P /\ S[n] = "called"
    BY <1>0, <1>3, StateOfValues DEF LeaveCall
  <2>4. StateOf(o) \in Contract!Settled
    BY StateOfValues DEF Outcome, Contract!Settled
  <2>5. Contract!Settle(n)
    BY <2>2, <2>3, <2>4 DEF Contract!Settle
  <2>6. QED
    BY <2>5 DEF Contract!Next
<1>4. CASE MergeLevel \/ RaiseAssertion
  <2>1. S' = S /\ D' = D /\ ~P
    BY <1>0, <1>4 DEF MergeLevel, RaiseAssertion, Gathered
  <2>2. CASE P'
    <3>1. ASSUME NEW n \in Node PROVE task[n] # "running"
      <4>1. level[n] = cur => task[n] # "running"
        BY <1>4 DEF MergeLevel, RaiseAssertion, Gathered, LevelNodes, TaskDone,
                    Outcome
      <4>2. level[n] # cur => task[n] # "running"
        BY DEF LevelInv, TypeOK, Finished, NotRun
      <4>3. QED
        BY <4>1, <4>2
    <3>2. \A n \in Node : S[n] # "called"
      BY <3>1, StateOfValues DEF TypeOK, TaskState, NotRun, Outcome
    <3>3. Contract!Stop
      BY <2>1, <2>2, <3>2 DEF Contract!Stop
    <3>4. QED
      BY <3>3 DEF Contract!Next
  <2>3. CASE ~P'
    BY <2>1, <2>3, <1>s
  <2>4. QED
    BY <2>2, <2>3
<1>5. CASE SkipLevel
  <2>1. D' = D /\ P' = P /\ P
    BY <1>0, <1>5 DEF SkipLevel
  <2>2. LevelNodes(cur) \in SUBSET {n \in Node : S[n] = "pending"}
    BY <1>5, StateOfValues DEF SkipLevel, LevelInv, LevelNodes, TypeOK
  <2>3. S' = [n \in Node |-> IF n \in LevelNodes(cur) THEN "skipped" ELSE S[n]]
    BY <1>5, StateOfValues DEF SkipLevel, LevelNodes, NotRun
  <2>4. Contract!Abandon
    BY <2>1, <2>2, <2>3 DEF Contract!Abandon
  <2>5. QED
    BY <2>4 DEF Contract!Next
<1>6. CASE Return
  <2>1. Stutter
    BY <1>0, <1>6 DEF Return
  <2>2. QED
    BY <2>1, <1>s
<1>7. CASE UNCHANGED vars
  <2>1. Stutter
    BY <1>0, <1>7 DEF vars
  <2>2. QED
    BY <2>1, <1>s
<1>8. QED
  BY <1>1, <1>2, <1>3, <1>4, <1>5, <1>6, <1>7 DEF Next, Terminated

(* With distinct prompt names the executor implements the contract of
   execute_graph, whatever the levels, the semaphore and the schedule do. *)
THEOREM Refinement == DistinctNames => (Spec => ImplementsContract)
<1> SUFFICES ASSUME DistinctNames PROVE Spec => ImplementsContract
  OBVIOUS
<1>1. Spec => []UniqueNames
  BY NamesStayUnique
<1>2. Init => QuietInv
  BY DEF Init, QuietInv
<1>3. IInv /\ QuietInv /\ [Next]_vars => QuietInv'
  BY NextQuietInv DEF IInv
<1>4. IInv /\ QuietInv /\ UniqueNames /\ [Next]_vars
        => [Contract!Next]_(Contract!contractVars)
  BY ContractNext
<1>5. QED
  BY <1>1, <1>2, <1>3, <1>4, ContractInit, Inductive, PTL
  DEF Spec, ImplementsContract, Contract!Spec
=============================================================================
