---------------------------- MODULE DagContract ----------------------------
(***************************************************************************)
(* What a caller of execute_graph can rely on, with no levels, no semaphore *)
(* and no result dictionary: each prompt is sent to the model at most      *)
(* once, only after everything it depends on has settled, never when one   *)
(* of its dependencies failed, and never after the run was stopped. A      *)
(* prompt is sent although a dependency was skipped: that is the rule of   *)
(* should_skip_for_failed_deps and of its test, and not what               *)
(* tutorials/condition_dsl.rst:146-170 tells the caller: a divergence in   *)
(* README.md. This is the contract of the code, not of that tutorial.      *)
(* GraphExecutor implements it (GraphExecutor!Contract).                   *)
(***************************************************************************)
CONSTANT Node

VARIABLES deps,      \* deps[n]: the nodes n depends on, fixed for the run
          state,     \* state[n]: what the caller may know of prompt n
          stopped    \* an abort condition fired, or the run raised

contractVars == <<deps, state, stopped>>

Settled == {"ok", "failed", "skipped"}

Init ==
    /\ deps \in [Node -> SUBSET Node]
    /\ state = [n \in Node |-> "pending"]
    /\ stopped = FALSE

(* Prompt n is handed to the model. Skipped dependencies do not cascade. *)
Call(n) ==
    /\ ~stopped
    /\ state[n] = "pending"
    /\ \A d \in deps[n] : state[d] \in {"ok", "skipped"}
    /\ state' = [state EXCEPT ![n] = "called"]
    /\ UNCHANGED <<deps, stopped>>

(* The model answered, or the call failed. *)
Settle(n) ==
    /\ state[n] = "called"
    /\ \E s \in Settled : state' = [state EXCEPT ![n] = s]
    /\ UNCHANGED <<deps, stopped>>

(* Prompt n is settled without a call, on what its dependencies gave. After
   a failed one it is skipped: a failure does not spread as a failure. *)
Decline(n) ==
    /\ ~stopped
    /\ state[n] = "pending"
    /\ \A d \in deps[n] : state[d] \in Settled
    /\ \E s \in {"failed", "skipped"} :
          /\ (\E d \in deps[n] : state[d] = "failed") => s = "skipped"
          /\ state' = [state EXCEPT ![n] = s]
    /\ UNCHANGED <<deps, stopped>>

(* The run stops: nothing is in flight at that moment. *)
Stop ==
    /\ ~stopped
    /\ \A n \in Node : state[n] # "called"
    /\ stopped' = TRUE
    /\ UNCHANGED <<deps, state>>

(* After a stop, prompts that were never looked at are marked skipped. *)
Abandon ==
    /\ stopped
    /\ \E S \in SUBSET {n \in Node : state[n] = "pending"} :
          state' = [n \in Node |-> IF n \in S THEN "skipped" ELSE state[n]]
    /\ UNCHANGED <<deps, stopped>>

Next ==
    \/ \E n \in Node : Call(n) \/ Settle(n) \/ Decline(n)
    \/ Stop
    \/ Abandon

Spec == Init /\ [][Next]_contractVars
=============================================================================
