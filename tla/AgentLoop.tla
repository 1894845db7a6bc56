----------------------------- MODULE AgentLoop ------------------------------
(***************************************************************************)
(* AgentLoop.execute: ask the model with the tools, run every tool call of *)
(* its answer and add the results to the conversation, and ask again,      *)
(* until an answer asks for no tool, a call fails, or the rounds are used  *)
(* up. One execution runs at a time; executions share the client, and so   *)
(* its history. Each tool call runs in a thread of its own, waited for     *)
(* with a timeout.                                                         *)
(***************************************************************************)
EXTENDS ChatClient, FiniteSets

CONSTANTS Loop,                 \* the one caller of the client
          MaxRounds,            \* max_rounds
          ContinueOnToolError,  \* continue_on_tool_error: both values, or one
          MaxExecutions         \* bound: executions on one client

ASSUME AgentLoopAssumption ==
    /\ Caller = {Loop}
    /\ MaxRounds \in Nat /\ MaxExecutions \in Nat
    /\ ContinueOnToolError \subseteq BOOLEAN

VARIABLES phase,       \* where execute stands
          round,       \* round_num
          llm_calls,   \* total_llm_calls
          todo,        \* the tool calls of the answer, as yet not executed
          tool,        \* the thread of the tool call being executed
          records,     \* all_tool_calls: what became of each tool call
          final,       \* which client call final_response comes from, 0 if none
          status,      \* of the last AgentResult
          continue_on_tool_error,   \* as the loop was built with, fixed
          executions, started   \* executions so far; made[Loop] at the start

loopVars == <<phase, round, llm_calls, todo, tool, records, final, status,
              continue_on_tool_error, executions, started>>

vars == <<clientVars, loopVars>>

-----------------------------------------------------------------------------

Init ==
    /\ ClientInit
    /\ phase = "idle" /\ status = "none"
    /\ round = 0 /\ llm_calls = 0
    /\ todo = <<>> /\ tool = "none" /\ records = <<>>
    /\ final = 0
    /\ continue_on_tool_error \in ContinueOnToolError
    /\ executions = 0 /\ started = 0

(* execute begins. The requested tools may turn out unknown or disabled:
   without any schema the prompt is sent alone, and its error not caught. *)
Begin ==
    /\ phase = "idle" /\ executions < MaxExecutions
    /\ phase' \in {"round", "single"}
    /\ executions' = executions + 1 /\ started' = made[Loop]
    /\ round' = 0 /\ llm_calls' = 0 /\ records' = <<>> /\ final' = 0
    /\ UNCHANGED <<clientVars, todo, tool, status, continue_on_tool_error>>

Return(s) == phase' = "idle" /\ status' = s

(* The next round, or the else clause of the for loop. *)
NextRound ==
    /\ phase = "round" /\ round < MaxRounds
    /\ round' = round + 1 /\ llm_calls' = llm_calls + 1
    /\ phase' = "asking"
    /\ Prepare(Loop, TRUE) \/ (round = 0 /\ Refuse(Loop))
    /\ UNCHANGED <<todo, tool, records, final, status, executions, started,
                   continue_on_tool_error>>

OutOfRounds ==
    /\ phase = "round" /\ round = MaxRounds
    /\ Return("max_rounds_exceeded")
    /\ UNCHANGED <<clientVars, round, llm_calls, todo, tool, records, final,
                   executions, started, continue_on_tool_error>>

AskSingle ==
    /\ phase = "single" /\ call[Loop].stage = "idle"
    /\ Prepare(Loop, FALSE) \/ Refuse(Loop)
    /\ UNCHANGED loopVars

Advance == ClientStep(Loop) /\ UNCHANGED loopVars

EndCall == /\ call' = [call EXCEPT ![Loop].stage = "idle"]
           /\ UNCHANGED <<history, made, usage>>

SingleReturns ==
    /\ phase = "single" /\ call[Loop].stage \in {"replied", "raised"}
    /\ EndCall
    /\ IF call[Loop].stage = "replied"
       THEN Return("success") /\ round' = 1 /\ llm_calls' = 1 /\ final' = made[Loop]
       ELSE Return("raised") /\ UNCHANGED <<round, llm_calls, final>>
    /\ UNCHANGED <<todo, tool, records, executions, started,
                   continue_on_tool_error>>

(* generate_response raised: the first call fails the execution, a later one
   only ends the loop. *)
CallFailed ==
    /\ phase = "asking" /\ call[Loop].stage = "raised"
    /\ EndCall
    /\ Return(IF llm_calls = 1 THEN "failed" ELSE "success")
    /\ UNCHANGED <<round, llm_calls, todo, tool, records, final, executions,
                   started, continue_on_tool_error>>

(* _extract_tool_calls: those of the last assistant message in the history. *)
LastReply == {i \in DOMAIN history :
                 /\ history[i].role = "assistant"
                 /\ \A j \in DOMAIN history :
                       history[j].role = "assistant" => j <= i}

ExtractToolCalls ==
    IF LastReply = {} THEN <<>>
    ELSE LET m == history[CHOOSE i \in LastReply : TRUE]
         IN  [k \in 1..m.num |-> Message("tool", m.id, k)]

Answered ==
    /\ phase = "asking" /\ call[Loop].stage = "replied"
    /\ EndCall
    /\ final' = made[Loop]
    /\ todo' = ExtractToolCalls
    /\ IF todo' = <<>> THEN Return("success")
       ELSE phase' = "tools" /\ UNCHANGED status
    /\ UNCHANGED <<round, llm_calls, tool, records, executions, started,
                   continue_on_tool_error>>

-----------------------------------------------------------------------------
(* _execute_single_tool. *)

(* The call is handed to a thread. *)
StartTool ==
    /\ phase = "tools" /\ todo # <<>> /\ tool = "none"
    /\ tool' = "running"
    /\ UNCHANGED <<clientVars, phase, round, llm_calls, todo, records, final,
                   status, executions, started, continue_on_tool_error>>

(* Mutant: a call that timed out is tried again. *)
ToolTimesOutTriesAgain ==
    /\ tool = "running"
    /\ tool' = "none"
    /\ UNCHANGED <<clientVars, phase, round, llm_calls, todo, records, final,
                   status, executions, started, continue_on_tool_error>>

(* future.result gives up. The executor of the thread is left through its
   context manager, which waits for the thread all the same. *)
ToolTimesOut ==
    /\ tool = "running"
    /\ tool' = "timed_out"
    /\ UNCHANGED <<clientVars, phase, round, llm_calls, todo, records, final,
                   status, executions, started, continue_on_tool_error>>

(* Mutant: the result of a call that failed is not added. *)
AddToolResultOnSuccess(outcome) ==
    history' = IF outcome = "ok" THEN Append(history, Head(todo)) ELSE history

(* add_tool_result: the result, or the error, answers the call. *)
AddToolResult(outcome) == history' = Append(history, Head(todo))

(* Mutant: a failed call is not recorded in the result. *)
RecordedOnSuccess(outcome) ==
    IF outcome = "ok" THEN Append(records, [call |-> Head(todo), outcome |-> outcome])
    ELSE records

Recorded(outcome) == Append(records, [call |-> Head(todo), outcome |-> outcome])

(* Mutant: an error never stops the loop. *)
StopsLoopNever(outcome) == FALSE

StopsLoop(outcome) == outcome # "ok" /\ ~continue_on_tool_error

(* execute_tool returned, or raised (no such tool, disabled, no executor, its
   own exception). After a timeout what it returned is dropped. *)
ToolOutcomes == IF tool = "running" THEN {"ok", "error"} ELSE {"timeout"}

(* The thread is done. *)
ToolEnds ==
    /\ tool \in {"running", "timed_out"}
    /\ \E outcome \in ToolOutcomes :
          /\ AddToolResult(outcome)
          /\ records' = Recorded(outcome)
          /\ IF StopsLoop(outcome) THEN Return("failed")
             ELSE /\ phase' = IF Len(todo) = 1 THEN "round" ELSE "tools"
                  /\ UNCHANGED status
    /\ todo' = IF phase' = "idle" THEN <<>> ELSE Tail(todo)
    /\ tool' = "none"
    /\ UNCHANGED <<call, made, usage, round, llm_calls, final, executions,
                   started, continue_on_tool_error>>

-----------------------------------------------------------------------------

Stopped == phase = "idle" /\ executions = MaxExecutions /\ UNCHANGED vars

LoopStep ==
    \/ NextRound \/ OutOfRounds \/ AskSingle \/ Advance \/ SingleReturns
    \/ CallFailed \/ Answered \/ StartTool \/ ToolTimesOut

Next == Begin \/ LoopStep \/ ToolEnds \/ Stopped

Spec == Init /\ [][Next]_vars

(* The loop's own thread runs on, and the provider's library ends every
   request. Of the tools nothing is assumed. *)
LoopFairSpec == Spec /\ WF_vars(LoopStep)

(* Tools return as well. *)
FairSpec == LoopFairSpec /\ WF_vars(ToolEnds)

-----------------------------------------------------------------------------
(* Properties.                                                             *)

Record == [call : MessageType, outcome : {"ok", "error", "timeout"}]

(* The values every variable ranges over. *)
TypeOK ==
    /\ ClientTypeOK
    /\ phase \in {"idle", "round", "single", "asking", "tools"}
    /\ round \in 0..(MaxRounds + 1) /\ llm_calls \in Nat
    /\ round > MaxRounds => MaxRounds = 0
    /\ todo \in Seq(MessageType)
    /\ tool \in {"none", "running", "timed_out"}
    /\ records \in Seq(Record)
    /\ continue_on_tool_error \in BOOLEAN
    /\ final \in Nat /\ executions \in Nat /\ started \in Nat
    /\ status \in {"none", "success", "failed", "max_rounds_exceeded", "raised"}

(* Every request is one a provider accepts: behind each assistant message in
   it stand the results of all its tool calls, each once and in order, and
   no other tool message. *)
ToolCallsAnswered ==
    (continue_on_tool_error /\ InFlight(Loop)) =>
        LET seen == call[Loop].seen
        IN  /\ \A i \in DOMAIN seen : seen[i].role = "assistant" =>
                  \A k \in 1..seen[i].num :
                      /\ i + k <= Len(seen)
                      /\ seen[i + k] = Message("tool", seen[i].id, k)
            /\ \A j \in DOMAIN seen : seen[j].role = "tool" =>
                  \E i \in 1..(j - 1) :
                      seen[i].role = "assistant" /\ seen[j].num = j - i

(* The tool messages of the execution, and the place of each among them. *)
Added == {j \in DOMAIN history : history[j].role = "tool" /\ history[j].id[2] > started}

Place(j) == Cardinality({i \in Added : i <= j})

(* What execute returns is what happened: its tool records are the tool
   messages it added to the conversation, in their order, and it counts every
   call it made to the model. A success answers with what the last call said;
   with a message that asks for tools only if all of them ran and it is the
   next call that failed (agent/agent_loop.py:130-146). *)
ResultAddsUp ==
    (phase = "idle" /\ executions > 0 /\ status # "raised") =>
        /\ llm_calls = made[Loop] - started
        /\ Cardinality(Added) = Len(records)
        /\ \A j \in Added : records[Place(j)].call = history[j]
        /\ status = "success" => final \in {made[Loop], made[Loop] - 1}
        /\ \A i \in DOMAIN history :
              (status = "success" /\ history[i].role = "assistant" /\ history[i].id[2] = final)
                 => \A k \in 1..history[i].num :
                       /\ final < made[Loop]
                       /\ \E r \in DOMAIN records : records[r].call = Message("tool", history[i].id, k)

(* With continue_on_tool_error off, nothing more is asked or run in an
   execution once a tool failed. *)
ErrorStopsLoop ==
    [][(~continue_on_tool_error /\ executions' = executions
            /\ \E i \in DOMAIN records : records[i].outcome # "ok") =>
          UNCHANGED <<made, records, tool, history>>]_vars

(* Every execution ends, if the tools do. *)
ExecutionEnds == phase # "idle" ~> phase = "idle"

(* Stated by AgentLoop: tool_timeout bounds the execution of a tool. *)
TimeoutEndsTool == tool = "timed_out" ~> tool = "none"

(* Stated by AgentLoop.execute: if an answer contains tool calls they are
   executed. *)
AskedToolsRun ==
    (phase = "idle" /\ status = "success" /\ final = made[Loop]) =>
        call[Loop].asked = 0
=============================================================================
