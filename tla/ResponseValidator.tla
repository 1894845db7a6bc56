--------------------------- MODULE ResponseValidator ---------------------------
(***************************************************************************)
(* ffai.agent.response_validator: a model judges a response; while it      *)
(* rejects it, the response is asked for again with the reason. The judge  *)
(* is an FFMistralSmall, which remembers every verdict; the second         *)
(* executor may be the same client. Responses are numbered in the order in *)
(* which they were produced.                                               *)
(***************************************************************************)
EXTENDS MistralClient

CONSTANT MaxRetries    \* the largest max_retries considered

VARIABLES pc,          \* "start", "judging", "executing" or "returned"
          plan,        \* the arguments of validate: max_retries, and who executes again
          attempt, best, newest, critique,
          prompts,     \* what was sent to the executor: [rejected, reason]
          judged,      \* per attempt: the response and what came of it
          result       \* the ValidationResult

vars == << clientVars, pc, plan, attempt, best, newest, critique, prompts, judged, result >>

NoReason == "none"

Init ==
    /\ ClientInit
    /\ plan \in [retries : 0..MaxRetries, executor : {"none", "client", "other"}]
    /\ pc = "start" /\ attempt = 1 /\ best = 0 /\ newest = 0 /\ critique = NoReason
    /\ prompts = <<>> /\ judged = <<>> /\ result = [passed |-> "unknown", attempts |-> 0, critique |-> NoReason]

(* The answers of a judge: PASS alone, FAIL: with a reason, and other texts,
   in which the word PASS may stand. *)
Verdicts == {"PASS", "FAIL: reason", "text with PASS", "text"}

(* _parse_validation_response *)
Parse(text) ==
    IF text = "PASS" \/ text = "text with PASS" THEN [passed |-> TRUE, critique |-> NoReason]
    ELSE [passed |-> FALSE, critique |-> text]

Last == attempt > plan.retries

Return(passed, reason) ==
    /\ pc' = "returned"
    /\ result' = [passed |-> passed, attempts |-> attempt, critique |-> reason]
    /\ UNCHANGED << attempt, best, newest, prompts >>

NextAttempt ==
    /\ pc' = "start" /\ attempt' = attempt + 1
    /\ UNCHANGED << newest, prompts, result >>

Judge ==
    /\ pc = "start" /\ pc' = "judging"
    /\ Ask
    /\ UNCHANGED << plan, attempt, best, newest, critique, prompts, judged, result >>

Client ==
    /\ \/ Fails \/ AnswersUnusably
       \/ \E text \in Verdicts : pc = "judging" /\ Answers(text)
       \/ pc = "executing" /\ Answers("response")
    /\ UNCHANGED << pc, plan, attempt, best, newest, critique, prompts, judged, result >>

Noted(outcome) == judged' = Append(judged, [response |-> best, outcome |-> outcome])

(* Nothing was learnt of the response: the next attempt judges it again. *)
JudgeRaised ==
    /\ pc = "judging" /\ call.stage = "raised"
    /\ Noted("raised") /\ critique' = "raised"
    /\ IF Last THEN Return("unknown", "raised") ELSE NextAttempt /\ UNCHANGED best
    /\ Forget /\ UNCHANGED plan

Accepted ==
    /\ pc = "judging" /\ call.stage = "replied" /\ Parse(call.answer).passed
    /\ Noted(call.answer) /\ UNCHANGED critique
    /\ Return("yes", NoReason)
    /\ Forget /\ UNCHANGED plan

(* The prompt of the executor names the response and why it was rejected. *)
ExecuteAgain(reason) ==
    /\ pc' = "executing"
    /\ prompts' = Append(prompts, [rejected |-> best, reason |-> reason])
    /\ UNCHANGED << attempt, best, newest, result >>

Rejected ==
    LET reason == Parse(call.answer).critique IN
    /\ pc = "judging" /\ call.stage = "replied" /\ ~Parse(call.answer).passed
    /\ Noted(call.answer) /\ critique' = reason
    /\ CASE Last -> Return("no", reason) /\ Forget
         [] ~Last /\ plan.executor = "none" -> NextAttempt /\ UNCHANGED best /\ Forget
         [] ~Last /\ plan.executor = "other" -> ExecuteAgain(reason) /\ Forget
         [] ~Last /\ plan.executor = "client" -> ExecuteAgain(reason) /\ Ask
    /\ UNCHANGED plan

Executed(response) == best' = response /\ newest' = response

(* The executor returned a response; or it raised, or returned what is no
   response, and the rejected one is judged once more. *)
TakeResponse ==
    /\ pc = "executing" /\ pc' = "start" /\ attempt' = attempt + 1
    /\ \/ /\ plan.executor = "other" \/ call.stage = "replied"
          /\ Executed(newest + 1)
       \/ /\ plan.executor = "other" \/ call.stage = "raised"
          /\ UNCHANGED << best, newest >>
    /\ Forget
    /\ UNCHANGED << plan, critique, prompts, judged, result >>

Next == Judge \/ Client \/ JudgeRaised \/ Accepted \/ Rejected \/ TakeResponse

Spec == Init /\ [][Next]_vars

-----------------------------------------------------------------------------
Accepts(outcome) == outcome \in {"PASS", "text with PASS"}
Rejects(outcome) == outcome \in {"FAIL: reason", "text"}

(* validate judges the newest response there is, at most max_retries + 1
   times, and stops at the first verdict in its favour. What it returns is
   what the last attempt found: passed, rejected, or not judged at all, with
   the reason of that attempt. Every prompt for a new response pairs the
   response rejected last with the reason it was rejected for. And the client
   the verdicts go through keeps an orderly conversation, each request
   carrying all of it, although a call may fail with its prompt already
   recorded (response_validator.py:113-201, FFMistralSmall.py:151-340). *)
JudgedRight ==
    /\ Len(judged) <= plan.retries + 1
    /\ \A k \in DOMAIN judged : Accepts(judged[k].outcome) => k = Len(judged)
    /\ pc = "judging" => best = newest
    /\ \A k \in DOMAIN prompts :
          \E j \in DOMAIN judged :
             /\ Rejects(judged[j].outcome)
             /\ prompts[k] = [rejected |-> judged[j].response, reason |-> judged[j].outcome]
             /\ k = Len(prompts) /\ pc = "executing" => j = Len(judged)
    /\ pc = "returned" =>
          LET last == judged[Len(judged)] IN
          /\ result.attempts = Len(judged)
          /\ result.passed = "yes" <=> Accepts(last.outcome)
          /\ result.passed = "no" <=> Rejects(last.outcome)
          /\ result.passed # "yes" => result.attempts = plan.retries + 1 /\ result.critique = last.outcome
          /\ last.response = newest
    /\ HistoryInOrder /\ RequestWhole
=============================================================================
