---------------------------- MODULE MistralClient ----------------------------
(***************************************************************************)
(* FFMistralSmall: the older client, called by one thread. Unlike the      *)
(* LiteLLM clients it has no fallbacks, builds the request anew for every  *)
(* attempt, and records the prompt before it looks at the answer.          *)
(***************************************************************************)
EXTENDS Integers, Sequences

CONSTANT MaxAttempts   \* retry.max_attempts

VARIABLES history,     \* conversation_history: [role, id]
          call,        \* the generate_response under way
          made,        \* calls begun
          usage        \* last_usage: {} or the call it is of

clientVars == << history, call, made, usage >>

Message(role) == [role |-> role, id |-> made]

NoCall == [stage |-> "idle", attempt |-> 0, sent |-> <<>>, answer |-> "none"]

ClientInit == history = <<>> /\ call = NoCall /\ made = 0 /\ usage = {}

InFlight == call.stage = "sent"

(* The messages of an attempt: the conversation as it is, then the prompt. *)
Request == Append(history, Message("user"))

(* generate_response with a prompt that is not empty. *)
Ask ==
    /\ made' = made + 1
    /\ call' = [stage |-> "sent", attempt |-> 1, answer |-> "none",
                sent |-> Append(history, [role |-> "user", id |-> made + 1])]
    /\ usage' = {}
    /\ UNCHANGED history

(* The call has returned and its answer was taken. *)
Forget == call' = NoCall /\ UNCHANGED << history, made, usage >>

(* chat.complete raises. What counts as transient (should_retry_exception) is
   tried again from the top, the usage reset once more. *)
Fails ==
    /\ InFlight
    /\ \E transient \in BOOLEAN :
          call' = IF transient /\ call.attempt < MaxAttempts
                    THEN [call EXCEPT !.attempt = @ + 1, !.sent = Request]
                  ELSE [call EXCEPT !.stage = "raised"]
    /\ usage' = {}
    /\ UNCHANGED << history, made >>

(* Mutant: an answer without choices is asked for again. *)
AnswersUnusablyAgain ==
    /\ InFlight
    /\ history' = Append(history, Message("user"))
    /\ call' = IF call.attempt < MaxAttempts
                 THEN [call EXCEPT !.attempt = @ + 1, !.sent = Request]
               ELSE [call EXCEPT !.stage = "raised"]
    /\ usage' = {made}
    /\ UNCHANGED made

(* An answer without choices: its usage is taken and the prompt recorded by
   the time that is found out, and the error is none that is retried. *)
AnswersUnusably ==
    /\ InFlight
    /\ history' = Append(history, Message("user"))
    /\ call' = [call EXCEPT !.stage = "raised"]
    /\ usage' = {made}
    /\ UNCHANGED made

(* Prompt and answer are recorded together. *)
Answers(answer) ==
    /\ InFlight
    /\ history' = history \o << Message("user"), Message("assistant") >>
    /\ call' = [call EXCEPT !.stage = "replied", !.answer = answer]
    /\ usage' = {made}
    /\ UNCHANGED made

(* What may be said of the history of this client: every message is of a call
   made, no call speaks twice, an answer stands right behind its prompt. *)
HistoryInOrder ==
    \A j, k \in DOMAIN history :
       /\ history[j].id \in 1..made
       /\ j < k /\ history[j].id = history[k].id =>
             k = j + 1 /\ history[j].role = "user" /\ history[k].role = "assistant"
       /\ j < k => history[j].id <= history[k].id

(* Every attempt sends everything said before it. *)
RequestWhole ==
    InFlight => /\ call.sent = Request
                /\ \A k \in DOMAIN history : history[k].id < made
=============================================================================
