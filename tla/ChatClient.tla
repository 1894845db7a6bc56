----------------------------- MODULE ChatClient -----------------------------
(***************************************************************************)
(* A LiteLLM client (BaseLiteLLMClient with FFLiteLLMClient or the async   *)
(* AsyncFFLiteLLMClient): generate_response builds one request from the    *)
(* conversation history, tries the primary model with retries, then each   *)
(* fallback model once, and records the answer in the history. The history *)
(* belongs to the client object, which several callers may share.          *)
(*                                                                         *)
(* Conversation and AgentLoop extend this module with the callers.         *)
(***************************************************************************)
EXTENDS Integers, Sequences

CONSTANTS Caller,        \* threads or coroutines that use the client
          Fallbacks,     \* the number of fallback models
          MaxAttempts,   \* retry.max_attempts
          ToolCounts     \* how many tool calls an answer may carry

ASSUME ChatClientAssumption ==
    /\ Fallbacks \in Nat
    /\ MaxAttempts \in Nat \ {0}
    /\ ToolCounts \subseteq Nat /\ 0 \in ToolCounts

VARIABLES history,   \* conversation_history
          call,      \* call[c]: the generate_response call c is in
          made,      \* made[c]: how many calls c has begun
          usage      \* last_usage: {} or the call whose usage it holds

clientVars == <<history, call, made, usage>>

-----------------------------------------------------------------------------
(* A message: [role, id, num]. id is the generate_response call it is about,
   num the number of tool calls of an assistant message, or which of them a
   tool message answers. *)

Message(role, id, num) == [role |-> role, id |-> id, num |-> num]

Id(c) == <<c, made[c]>>

(* No call, as before the first one. tools: whether the request offers tools;
   seen: the conversation it carries; asked: the tool calls in its answer. *)
NoCall == [stage |-> "idle", tools |-> FALSE, attempt |-> 0, fallback |-> 0,
           seen |-> <<>>, asked |-> 0]

ClientInit ==
    /\ history = <<>>
    /\ call = [c \in Caller |-> NoCall]
    /\ made = [c \in Caller |-> 0]
    /\ usage = {}

(* _prepare_generate_params: the request is the whole history and the prompt.
   It is built once, before the first attempt; retries and fallbacks send the
   same messages. *)
Prepare(c, tools) ==
    /\ call[c].stage = "idle"
    /\ made' = [made EXCEPT ![c] = @ + 1]
    /\ call' = [call EXCEPT ![c] = [NoCall EXCEPT !.stage = "primary",
                                                  !.tools = tools,
                                                  !.attempt = 1,
                                                  !.seen = history]]
    /\ usage' = {}
    /\ UNCHANGED history

(* An empty prompt is refused before anything is read. *)
Refuse(c) ==
    /\ call[c].stage = "idle"
    /\ made' = [made EXCEPT ![c] = @ + 1]
    /\ call' = [call EXCEPT ![c] = [NoCall EXCEPT !.stage = "raised"]]
    /\ UNCHANGED <<history, usage>>

(* A model asks for tools only when it was offered some. *)
Asks(c) == IF call[c].tools THEN ToolCounts ELSE {0}

(* completion() returns an answer of the primary model. *)
PrimaryAnswers(c) ==
    /\ call[c].stage = "primary"
    /\ \E k \in Asks(c) :
          call' = [call EXCEPT ![c].stage = "record_user", ![c].asked = k]
    /\ UNCHANGED <<history, made, usage>>

(* The usage of an answer is taken before the answer is looked at, so one
   without choices leaves its usage behind. *)
Unusable(c) == usage' = usage \/ usage' = {Id(c)}

AttemptAgain(r) == [r EXCEPT !.attempt = @ + 1]

GiveUpPrimary(r) ==
    IF Fallbacks > 0 THEN [r EXCEPT !.stage = "fallback", !.fallback = 1]
    ELSE [r EXCEPT !.stage = "raised"]

(* Mutant: a transient failure is always tried again. *)
PrimaryFailsUnbounded(c) ==
    /\ call[c].stage = "primary"
    /\ \E transient \in BOOLEAN :
          call' = [call EXCEPT ![c] = IF transient THEN @ ELSE GiveUpPrimary(@)]
    /\ Unusable(c)
    /\ UNCHANGED <<history, made>>

(* Mutant: the prompt is recorded before the answer is looked at. *)
PrimaryFailsRecorded(c) ==
    /\ call[c].stage = "primary"
    /\ call' = [call EXCEPT ![c] = GiveUpPrimary(@)]
    /\ history' = Append(history, Message("user", Id(c), 0))
    /\ usage' = {Id(c)}
    /\ UNCHANGED made

(* completion() raises, or answers with no choices. Only a transient failure
   (RETRYABLE_EXCEPTIONS) is tried again, MaxAttempts times in all. *)
PrimaryFails(c) ==
    /\ call[c].stage = "primary"
    /\ \E transient \in BOOLEAN :
          call' = [call EXCEPT ![c] =
                      IF transient /\ @.attempt < MaxAttempts
                      THEN AttemptAgain(@)
                      ELSE GiveUpPrimary(@)]
    /\ Unusable(c)
    /\ UNCHANGED <<history, made>>

NextFallback(r) == [r EXCEPT !.fallback = @ + 1]

(* _try_fallbacks: each fallback model once, in order. *)
FallbackAnswers(c) ==
    /\ call[c].stage = "fallback"
    /\ \E k \in Asks(c) :
          call' = [call EXCEPT ![c].stage = "record_fallback", ![c].asked = k]
    /\ UNCHANGED <<history, made, usage>>

FallbackFails(c) ==
    /\ call[c].stage = "fallback"
    /\ call' = [call EXCEPT ![c] =
                   IF @.fallback < Fallbacks
                   THEN NextFallback(@)
                   ELSE [@ EXCEPT !.stage = "raised"]]
    /\ Unusable(c)
    /\ UNCHANGED <<history, made>>

(* _record_response: the usage (every provider reports one), then two appends,
   between which another thread may run. *)
RecordUser(c) ==
    /\ call[c].stage = "record_user"
    /\ history' = Append(history, Message("user", Id(c), 0))
    /\ call' = [call EXCEPT ![c].stage = "record_reply"]
    /\ usage' = {Id(c)}
    /\ UNCHANGED made

RecordReply(c) ==
    /\ call[c].stage = "record_reply"
    /\ history' = Append(history, Message("assistant", Id(c), call[c].asked))
    /\ call' = [call EXCEPT ![c].stage = "replied"]
    /\ UNCHANGED <<made, usage>>

(* Mutant: the usage of an answered fallback is not taken. *)
RecordFallbackUnmetered(c) ==
    /\ call[c].stage = "record_fallback"
    /\ history' = Append(history, Message("assistant", Id(c), 0))
    /\ call' = [call EXCEPT ![c].stage = "replied"]
    /\ UNCHANGED <<made, usage>>

(* _record_fallback_response: the text of the answer alone. Neither the
   prompt nor the tool calls of the answer reach the history. *)
RecordFallback(c) ==
    /\ call[c].stage = "record_fallback"
    /\ history' = Append(history, Message("assistant", Id(c), 0))
    /\ call' = [call EXCEPT ![c].stage = "replied"]
    /\ usage' = {Id(c)}
    /\ UNCHANGED made

(* The steps of a call under way. *)
ClientStep(c) ==
    \/ PrimaryAnswers(c) \/ PrimaryFails(c)
    \/ FallbackAnswers(c) \/ FallbackFails(c)
    \/ RecordUser(c) \/ RecordReply(c) \/ RecordFallback(c)

InFlight(c) == call[c].stage \notin {"idle", "replied", "raised"}

Stage == {"idle", "primary", "fallback", "record_user", "record_reply",
          "record_fallback", "replied", "raised"}

MessageType ==
    [role : {"user", "assistant", "tool"}, id : Caller \X Nat, num : Nat]

CallType == [stage : Stage, tools : BOOLEAN, attempt : 0..MaxAttempts,
             fallback : 0..Fallbacks, seen : Seq(MessageType), asked : ToolCounts]

ClientTypeOK ==
    /\ history \in Seq(MessageType)
    /\ call \in [Caller -> CallType]
    /\ made \in [Caller -> Nat]
    /\ usage \in SUBSET (Caller \X Nat)
=============================================================================
