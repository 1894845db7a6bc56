---------------------------- MODULE Conversation ----------------------------
(***************************************************************************)
(* WorkflowEngine.generate_response over a shared client: a declarative    *)
(* call (one with a history list or an interpolated prompt) suspends the   *)
(* client's conversation, ResponseExecutor makes the call, with up to      *)
(* three attempts when a structured answer is wanted, and the conversation *)
(* is restored with the new messages behind the saved ones.                *)
(*                                                                         *)
(* The callers are threads that share one engine. Only suspend and restore *)
(* hold the lock of ConversationManager; the client's own appends do not.  *)
(***************************************************************************)
EXTENDS ChatClient

CONSTANTS MaxTurns,     \* bound: generate_response calls of a caller
          Structured,   \* whether calls want a structured answer: both, or one
          Threaded      \* whether the turns of the callers overlap

ASSUME ConversationAssumption ==
    MaxTurns \in Nat /\ Structured \subseteq BOOLEAN /\ Threaded \in BOOLEAN

StructuredAttempts == 3      \* StructuredOutputHandler(max_retries=2)

VARIABLES turn,      \* turn[c]: the engine call c is in
          turns,     \* turns[c]: how many engine calls c has begun
          lock,      \* who holds ConversationManager._lock, {} or {c}
          result     \* result[c]: what the last engine call returned

vars == <<clientVars, turn, turns, lock, result>>

-----------------------------------------------------------------------------
(* phase: where the call stands; saved: what suspend returned; copy: what
   restore has read; first: the number of the turn's first client call;
   before: the history when the turn began (for the properties). *)
NoTurn == [phase |-> "idle", declarative |-> FALSE, structured |-> FALSE,
           saved |-> <<>>, copy |-> <<>>, tries |-> 0, first |-> 0,
           failed |-> FALSE, before |-> <<>>]

(* usage: what the result reports, {} or the call it belongs to. *)
NoAnswer == [status |-> "none", parsed |-> FALSE, usage |-> {}]

Init ==
    /\ ClientInit
    /\ turn = [c \in Caller |-> NoTurn]
    /\ turns = [c \in Caller |-> 0]
    /\ lock = {}
    /\ result = [c \in Caller |-> NoAnswer]

(* should_suspend, on the two ways a prompt can be declarative. *)
Begin(c) ==
    /\ turn[c].phase = "idle" /\ turns[c] < MaxTurns
    /\ Threaded \/ \A d \in Caller : turn[d].phase = "idle"
    /\ \E declarative \in BOOLEAN, structured \in Structured :
          turn' = [turn EXCEPT ![c] =
                      [NoTurn EXCEPT
                          !.phase = IF declarative THEN "suspend" ELSE "prepare",
                          !.declarative = declarative,
                          !.structured = structured,
                          !.first = made[c] + 1,
                          !.before = history]]
    /\ turns' = [turns EXCEPT ![c] = @ + 1]
    /\ UNCHANGED <<clientVars, lock, result>>

(* suspend: under the lock, a copy of the history, then an empty history. *)
SuspendRead(c) ==
    /\ turn[c].phase = "suspend" /\ lock = {}
    /\ lock' = {c}
    /\ turn' = [turn EXCEPT ![c].phase = "suspending", ![c].saved = history]
    /\ UNCHANGED <<clientVars, turns, result>>

(* Mutant: the history is copied and left in place. *)
SuspendLeaves(c) ==
    /\ turn[c].phase = "suspending"
    /\ lock' = {}
    /\ turn' = [turn EXCEPT ![c].phase = "prepare"]
    /\ UNCHANGED <<clientVars, turns, result>>

SuspendClear(c) ==
    /\ turn[c].phase = "suspending"
    /\ history' = <<>>
    /\ lock' = {}
    /\ turn' = [turn EXCEPT ![c].phase = "prepare"]
    /\ UNCHANGED <<call, made, usage, turns, result>>

-----------------------------------------------------------------------------
(* ResponseExecutor.execute. Leaving it, normally or not, leads to restore
   when the conversation was suspended. *)

Leave(t, failed) ==
    [t EXCEPT !.phase = IF t.declarative THEN "restore" ELSE "finish",
              !.failed = failed]

(* _prepare raises (an unresolved reference under strict), finds that the
   condition is false, or that it cannot be evaluated. *)
Decline(c) ==
    /\ turn[c].phase = "prepare"
    /\ \E status \in {"raised", "skipped", "failed"} :
          /\ turn' = [turn EXCEPT ![c] = Leave(@, status = "raised")]
          /\ result' = [result EXCEPT ![c] = [NoAnswer EXCEPT !.status = status]]
    /\ UNCHANGED <<clientVars, turns, lock>>

(* The executor hands the prompt to the client, which may refuse it. *)
Send(c) ==
    /\ turn[c].phase \in {"prepare", "again"}
    /\ Prepare(c, FALSE) \/ (turn[c].phase = "prepare" /\ Refuse(c))
    /\ turn' = [turn EXCEPT ![c].phase = "calling", ![c].tries = @ + 1]
    /\ UNCHANGED <<turns, lock, result>>

Advance(c) ==
    /\ ClientStep(c)
    /\ UNCHANGED <<turn, turns, lock, result>>

LastTry(c) == ~turn[c].structured \/ turn[c].tries = StructuredAttempts

(* The client returned: a structured answer that does not parse is asked for
   again, with feedback in the prompt; the last one is returned as it is. *)
Receive(c) ==
    /\ turn[c].phase = "calling" /\ call[c].stage = "replied"
    /\ \E parses \in BOOLEAN :
          LET done == parses \/ LastTry(c)
          IN  /\ turn' = [turn EXCEPT ![c] =
                             IF done THEN Leave(@, FALSE)
                             ELSE [@ EXCEPT !.phase = "again"]]
              /\ result' = [result EXCEPT ![c] =
                               IF done
                               THEN [NoAnswer EXCEPT
                                        !.status = "success",
                                        !.parsed = turn[c].structured /\ parses]
                               ELSE @]
    /\ call' = [call EXCEPT ![c].stage = "idle"]
    /\ UNCHANGED <<history, made, usage, turns, lock>>

Fail(c) ==
    /\ turn[c].phase = "calling" /\ call[c].stage = "raised"
    /\ turn' = [turn EXCEPT ![c] = Leave(@, TRUE)]
    /\ call' = [call EXCEPT ![c].stage = "idle"]
    /\ result' = [result EXCEPT ![c] = [NoAnswer EXCEPT !.status = "raised"]]
    /\ UNCHANGED <<history, made, usage, turns, lock>>

(* restore: under the lock, a copy of the client's messages, then the saved
   ones and the copy. It runs in a finally clause. *)
RestoreRead(c) ==
    /\ turn[c].phase = "restore" /\ lock = {}
    /\ lock' = {c}
    /\ turn' = [turn EXCEPT ![c].phase = "restoring", ![c].copy = history]
    /\ UNCHANGED <<clientVars, turns, result>>

(* Mutant: a call that failed is not restored. *)
RestoreOnSuccess(c) ==
    /\ turn[c].phase = "restoring"
    /\ history' = IF turn[c].failed THEN history
                  ELSE turn[c].saved \o turn[c].copy
    /\ lock' = {}
    /\ turn' = [turn EXCEPT ![c].phase = "finish"]
    /\ UNCHANGED <<call, made, usage, turns, result>>

RestoreWrite(c) ==
    /\ turn[c].phase = "restoring"
    /\ history' = turn[c].saved \o turn[c].copy
    /\ lock' = {}
    /\ turn' = [turn EXCEPT ![c].phase = "finish"]
    /\ UNCHANGED <<call, made, usage, turns, result>>

(* After the conversation is restored the engine reads last_usage of the
   client, whatever became of the call. *)
Finish(c) ==
    /\ turn[c].phase = "finish"
    /\ turn' = [turn EXCEPT ![c].phase = "idle"]
    /\ result' = [result EXCEPT ![c].usage = IF turn[c].failed THEN {} ELSE usage]
    /\ UNCHANGED <<clientVars, turns, lock>>

Step(c) ==
    \/ SuspendRead(c) \/ SuspendClear(c)
    \/ Decline(c) \/ Send(c) \/ Advance(c) \/ Receive(c) \/ Fail(c)
    \/ RestoreRead(c) \/ RestoreWrite(c) \/ Finish(c)

Rest == \A c \in Caller : turn[c].phase = "idle"

Stopped == Rest /\ (\A c \in Caller : turns[c] = MaxTurns) /\ UNCHANGED vars

Next == (\E c \in Caller : Begin(c) \/ Step(c)) \/ Stopped

Spec == Init /\ [][Next]_vars

(* A thread that is in a call goes on, and takes a lock that stays free; the
   provider's library ends every request. *)
FairSpec == Spec /\ \A c \in Caller : WF_vars(Step(c))

-----------------------------------------------------------------------------
(* Properties.                                                             *)

Phase == {"idle", "suspend", "suspending", "prepare", "calling", "again",
          "restore", "restoring", "finish"}

TurnType ==
    [phase : Phase, declarative : BOOLEAN, structured : BOOLEAN,
     saved : Seq(MessageType), copy : Seq(MessageType),
     tries : 0..StructuredAttempts, first : Nat, failed : BOOLEAN,
     before : Seq(MessageType)]

ResultType ==
    [status : {"none", "success", "skipped", "failed", "raised"},
     parsed : BOOLEAN, usage : SUBSET (Caller \X Nat)]

(* The values every variable ranges over. *)
TypeOK ==
    /\ ClientTypeOK
    /\ turn \in [Caller -> TurnType]
    /\ turns \in [Caller -> Nat]
    /\ lock \in SUBSET Caller
    /\ result \in [Caller -> ResultType]

Suspended(c) ==
    turn[c].declarative
        /\ turn[c].phase \in {"prepare", "calling", "again", "restore", "restoring"}

(* The conversation as its user knows it: what is set aside, then what the
   client holds. *)
Log ==
    IF \E c \in Caller : Suspended(c)
    THEN turn[CHOOSE c \in Caller : Suspended(c)].saved \o history
    ELSE history

Record == INSTANCE ConversationLog WITH log <- Log

(* With one call at a time the conversation is an append-only log: whatever
   is suspended, retried, refused or fails, no message is lost, moved or
   recorded twice. *)
ImplementsLog == Record!Spec

(* The conversation a turn starts from, as its kind promises. *)
Context(c) == IF turn[c].declarative THEN <<>> ELSE turn[c].before

Own(c, m) == m.id[1] = c /\ m.id[2] >= turn[c].first

(* messages continues the context of c's turn with messages of that turn. *)
Continues(c, messages) ==
    /\ Len(Context(c)) <= Len(messages)
    /\ \A i \in DOMAIN messages :
          IF i <= Len(Context(c)) THEN messages[i] = Context(c)[i] /\ ~Own(c, messages[i])
          ELSE Own(c, messages[i])

(* A request carries what its kind promises: a declarative call sees none of
   the conversation, any other all of it; both see the answers of their own
   earlier attempts, and nothing else. (One call at a time.) *)
RequestContext ==
    \A c \in Caller : (~Threaded /\ InFlight(c)) => Continues(c, call[c].seen)

(* No prompt stays in the conversation without its answer right behind it,
   except the one being recorded. (One call at a time.) *)
ReplyFollowsPrompt ==
    (~Threaded /\ \A c \in Caller : call[c].stage # "record_reply") =>
        \A i \in DOMAIN Log :
            Log[i].role = "user" =>
                /\ i < Len(Log)
                /\ Log[i + 1].role = "assistant" /\ Log[i + 1].id = Log[i].id

(* However the threads of an engine interleave, no message comes to stand in
   the conversation twice. *)
NoMessageTwice ==
    \A i, j \in DOMAIN history : history[i] = history[j] => i = j

(* Every call comes back, and a thread that waits for the lock gets it. *)
TurnsEnd == \A c \in Caller : turn[c].phase # "idle" ~> turn[c].phase = "idle"

(* Stated by ConversationManager: suspend and restore are thread-safe. The
   answer a finished call returned stands in the conversation. *)
AnswersKept ==
    Rest => \A c \in Caller :
        result[c].status = "success" =>
            \E i \in DOMAIN history : /\ history[i].role = "assistant"
                                     /\ history[i].id = Id(c)

(* The usage an answered call reports is that of the client call whose answer it
   returns, not of an earlier structured attempt, a call that failed or an
   earlier turn, though the engine reads it from the client only after the
   conversation is restored. (One call at a time.) *)
UsageIsOwn ==
    \A c \in Caller :
        (~Threaded /\ turn[c].phase = "idle" /\ result[c].status = "success") =>
            result[c].usage = {Id(c)}
=============================================================================
