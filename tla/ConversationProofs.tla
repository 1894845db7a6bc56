-------------------------- MODULE ConversationProofs --------------------------
(***************************************************************************)
(* Theorems of Conversation, for any number of callers, turns, attempts    *)
(* and fallbacks: what holds of threads that overlap, and what holds of    *)
(* one call at a time.                                                     *)
(***************************************************************************)
EXTENDS Conversation, ChatClientProofs

-----------------------------------------------------------------------------
(* The inductive invariants. *)

(* A client call is under way in the phase that waits for it, the lock is held
   by who is between its two steps, and attempts are left to who asks again. *)
PhaseInv ==
    \A c \in Caller :
        /\ call[c].stage = "idle" <=> turn[c].phase # "calling"
        /\ turn[c].phase \in {"suspend", "suspending", "prepare"} => turn[c].tries = 0
        /\ turn[c].phase = "again" => turn[c].tries < StructuredAttempts
        /\ turn[c].phase \in {"suspend", "suspending", "restore", "restoring"} => turn[c].declarative
        /\ c \in lock <=> turn[c].phase \in {"suspending", "restoring"}

LockInv == \A c, d \in lock : c = d

Within(s) == {s[i] : i \in DOMAIN s}

Distinct(s) == \A i, j \in DOMAIN s : s[i] = s[j] => i = j

(* No message stands twice in what the client holds and what suspended calls
   have set aside; what a caller has read under the lock is still there. *)
UniqueInv ==
    /\ Distinct(history)
    /\ \A c \in Caller :
          Suspended(c) => /\ Distinct(turn[c].saved)
                          /\ Within(turn[c].saved) \intersect Within(history) = {}
    /\ \A c, d \in Caller :
          Suspended(c) /\ Suspended(d) /\ c # d =>
              Within(turn[c].saved) \intersect Within(turn[d].saved) = {}
    /\ \A c \in Caller :
          turn[c].phase = "suspending" =>
              Distinct(turn[c].saved) /\ Within(turn[c].saved) \subseteq Within(history)
    /\ \A c \in Caller :
          turn[c].phase = "restoring" =>
              Distinct(turn[c].copy) /\ Within(turn[c].copy) \subseteq Within(history)

(* What the call of c has recorded so far. *)
Said(c, m) ==
    \/ call[c].stage \in {"idle", "replied", "raised"}
    \/ call[c].stage = "record_reply" /\ m.role = "user"

Fresh(c, messages) ==
    \A m \in messages :
        m.id[1] = c => m.id[2] < made[c] \/ (m.id[2] = made[c] /\ Said(c, m))

(* Nobody has recorded what is still to be recorded. *)
FreshInv ==
    \A c \in Caller :
        /\ Fresh(c, Within(history))
        /\ \A d \in Caller : Suspended(d) => Fresh(c, Within(turn[d].saved))

IInv == TypeOK /\ PhaseInv /\ LockInv /\ UniqueInv /\ FreshInv

(* With one call at a time: *)
AloneInv ==
    /\ \A c, d \in Caller : turn[c].phase # "idle" /\ turn[d].phase # "idle" => c = d
    /\ \A c \in Caller : turn[c].phase = "suspending" => turn[c].saved = history
    /\ \A c \in Caller : turn[c].phase = "restoring" => turn[c].copy = history

ContextInv ==
    \A c \in Caller :
        /\ turn[c].phase # "idle" => turn[c].first <= made[c] + 1
        /\ turn[c].phase = "calling" => turn[c].first <= made[c]
        /\ turn[c].phase \in {"prepare", "calling", "again"} => Continues(c, history)
        /\ InFlight(c) => Continues(c, call[c].seen)

(* A prompt without its answer is the last message, and its answer is coming. *)
PairInv ==
    \A i \in DOMAIN Log :
        Log[i].role = "user" =>
            \/ /\ i < Len(Log)
               /\ Log[i + 1].role = "assistant" /\ Log[i + 1].id = Log[i].id
            \/ /\ i = Len(Log)
               /\ \E c \in Caller : call[c].stage = "record_reply" /\ Log[i].id = Id(c)

UsageInv ==
    \A c \in Caller :
        /\ call[c].stage \in {"record_reply", "replied"} => usage = {Id(c)}
        /\ turn[c].phase \in {"restore", "restoring", "finish"} /\ result[c].status = "success" =>
              usage = {Id(c)} /\ ~turn[c].failed
        /\ turn[c].phase = "idle" /\ result[c].status = "success" => result[c].usage = {Id(c)}

OneInv == ~Threaded => AloneInv /\ ContextInv /\ PairInv /\ UsageInv

-----------------------------------------------------------------------------
(* What each step does, and the types. *)

LEMMA TurnSet ==
    ASSUME turn \in [Caller -> TurnType], NEW c \in Caller, NEW new \in TurnType,
           turn' = [turn EXCEPT ![c] = new]
    PROVE  /\ turn' \in [Caller -> TurnType] /\ turn'[c] = new
           /\ \A d \in Caller \ {c} : turn'[d] = turn[d]
  OBVIOUS

LEMMA ResultSet ==
    ASSUME result \in [Caller -> ResultType], NEW c \in Caller, NEW new \in ResultType,
           result' = [result EXCEPT ![c] = new]
    PROVE  /\ result' \in [Caller -> ResultType] /\ result'[c] = new
           /\ \A d \in Caller \ {c} : result'[d] = result[d]
  OBVIOUS

LEMMA NoTurnType == NoTurn \in TurnType
  BY DEF NoTurn, TurnType, Phase, StructuredAttempts

LEMMA NoAnswerType == NoAnswer \in ResultType
  BY DEF NoAnswer, ResultType

(* One field of a turn moves. *)
LEMMA TurnFields ==
    ASSUME NEW t \in TurnType
    PROVE  /\ \A p \in Phase : LET new == [t EXCEPT !.phase = p] IN
                 /\ new \in TurnType /\ new.phase = p
                 /\ new.declarative = t.declarative /\ new.structured = t.structured
                 /\ new.saved = t.saved /\ new.copy = t.copy /\ new.tries = t.tries
                 /\ new.first = t.first /\ new.failed = t.failed /\ new.before = t.before
  BY DEF TurnType

LEMMA LeaveIs ==
    ASSUME NEW t \in TurnType, NEW f \in BOOLEAN
    PROVE  LET new == Leave(t, f) IN
              /\ new \in TurnType
              /\ new.phase = IF t.declarative THEN "restore" ELSE "finish"
              /\ new.declarative = t.declarative /\ new.saved = t.saved /\ new.copy = t.copy
              /\ new.tries = t.tries /\ new.first = t.first /\ new.failed = f /\ new.before = t.before
  BY DEF Leave, TurnType, Phase

LEMMA BeginIs ==
    ASSUME TypeOK, NEW c \in Caller, Begin(c)
    PROVE  /\ TypeOK' /\ UNCHANGED <<clientVars, lock, result>> /\ turn[c].phase = "idle"
           /\ Threaded \/ \A d \in Caller : turn[d].phase = "idle"
           /\ turn'[c].phase = IF turn'[c].declarative THEN "suspend" ELSE "prepare"
           /\ turn'[c].first = made[c] + 1 /\ turn'[c].before = history /\ turn'[c].tries = 0
           /\ \A d \in Caller \ {c} : turn'[d] = turn[d]
<1>1. PICK declarative \in BOOLEAN, structured \in Structured :
           turn' = [turn EXCEPT ![c] =
                      [NoTurn EXCEPT !.phase = IF declarative THEN "suspend" ELSE "prepare",
                                     !.declarative = declarative, !.structured = structured,
                                     !.first = made[c] + 1, !.before = history]]
  BY DEF Begin
<1> DEFINE p == IF declarative THEN "suspend" ELSE "prepare"
           new == [NoTurn EXCEPT !.phase = p, !.declarative = declarative, !.structured = structured,
                                 !.first = made[c] + 1, !.before = history]
<1>2. p \in Phase /\ structured \in BOOLEAN /\ made[c] + 1 \in Nat /\ history \in Seq(MessageType)
  BY ConversationAssumption DEF Phase, TypeOK, ClientTypeOK
<1>3. /\ new.phase = p /\ new.declarative = declarative
      /\ new.first = made[c] + 1 /\ new.before = history /\ new.tries = 0
  BY DEF NoTurn
<1>4. new \in TurnType
  <2> HIDE DEF p
  <2>1. QED
    BY <1>2, NoTurnType DEF TurnType
<1>5. turn' = [turn EXCEPT ![c] = new]
  BY <1>1
<1>6. turns' \in [Caller -> Nat]
  BY DEF Begin, TypeOK
<1> HIDE DEF new
<1>7. turn' \in [Caller -> TurnType] /\ turn'[c] = new /\ \A d \in Caller \ {c} : turn'[d] = turn[d]
  BY <1>4, <1>5, TurnSet DEF TypeOK
<1>8. UNCHANGED <<clientVars, lock, result>>
  BY DEF Begin
<1>9. TypeOK'
  BY <1>6, <1>7, <1>8 DEF TypeOK, ClientTypeOK, clientVars
<1>10. QED
  BY <1>3, <1>7, <1>8, <1>9 DEF Begin

LEMMA SuspendReadIs ==
    ASSUME TypeOK, NEW c \in Caller, SuspendRead(c)
    PROVE  /\ TypeOK' /\ UNCHANGED <<clientVars, result>> /\ lock = {} /\ lock' = {c}
           /\ turn[c].phase = "suspend" /\ turn'[c].phase = "suspending" /\ turn'[c].saved = history
           /\ turn'[c].declarative = turn[c].declarative /\ turn'[c].tries = turn[c].tries
           /\ turn'[c].first = turn[c].first /\ turn'[c].before = turn[c].before
           /\ \A d \in Caller \ {c} : turn'[d] = turn[d]
<1> DEFINE new == [turn[c] EXCEPT !.phase = "suspending", !.saved = history]
<1>1. turn[c] \in TurnType /\ history \in Seq(MessageType)
  BY DEF TypeOK, ClientTypeOK
<1>2. /\ new \in TurnType /\ new.phase = "suspending" /\ new.saved = history
      /\ new.declarative = turn[c].declarative /\ new.tries = turn[c].tries
      /\ new.first = turn[c].first /\ new.before = turn[c].before
  BY <1>1 DEF TurnType, Phase
<1>3. turn' = [turn EXCEPT ![c] = new]
  BY DEF SuspendRead, TypeOK
<1> HIDE DEF new
<1>4. turn' \in [Caller -> TurnType] /\ turn'[c] = new /\ \A d \in Caller \ {c} : turn'[d] = turn[d]
  BY <1>2, <1>3, TurnSet DEF TypeOK
<1>5. UNCHANGED <<clientVars, turns, result>> /\ lock = {} /\ lock' = {c} /\ turn[c].phase = "suspend"
  BY DEF SuspendRead
<1>6. TypeOK'
  BY <1>4, <1>5 DEF TypeOK, ClientTypeOK, clientVars
<1>7. QED
  BY <1>2, <1>4, <1>5, <1>6

LEMMA RestoreReadIs ==
    ASSUME TypeOK, NEW c \in Caller, RestoreRead(c)
    PROVE  /\ TypeOK' /\ UNCHANGED <<clientVars, result>> /\ lock = {} /\ lock' = {c}
           /\ turn[c].phase = "restore" /\ turn'[c].phase = "restoring" /\ turn'[c].copy = history
           /\ turn'[c].declarative = turn[c].declarative /\ turn'[c].saved = turn[c].saved
           /\ turn'[c].failed = turn[c].failed /\ turn'[c].first = turn[c].first
           /\ \A d \in Caller \ {c} : turn'[d] = turn[d]
<1> DEFINE new == [turn[c] EXCEPT !.phase = "restoring", !.copy = history]
<1>1. turn[c] \in TurnType /\ history \in Seq(MessageType)
  BY DEF TypeOK, ClientTypeOK
<1>2. /\ new \in TurnType /\ new.phase = "restoring" /\ new.copy = history
      /\ new.declarative = turn[c].declarative /\ new.saved = turn[c].saved
      /\ new.failed = turn[c].failed /\ new.first = turn[c].first
  BY <1>1 DEF TurnType, Phase
<1>3. turn' = [turn EXCEPT ![c] = new]
  BY DEF RestoreRead, TypeOK
<1> HIDE DEF new
<1>4. turn' \in [Caller -> TurnType] /\ turn'[c] = new /\ \A d \in Caller \ {c} : turn'[d] = turn[d]
  BY <1>2, <1>3, TurnSet DEF TypeOK
<1>5. UNCHANGED <<clientVars, turns, result>> /\ lock = {} /\ lock' = {c} /\ turn[c].phase = "restore"
  BY DEF RestoreRead
<1>6. TypeOK'
  BY <1>4, <1>5 DEF TypeOK, ClientTypeOK, clientVars
<1>7. QED
  BY <1>2, <1>4, <1>5, <1>6

(* Same(c): nothing of c's turn changed but its phase. *)
Same(c) ==
    /\ turn'[c].declarative = turn[c].declarative /\ turn'[c].saved = turn[c].saved
    /\ turn'[c].copy = turn[c].copy /\ turn'[c].first = turn[c].first
    /\ turn'[c].before = turn[c].before

LEMMA PhaseSet ==
    ASSUME TypeOK, NEW c \in Caller, NEW p \in Phase, turn' = [turn EXCEPT ![c].phase = p]
    PROVE  /\ turn' \in [Caller -> TurnType]
           /\ turn'[c].phase = p /\ Same(c) /\ turn'[c].tries = turn[c].tries
           /\ turn'[c].failed = turn[c].failed
           /\ \A d \in Caller \ {c} : turn'[d] = turn[d]
<1> DEFINE new == [turn[c] EXCEPT !.phase = p]
<1>1. /\ new \in TurnType /\ new.phase = p
      /\ new.declarative = turn[c].declarative /\ new.saved = turn[c].saved /\ new.copy = turn[c].copy
      /\ new.tries = turn[c].tries /\ new.first = turn[c].first /\ new.failed = turn[c].failed
      /\ new.before = turn[c].before
  BY TurnFields DEF TypeOK
<1>2. turn' = [turn EXCEPT ![c] = new]
  BY DEF TypeOK
<1> HIDE DEF new
<1>3. QED
  BY <1>1, <1>2, TurnSet DEF TypeOK, Same

LEMMA SuspendClearIs ==
    ASSUME TypeOK, NEW c \in Caller, SuspendClear(c)
    PROVE  /\ TypeOK' /\ UNCHANGED <<call, made, usage, result>> /\ lock' = {} /\ history' = <<>>
           /\ turn[c].phase = "suspending" /\ turn'[c].phase = "prepare" /\ Same(c)
           /\ turn'[c].tries = turn[c].tries
           /\ \A d \in Caller \ {c} : turn'[d] = turn[d]
<1>1. /\ turn' = [turn EXCEPT ![c].phase = "prepare"] /\ turn[c].phase = "suspending"
      /\ history' = <<>> /\ lock' = {} /\ UNCHANGED <<call, made, usage, turns, result>>
  BY DEF SuspendClear
<1>2. /\ turn' \in [Caller -> TurnType] /\ turn'[c].phase = "prepare" /\ Same(c)
      /\ turn'[c].tries = turn[c].tries /\ \A d \in Caller \ {c} : turn'[d] = turn[d]
  BY <1>1, PhaseSet DEF Phase
<1>3. TypeOK'
  BY <1>1, <1>2 DEF TypeOK, ClientTypeOK
<1>4. QED
  BY <1>1, <1>2, <1>3

LEMMA RestoreWriteIs ==
    ASSUME TypeOK, NEW c \in Caller, RestoreWrite(c)
    PROVE  /\ TypeOK' /\ UNCHANGED <<call, made, usage, result>> /\ lock' = {}
           /\ history' = turn[c].saved \o turn[c].copy
           /\ turn[c].phase = "restoring" /\ turn'[c].phase = "finish" /\ Same(c)
           /\ turn'[c].failed = turn[c].failed
           /\ \A d \in Caller \ {c} : turn'[d] = turn[d]
<1>1. /\ turn' = [turn EXCEPT ![c].phase = "finish"] /\ turn[c].phase = "restoring"
      /\ history' = turn[c].saved \o turn[c].copy /\ lock' = {}
      /\ UNCHANGED <<call, made, usage, turns, result>>
  BY DEF RestoreWrite
<1>2. /\ turn' \in [Caller -> TurnType] /\ turn'[c].phase = "finish" /\ Same(c)
      /\ turn'[c].failed = turn[c].failed /\ \A d \in Caller \ {c} : turn'[d] = turn[d]
  BY <1>1, PhaseSet DEF Phase
<1>3. turn[c].saved \in Seq(MessageType) /\ turn[c].copy \in Seq(MessageType)
  BY DEF TypeOK, TurnType
<1>4. history' \in Seq(MessageType)
  BY <1>1, <1>3
<1>5. TypeOK'
  BY <1>1, <1>2, <1>4 DEF TypeOK, ClientTypeOK
<1>6. QED
  BY <1>1, <1>2, <1>5

LEMMA SendIs ==
    ASSUME TypeOK, PhaseInv, NEW c \in Caller, Send(c)
    PROVE  /\ TypeOK' /\ UNCHANGED <<history, lock, result>>
           /\ turn[c].phase \in {"prepare", "again"} /\ turn'[c].phase = "calling" /\ Same(c)
           /\ \A d \in Caller \ {c} : turn'[d] = turn[d] /\ call'[d] = call[d] /\ made'[d] = made[d]
           /\ made'[c] = made[c] + 1
           /\ \/ call'[c].stage = "primary" /\ call'[c].seen = history
              \/ call'[c].stage = "raised"
<1> DEFINE new == [turn[c] EXCEPT !.phase = "calling", !.tries = turn[c].tries + 1]
<1>1. turn[c] \in TurnType /\ turn[c].phase \in {"prepare", "again"}
  BY DEF Send, TypeOK
<1>2. turn[c].tries + 1 \in 0..StructuredAttempts
  BY <1>1 DEF PhaseInv, StructuredAttempts, TurnType
<1>3. /\ new \in TurnType /\ new.phase = "calling"
      /\ new.declarative = turn[c].declarative /\ new.saved = turn[c].saved /\ new.copy = turn[c].copy
      /\ new.first = turn[c].first /\ new.before = turn[c].before
  BY <1>1, <1>2 DEF TurnType, Phase
<1>4. turn' = [turn EXCEPT ![c] = new]
  BY DEF Send, TypeOK
<1> HIDE DEF new
<1>5. turn' \in [Caller -> TurnType] /\ turn'[c] = new /\ \A d \in Caller \ {c} : turn'[d] = turn[d]
  BY <1>3, <1>4, TurnSet DEF TypeOK
<1>6. /\ ClientTypeOK' /\ history' = history /\ made'[c] = made[c] + 1
      /\ \A d \in Caller \ {c} : call'[d] = call[d] /\ made'[d] = made[d]
      /\ \/ call'[c].stage = "primary" /\ call'[c].seen = history
         \/ call'[c].stage = "raised"
  BY PrepareIs, RefuseIs DEF Send, TypeOK
<1>7. UNCHANGED <<turns, lock, result>>
  BY DEF Send
<1>8. TypeOK'
  BY <1>5, <1>6, <1>7 DEF TypeOK
<1>9. QED
  BY <1>1, <1>3, <1>5, <1>6, <1>7, <1>8 DEF Same

LEMMA AdvanceIs ==
    ASSUME TypeOK, NEW c \in Caller, Advance(c)
    PROVE  TypeOK' /\ UNCHANGED <<turn, lock, result>> /\ ClientStep(c)
  BY ClientStepIs DEF Advance, TypeOK

LEMMA DeclineIs ==
    ASSUME TypeOK, NEW c \in Caller, Decline(c)
    PROVE  /\ TypeOK' /\ UNCHANGED <<clientVars, lock>>
           /\ turn[c].phase = "prepare" /\ Same(c)
           /\ turn'[c].phase = IF turn[c].declarative THEN "restore" ELSE "finish"
           /\ result'[c].status # "success"
           /\ \A d \in Caller \ {c} : turn'[d] = turn[d] /\ result'[d] = result[d]
<1>1. PICK status \in {"raised", "skipped", "failed"} :
         /\ turn' = [turn EXCEPT ![c] = Leave(@, status = "raised")]
         /\ result' = [result EXCEPT ![c] = [NoAnswer EXCEPT !.status = status]]
  BY DEF Decline
<1> DEFINE new == Leave(turn[c], status = "raised")
           answer == [NoAnswer EXCEPT !.status = status]
<1>2. /\ new \in TurnType /\ new.phase = IF turn[c].declarative THEN "restore" ELSE "finish"
      /\ new.declarative = turn[c].declarative /\ new.saved = turn[c].saved /\ new.copy = turn[c].copy
      /\ new.first = turn[c].first /\ new.before = turn[c].before
  BY LeaveIs DEF TypeOK
<1>3. answer \in ResultType /\ answer.status # "success"
  BY DEF NoAnswer, ResultType
<1>4. turn' = [turn EXCEPT ![c] = new] /\ result' = [result EXCEPT ![c] = answer]
  BY <1>1
<1> HIDE DEF new, answer
<1>5. turn' \in [Caller -> TurnType] /\ turn'[c] = new /\ \A d \in Caller \ {c} : turn'[d] = turn[d]
  BY <1>2, <1>4, TurnSet DEF TypeOK
<1>6. /\ result' \in [Caller -> ResultType] /\ result'[c] = answer
      /\ \A d \in Caller \ {c} : result'[d] = result[d]
  BY <1>3, <1>4, ResultSet DEF TypeOK
<1>7. UNCHANGED <<clientVars, turns, lock>> /\ turn[c].phase = "prepare"
  BY DEF Decline
<1>8. TypeOK'
  BY <1>5, <1>6, <1>7 DEF TypeOK, ClientTypeOK, clientVars
<1>9. QED
  BY <1>2, <1>3, <1>5, <1>6, <1>7, <1>8 DEF Same

LEMMA ReceiveIs ==
    ASSUME TypeOK, PhaseInv, NEW c \in Caller, Receive(c)
    PROVE  /\ TypeOK' /\ UNCHANGED <<history, made, usage, lock>>
           /\ turn[c].phase = "calling" /\ call[c].stage = "replied" /\ Same(c)
           /\ call'[c].stage = "idle" /\ call'[c].seen = call[c].seen
           /\ \/ /\ turn'[c].phase = IF turn[c].declarative THEN "restore" ELSE "finish"
                 /\ ~turn'[c].failed
              \/ turn'[c].phase = "again" /\ turn'[c].tries < StructuredAttempts
           /\ \A d \in Caller \ {c} :
                 turn'[d] = turn[d] /\ result'[d] = result[d] /\ call'[d] = call[d]
<1>a. turn[c] \in TurnType /\ turn[c].phase = "calling" /\ call[c].stage = "replied"
      /\ UNCHANGED <<history, made, usage, turns, lock>>
  BY DEF Receive, TypeOK
<1>b. ClientTypeOK' /\ call'[c].stage = "idle" /\ call'[c].seen = call[c].seen
      /\ \A d \in Caller \ {c} : call'[d] = call[d]
  BY CallTaken DEF Receive, TypeOK
<1>1. PICK parses \in BOOLEAN :
          LET done == parses \/ LastTry(c)
          IN  /\ turn' = [turn EXCEPT ![c] =
                             IF done THEN Leave(@, FALSE)
                             ELSE [@ EXCEPT !.phase = "again"]]
              /\ result' = [result EXCEPT ![c] =
                               IF done
                               THEN [NoAnswer EXCEPT
                                        !.status = "success",
                                        !.parsed = turn[c].structured /\ parses]
                               ELSE @]
  BY DEF Receive
<1>2. CASE parses \/ LastTry(c)
  <2> DEFINE new == Leave(turn[c], FALSE)
             answer == [NoAnswer EXCEPT !.status = "success", !.parsed = turn[c].structured /\ parses]
  <2>1. /\ new \in TurnType /\ new.phase = IF turn[c].declarative THEN "restore" ELSE "finish"
        /\ new.declarative = turn[c].declarative /\ new.saved = turn[c].saved /\ new.copy = turn[c].copy
        /\ new.first = turn[c].first /\ new.before = turn[c].before /\ new.failed = FALSE
    BY <1>a, LeaveIs
  <2>2. answer \in ResultType
    BY <1>a DEF NoAnswer, ResultType, TurnType
  <2>3. turn' = [turn EXCEPT ![c] = new] /\ result' = [result EXCEPT ![c] = answer]
    BY <1>1, <1>2
  <2> HIDE DEF new, answer
  <2>4. turn' \in [Caller -> TurnType] /\ turn'[c] = new /\ \A d \in Caller \ {c} : turn'[d] = turn[d]
    BY <2>1, <2>3, TurnSet DEF TypeOK
  <2>5. result' \in [Caller -> ResultType] /\ \A d \in Caller \ {c} : result'[d] = result[d]
    BY <2>2, <2>3, ResultSet DEF TypeOK
  <2>6. TypeOK'
    BY <1>a, <1>b, <2>4, <2>5 DEF TypeOK
  <2>7. QED
    BY <1>a, <1>b, <2>1, <2>4, <2>5, <2>6 DEF Same
<1>3. CASE ~(parses \/ LastTry(c))
  <2> DEFINE new == [turn[c] EXCEPT !.phase = "again"]
  <2>1. /\ new \in TurnType /\ new.phase = "again" /\ new.tries = turn[c].tries
        /\ new.declarative = turn[c].declarative /\ new.saved = turn[c].saved /\ new.copy = turn[c].copy
        /\ new.first = turn[c].first /\ new.before = turn[c].before
    <3>1. "again" \in Phase
      BY DEF Phase
    <3>2. QED
      BY <1>a, <3>1, TurnFields
  <2>2. turn' = [turn EXCEPT ![c] = new] /\ result' = [result EXCEPT ![c] = result[c]]
    BY <1>1, <1>3
  <2>3. turn[c].tries < StructuredAttempts
    BY <1>3, <1>a DEF LastTry, TurnType, StructuredAttempts
  <2> HIDE DEF new
  <2>4. turn' \in [Caller -> TurnType] /\ turn'[c] = new /\ \A d \in Caller \ {c} : turn'[d] = turn[d]
    BY <2>1, <2>2, TurnSet DEF TypeOK
  <2>5. result' = result
    BY <2>2 DEF TypeOK
  <2>6. TypeOK'
    BY <1>a, <1>b, <2>4, <2>5 DEF TypeOK
  <2>7. QED
    BY <1>a, <1>b, <2>1, <2>3, <2>4, <2>5, <2>6 DEF Same
<1>4. QED
  BY <1>2, <1>3

LEMMA FailIs ==
    ASSUME TypeOK, NEW c \in Caller, Fail(c)
    PROVE  /\ TypeOK' /\ UNCHANGED <<history, made, usage, lock>>
           /\ turn[c].phase = "calling" /\ call[c].stage = "raised" /\ Same(c)
           /\ call'[c].stage = "idle" /\ call'[c].seen = call[c].seen
           /\ turn'[c].phase = IF turn[c].declarative THEN "restore" ELSE "finish"
           /\ result'[c].status = "raised"
           /\ \A d \in Caller \ {c} :
                 turn'[d] = turn[d] /\ result'[d] = result[d] /\ call'[d] = call[d]
<1> DEFINE new == Leave(turn[c], TRUE)
           answer == [NoAnswer EXCEPT !.status = "raised"]
<1>1. /\ new \in TurnType /\ new.phase = IF turn[c].declarative THEN "restore" ELSE "finish"
      /\ new.declarative = turn[c].declarative /\ new.saved = turn[c].saved /\ new.copy = turn[c].copy
      /\ new.first = turn[c].first /\ new.before = turn[c].before
  BY LeaveIs DEF TypeOK
<1>2. answer \in ResultType /\ answer.status = "raised"
  BY DEF NoAnswer, ResultType
<1>3. turn' = [turn EXCEPT ![c] = new] /\ result' = [result EXCEPT ![c] = answer]
  BY DEF Fail
<1>4. /\ UNCHANGED <<history, made, usage, turns, lock>>
      /\ turn[c].phase = "calling" /\ call[c].stage = "raised"
      /\ call' = [call EXCEPT ![c].stage = "idle"]
  BY DEF Fail
<1> HIDE DEF new, answer
<1>5. turn' \in [Caller -> TurnType] /\ turn'[c] = new /\ \A d \in Caller \ {c} : turn'[d] = turn[d]
  BY <1>1, <1>3, TurnSet DEF TypeOK
<1>6. /\ result' \in [Caller -> ResultType] /\ result'[c] = answer
      /\ \A d \in Caller \ {c} : result'[d] = result[d]
  BY <1>2, <1>3, ResultSet DEF TypeOK
<1>7. ClientTypeOK' /\ call'[c].stage = "idle" /\ call'[c].seen = call[c].seen
      /\ \A d \in Caller \ {c} : call'[d] = call[d]
  BY <1>4, CallTaken DEF TypeOK
<1>8. TypeOK'
  BY <1>4, <1>5, <1>6, <1>7 DEF TypeOK
<1>9. QED
  BY <1>1, <1>2, <1>4, <1>5, <1>6, <1>7, <1>8 DEF Same

LEMMA FinishIs ==
    ASSUME TypeOK, NEW c \in Caller, Finish(c)
    PROVE  /\ TypeOK' /\ UNCHANGED <<clientVars, lock>>
           /\ turn[c].phase = "finish" /\ turn'[c].phase = "idle" /\ Same(c)
           /\ result'[c].status = result[c].status
           /\ ~turn[c].failed => result'[c].usage = usage
           /\ \A d \in Caller \ {c} : turn'[d] = turn[d] /\ result'[d] = result[d]
<1> DEFINE u == IF turn[c].failed THEN {} ELSE usage
           answer == [result[c] EXCEPT !.usage = u]
<1>1. u \in SUBSET (Caller \X Nat)
  BY DEF TypeOK, ClientTypeOK
<1>2. answer \in ResultType /\ answer.status = result[c].status /\ answer.usage = u
  <2> HIDE DEF u
  <2>1. QED
    BY <1>1 DEF TypeOK, ResultType
<1>3. turn' = [turn EXCEPT ![c].phase = "idle"] /\ result' = [result EXCEPT ![c] = answer]
      /\ UNCHANGED <<clientVars, turns, lock>> /\ turn[c].phase = "finish"
  BY DEF Finish, TypeOK
<1> HIDE DEF answer
<1>4. /\ turn' \in [Caller -> TurnType] /\ turn'[c].phase = "idle" /\ Same(c)
      /\ \A d \in Caller \ {c} : turn'[d] = turn[d]
  BY <1>3, PhaseSet DEF Phase
<1>5. /\ result' \in [Caller -> ResultType] /\ result'[c] = answer
      /\ \A d \in Caller \ {c} : result'[d] = result[d]
  BY <1>2, <1>3, ResultSet DEF TypeOK
<1>6. TypeOK'
  BY <1>3, <1>4, <1>5 DEF TypeOK, ClientTypeOK, clientVars
<1>7. QED
  BY <1>2, <1>3, <1>4, <1>5, <1>6

LEMMA InitTypeOK == Init => TypeOK
<1> SUFFICES ASSUME Init PROVE TypeOK
  OBVIOUS
<1>1. ClientTypeOK
  BY ClientInitType DEF Init
<1>2. turn \in [Caller -> TurnType] /\ result \in [Caller -> ResultType]
  BY NoTurnType, NoAnswerType DEF Init
<1>3. QED
  BY <1>1, <1>2 DEF Init, TypeOK

LEMMA NextTypeOK == TypeOK /\ PhaseInv /\ Next => TypeOK'
<1> SUFFICES ASSUME TypeOK, PhaseInv, Next PROVE TypeOK'
  OBVIOUS
<1>1. ASSUME NEW c \in Caller, Begin(c) \/ Step(c) PROVE TypeOK'
  <2>1. CASE Begin(c) \/ SuspendRead(c) \/ SuspendClear(c)
    BY <2>1, BeginIs, SuspendReadIs, SuspendClearIs
  <2>2. CASE Decline(c) \/ Send(c) \/ Advance(c) \/ Receive(c) \/ Fail(c)
    BY <2>2, DeclineIs, SendIs, AdvanceIs, ReceiveIs, FailIs
  <2>3. CASE RestoreRead(c) \/ RestoreWrite(c) \/ Finish(c)
    BY <2>3, RestoreReadIs, RestoreWriteIs, FinishIs
  <2>4. QED
    BY <1>1, <2>1, <2>2, <2>3 DEF Step
<1>2. CASE Stopped
  BY <1>2 DEF Stopped, vars, clientVars, TypeOK, ClientTypeOK
<1>3. QED
  BY <1>1, <1>2 DEF Next

-----------------------------------------------------------------------------
(* Phases and the lock. *)

LEMMA InitPhase == Init => PhaseInv /\ LockInv
  BY DEF Init, ClientInit, NoTurn, NoCall, PhaseInv, LockInv

LEMMA NextPhase == TypeOK /\ PhaseInv /\ LockInv /\ Next => PhaseInv'
<1> SUFFICES ASSUME TypeOK, PhaseInv, LockInv, Next PROVE PhaseInv'
  OBVIOUS
<1>1. ASSUME NEW c \in Caller, Begin(c) PROVE PhaseInv'
  BY <1>1, BeginIs DEF PhaseInv, clientVars
<1>2. ASSUME NEW c \in Caller, SuspendRead(c) PROVE PhaseInv'
  BY <1>2, SuspendReadIs DEF PhaseInv, clientVars
<1>3. ASSUME NEW c \in Caller, SuspendClear(c) PROVE PhaseInv'
  <2>1. \A d \in Caller \ {c} : turn[d].phase \notin {"suspending", "restoring"}
    BY <1>3, SuspendClearIs DEF PhaseInv, LockInv
  <2>2. QED
    BY <1>3, <2>1, SuspendClearIs DEF PhaseInv
<1>4. ASSUME NEW c \in Caller, Decline(c) PROVE PhaseInv'
  BY <1>4, DeclineIs DEF PhaseInv, clientVars, Same
<1>5. ASSUME NEW c \in Caller, Send(c) PROVE PhaseInv'
  BY <1>5, SendIs DEF PhaseInv
<1>6. ASSUME NEW c \in Caller, Advance(c) PROVE PhaseInv'
  <2>1. call'[c].stage # "idle" /\ call[c].stage # "idle"
    BY <1>6, AdvanceIs, ClientStepIs DEF TypeOK, InFlight
  <2>2. \A d \in Caller \ {c} : call'[d] = call[d]
    BY <1>6, AdvanceIs, ClientStepIs DEF TypeOK
  <2>3. UNCHANGED <<turn, lock>>
    BY <1>6, AdvanceIs
  <2>4. QED
    BY <2>1, <2>2, <2>3 DEF PhaseInv
<1>7. ASSUME NEW c \in Caller, Receive(c) PROVE PhaseInv'
  BY <1>7, ReceiveIs DEF PhaseInv, Same
<1>8. ASSUME NEW c \in Caller, Fail(c) PROVE PhaseInv'
  BY <1>8, FailIs DEF PhaseInv, Same
<1>9. ASSUME NEW c \in Caller, RestoreRead(c) PROVE PhaseInv'
  BY <1>9, RestoreReadIs DEF PhaseInv, clientVars
<1>10. ASSUME NEW c \in Caller, RestoreWrite(c) PROVE PhaseInv'
  <2>1. \A d \in Caller \ {c} : turn[d].phase \notin {"suspending", "restoring"}
    BY <1>10, RestoreWriteIs DEF PhaseInv, LockInv
  <2>2. \A d \in Caller \ {c} : turn'[d] = turn[d]
    BY <1>10, RestoreWriteIs
  <2>3. turn'[c].phase = "finish" /\ turn[c].phase = "restoring" /\ call' = call /\ lock' = {}
    BY <1>10, RestoreWriteIs
  <2>4. QED
    BY <2>1, <2>2, <2>3 DEF PhaseInv
<1>11. ASSUME NEW c \in Caller, Finish(c) PROVE PhaseInv'
  BY <1>11, FinishIs DEF PhaseInv, clientVars
<1>12. CASE Stopped
  BY <1>12 DEF Stopped, vars, clientVars, PhaseInv
<1>13. QED
  BY <1>1, <1>2, <1>3, <1>4, <1>5, <1>6, <1>7, <1>8, <1>9, <1>10, <1>11, <1>12 DEF Next, Step

LEMMA NextLock == TypeOK /\ LockInv /\ Next => LockInv'
<1> SUFFICES ASSUME TypeOK, LockInv, Next PROVE LockInv'
  OBVIOUS
<1>1. ASSUME NEW c \in Caller, Begin(c) \/ Step(c) PROVE lock' = lock \/ lock' = {} \/ lock' = {c}
  BY <1>1 DEF Begin, Step, SuspendRead, SuspendClear, Decline, Send, Advance, Receive, Fail,
     RestoreRead, RestoreWrite, Finish
<1>2. lock' = lock \/ lock' = {} \/ \E c \in Caller : lock' = {c}
  BY <1>1 DEF Next, Stopped, vars
<1>3. QED
  BY <1>2 DEF LockInv

-----------------------------------------------------------------------------
(* Messages are recorded once. *)

LEMMA WithinAppend ==
    ASSUME NEW s \in Seq(MessageType), NEW m \in MessageType
    PROVE  /\ Within(Append(s, m)) = Within(s) \union {m}
           /\ Distinct(s) /\ m \notin Within(s) => Distinct(Append(s, m))
<1> DEFINE t == Append(s, m)
<1>1. DOMAIN s = 1..Len(s) /\ Len(s) \in Nat /\ DOMAIN t = 1..(Len(s) + 1)
      /\ t[Len(s) + 1] = m /\ \A i \in 1..Len(s) : t[i] = s[i]
  OBVIOUS
<1> HIDE DEF t
<1>2. Within(t) = Within(s) \union {m}
  <2>1. \A i \in DOMAIN t : t[i] \in Within(s) \union {m}
    BY <1>1 DEF Within
  <2>2. \A i \in DOMAIN s : s[i] \in Within(t)
    <3>1. \A i \in DOMAIN s : i \in DOMAIN t /\ t[i] = s[i]
      BY <1>1
    <3>2. QED
      BY <3>1 DEF Within
  <2>3. m \in Within(t)
    <3>1. Len(s) + 1 \in DOMAIN t
      BY <1>1
    <3>2. QED
      BY <1>1, <3>1 DEF Within
  <2>4. QED
    BY <2>1, <2>2, <2>3 DEF Within
<1>3. Distinct(s) /\ m \notin Within(s) => Distinct(t)
  <2> SUFFICES ASSUME Distinct(s), m \notin Within(s) PROVE Distinct(t)
    OBVIOUS
  <2>1. \A i \in 1..Len(s) : t[i] # m
    BY <1>1 DEF Within
  <2>2. \A i, j \in 1..Len(s) : t[i] = t[j] => i = j
    BY <1>1 DEF Distinct
  <2>3. QED
    BY <1>1, <2>1, <2>2 DEF Distinct
<1>4. QED
  BY <1>2, <1>3 DEF t

LEMMA WithinConcat ==
    ASSUME NEW s \in Seq(MessageType), NEW t \in Seq(MessageType)
    PROVE  /\ Within(s \o t) = Within(s) \union Within(t)
           /\ Distinct(s) /\ Distinct(t) /\ Within(s) \intersect Within(t) = {} => Distinct(s \o t)
<1> DEFINE u == s \o t
           n == Len(s)
<1>1. /\ DOMAIN s = 1..n /\ n \in Nat /\ DOMAIN t = 1..Len(t) /\ Len(t) \in Nat
      /\ DOMAIN u = 1..(n + Len(t)) /\ \A i \in 1..n : u[i] = s[i]
      /\ \A i \in (n + 1)..(n + Len(t)) : u[i] = t[i - n]
  OBVIOUS
<1> HIDE DEF u, n
<1>2. \A i \in 1..(n + Len(t)) : i \in 1..n \/ (i \in (n + 1)..(n + Len(t)) /\ i - n \in 1..Len(t))
  BY <1>1
<1>3. Within(u) = Within(s) \union Within(t)
  <2>1. \A i \in DOMAIN u : u[i] \in Within(s) \union Within(t)
    BY <1>1, <1>2 DEF Within
  <2>2. \A i \in DOMAIN s : i \in DOMAIN u /\ u[i] = s[i]
    BY <1>1
  <2>3. \A i \in DOMAIN t : i + n \in DOMAIN u /\ u[i + n] = t[i]
    <3>1. \A i \in 1..Len(t) : i + n \in (n + 1)..(n + Len(t)) /\ (i + n) - n = i
      BY <1>1
    <3>2. QED
      BY <1>1, <3>1
  <2>4. QED
    BY <2>1, <2>2, <2>3 DEF Within
<1>4. Distinct(s) /\ Distinct(t) /\ Within(s) \intersect Within(t) = {} => Distinct(u)
  <2> SUFFICES ASSUME Distinct(s), Distinct(t), Within(s) \intersect Within(t) = {},
                      NEW i \in DOMAIN u, NEW j \in DOMAIN u, u[i] = u[j]
               PROVE  i = j
    BY DEF Distinct
  <2>1. CASE i \in 1..n /\ j \in 1..n
    BY <1>1, <2>1 DEF Distinct
  <2>2. CASE i \notin 1..n /\ j \notin 1..n
    <3>1. i - n \in DOMAIN t /\ j - n \in DOMAIN t /\ u[i] = t[i - n] /\ u[j] = t[j - n]
      BY <1>1, <1>2, <2>2
    <3>2. i - n = j - n
      BY <3>1 DEF Distinct
    <3>3. QED
      BY <1>1, <3>2
  <2>3. CASE i \in 1..n /\ j \notin 1..n
    <3>1. u[i] \in Within(s) /\ u[j] \in Within(t)
      BY <1>1, <1>2, <2>3 DEF Within
    <3>2. QED
      BY <3>1
  <2>4. CASE i \notin 1..n /\ j \in 1..n
    <3>1. u[j] \in Within(s) /\ u[i] \in Within(t)
      BY <1>1, <1>2, <2>4 DEF Within
    <3>2. QED
      BY <3>1
  <2>5. QED
    BY <2>1, <2>2, <2>3, <2>4
<1>5. QED
  BY <1>3, <1>4 DEF u

LEMMA ConcatAppend ==
    ASSUME NEW s \in Seq(MessageType), NEW t \in Seq(MessageType), NEW m \in MessageType
    PROVE  s \o Append(t, m) = Append(s \o t, m)
<1>1. Append(t, m) = t \o <<m>>
  BY AppendIsConcat
<1>2. <<m>> \in Seq(MessageType) /\ s \o t \in Seq(MessageType)
  OBVIOUS
<1>3. Append(s \o t, m) = (s \o t) \o <<m>>
  BY <1>2, AppendIsConcat
<1>4. (s \o t) \o <<m>> = s \o (t \o <<m>>)
  BY <1>2, ConcatAssociative, SMT
<1>5. QED
  BY <1>1, <1>3, <1>4, Zenon

(* Steps that move no message: what was set aside or read under the lock stays. *)
LEMMA UniqueFrame ==
    ASSUME UniqueInv, history' = history,
           \A c \in Caller : Suspended(c)' => Suspended(c) /\ turn'[c].saved = turn[c].saved,
           \A c \in Caller : turn'[c].phase = "suspending" =>
               turn[c].phase = "suspending" /\ turn'[c].saved = turn[c].saved,
           \A c \in Caller : turn'[c].phase = "restoring" =>
               turn[c].phase = "restoring" /\ turn'[c].copy = turn[c].copy
    PROVE  UniqueInv'
<1>1. Distinct(history')
  BY DEF UniqueInv
<1>2. \A c \in Caller : Suspended(c)' =>
         Distinct(turn'[c].saved) /\ Within(turn'[c].saved) \intersect Within(history') = {}
  BY DEF UniqueInv
<1>3. \A c, d \in Caller : Suspended(c)' /\ Suspended(d)' /\ c # d =>
         Within(turn'[c].saved) \intersect Within(turn'[d].saved) = {}
  BY DEF UniqueInv
<1>4. \A c \in Caller : turn'[c].phase = "suspending" =>
         Distinct(turn'[c].saved) /\ Within(turn'[c].saved) \subseteq Within(history')
  BY DEF UniqueInv
<1>5. \A c \in Caller : turn'[c].phase = "restoring" =>
         Distinct(turn'[c].copy) /\ Within(turn'[c].copy) \subseteq Within(history')
  BY DEF UniqueInv
<1>6. QED
  BY <1>1, <1>2, <1>3, <1>4, <1>5 DEF UniqueInv

(* A message that stands nowhere is appended. *)
LEMMA UniqueAppend ==
    ASSUME UniqueInv, NEW m \in MessageType, history \in Seq(MessageType),
           history' = Append(history, m), turn' = turn, m \notin Within(history),
           \A d \in Caller : Suspended(d) => m \notin Within(turn[d].saved)
    PROVE  UniqueInv'
<1>1. Distinct(history') /\ Within(history') = Within(history) \union {m}
  BY WithinAppend DEF UniqueInv
<1>2. \A c \in Caller : Suspended(c)' = Suspended(c)
  BY DEF Suspended
<1>3. \A c \in Caller : Suspended(c) =>
         Distinct(turn[c].saved) /\ Within(turn[c].saved) \intersect Within(history') = {}
  BY <1>1 DEF UniqueInv
<1>4. \A c \in Caller : turn[c].phase = "suspending" =>
         Distinct(turn[c].saved) /\ Within(turn[c].saved) \subseteq Within(history')
  BY <1>1 DEF UniqueInv
<1>5. \A c \in Caller : turn[c].phase = "restoring" =>
         Distinct(turn[c].copy) /\ Within(turn[c].copy) \subseteq Within(history')
  BY <1>1 DEF UniqueInv
<1>6. QED
  BY <1>1, <1>2, <1>3, <1>4, <1>5 DEF UniqueInv

(* The message a call records is new. *)
LEMMA NewMessage ==
    ASSUME TypeOK, FreshInv, NEW c \in Caller, NEW m \in MessageType, m.id = Id(c), ~Said(c, m)
    PROVE  m \notin Within(history) /\ \A d \in Caller : Suspended(d) => m \notin Within(turn[d].saved)
<1>1. m.id[1] = c /\ m.id[2] = made[c] /\ made[c] \in Nat
  BY DEF Id, TypeOK, ClientTypeOK
<1>2. ~(m.id[1] = c => m.id[2] < made[c] \/ (m.id[2] = made[c] /\ Said(c, m)))
  BY <1>1
<1>3. QED
  BY <1>2 DEF FreshInv, Fresh

LEMMA AppendedIs ==
    ASSUME TypeOK, NEW c \in Caller, ClientStep(c)
    PROVE  \/ /\ history' = history /\ call[c].stage \in {"primary", "fallback"}
           \/ \E m \in MessageType :
                 /\ history' = Append(history, m) /\ m.id = Id(c) /\ ~Said(c, m) /\ Said(c, m)'
                 /\ \A n \in MessageType : Said(c, n) => Said(c, n)'
                 /\ \/ m.role = "user" /\ call[c].stage = "record_user" /\ call'[c].stage = "record_reply"
                    \/ m.role = "assistant" /\ call[c].stage = "record_reply"
                    \/ m.role = "assistant" /\ call[c].stage = "record_fallback"
<1>a. ClientTypeOK /\ call[c].asked \in Nat
  BY ChatClientAssumption DEF TypeOK, ClientTypeOK, CallType
<1>b. \A r \in {"user", "assistant"}, n \in Nat :
         Message(r, Id(c), n) \in MessageType /\ Message(r, Id(c), n).id = Id(c)
         /\ Message(r, Id(c), n).role = r
  <2>1. \A r \in {"user", "assistant"}, n \in Nat : Message(r, Id(c), n) \in MessageType
    BY <1>a, MessageIs
  <2>2. \A r, n : Message(r, Id(c), n).id = Id(c) /\ Message(r, Id(c), n).role = r
    BY DEF Message
  <2>3. QED
    BY <2>1, <2>2
<1>1. CASE call[c].stage = "record_user"
  <2>1. history' = Append(history, Message("user", Id(c), 0)) /\ call'[c].stage = "record_reply"
    BY <1>1, <1>a, ClientStepIs
  <2>2. QED
    BY <1>1, <1>b, <2>1 DEF Said
<1>2. CASE call[c].stage = "record_reply"
  <2>1. history' = Append(history, Message("assistant", Id(c), call[c].asked)) /\ call'[c].stage = "replied"
    BY <1>2, <1>a, ClientStepIs
  <2>2. QED
    BY <1>2, <1>a, <1>b, <2>1 DEF Said
<1>3. CASE call[c].stage = "record_fallback"
  <2>1. history' = Append(history, Message("assistant", Id(c), 0)) /\ call'[c].stage = "replied"
    BY <1>3, <1>a, ClientStepIs
  <2>2. QED
    BY <1>3, <1>b, <2>1 DEF Said
<1>4. QED
  BY <1>a, <1>1, <1>2, <1>3, ClientStepIs

LEMMA NextUnique == TypeOK /\ PhaseInv /\ LockInv /\ UniqueInv /\ FreshInv /\ Next => UniqueInv'
<1> SUFFICES ASSUME TypeOK, PhaseInv, LockInv, UniqueInv, FreshInv, Next PROVE UniqueInv'
  OBVIOUS
<1>a. \A c \in Caller : turn[c].saved \in Seq(MessageType) /\ turn[c].copy \in Seq(MessageType)
  BY DEF TypeOK, TurnType
<1>1. ASSUME NEW c \in Caller, history' = history, \A d \in Caller \ {c} : turn'[d] = turn[d],
             Suspended(c)' => Suspended(c) /\ turn'[c].saved = turn[c].saved,
             turn'[c].phase \notin {"suspending", "restoring"}
      PROVE  UniqueInv'
  <2>1. \A d \in Caller \ {c} : Suspended(d)' = Suspended(d)
    BY <1>1 DEF Suspended
  <2>2. QED
    BY <1>1, <2>1, UniqueFrame
<1>2. ASSUME NEW c \in Caller, Begin(c) PROVE UniqueInv'
  <2>1. Suspended(c)' = FALSE /\ turn'[c].phase \notin {"suspending", "restoring"}
    BY <1>2, BeginIs DEF Suspended
  <2>2. QED
    BY <1>1, <1>2, <2>1, BeginIs DEF clientVars
<1>3. ASSUME NEW c \in Caller, SuspendRead(c) PROVE UniqueInv'
  <2>1. /\ history' = history /\ turn'[c].phase = "suspending" /\ turn'[c].saved = history
        /\ \A d \in Caller \ {c} : turn'[d] = turn[d]
    BY <1>3, SuspendReadIs DEF clientVars
  <2>2. Suspended(c)' = FALSE /\ \A d \in Caller \ {c} : Suspended(d)' = Suspended(d)
    BY <2>1 DEF Suspended
  <2>3. \A d \in Caller : Suspended(d)' => Suspended(d) /\ turn'[d].saved = turn[d].saved
    BY <2>1, <2>2
  <2>4. \A d \in Caller : turn'[d].phase = "suspending" =>
           Distinct(turn'[d].saved) /\ Within(turn'[d].saved) \subseteq Within(history')
    BY <2>1 DEF UniqueInv
  <2>5. \A d \in Caller : turn'[d].phase = "restoring" =>
           Distinct(turn'[d].copy) /\ Within(turn'[d].copy) \subseteq Within(history')
    BY <2>1 DEF UniqueInv
  <2>6. /\ Distinct(history')
        /\ \A d \in Caller : Suspended(d)' =>
              Distinct(turn'[d].saved) /\ Within(turn'[d].saved) \intersect Within(history') = {}
        /\ \A d, e \in Caller : Suspended(d)' /\ Suspended(e)' /\ d # e =>
              Within(turn'[d].saved) \intersect Within(turn'[e].saved) = {}
    BY <2>1, <2>3 DEF UniqueInv
  <2>7. QED
    BY <2>4, <2>5, <2>6 DEF UniqueInv
<1>4. ASSUME NEW c \in Caller, SuspendClear(c) PROVE UniqueInv'
  <2>1. /\ history' = <<>> /\ turn[c].phase = "suspending" /\ turn'[c].phase = "prepare"
        /\ turn'[c].saved = turn[c].saved /\ \A d \in Caller \ {c} : turn'[d] = turn[d]
    BY <1>4, SuspendClearIs DEF Same
  <2>2. \A d \in Caller : turn'[d].phase \notin {"suspending", "restoring"}
    BY <2>1 DEF PhaseInv, LockInv
  <2>3. \A d \in Caller \ {c} : Suspended(d)' = Suspended(d)
    BY <2>1 DEF Suspended
  <2>4. Within(history') = {} /\ Distinct(history')
    BY <2>1 DEF Within, Distinct
  <2>5. Distinct(turn[c].saved) /\ Within(turn[c].saved) \subseteq Within(history)
    BY <2>1 DEF UniqueInv
  <2>6. \A d \in Caller : Suspended(d)' => Distinct(turn'[d].saved) /\ turn'[d].saved = turn[d].saved
    BY <2>1, <2>3, <2>5 DEF UniqueInv
  <2>7. \A d \in Caller \ {c} : Suspended(d) =>
           Within(turn[d].saved) \intersect Within(turn[c].saved) = {}
    BY <2>5 DEF UniqueInv
  <2>8. \A d, e \in Caller : Suspended(d)' /\ Suspended(e)' /\ d # e =>
           Within(turn'[d].saved) \intersect Within(turn'[e].saved) = {}
    BY <2>3, <2>6, <2>7 DEF UniqueInv
  <2>9. QED
    BY <2>2, <2>4, <2>6, <2>8 DEF UniqueInv
<1>5. ASSUME NEW c \in Caller, Decline(c) PROVE UniqueInv'
  <2>1. /\ Suspended(c)' => Suspended(c) /\ turn'[c].saved = turn[c].saved
        /\ turn'[c].phase \notin {"suspending", "restoring"}
    BY <1>5, DeclineIs DEF Suspended, Same
  <2>2. QED
    BY <1>1, <1>5, <2>1, DeclineIs DEF clientVars
<1>6. ASSUME NEW c \in Caller, Send(c) PROVE UniqueInv'
  <2>1. /\ Suspended(c)' => Suspended(c) /\ turn'[c].saved = turn[c].saved
        /\ turn'[c].phase \notin {"suspending", "restoring"}
    BY <1>6, SendIs DEF Suspended, Same
  <2>2. QED
    BY <1>1, <1>6, <2>1, SendIs
<1>7. ASSUME NEW c \in Caller, Advance(c) PROVE UniqueInv'
  <2>1. turn' = turn /\ ClientStep(c) /\ history \in Seq(MessageType)
    BY <1>7, AdvanceIs DEF TypeOK, ClientTypeOK
  <2>2. CASE history' = history
    <3>1. \A d \in Caller : Suspended(d)' = Suspended(d)
      BY <2>1 DEF Suspended
    <3>2. QED
      BY <2>1, <2>2, <3>1, UniqueFrame
  <2>3. CASE history' # history
    <3>1. PICK m \in MessageType : history' = Append(history, m) /\ m.id = Id(c) /\ ~Said(c, m)
      BY <2>1, <2>3, AppendedIs
    <3>2. QED
      BY <2>1, <3>1, NewMessage, UniqueAppend
  <2>4. QED
    BY <2>2, <2>3
<1>8. ASSUME NEW c \in Caller, Receive(c) PROVE UniqueInv'
  <2>1. /\ Suspended(c)' => Suspended(c) /\ turn'[c].saved = turn[c].saved
        /\ turn'[c].phase \notin {"suspending", "restoring"}
    BY <1>8, ReceiveIs DEF Suspended, Same
  <2>2. QED
    BY <1>1, <1>8, <2>1, ReceiveIs
<1>9. ASSUME NEW c \in Caller, Fail(c) PROVE UniqueInv'
  <2>1. /\ Suspended(c)' => Suspended(c) /\ turn'[c].saved = turn[c].saved
        /\ turn'[c].phase \notin {"suspending", "restoring"}
    BY <1>9, FailIs DEF Suspended, Same
  <2>2. QED
    BY <1>1, <1>9, <2>1, FailIs
<1>10. ASSUME NEW c \in Caller, RestoreRead(c) PROVE UniqueInv'
  <2>1. /\ history' = history /\ turn'[c].phase = "restoring" /\ turn'[c].copy = history
        /\ turn[c].phase = "restore"
        /\ turn'[c].declarative = turn[c].declarative /\ turn'[c].saved = turn[c].saved
        /\ \A d \in Caller \ {c} : turn'[d] = turn[d]
    BY <1>10, RestoreReadIs DEF clientVars
  <2>2. \A d \in Caller : Suspended(d)' => Suspended(d) /\ turn'[d].saved = turn[d].saved
    BY <2>1 DEF Suspended
  <2>3. \A d \in Caller : turn'[d].phase = "suspending" =>
           Distinct(turn'[d].saved) /\ Within(turn'[d].saved) \subseteq Within(history')
    BY <2>1 DEF UniqueInv
  <2>4. \A d \in Caller : turn'[d].phase = "restoring" =>
           Distinct(turn'[d].copy) /\ Within(turn'[d].copy) \subseteq Within(history')
    BY <2>1 DEF UniqueInv
  <2>5. /\ Distinct(history')
        /\ \A d \in Caller : Suspended(d)' =>
              Distinct(turn'[d].saved) /\ Within(turn'[d].saved) \intersect Within(history') = {}
        /\ \A d, e \in Caller : Suspended(d)' /\ Suspended(e)' /\ d # e =>
              Within(turn'[d].saved) \intersect Within(turn'[e].saved) = {}
    BY <2>1, <2>2 DEF UniqueInv
  <2>6. QED
    BY <2>3, <2>4, <2>5 DEF UniqueInv
<1>11. ASSUME NEW c \in Caller, RestoreWrite(c) PROVE UniqueInv'
  <2>1. /\ history' = turn[c].saved \o turn[c].copy /\ turn[c].phase = "restoring"
        /\ turn'[c].phase = "finish" /\ \A d \in Caller \ {c} : turn'[d] = turn[d]
    BY <1>11, RestoreWriteIs
  <2>2. Suspended(c) /\ ~Suspended(c)' /\ \A d \in Caller \ {c} : Suspended(d)' = Suspended(d)
    BY <2>1 DEF Suspended, PhaseInv
  <2>3. \A d \in Caller : turn'[d].phase \notin {"suspending", "restoring"}
    BY <2>1 DEF PhaseInv, LockInv
  <2>4. /\ Distinct(turn[c].saved) /\ Distinct(turn[c].copy)
        /\ Within(turn[c].copy) \subseteq Within(history)
        /\ Within(turn[c].saved) \intersect Within(history) = {}
    BY <2>1, <2>2 DEF UniqueInv
  <2>5. Distinct(history') /\ Within(history') = Within(turn[c].saved) \union Within(turn[c].copy)
    BY <1>a, <2>1, <2>4, WithinConcat
  <2>6. \A d \in Caller : Suspended(d)' =>
           Distinct(turn'[d].saved) /\ Within(turn'[d].saved) \intersect Within(history') = {}
    BY <2>1, <2>2, <2>4, <2>5 DEF UniqueInv
  <2>7. \A d, e \in Caller : Suspended(d)' /\ Suspended(e)' /\ d # e =>
           Within(turn'[d].saved) \intersect Within(turn'[e].saved) = {}
    BY <2>1, <2>2 DEF UniqueInv
  <2>8. QED
    BY <2>3, <2>5, <2>6, <2>7 DEF UniqueInv
<1>12. ASSUME NEW c \in Caller, Finish(c) PROVE UniqueInv'
  <2>1. Suspended(c)' = FALSE /\ turn'[c].phase \notin {"suspending", "restoring"}
    BY <1>12, FinishIs DEF Suspended
  <2>2. QED
    BY <1>1, <1>12, <2>1, FinishIs DEF clientVars
<1>13. CASE Stopped
  <2>1. history' = history /\ turn' = turn
    BY <1>13 DEF Stopped, vars, clientVars
  <2>2. \A d \in Caller : Suspended(d)' = Suspended(d)
    BY <2>1 DEF Suspended
  <2>3. QED
    BY <2>1, <2>2, UniqueFrame
<1>14. QED
  BY <1>2, <1>3, <1>4, <1>5, <1>6, <1>7, <1>8, <1>9, <1>10, <1>11, <1>12, <1>13 DEF Next, Step

-----------------------------------------------------------------------------
(* What is still to be recorded stands nowhere. *)

Held(m) ==
    m \in Within(history) \/ \E d \in Caller : Suspended(d) /\ m \in Within(turn[d].saved)

(* m has been recorded by this step. *)
Recorded(m) ==
    \E c \in Caller : m.id = Id(c) /\ made'[c] = made[c] /\ Said(c, m)'

(* No call takes back what it has said: it goes on, or the next one begins. *)
Onward ==
    \A c \in Caller :
        \/ made'[c] = made[c] + 1
        \/ made'[c] = made[c] /\ \A m \in MessageType : Said(c, m) => Said(c, m)'

LEMMA HeldType == ASSUME TypeOK PROVE \A m : Held(m) => m \in MessageType
<1>1. history \in Seq(MessageType) /\ \A d \in Caller : turn[d].saved \in Seq(MessageType)
  BY DEF TypeOK, ClientTypeOK, TurnType
<1>2. \A s \in Seq(MessageType) : \A m \in Within(s) : m \in MessageType
  BY DEF Within
<1>3. QED
  BY <1>1, <1>2 DEF Held

LEMMA FreshStep ==
    ASSUME TypeOK, FreshInv, Onward,
           \A m \in Within(history') : Held(m) \/ Recorded(m),
           \A d \in Caller : Suspended(d)' => \A m \in Within(turn'[d].saved) : Held(m)
    PROVE  FreshInv'
<1>a. made \in [Caller -> Nat]
  BY DEF TypeOK, ClientTypeOK
<1>1. ASSUME NEW c \in Caller, NEW m, Held(m), m.id[1] = c
      PROVE  m.id[2] < made'[c] \/ (m.id[2] = made'[c] /\ Said(c, m)')
  <2>1. m \in MessageType
    BY <1>1, HeldType
  <2>2. m.id[2] \in Nat /\ made[c] \in Nat
    BY <1>a, <2>1 DEF MessageType
  <2>3. m.id[2] < made[c] \/ (m.id[2] = made[c] /\ Said(c, m))
    BY <1>1 DEF Held, FreshInv, Fresh
  <2>4. CASE made'[c] = made[c] + 1
    <3>1. m.id[2] < made[c] + 1
      BY <2>2, <2>3
    <3>2. QED
      BY <2>4, <3>1
  <2>5. CASE made'[c] = made[c] /\ (Said(c, m) => Said(c, m)')
    BY <2>3, <2>5
  <2>6. QED
    BY <2>1, <2>4, <2>5 DEF Onward
<1>2. ASSUME NEW c \in Caller, NEW m, Recorded(m), m.id[1] = c
      PROVE  m.id[2] < made'[c] \/ (m.id[2] = made'[c] /\ Said(c, m)')
  BY <1>2 DEF Recorded, Id
<1>3. \A c \in Caller : \A m \in Within(history') :
         m.id[1] = c => m.id[2] < made'[c] \/ (m.id[2] = made'[c] /\ Said(c, m)')
  BY <1>1, <1>2
<1>4. \A c, d \in Caller : Suspended(d)' => \A m \in Within(turn'[d].saved) :
         m.id[1] = c => m.id[2] < made'[c] \/ (m.id[2] = made'[c] /\ Said(c, m)')
  BY <1>1
<1>5. QED
  BY <1>3, <1>4 DEF FreshInv, Fresh

LEMMA NextFresh == TypeOK /\ PhaseInv /\ LockInv /\ UniqueInv /\ FreshInv /\ Next => FreshInv'
<1> SUFFICES ASSUME TypeOK, PhaseInv, LockInv, UniqueInv, FreshInv, Next PROVE FreshInv'
  OBVIOUS
<1>a. /\ made \in [Caller -> Nat]
      /\ \A c \in Caller : turn[c].saved \in Seq(MessageType) /\ turn[c].copy \in Seq(MessageType)
  BY DEF TypeOK, ClientTypeOK, TurnType
<1>b. ASSUME NEW c \in Caller, history' = history, \A d \in Caller \ {c} : turn'[d] = turn[d],
             Suspended(c)' => Suspended(c) /\ turn'[c].saved = turn[c].saved, Onward
      PROVE  FreshInv'
  <2>1. \A d \in Caller : Suspended(d)' => Suspended(d) /\ turn'[d].saved = turn[d].saved
    BY <1>b DEF Suspended
  <2>2. QED
    BY <1>b, <2>1, FreshStep DEF Held
<1>c. call' = call /\ made' = made => Onward
  BY DEF Onward, Said
<1>1. ASSUME NEW c \in Caller, Begin(c) PROVE FreshInv'
  <2>1. Suspended(c)' = FALSE
    BY <1>1, BeginIs DEF Suspended
  <2>2. QED
    BY <1>1, <1>b, <1>c, <2>1, BeginIs DEF clientVars
<1>2. ASSUME NEW c \in Caller, SuspendRead(c) PROVE FreshInv'
  <2>1. Suspended(c)' = FALSE
    BY <1>2, SuspendReadIs DEF Suspended
  <2>2. QED
    BY <1>2, <1>b, <1>c, <2>1, SuspendReadIs DEF clientVars
<1>3. ASSUME NEW c \in Caller, SuspendClear(c) PROVE FreshInv'
  <2>1. /\ history' = <<>> /\ turn[c].phase = "suspending" /\ turn'[c].saved = turn[c].saved
        /\ \A d \in Caller \ {c} : turn'[d] = turn[d]
    BY <1>3, SuspendClearIs DEF Same
  <2>2. \A d \in Caller \ {c} : Suspended(d)' = Suspended(d)
    BY <2>1 DEF Suspended
  <2>3. Within(turn[c].saved) \subseteq Within(history)
    BY <2>1 DEF UniqueInv
  <2>7. Within(history') = {}
    BY <2>1 DEF Within
  <2>4. \A d \in Caller : Suspended(d)' => \A m \in Within(turn'[d].saved) : Held(m)
    BY <2>1, <2>2, <2>3 DEF Held
  <2>5. Onward
    BY <1>3, <1>c, SuspendClearIs
  <2>6. QED
    BY <2>4, <2>5, <2>7, FreshStep
<1>4. ASSUME NEW c \in Caller, Decline(c) PROVE FreshInv'
  <2>1. Suspended(c)' => Suspended(c) /\ turn'[c].saved = turn[c].saved
    BY <1>4, DeclineIs DEF Suspended, Same
  <2>2. QED
    BY <1>4, <1>b, <1>c, <2>1, DeclineIs DEF clientVars
<1>5. ASSUME NEW c \in Caller, Send(c) PROVE FreshInv'
  <2>1. Suspended(c)' => Suspended(c) /\ turn'[c].saved = turn[c].saved
    BY <1>5, SendIs DEF Suspended, Same
  <2>2. Onward
    BY <1>5, SendIs DEF Onward, Said
  <2>3. QED
    BY <1>5, <1>b, <2>1, <2>2, SendIs
<1>6. ASSUME NEW c \in Caller, Advance(c) PROVE FreshInv'
  <2>1. turn' = turn /\ ClientStep(c) /\ history \in Seq(MessageType) /\ ClientTypeOK
    BY <1>6, AdvanceIs DEF TypeOK, ClientTypeOK
  <2>2. made' = made /\ \A d \in Caller \ {c} : call'[d] = call[d]
    BY <2>1, ClientStepIs
  <2>3. \A d \in Caller : Suspended(d)' = Suspended(d)
    BY <2>1 DEF Suspended
  <2>4. \A d \in Caller : Suspended(d)' => \A m \in Within(turn'[d].saved) : Held(m)
    BY <2>1, <2>3 DEF Held
  <2>5. CASE history' = history /\ call[c].stage \in {"primary", "fallback"}
    <3>1. Onward
      BY <2>2, <2>5 DEF Onward, Said
    <3>2. \A m \in Within(history') : Held(m)
      BY <2>5 DEF Held
    <3>3. QED
      BY <2>4, <3>1, <3>2, FreshStep
  <2>6. CASE \E m \in MessageType :
                 /\ history' = Append(history, m) /\ m.id = Id(c) /\ ~Said(c, m) /\ Said(c, m)'
                 /\ \A n \in MessageType : Said(c, n) => Said(c, n)'
    <3>1. PICK m \in MessageType :
                 /\ history' = Append(history, m) /\ m.id = Id(c) /\ ~Said(c, m) /\ Said(c, m)'
                 /\ \A n \in MessageType : Said(c, n) => Said(c, n)'
      BY <2>6
    <3>2. \A d \in Caller : \A n \in MessageType : Said(d, n) => Said(d, n)'
      BY <2>2, <3>1 DEF Said
    <3>3. Onward
      BY <2>2, <3>2 DEF Onward
    <3>4. Within(history') = Within(history) \union {m}
      BY <2>1, <3>1, WithinAppend
    <3>5. Recorded(m)
      BY <2>2, <3>1 DEF Recorded
    <3>6. \A n \in Within(history') : Held(n) \/ Recorded(n)
      BY <3>4, <3>5 DEF Held
    <3>7. QED
      BY <2>4, <3>3, <3>6, FreshStep
  <2>7. QED
    BY <2>1, <2>5, <2>6, AppendedIs
<1>7. ASSUME NEW c \in Caller, Receive(c) PROVE FreshInv'
  <2>1. Suspended(c)' => Suspended(c) /\ turn'[c].saved = turn[c].saved
    BY <1>7, ReceiveIs DEF Suspended, Same
  <2>2. Onward
    BY <1>7, ReceiveIs DEF Onward, Said
  <2>3. QED
    BY <1>7, <1>b, <2>1, <2>2, ReceiveIs
<1>8. ASSUME NEW c \in Caller, Fail(c) PROVE FreshInv'
  <2>1. Suspended(c)' => Suspended(c) /\ turn'[c].saved = turn[c].saved
    BY <1>8, FailIs DEF Suspended, Same
  <2>2. Onward
    BY <1>8, FailIs DEF Onward, Said
  <2>3. QED
    BY <1>8, <1>b, <2>1, <2>2, FailIs
<1>9. ASSUME NEW c \in Caller, RestoreRead(c) PROVE FreshInv'
  <2>1. Suspended(c)' => Suspended(c) /\ turn'[c].saved = turn[c].saved
    BY <1>9, RestoreReadIs DEF Suspended
  <2>2. QED
    BY <1>9, <1>b, <1>c, <2>1, RestoreReadIs DEF clientVars
<1>10. ASSUME NEW c \in Caller, RestoreWrite(c) PROVE FreshInv'
  <2>1. /\ history' = turn[c].saved \o turn[c].copy /\ turn[c].phase = "restoring"
        /\ turn'[c].phase = "finish" /\ \A d \in Caller \ {c} : turn'[d] = turn[d]
    BY <1>10, RestoreWriteIs
  <2>2. Suspended(c) /\ ~Suspended(c)' /\ \A d \in Caller \ {c} : Suspended(d)' = Suspended(d)
    BY <2>1 DEF Suspended, PhaseInv
  <2>3. /\ Within(turn[c].copy) \subseteq Within(history)
        /\ Within(history') = Within(turn[c].saved) \union Within(turn[c].copy)
    BY <1>a, <2>1, WithinConcat DEF UniqueInv
  <2>4. \A m \in Within(history') : Held(m)
    BY <2>2, <2>3 DEF Held
  <2>5. \A d \in Caller : Suspended(d)' => \A m \in Within(turn'[d].saved) : Held(m)
    BY <2>1, <2>2 DEF Held
  <2>6. Onward
    BY <1>10, <1>c, RestoreWriteIs
  <2>7. QED
    BY <2>4, <2>5, <2>6, FreshStep
<1>11. ASSUME NEW c \in Caller, Finish(c) PROVE FreshInv'
  <2>1. Suspended(c)' = FALSE
    BY <1>11, FinishIs DEF Suspended
  <2>2. QED
    BY <1>11, <1>b, <1>c, <2>1, FinishIs DEF clientVars
<1>12. CASE Stopped
  <2>1. UNCHANGED <<history, call, made, turn>>
    BY <1>12 DEF Stopped, vars, clientVars
  <2>2. \A d \in Caller : Suspended(d)' = Suspended(d)
    BY <2>1 DEF Suspended
  <2>3. QED
    BY <1>c, <2>1, <2>2, FreshStep DEF Held
<1>13. QED
  BY <1>1, <1>2, <1>3, <1>4, <1>5, <1>6, <1>7, <1>8, <1>9, <1>10, <1>11, <1>12 DEF Next, Step

LEMMA InitUniqueFresh == Init => UniqueInv /\ FreshInv
<1> SUFFICES ASSUME Init PROVE UniqueInv /\ FreshInv
  OBVIOUS
<1>1. \A c \in Caller : turn[c].phase = "idle" /\ ~Suspended(c)
  BY DEF Init, NoTurn, Suspended
<1>2. Within(history) = {} /\ Distinct(history)
  BY DEF Init, ClientInit, Within, Distinct
<1>3. QED
  BY <1>1, <1>2 DEF UniqueInv, FreshInv, Fresh

LEMMA IInvStuttering ==
    ASSUME IInv, UNCHANGED vars
    PROVE  IInv'
<1>1. UNCHANGED <<history, call, made, usage, turn, turns, lock, result>>
  BY DEF vars, clientVars
<1>2. TypeOK' /\ PhaseInv' /\ LockInv'
  BY <1>1 DEF IInv, TypeOK, ClientTypeOK, PhaseInv, LockInv
<1>3. \A d \in Caller : Suspended(d)' = Suspended(d)
  BY <1>1 DEF Suspended
<1>4. UniqueInv'
  BY <1>1, <1>3, UniqueFrame DEF IInv
<1>5. Onward
  BY <1>1 DEF Onward, Said
<1>6. FreshInv'
  BY <1>1, <1>3, <1>5, FreshStep DEF IInv, Held
<1>7. QED
  BY <1>2, <1>4, <1>6 DEF IInv

LEMMA NextIInv == IInv /\ Next => IInv'
  BY NextTypeOK, NextPhase, NextLock, NextUnique, NextFresh DEF IInv

(* However the turns of the threads interleave, a client call is under way in
   exactly the phase that waits for it, one thread at most is inside suspend or
   restore, and no message stands twice in the history and what suspended calls
   have set aside. *)
THEOREM Invariant == Spec => []IInv
<1>1. Init => IInv
  BY InitTypeOK, InitPhase, InitUniqueFresh DEF IInv
<1>2. IInv /\ [Next]_vars => IInv'
  BY NextIInv, IInvStuttering
<1>3. QED
  BY <1>1, <1>2, PTL DEF Spec

(* Every variable keeps its type. *)
THEOREM TypeCorrect == Spec => []TypeOK
<1>1. IInv => TypeOK
  BY DEF IInv
<1>2. QED
  BY <1>1, Invariant, PTL

(* ConversationManager's suspend and restore, interleaved with each other and
   with appends that take no lock, may lose messages but never record one twice. *)
THEOREM NothingTwice == Spec => []NoMessageTwice
<1>1. IInv => NoMessageTwice
  BY DEF IInv, UniqueInv, Distinct, NoMessageTwice
<1>2. QED
  BY <1>1, Invariant, PTL

-----------------------------------------------------------------------------
(* One call at a time. *)

Others(c) == \A d \in Caller \ {c} : turn[d].phase = "idle"

LogOf ==
    \A c \in Caller :
        Others(c) => Log = IF Suspended(c) THEN turn[c].saved \o history ELSE history

LEMMA LogOfHolds == LogOf
<1> SUFFICES ASSUME NEW c \in Caller, Others(c)
             PROVE  Log = IF Suspended(c) THEN turn[c].saved \o history ELSE history
  BY DEF LogOf
<1>1. \A d \in Caller : Suspended(d) => d = c
  BY DEF Others, Suspended
<1>2. CASE Suspended(c)
  <2>1. (CHOOSE d \in Caller : Suspended(d)) = c
    BY <1>1, <1>2
  <2>2. QED
    BY <1>2, <2>1 DEF Log
<1>3. CASE ~Suspended(c)
  BY <1>1, <1>3 DEF Log
<1>4. QED
  BY <1>2, <1>3

LEMMA Busy ==
    ASSUME TypeOK, PhaseInv, NEW c \in Caller, Step(c)
    PROVE  turn[c].phase # "idle"
<1>1. CASE Advance(c)
  <2>1. InFlight(c)
    BY <1>1, AdvanceIs, ClientStepIs DEF TypeOK
  <2>2. QED
    BY <2>1 DEF PhaseInv, InFlight
<1>2. CASE SuspendRead(c) \/ SuspendClear(c)
  BY <1>2, SuspendReadIs, SuspendClearIs
<1>3. CASE Decline(c) \/ Send(c) \/ Receive(c) \/ Fail(c)
  BY <1>3, DeclineIs, SendIs, ReceiveIs, FailIs
<1>4. CASE RestoreRead(c) \/ RestoreWrite(c) \/ Finish(c)
  BY <1>4, RestoreReadIs, RestoreWriteIs, FinishIs
<1>5. QED
  BY <1>1, <1>2, <1>3, <1>4 DEF Step

(* What a step of the engine, apart from those of the client, leaves alone. *)
EngineStep(c) ==
    /\ \A d \in Caller \ {c} :
          /\ turn'[d] = turn[d] /\ call'[d] = call[d]
          /\ made'[d] = made[d] /\ result'[d] = result[d]
    /\ call[c].stage # "record_reply"
    /\ turn'[c].phase = "suspending" => SuspendRead(c)
    /\ turn'[c].phase = "restoring" => RestoreRead(c)

LEMMA EngineStepIs ==
    ASSUME TypeOK, PhaseInv, NEW c \in Caller, Begin(c) \/ Step(c), ~Advance(c)
    PROVE  EngineStep(c)
<1>a. turn[c].phase # "calling" => call[c].stage = "idle"
  BY DEF PhaseInv
<1>1. CASE Begin(c)
  BY <1>a, <1>1, BeginIs DEF EngineStep, clientVars
<1>2. CASE SuspendRead(c)
  BY <1>a, <1>2, SuspendReadIs DEF EngineStep, clientVars
<1>3. CASE SuspendClear(c)
  BY <1>a, <1>3, SuspendClearIs DEF EngineStep, clientVars
<1>4. CASE Decline(c)
  BY <1>a, <1>4, DeclineIs DEF EngineStep, clientVars
<1>5. CASE Send(c)
  BY <1>a, <1>5, SendIs DEF EngineStep, clientVars
<1>6. CASE Receive(c)
  BY <1>a, <1>6, ReceiveIs DEF EngineStep, clientVars
<1>7. CASE Fail(c)
  BY <1>a, <1>7, FailIs DEF EngineStep, clientVars
<1>8. CASE RestoreRead(c)
  BY <1>a, <1>8, RestoreReadIs DEF EngineStep, clientVars
<1>9. CASE RestoreWrite(c)
  BY <1>a, <1>9, RestoreWriteIs DEF EngineStep, clientVars
<1>10. CASE Finish(c)
  BY <1>a, <1>10, FinishIs DEF EngineStep, clientVars
<1>11. QED
  BY <1>1, <1>2, <1>3, <1>4, <1>5, <1>6, <1>7, <1>8, <1>9, <1>10 DEF Step

LEMMA Alone ==
    ASSUME TypeOK, PhaseInv, AloneInv, ~Threaded, NEW c \in Caller, Begin(c) \/ Step(c)
    PROVE  /\ Others(c)
           /\ \A d \in Caller \ {c} : turn'[d] = turn[d]
           /\ \A d \in Caller \ {c} :
                 /\ call'[d] = call[d] /\ made'[d] = made[d] /\ result'[d] = result[d]
                 /\ call[d].stage = "idle"
<1>1. Others(c)
  <2>1. CASE Begin(c)
    BY <2>1, BeginIs DEF Others
  <2>2. CASE Step(c)
    BY <2>2, Busy DEF AloneInv, Others
  <2>3. QED
    BY <2>1, <2>2
<1>2. CASE Advance(c)
  <2>1. UNCHANGED <<turn, result>> /\ made' = made /\ \A d \in Caller \ {c} : call'[d] = call[d]
    BY <1>2, AdvanceIs, ClientStepIs DEF TypeOK
  <2>2. QED
    BY <1>1, <2>1 DEF PhaseInv, Others
<1>3. CASE ~Advance(c)
  BY <1>1, <1>3, EngineStepIs DEF EngineStep, PhaseInv, Others
<1>4. QED
  BY <1>2, <1>3

LEMMA NextAlone ==
    ASSUME TypeOK, PhaseInv, AloneInv, ~Threaded, Next PROVE AloneInv'
<1>1. ASSUME NEW c \in Caller, Begin(c) \/ Step(c) PROVE AloneInv'
  <2>1. \A d \in Caller \ {c} : turn'[d].phase = "idle"
    BY <1>1, Alone DEF Others
  <2>2. turn'[c].phase = "suspending" => turn'[c].saved = history'
    <3>1. CASE SuspendRead(c)
      BY <3>1, SuspendReadIs DEF clientVars
    <3>2. CASE Advance(c)
      <4>1. turn' = turn /\ turn[c].phase = "calling"
        BY <3>2, AdvanceIs, ClientStepIs DEF TypeOK, PhaseInv, InFlight
      <4>2. QED
        BY <4>1
    <3>3. CASE ~SuspendRead(c) /\ ~Advance(c)
      BY <1>1, <3>3, EngineStepIs DEF EngineStep
    <3>4. QED
      BY <3>1, <3>2, <3>3
  <2>3. turn'[c].phase = "restoring" => turn'[c].copy = history'
    <3>1. CASE RestoreRead(c)
      BY <3>1, RestoreReadIs DEF clientVars
    <3>2. CASE Advance(c)
      <4>1. turn' = turn /\ turn[c].phase = "calling"
        BY <3>2, AdvanceIs, ClientStepIs DEF TypeOK, PhaseInv, InFlight
      <4>2. QED
        BY <4>1
    <3>3. CASE ~RestoreRead(c) /\ ~Advance(c)
      BY <1>1, <3>3, EngineStepIs DEF EngineStep
    <3>4. QED
      BY <3>1, <3>2, <3>3
  <2>4. QED
    BY <2>1, <2>2, <2>3 DEF AloneInv
<1>2. CASE Stopped
  BY <1>2 DEF Stopped, vars, clientVars, AloneInv
<1>3. QED
  BY <1>1, <1>2 DEF Next

(* A step leaves the log as it is while no prompt waits for its answer, or puts
   one new message behind it. *)
Unmoved == Log' = Log /\ \A d \in Caller : call[d].stage # "record_reply"

Moved(c, m) ==
    /\ Log' = Append(Log, m) /\ Log \in Seq(MessageType) /\ m \notin Within(Log)
    /\ m.id = Id(c) /\ made' = made /\ Others(c)
    /\ \/ m.role = "user" /\ call[c].stage = "record_user" /\ call'[c].stage = "record_reply"
       \/ m.role = "assistant" /\ call[c].stage = "record_reply"
       \/ m.role = "assistant" /\ call[c].stage = "record_fallback"

LEMMA LogStep ==
    ASSUME IInv, AloneInv, ~Threaded, Next
    PROVE  Unmoved \/ \E c \in Caller, m \in MessageType : Moved(c, m)
<1>a. /\ TypeOK /\ PhaseInv /\ history \in Seq(MessageType)
      /\ \A c \in Caller : turn[c].saved \in Seq(MessageType)
  BY DEF IInv, TypeOK, ClientTypeOK, TurnType
<1>b. LogOf /\ LogOf'
  BY LogOfHolds, PTL
<1>1. ASSUME NEW c \in Caller, Begin(c) \/ Step(c), ~Advance(c) PROVE Unmoved
  <2>1. Others(c) /\ Others(c)'
    BY <1>a, <1>1, Alone DEF Others
  <2>2. Log = IF Suspended(c) THEN turn[c].saved \o history ELSE history
    BY <1>b, <2>1 DEF LogOf
  <2>3. Log' = IF Suspended(c)' THEN turn'[c].saved \o history' ELSE history'
    BY <1>b, <2>1 DEF LogOf
  <2>4. \A d \in Caller : call[d].stage # "record_reply"
    <3>1. \A d \in Caller \ {c} : call[d].stage # "record_reply"
      BY <1>a, <1>1, Alone
    <3>2. call[c].stage # "record_reply"
      BY <1>a, <1>1, EngineStepIs DEF EngineStep
    <3>3. QED
      BY <3>1, <3>2
  <2>5. CASE SuspendClear(c)
    <3>1. /\ history' = <<>> /\ turn'[c].saved = turn[c].saved /\ turn[c].saved = history
          /\ ~Suspended(c) /\ Suspended(c)'
      BY <1>a, <2>5, SuspendClearIs DEF AloneInv, Suspended, Same, PhaseInv
    <3>2. history \o <<>> = history
      BY <1>a
    <3>3. QED
      BY <2>2, <2>3, <2>4, <3>1, <3>2 DEF Unmoved
  <2>6. CASE RestoreWrite(c)
    <3>1. /\ history' = turn[c].saved \o turn[c].copy /\ turn[c].copy = history
          /\ Suspended(c) /\ ~Suspended(c)'
      BY <1>a, <2>6, RestoreWriteIs DEF AloneInv, Suspended, PhaseInv
    <3>2. QED
      BY <2>2, <2>3, <2>4, <3>1 DEF Unmoved
  <2>7. CASE ~SuspendClear(c) /\ ~RestoreWrite(c)
    <3>1. history' = history
      BY <1>a, <1>1, <2>7, BeginIs, SuspendReadIs, DeclineIs, SendIs, ReceiveIs, FailIs,
         RestoreReadIs, FinishIs DEF Step, clientVars
    <3>2. CASE Begin(c) \/ SuspendRead(c) \/ Finish(c)
      <4>1. ~Suspended(c) /\ ~Suspended(c)'
        BY <1>a, <3>2, BeginIs, SuspendReadIs, FinishIs DEF Suspended
      <4>2. QED
        BY <2>2, <2>3, <2>4, <3>1, <4>1 DEF Unmoved
    <3>3. CASE Decline(c) \/ Send(c) \/ Receive(c) \/ Fail(c) \/ RestoreRead(c)
      <4>1. turn'[c].saved = turn[c].saved /\ turn'[c].declarative = turn[c].declarative
        BY <1>a, <3>3, DeclineIs, SendIs, ReceiveIs, FailIs, RestoreReadIs DEF Same
      <4>2. Suspended(c)' <=> Suspended(c)
        BY <1>a, <3>3, <4>1, DeclineIs, SendIs, ReceiveIs, FailIs, RestoreReadIs DEF Suspended
      <4>3. QED
        BY <2>2, <2>3, <2>4, <3>1, <4>1, <4>2 DEF Unmoved
    <3>4. QED
      BY <1>1, <2>7, <3>2, <3>3 DEF Step
  <2>8. QED
    BY <2>5, <2>6, <2>7
<1>2. ASSUME NEW c \in Caller, Advance(c)
      PROVE  Unmoved \/ \E m \in MessageType : Moved(c, m)
  <2>1. turn' = turn /\ ClientStep(c) /\ made' = made
    BY <1>a, <1>2, AdvanceIs, ClientStepIs DEF TypeOK
  <2>2. Others(c) /\ Others(c)' /\ \A d \in Caller \ {c} : call[d].stage = "idle"
    BY <1>a, <1>2, <2>1, Alone DEF Others, Step
  <2>3. Log = IF Suspended(c) THEN turn[c].saved \o history ELSE history
    BY <1>b, <2>2 DEF LogOf
  <2>4. Log' = IF Suspended(c) THEN turn[c].saved \o history' ELSE history'
    BY <1>b, <2>1, <2>2 DEF LogOf, Suspended
  <2>5. CASE history' = history /\ call[c].stage \in {"primary", "fallback"}
    BY <2>2, <2>3, <2>4, <2>5 DEF Unmoved
  <2>6. CASE \E m \in MessageType :
                 /\ history' = Append(history, m) /\ m.id = Id(c) /\ ~Said(c, m)
                 /\ \/ m.role = "user" /\ call[c].stage = "record_user" /\ call'[c].stage = "record_reply"
                    \/ m.role = "assistant" /\ call[c].stage = "record_reply"
                    \/ m.role = "assistant" /\ call[c].stage = "record_fallback"
    <3>1. PICK m \in MessageType :
                 /\ history' = Append(history, m) /\ m.id = Id(c) /\ ~Said(c, m)
                 /\ \/ m.role = "user" /\ call[c].stage = "record_user" /\ call'[c].stage = "record_reply"
                    \/ m.role = "assistant" /\ call[c].stage = "record_reply"
                    \/ m.role = "assistant" /\ call[c].stage = "record_fallback"
      BY <2>6
    <3>2. m \notin Within(history) /\ \A d \in Caller : Suspended(d) => m \notin Within(turn[d].saved)
      BY <1>a, <3>1, NewMessage DEF IInv
    <3>3. Log' = Append(Log, m) /\ Log \in Seq(MessageType) /\ m \notin Within(Log)
      <4>1. CASE Suspended(c)
        <5>1. turn[c].saved \o Append(history, m) = Append(turn[c].saved \o history, m)
          BY <1>a, ConcatAppend
        <5>2. Within(turn[c].saved \o history) = Within(turn[c].saved) \union Within(history)
          BY <1>a, WithinConcat
        <5>3. QED
          BY <1>a, <2>3, <2>4, <3>1, <3>2, <4>1, <5>1, <5>2
      <4>2. CASE ~Suspended(c)
        BY <1>a, <2>3, <2>4, <3>1, <3>2, <4>2
      <4>3. QED
        BY <4>1, <4>2
    <3>4. QED
      BY <2>1, <2>2, <3>1, <3>3 DEF Moved
  <2>7. QED
    BY <1>a, <2>1, <2>5, <2>6, AppendedIs
<1>3. CASE Stopped
  <2>1. turn' = turn /\ history' = history /\ \A d \in Caller : turn[d].phase = "idle"
    BY <1>3 DEF Stopped, Rest, vars, clientVars
  <2>2. \A d \in Caller : ~Suspended(d) /\ ~Suspended(d)' /\ call[d].stage # "record_reply"
    BY <1>a, <2>1 DEF Suspended, PhaseInv
  <2>3. Log = history /\ Log' = history'
    BY <2>2 DEF Log
  <2>4. QED
    BY <2>1, <2>2, <2>3 DEF Unmoved
<1>4. QED
  BY <1>1, <1>2, <1>3 DEF Next

LEMMA NextPair ==
    ASSUME IInv, AloneInv, PairInv, ~Threaded, Next PROVE PairInv'
<1>1. CASE Unmoved
  BY <1>1 DEF Unmoved, PairInv
<1>2. ASSUME NEW c \in Caller, NEW m \in MessageType, Moved(c, m) PROVE PairInv'
  <2> DEFINE n == Len(Log)
  <2>1. /\ Log \in Seq(MessageType) /\ n \in Nat /\ DOMAIN Log = 1..n
        /\ Len(Log') = n + 1 /\ DOMAIN Log' = 1..(n + 1)
        /\ Log'[n + 1] = m /\ \A i \in 1..n : Log'[i] = Log[i]
    BY <1>2 DEF Moved
  <2> HIDE DEF n
  <2>2. m.id = Id(c) /\ Id(c)' = Id(c)
    BY <1>2 DEF Moved, Id
  <2>3. \A d \in Caller : call[d].stage = "record_reply" => d = c
    BY <1>2 DEF Moved, Others, IInv, PhaseInv
  <2>4. \A i \in 1..n : Log[i].role = "user" =>
            \/ i < n /\ Log[i + 1].role = "assistant" /\ Log[i + 1].id = Log[i].id
            \/ i = n /\ call[c].stage = "record_reply" /\ Log[i].id = Id(c)
    BY <2>1, <2>3 DEF PairInv, n
  <2>5. ASSUME NEW i \in 1..n, Log'[i].role = "user"
        PROVE  Log'[i + 1].role = "assistant" /\ Log'[i + 1].id = Log'[i].id
    <3>1. CASE i < n
      BY <2>1, <2>4, <2>5, <3>1
    <3>2. CASE i = n
      <4>1. call[c].stage = "record_reply" /\ Log[i].id = Id(c)
        BY <2>1, <2>4, <2>5, <3>2
      <4>2. m.role = "assistant"
        BY <1>2, <4>1 DEF Moved
      <4>3. QED
        BY <2>1, <2>2, <3>2, <4>1, <4>2
    <3>3. QED
      BY <2>1, <3>1, <3>2
  <2>6. m.role = "user" => call'[c].stage = "record_reply" /\ m.id = Id(c)'
    BY <1>2, <2>2 DEF Moved
  <2>7. QED
    BY <2>1, <2>5, <2>6 DEF PairInv
<1>3. QED
  BY <1>1, <1>2, LogStep

(* Only c's own part of the context can move. *)
LEMMA ContextFrame ==
    ASSUME PhaseInv', NEW c \in Caller, \A d \in Caller \ {c} : turn'[d].phase = "idle",
           turn'[c].phase # "idle" => turn'[c].first <= made'[c] + 1,
           turn'[c].phase = "calling" => turn'[c].first <= made'[c],
           turn'[c].phase \in {"prepare", "calling", "again"} => Continues(c, history)',
           InFlight(c)' => Continues(c, call[c].seen)'
    PROVE  ContextInv'
<1>1. ASSUME NEW d \in Caller, d # c
      PROVE  turn'[d].phase = "idle" /\ ~InFlight(d)'
  BY <1>1 DEF PhaseInv, InFlight
<1>2. QED
  BY <1>1 DEF ContextInv

(* What a turn promises stays while it keeps its kind, its start and its number. *)
LEMMA ContinuesSame ==
    ASSUME NEW c \in Caller, Same(c)
    PROVE  /\ Continues(c, history)' <=> Continues(c, history')
           /\ Continues(c, call[c].seen)' <=> Continues(c, call'[c].seen)
  BY DEF Same, Continues, Context, Own

LEMMA ContinuesAppend ==
    ASSUME TypeOK, NEW c \in Caller, NEW m \in MessageType, Continues(c, history),
           m.id = Id(c), turn[c].first <= made[c]
    PROVE  Continues(c, Append(history, m))
<1>a. /\ history \in Seq(MessageType) /\ turn[c].before \in Seq(MessageType)
      /\ turn[c].first \in Nat /\ made[c] \in Nat
  BY DEF TypeOK, ClientTypeOK, TurnType
<1>1. Own(c, m)
  BY DEF Own, Id
<1>2. Len(Context(c)) \in Nat /\ Len(Context(c)) <= Len(history)
  BY <1>a DEF Context, Continues
<1> DEFINE u == Append(history, m)
           n == Len(history)
<1>3. /\ n \in Nat /\ DOMAIN history = 1..n /\ Len(u) = n + 1 /\ DOMAIN u = 1..(n + 1)
      /\ u[n + 1] = m /\ \A i \in 1..n : u[i] = history[i]
  BY <1>a
<1> HIDE DEF u, n
<1>4. ASSUME NEW i \in 1..(n + 1)
      PROVE  IF i <= Len(Context(c)) THEN u[i] = Context(c)[i] /\ ~Own(c, u[i]) ELSE Own(c, u[i])
  <2>1. CASE i \in 1..n
    BY <1>3, <2>1 DEF Continues
  <2>2. CASE i = n + 1
    BY <1>1, <1>2, <1>3, <2>2 DEF n
  <2>3. QED
    BY <1>3, <2>1, <2>2
<1>5. QED
  BY <1>2, <1>3, <1>4 DEF Continues, u, n

LEMMA NextContext ==
    ASSUME IInv, IInv', AloneInv, ContextInv, ~Threaded, Next PROVE ContextInv'
<1>a. /\ TypeOK /\ PhaseInv /\ PhaseInv' /\ FreshInv /\ history \in Seq(MessageType)
      /\ \A c \in Caller : made[c] \in Nat /\ turn[c].first \in Nat
  BY DEF IInv, TypeOK, ClientTypeOK, TurnType
<1>b. ASSUME NEW c \in Caller, Begin(c) \/ Step(c)
      PROVE  \A d \in Caller \ {c} : turn'[d].phase = "idle"
  BY <1>a, <1>b, Alone DEF Others
<1>c. ASSUME NEW c \in Caller, ~InFlight(c), UNCHANGED <<call, made>> PROVE ~InFlight(c)'
  BY <1>c DEF InFlight
<1>1. ASSUME NEW c \in Caller, Begin(c) PROVE ContextInv'
  <2>1. /\ UNCHANGED <<history, call, made>> /\ turn[c].phase = "idle"
        /\ turn'[c].phase = IF turn'[c].declarative THEN "suspend" ELSE "prepare"
        /\ turn'[c].first = made[c] + 1 /\ turn'[c].before = history
    BY <1>a, <1>1, BeginIs DEF clientVars
  <2>2. ~InFlight(c)'
    BY <1>a, <2>1 DEF PhaseInv, InFlight
  <2>3. turn'[c].phase = "prepare" => Continues(c, history)'
    <3> SUFFICES ASSUME turn'[c].phase = "prepare" PROVE Continues(c, history)'
      OBVIOUS
    <3>1. Context(c)' = history /\ history' = history
      BY <2>1 DEF Context
    <3>2. \A i \in DOMAIN history : history[i] \in MessageType /\ i <= Len(history)
      BY <1>a
    <3>3. \A i \in DOMAIN history : ~Own(c, history[i])'
      <4> SUFFICES ASSUME NEW i \in DOMAIN history PROVE ~Own(c, history[i])'
        OBVIOUS
      <4>2. history[i].id[2] \in Nat
        BY <3>2 DEF MessageType
      <4>1. history[i].id[1] = c => history[i].id[2] <= made[c]
        <5>1. history[i].id[1] = c =>
                 history[i].id[2] < made[c] \/ (history[i].id[2] = made[c] /\ Said(c, history[i]))
          BY <1>a DEF FreshInv, Fresh, Within
        <5>2. QED
          BY <1>a, <4>2, <5>1
      <4>3. history'[i].id[1] = c => ~(history'[i].id[2] >= turn'[c].first)
        BY <1>a, <2>1, <3>1, <4>1, <4>2
      <4>4. QED
        BY <4>3 DEF Own
    <3>4. Len(history) \in Nat
      BY <1>a
    <3>5. QED
      BY <3>1, <3>2, <3>3, <3>4 DEF Continues
  <2>4. QED
    BY <1>a, <1>b, <1>1, <2>1, <2>2, <2>3, ContextFrame
<1>2. ASSUME NEW c \in Caller, SuspendRead(c) PROVE ContextInv'
  <2>1. /\ UNCHANGED <<history, call, made>> /\ turn[c].phase = "suspend" /\ turn'[c].phase = "suspending"
        /\ turn'[c].first = turn[c].first
    BY <1>a, <1>2, SuspendReadIs DEF clientVars
  <2>2. ~InFlight(c)'
    BY <1>a, <2>1 DEF PhaseInv, InFlight
  <2>3. turn'[c].first <= made'[c] + 1
    BY <2>1 DEF ContextInv
  <2>4. QED
    BY <1>a, <1>b, <1>2, <2>1, <2>2, <2>3, ContextFrame DEF Step
<1>3. ASSUME NEW c \in Caller, SuspendClear(c) PROVE ContextInv'
  <2>1. /\ UNCHANGED <<call, made>> /\ history' = <<>>
        /\ turn[c].phase = "suspending" /\ turn'[c].phase = "prepare" /\ Same(c)
    BY <1>a, <1>3, SuspendClearIs
  <2>2. ~InFlight(c)'
    BY <1>a, <2>1 DEF PhaseInv, InFlight
  <2>3. turn'[c].first <= made'[c] + 1
    BY <2>1 DEF ContextInv, Same
  <2>4. Context(c)' = <<>>
    BY <1>a, <2>1 DEF Context, Same, PhaseInv
  <2>5. Continues(c, history)'
    BY <2>1, <2>4 DEF Continues
  <2>6. QED
    BY <1>a, <1>b, <1>3, <2>1, <2>2, <2>3, <2>5, ContextFrame DEF Step
<1>4. ASSUME NEW c \in Caller, Decline(c) PROVE ContextInv'
  <2>1. /\ UNCHANGED <<call, made>> /\ turn[c].phase = "prepare" /\ Same(c)
        /\ turn'[c].phase \in {"restore", "finish"}
    BY <1>a, <1>4, DeclineIs DEF clientVars
  <2>2. ~InFlight(c)'
    BY <1>a, <2>1 DEF PhaseInv, InFlight
  <2>3. turn'[c].first <= made'[c] + 1
    BY <2>1 DEF ContextInv, Same
  <2>4. QED
    BY <1>a, <1>b, <1>4, <2>1, <2>2, <2>3, ContextFrame DEF Step
<1>5. ASSUME NEW c \in Caller, Send(c) PROVE ContextInv'
  <2>1. /\ history' = history /\ turn[c].phase \in {"prepare", "again"} /\ Same(c)
        /\ turn'[c].phase = "calling" /\ made'[c] = made[c] + 1
        /\ \/ call'[c].stage = "primary" /\ call'[c].seen = history
           \/ call'[c].stage = "raised"
    BY <1>a, <1>5, SendIs
  <2>2. turn'[c].first <= made'[c]
    BY <1>a, <2>1 DEF ContextInv, Same
  <2>3. turn'[c].first <= made'[c] + 1
    BY <1>a, <2>1, <2>2 DEF Same
  <2>4. Continues(c, history)
    BY <2>1 DEF ContextInv
  <2>5. Continues(c, history)'
    BY <2>1, <2>4, ContinuesSame
  <2>6. InFlight(c)' => Continues(c, call[c].seen)'
    BY <2>1, <2>4, ContinuesSame DEF InFlight
  <2>7. QED
    BY <1>a, <1>b, <1>5, <2>1, <2>2, <2>3, <2>5, <2>6, ContextFrame DEF Step
<1>6. ASSUME NEW c \in Caller, Advance(c) PROVE ContextInv'
  <2>1. turn' = turn /\ ClientStep(c) /\ Same(c)
    BY <1>a, <1>6, AdvanceIs DEF Same
  <2>2. made' = made /\ call'[c].seen = call[c].seen /\ InFlight(c) /\ turn[c].phase = "calling"
    BY <1>a, <2>1, ClientStepIs DEF TypeOK, PhaseInv, InFlight
  <2>3. turn[c].first <= made[c] /\ Continues(c, history) /\ Continues(c, call[c].seen)
    BY <2>2 DEF ContextInv
  <2>4. Continues(c, call[c].seen)'
    BY <2>1, <2>2, <2>3, ContinuesSame
  <2>5. Continues(c, history')
    <3>1. CASE history' = history
      BY <2>3, <3>1
    <3>2. CASE history' # history
      <4>1. PICK m \in MessageType : history' = Append(history, m) /\ m.id = Id(c)
        BY <1>a, <2>1, <3>2, AppendedIs
      <4>2. QED
        BY <1>a, <2>3, <4>1, ContinuesAppend
    <3>3. QED
      BY <3>1, <3>2
  <2>6. Continues(c, history)'
    BY <2>1, <2>5, ContinuesSame
  <2>7. turn[c].first <= made[c] + 1
    BY <2>2 DEF ContextInv
  <2>8. QED
    BY <1>a, <1>b, <1>6, <2>1, <2>2, <2>3, <2>4, <2>6, <2>7, ContextFrame DEF Step
<1>7. ASSUME NEW c \in Caller, Receive(c) PROVE ContextInv'
  <2>1. /\ UNCHANGED <<history, made>> /\ turn[c].phase = "calling" /\ Same(c)
        /\ turn'[c].phase \in {"restore", "finish", "again"} /\ call'[c].stage = "idle"
    BY <1>a, <1>7, ReceiveIs
  <2>2. ~InFlight(c)'
    BY <2>1 DEF InFlight
  <2>3. turn'[c].first <= made'[c] + 1
    BY <2>1 DEF ContextInv, Same
  <2>4. Continues(c, history)'
    BY <2>1, ContinuesSame DEF ContextInv
  <2>5. QED
    BY <1>a, <1>b, <1>7, <2>1, <2>2, <2>3, <2>4, ContextFrame DEF Step
<1>8. ASSUME NEW c \in Caller, Fail(c) PROVE ContextInv'
  <2>1. /\ UNCHANGED <<history, made>> /\ turn[c].phase = "calling" /\ Same(c)
        /\ turn'[c].phase \in {"restore", "finish"} /\ call'[c].stage = "idle"
    BY <1>a, <1>8, FailIs
  <2>2. ~InFlight(c)'
    BY <2>1 DEF InFlight
  <2>3. turn'[c].first <= made'[c] + 1
    BY <2>1 DEF ContextInv, Same
  <2>4. QED
    BY <1>a, <1>b, <1>8, <2>1, <2>2, <2>3, ContextFrame DEF Step
<1>9. ASSUME NEW c \in Caller, RestoreRead(c) \/ RestoreWrite(c) \/ Finish(c) PROVE ContextInv'
  <2>1. /\ UNCHANGED <<call, made>> /\ turn[c].phase \in {"restore", "restoring", "finish"}
        /\ turn'[c].phase \in {"restoring", "finish", "idle"} /\ turn'[c].first = turn[c].first
    BY <1>a, <1>9, RestoreReadIs, RestoreWriteIs, FinishIs DEF clientVars, Same
  <2>2. ~InFlight(c)'
    BY <1>a, <2>1 DEF PhaseInv, InFlight
  <2>3. turn'[c].first <= made'[c] + 1
    BY <2>1 DEF ContextInv
  <2>4. QED
    BY <1>a, <1>b, <1>9, <2>1, <2>2, <2>3, ContextFrame DEF Step
<1>10. CASE Stopped
  <2>1. UNCHANGED <<history, call, made, turn>>
    BY <1>10 DEF Stopped, vars, clientVars
  <2>2. \A c \in Caller : turn[c].phase = "idle" /\ ~InFlight(c)
    BY <1>a, <1>10 DEF Stopped, Rest, PhaseInv, InFlight
  <2>3. QED
    BY <2>1, <2>2 DEF ContextInv, InFlight
<1>11. QED
  BY <1>1, <1>2, <1>3, <1>4, <1>5, <1>6, <1>7, <1>8, <1>9, <1>10 DEF Next, Step

LEMMA NextUsage ==
    ASSUME IInv, AloneInv, UsageInv, ~Threaded, Next PROVE UsageInv'
<1>a. TypeOK /\ PhaseInv
  BY DEF IInv
<1>b. ASSUME NEW c \in Caller, Begin(c) \/ Step(c),
             call'[c].stage \in {"record_reply", "replied"} => usage' = {Id(c)'},
             turn'[c].phase \in {"restore", "restoring", "finish"} /\ result'[c].status = "success" =>
                 usage' = {Id(c)'} /\ ~turn'[c].failed,
             turn'[c].phase = "idle" /\ result'[c].status = "success" => result'[c].usage = {Id(c)'}
      PROVE  UsageInv'
  <2>1. ASSUME NEW d \in Caller, d # c
        PROVE  /\ turn[d].phase = "idle" /\ call[d].stage = "idle" /\ turn'[d] = turn[d]
               /\ call'[d] = call[d] /\ result'[d] = result[d] /\ Id(d)' = Id(d)
    BY <1>a, <1>b, <2>1, Alone DEF Others, Id
  <2>2. ASSUME NEW d \in Caller, d # c
        PROVE  /\ call'[d].stage \notin {"record_reply", "replied"}
               /\ turn'[d].phase = "idle"
               /\ result'[d].status = "success" => result'[d].usage = {Id(d)'}
    BY <2>1, <2>2 DEF UsageInv
  <2>3. QED
    BY <1>b, <2>2 DEF UsageInv
<1>1. ASSUME NEW c \in Caller, Begin(c) PROVE UsageInv'
  <2>1. /\ call' = call /\ turn[c].phase = "idle" /\ call[c].stage = "idle"
        /\ turn'[c].phase \in {"suspend", "prepare"}
    BY <1>a, <1>1, BeginIs DEF clientVars, PhaseInv
  <2>2. QED
    BY <1>1, <1>b, <2>1
<1>2. ASSUME NEW c \in Caller, SuspendRead(c) \/ SuspendClear(c) PROVE UsageInv'
  <2>1. /\ call' = call /\ turn'[c].phase \in {"suspending", "prepare"}
        /\ turn[c].phase \in {"suspend", "suspending"}
    BY <1>a, <1>2, SuspendReadIs, SuspendClearIs DEF clientVars
  <2>2. call[c].stage = "idle"
    BY <1>a, <2>1 DEF PhaseInv
  <2>3. QED
    BY <1>2, <1>b, <2>1, <2>2 DEF Step
<1>3. ASSUME NEW c \in Caller, Decline(c) PROVE UsageInv'
  <2>1. /\ call' = call /\ turn[c].phase = "prepare" /\ result'[c].status # "success"
        /\ turn'[c].phase \in {"restore", "finish"}
    BY <1>a, <1>3, DeclineIs DEF clientVars
  <2>2. call[c].stage = "idle"
    BY <1>a, <2>1 DEF PhaseInv
  <2>3. QED
    BY <1>3, <1>b, <2>1, <2>2 DEF Step
<1>4. ASSUME NEW c \in Caller, Send(c) PROVE UsageInv'
  BY <1>a, <1>b, <1>4, SendIs DEF Step
<1>5. ASSUME NEW c \in Caller, Advance(c) PROVE UsageInv'
  <2>1. turn' = turn /\ ClientStep(c) /\ made' = made /\ InFlight(c)
    BY <1>a, <1>5, AdvanceIs, ClientStepIs DEF TypeOK
  <2>2. turn[c].phase = "calling" /\ Id(c)' = Id(c)
    BY <1>a, <2>1 DEF PhaseInv, InFlight, Id
  <2>3. call'[c].stage \in {"record_reply", "replied"} => usage' = {Id(c)}
    BY <1>a, <2>1, ClientStepIs DEF TypeOK, UsageInv
  <2>4. QED
    BY <1>5, <1>b, <2>1, <2>2, <2>3 DEF Step
<1>6. ASSUME NEW c \in Caller, Receive(c) PROVE UsageInv'
  <2>1. /\ UNCHANGED <<made, usage>> /\ call[c].stage = "replied" /\ call'[c].stage = "idle"
        /\ \/ turn'[c].phase \in {"restore", "finish"} /\ ~turn'[c].failed
           \/ turn'[c].phase = "again"
    BY <1>a, <1>6, ReceiveIs
  <2>2. usage' = {Id(c)'}
    BY <2>1 DEF UsageInv, Id
  <2>3. QED
    BY <1>6, <1>b, <2>1, <2>2 DEF Step
<1>7. ASSUME NEW c \in Caller, Fail(c) PROVE UsageInv'
  <2>1. /\ call'[c].stage = "idle" /\ turn'[c].phase \in {"restore", "finish"}
        /\ result'[c].status # "success"
    BY <1>a, <1>7, FailIs
  <2>2. QED
    BY <1>7, <1>b, <2>1 DEF Step
<1>8. ASSUME NEW c \in Caller, RestoreRead(c) \/ RestoreWrite(c) PROVE UsageInv'
  <2>1. /\ UNCHANGED <<call, made, usage, result>> /\ turn'[c].failed = turn[c].failed
        /\ turn[c].phase \in {"restore", "restoring"} /\ turn'[c].phase \in {"restoring", "finish"}
    BY <1>a, <1>8, RestoreReadIs, RestoreWriteIs DEF clientVars
  <2>2. call[c].stage = "idle" /\ Id(c)' = Id(c)
    BY <1>a, <2>1 DEF PhaseInv, Id
  <2>3. result[c].status = "success" => usage = {Id(c)} /\ ~turn[c].failed
    BY <2>1 DEF UsageInv
  <2>4. QED
    BY <1>8, <1>b, <2>1, <2>2, <2>3 DEF Step
<1>9. ASSUME NEW c \in Caller, Finish(c) PROVE UsageInv'
  <2>1. /\ UNCHANGED <<call, made, usage>> /\ turn[c].phase = "finish" /\ turn'[c].phase = "idle"
        /\ result'[c].status = result[c].status
        /\ ~turn[c].failed => result'[c].usage = usage
    BY <1>a, <1>9, FinishIs DEF clientVars
  <2>2. call[c].stage = "idle" /\ Id(c)' = Id(c)
    BY <1>a, <2>1 DEF PhaseInv, Id
  <2>3. result[c].status = "success" => usage = {Id(c)} /\ ~turn[c].failed
    BY <2>1 DEF UsageInv
  <2>4. QED
    BY <1>9, <1>b, <2>1, <2>2, <2>3 DEF Step
<1>10. CASE Stopped
  BY <1>10 DEF Stopped, vars, clientVars, UsageInv, Id
<1>11. QED
  BY <1>1, <1>2, <1>3, <1>4, <1>5, <1>6, <1>7, <1>8, <1>9, <1>10 DEF Next, Step

LEMMA InitOne == Init => OneInv
<1> SUFFICES ASSUME Init PROVE OneInv
  OBVIOUS
<1>1. \A c \in Caller :
         /\ turn[c].phase = "idle" /\ ~Suspended(c) /\ ~InFlight(c) /\ call[c].stage = "idle"
         /\ result[c].status = "none"
  BY DEF Init, ClientInit, NoTurn, NoCall, NoAnswer, Suspended, InFlight
<1>2. Log = <<>>
  BY <1>1 DEF Log, Init, ClientInit
<1>3. PairInv
  BY <1>2 DEF PairInv
<1>4. QED
  BY <1>1, <1>3 DEF OneInv, AloneInv, ContextInv, UsageInv

LEMMA NextOne == IInv /\ IInv' /\ OneInv /\ [Next]_vars => OneInv'
<1> SUFFICES ASSUME IInv, IInv', OneInv, [Next]_vars, ~Threaded PROVE OneInv'
  BY DEF OneInv
<1>a. AloneInv /\ ContextInv /\ PairInv /\ UsageInv /\ TypeOK /\ PhaseInv
  BY DEF OneInv, IInv
<1>1. CASE Next
  BY <1>a, <1>1, NextAlone, NextContext, NextPair, NextUsage DEF OneInv
<1>2. CASE UNCHANGED vars
  <2>1. UNCHANGED <<history, call, made, usage, turn, turns, lock, result>>
    BY <1>2 DEF vars, clientVars
  <2>2. \A c \in Caller : Suspended(c)' = Suspended(c) /\ Id(c)' = Id(c) /\ InFlight(c)' = InFlight(c)
    BY <2>1 DEF Suspended, Id, InFlight
  <2>3. Log' = Log
    BY <2>1, <2>2 DEF Log
  <2>4. AloneInv'
    BY <1>a, <2>1 DEF AloneInv
  <2>5. ContextInv'
    BY <1>a, <2>1, <2>2 DEF ContextInv, Continues, Context, Own
  <2>6. PairInv'
    BY <1>a, <2>1, <2>2, <2>3 DEF PairInv
  <2>7. UsageInv'
    BY <1>a, <2>1, <2>2 DEF UsageInv
  <2>8. QED
    BY <2>4, <2>5, <2>6, <2>7 DEF OneInv
<1>3. QED
  BY <1>1, <1>2

(* With one call at a time: what the other theorems of one call rest on. *)
THEOREM OneInvariant == Spec => []OneInv
<1>1. QED
  BY InitOne, NextOne, Invariant, PTL DEF Spec

(* should_suspend and suspend: the request of a declarative call carries nothing
   of the conversation, that of any other all of it, and both the answers of
   their own earlier structured attempts, however many calls came before. *)
THEOREM OwnContext == Spec => []RequestContext
<1>1. OneInv => RequestContext
  BY DEF OneInv, ContextInv, RequestContext
<1>2. QED
  BY <1>1, OneInvariant, PTL

(* _record_response and restore: a prompt is never left in the conversation
   without its answer behind it, whatever fails or is retried. *)
THEOREM Answered == Spec => []ReplyFollowsPrompt
<1>1. OneInv => ReplyFollowsPrompt
  BY DEF OneInv, PairInv, ReplyFollowsPrompt
<1>2. QED
  BY <1>1, OneInvariant, PTL

(* last_usage, read after the conversation is restored, is that of the call whose
   answer is returned. *)
THEOREM OwnUsage == Spec => []UsageIsOwn
<1>1. OneInv => UsageIsOwn
  BY DEF OneInv, UsageInv, UsageIsOwn
<1>2. QED
  BY <1>1, OneInvariant, PTL

(* With one call at a time, the client's history and what suspend set aside are
   an append-only log to which every message comes once. *)
THEOREM Implements == ASSUME ~Threaded PROVE Spec => ImplementsLog
<1>1. Init => Record!Init
  <2> SUFFICES ASSUME Init PROVE Log = <<>>
    BY DEF Record!Init
  <2>1. \A c \in Caller : ~Suspended(c)
    BY DEF Init, NoTurn, Suspended
  <2>2. QED
    BY <2>1 DEF Log, Init, ClientInit
<1>2. ASSUME IInv, OneInv, [Next]_vars PROVE [Record!Add]_Log
  <2>1. CASE Next
    <3>1. CASE Unmoved
      BY <3>1 DEF Unmoved
    <3>2. ASSUME NEW c \in Caller, NEW m \in MessageType, Moved(c, m) PROVE Record!Add
      <4>1. Log' = Append(Log, m) /\ Log \in Seq(MessageType) /\ m \notin Within(Log)
        BY <3>2 DEF Moved
      <4>2. Len(Log') = Len(Log) + 1 /\ Log'[Len(Log')] = m /\ \A i \in DOMAIN Log : Log'[i] = Log[i]
        BY <4>1
      <4>3. \A i \in DOMAIN Log : Log[i] # m
        BY <4>1 DEF Within
      <4>4. QED
        BY <4>2, <4>3 DEF Record!Add
    <3>3. QED
      BY <1>2, <2>1, <3>1, <3>2, LogStep DEF OneInv
  <2>2. CASE UNCHANGED vars
    <3>1. turn' = turn /\ history' = history
      BY <2>2 DEF vars, clientVars
    <3>2. QED
      BY <3>1 DEF Log, Suspended
  <2>3. QED
    BY <1>2, <2>1, <2>2
<1>3. QED
  BY <1>1, <1>2, Invariant, OneInvariant, PTL DEF Spec, ImplementsLog, Record!Spec
=============================================================================
