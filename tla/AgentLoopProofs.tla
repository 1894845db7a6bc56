--------------------------- MODULE AgentLoopProofs ---------------------------
(***************************************************************************)
(* Theorems of AgentLoop, for any number of rounds, tool calls, attempts,  *)
(* fallbacks and executions.                                               *)
(***************************************************************************)
EXTENDS AgentLoop, ChatClientProofs, FiniteSetTheorems

-----------------------------------------------------------------------------
(* The inductive invariant. *)

stage == call[Loop].stage

Reply(m) == m.role = "assistant"

(* Which call and which tool are under way in which phase. *)
ControlInv ==
    /\ stage # "idle" => phase \in {"asking", "single"}
    /\ phase = "asking" => stage # "idle"
    /\ phase = "single" /\ stage # "idle" => ~call[Loop].tools
    /\ ~call[Loop].tools => call[Loop].asked = 0
    /\ tool # "none" => phase = "tools"
    /\ phase = "tools" <=> todo # <<>>
    /\ phase # "idle" => executions > 0

(* The calls made are those counted; final is the last one answered. *)
CountInv ==
    /\ started <= made[Loop] /\ final <= made[Loop]
    /\ phase \in {"round", "asking", "tools"} => llm_calls = made[Loop] - started
    /\ phase = "idle" /\ executions > 0 /\ status # "raised" => llm_calls = made[Loop] - started
    /\ phase = "single" => made[Loop] = started + (IF stage = "idle" THEN 0 ELSE 1)
    /\ phase = "round" /\ llm_calls > 0 => final = made[Loop]
    /\ phase = "tools" => final = made[Loop] /\ llm_calls > 0
    /\ phase = "asking" => final < made[Loop] /\ llm_calls > 0
    /\ phase = "asking" /\ llm_calls > 1 => final = made[Loop] - 1
    /\ phase = "idle" /\ status = "success" => final \in {made[Loop], made[Loop] - 1}

(* Messages are about calls made; the answer of a call comes last. *)
ReplyInv ==
    /\ \A i \in DOMAIN history : history[i].id[2] <= made[Loop]
    /\ InFlight(Loop) =>
          \A i \in DOMAIN history : history[i].role # "user" => history[i].id[2] < made[Loop]
    /\ stage = "replied" =>
          /\ Len(history) > 0
          /\ Reply(history[Len(history)]) /\ history[Len(history)].id = Id(Loop)
          /\ ~call[Loop].tools => history[Len(history)].num = 0
          /\ \A i \in DOMAIN history :
                Reply(history[i]) /\ history[i].id[2] = made[Loop] => i = Len(history)
    /\ \A k \in DOMAIN todo :
          todo[k].role = "tool" /\ todo[k].id[2] > started /\ todo[k].id[2] <= made[Loop]

Tool(m, k) == Message("tool", m.id, k)

AnsweredAt(s, i) ==
    \A k \in 1..s[i].num : i + k <= Len(s) /\ s[i + k] = Tool(s[i], k)

Behind(s) ==
    \A j \in DOMAIN s : s[j].role = "tool" =>
        \E i \in 1..(j - 1) : Reply(s[i]) /\ s[j].num = j - i

(* Every tool call in s is answered. *)
Whole(s) == (\A i \in DOMAIN s : Reply(s[i]) => AnsweredAt(s, i)) /\ Behind(s)

(* The last n tool calls of the message at a are left to answer, no other. *)
Answering(s, a, n) ==
    /\ a \in DOMAIN s /\ Reply(s[a]) /\ s[a].num = Len(s) - a + n
    /\ \A j \in DOMAIN s : j > a => s[j] = Tool(s[a], j - a)
    /\ \A i \in DOMAIN s : Reply(s[i]) /\ i # a => AnsweredAt(s, i)
    /\ Behind(s)

HistoryInv ==
    continue_on_tool_error =>
        /\ phase \in {"idle", "round", "single"} => Whole(history)
        /\ phase = "asking" /\ stage # "replied" => Whole(history)
        /\ phase = "asking" /\ stage = "replied" =>
              Answering(history, Len(history), history[Len(history)].num)
        /\ phase = "tools" =>
              \E a \in DOMAIN history :
                  /\ Answering(history, a, Len(todo))
                  /\ \A k \in DOMAIN todo : todo[k] = Tool(history[a], Len(history) - a + k)
        /\ InFlight(Loop) => Whole(call[Loop].seen)

Ran(m) == \E r \in DOMAIN records : records[r].call = m

(* What the answer in final asked for has run or is still to run. *)
RanInv ==
    /\ phase \in {"round", "asking", "tools"} /\ final > started =>
          \A i \in DOMAIN history :
              Reply(history[i]) /\ history[i].id[2] = final =>
                  \A k \in 1..history[i].num :
                      \/ Ran(Tool(history[i], k))
                      \/ \E t \in DOMAIN todo : todo[t] = Tool(history[i], k)
    /\ phase = "idle" /\ status = "success" =>
          \A i \in DOMAIN history :
              Reply(history[i]) /\ history[i].id[2] = final =>
                  \A k \in 1..history[i].num :
                      final < made[Loop] /\ Ran(Tool(history[i], k))

RecordInv ==
    /\ Cardinality(Added) = Len(records)
    /\ \A j \in Added : records[Place(j)].call = history[j]

(* A tool failed, and that ends the execution. *)
ErrorInv ==
    ~continue_on_tool_error /\ (\E r \in DOMAIN records : records[r].outcome # "ok") =>
        phase = "idle"

IInv ==
    /\ TypeOK /\ ControlInv /\ CountInv /\ ReplyInv /\ HistoryInv
    /\ RanInv /\ RecordInv /\ ErrorInv

-----------------------------------------------------------------------------
(* What the calls to the client do. *)

LEMMA LoopCalls == Loop \in Caller /\ Caller = {Loop}
  BY AgentLoopAssumption

(* The fields of the call the invariant speaks of. *)
LEMMA CallFields ==
    ASSUME ClientTypeOK
    PROVE  /\ call[Loop].asked \in Nat /\ made[Loop] \in Nat /\ history \in Seq(MessageType)
           /\ Id(Loop) \in Caller \X Nat /\ Id(Loop)[2] = made[Loop]
           /\ call[Loop].seen \in Seq(MessageType)
  BY LoopCalls, ChatClientAssumption DEF ClientTypeOK, CallType, Id

LEMMA MessageFields ==
    ASSUME NEW s \in Seq(MessageType), NEW i \in DOMAIN s
    PROVE  s[i] \in MessageType /\ s[i].num \in Nat /\ s[i].id[2] \in Nat /\ s[i].id \in Caller \X Nat
<1>1. s[i] \in MessageType
  OBVIOUS
<1>2. QED
  BY <1>1 DEF MessageType

LEMMA AskIs ==
    ASSUME ClientTypeOK, NEW tools \in BOOLEAN, Prepare(Loop, tools) \/ Refuse(Loop)
    PROVE  /\ ClientTypeOK' /\ stage = "idle" /\ history' = history /\ made'[Loop] = made[Loop] + 1
           /\ call'[Loop].asked = 0
           /\ \/ stage' = "primary" /\ call'[Loop].seen = history /\ call'[Loop].tools = tools
              \/ stage' = "raised" /\ ~call'[Loop].tools
<1>1. CASE Prepare(Loop, tools)
  <2>1. call'[Loop].asked = 0
    BY <1>1, LoopCalls DEF Prepare, NoCall, ClientTypeOK
  <2>2. QED
    BY <1>1, <2>1, LoopCalls, PrepareIs DEF stage
<1>2. CASE Refuse(Loop)
  <2>1. call'[Loop].asked = 0 /\ ~call'[Loop].tools
    BY <1>2, LoopCalls DEF Refuse, NoCall, ClientTypeOK
  <2>2. QED
    BY <1>2, <2>1, LoopCalls, RefuseIs DEF stage
<1>3. QED
  BY <1>1, <1>2

(* The call goes on, records its prompt, or records its answer. *)
Quiet == history' = history /\ stage' \notin {"idle", "record_reply", "replied"} /\ stage # "record_reply"

Prompted == history' = Append(history, Message("user", Id(Loop), 0)) /\ stage' = "record_reply"

Replied(n) == history' = Append(history, Message("assistant", Id(Loop), n)) /\ stage' = "replied"

LEMMA AdvanceIs ==
    ASSUME ClientTypeOK, ~call[Loop].tools => call[Loop].asked = 0, ClientStep(Loop)
    PROVE  /\ ClientTypeOK' /\ made' = made /\ InFlight(Loop)
           /\ call'[Loop].seen = call[Loop].seen /\ call'[Loop].tools = call[Loop].tools
           /\ ~call'[Loop].tools => call'[Loop].asked = 0
           /\ \/ Quiet \/ Prompted
              \/ \E n \in Nat : Replied(n) /\ (~call[Loop].tools => n = 0)
<1>a. /\ ClientTypeOK' /\ made' = made /\ InFlight(Loop)
      /\ call'[Loop].seen = call[Loop].seen /\ call'[Loop].tools = call[Loop].tools
  BY LoopCalls, ClientStepIs
<1>b. call'[Loop].asked = call[Loop].asked \/ call'[Loop].asked \in Asks(Loop)
  BY LoopCalls, ClientStepIs
<1>1. ~call'[Loop].tools => call'[Loop].asked = 0
  BY <1>a, <1>b DEF Asks
<1>2. \/ Quiet \/ Prompted
      \/ Replied(0) \/ Replied(call[Loop].asked)
  BY LoopCalls, ClientStepIs DEF Quiet, Prompted, Replied, stage
<1>3. QED
  BY <1>a, <1>1, <1>2, CallFields

LEMMA EndCallIs ==
    ASSUME ClientTypeOK, EndCall
    PROVE  /\ ClientTypeOK' /\ stage' = "idle" /\ UNCHANGED <<history, made>>
           /\ call'[Loop].seen = call[Loop].seen /\ call'[Loop].asked = call[Loop].asked
           /\ call'[Loop].tools = call[Loop].tools
<1>1. call'[Loop].tools = call[Loop].tools
  BY LoopCalls DEF EndCall, ClientTypeOK, CallType
<1>2. QED
  BY <1>1, LoopCalls, CallTaken DEF EndCall, stage

LEMMA InFlightIs == InFlight(Loop) <=> stage \notin {"idle", "replied", "raised"}
  BY DEF InFlight, stage

LEMMA AppendIs ==
    ASSUME NEW s \in Seq(MessageType), NEW m \in MessageType
    PROVE  LET t == Append(s, m) IN
           /\ t \in Seq(MessageType) /\ Len(s) \in Nat /\ Len(t) = Len(s) + 1
           /\ DOMAIN s = 1..Len(s) /\ DOMAIN t = 1..(Len(s) + 1) /\ DOMAIN s \subseteq DOMAIN t
           /\ t[Len(s) + 1] = m /\ \A i \in DOMAIN s : t[i] = s[i] /\ i <= Len(s)
  OBVIOUS

(* The answer that is complete stands last, and no other with its number. *)
LEMMA LastReplyIs ==
    ASSUME ClientTypeOK, Len(history) > 0, Reply(history[Len(history)])
    PROVE  ExtractToolCalls = [k \in 1..history[Len(history)].num |-> Tool(history[Len(history)], k)]
<1> DEFINE n == Len(history)
<1>1. n \in DOMAIN history /\ \A i \in DOMAIN history : i <= n
  BY CallFields
<1>2. LastReply = {n}
  <2>1. n \in LastReply
    BY <1>1 DEF LastReply, Reply
  <2>2. ASSUME NEW i \in LastReply PROVE i = n
    <3>1. i \in DOMAIN history /\ n <= i
      BY <1>1 DEF LastReply, Reply
    <3>2. QED
      BY <1>1, <3>1, CallFields
  <2>3. QED
    BY <2>1, <2>2
<1>3. (CHOOSE i \in LastReply : TRUE) = n
  BY <1>2
<1>4. QED
  BY <1>2, <1>3 DEF ExtractToolCalls, Tool

(* The results to come are tool messages about the last call. *)
LEMMA TodoIs ==
    ASSUME ClientTypeOK, Len(history) > 0, Reply(history[Len(history)]),
           history[Len(history)].id = Id(Loop)
    PROVE  LET t == ExtractToolCalls  m == history[Len(history)] IN
           /\ t \in Seq(MessageType) /\ Len(t) = m.num /\ DOMAIN t = 1..m.num
           /\ \A k \in 1..m.num : t[k] = Tool(m, k) /\ t[k].role = "tool" /\ t[k].id[2] = made[Loop]
<1> DEFINE m == history[Len(history)]
           t == [k \in 1..m.num |-> Tool(m, k)]
<1>1. m.num \in Nat /\ m.id \in Caller \X Nat /\ m.id[2] = made[Loop]
  <2>1. Len(history) \in DOMAIN history
    BY CallFields
  <2>2. QED
    BY <2>1, CallFields, MessageFields
<1>2. \A k \in 1..m.num : Tool(m, k) \in MessageType /\ Tool(m, k).role = "tool" /\ Tool(m, k).id = m.id
  <2> HIDE DEF m
  <2>1. QED
    BY <1>1 DEF Tool, Message, MessageType
<1>3. t \in Seq(MessageType) /\ Len(t) = m.num /\ DOMAIN t = 1..m.num
  <2> HIDE DEF m
  <2>1. QED
    BY <1>1, <1>2
<1>4. ExtractToolCalls = t
  BY LastReplyIs
<1>5. \A k \in 1..m.num : t[k] = Tool(m, k)
  OBVIOUS
<1> HIDE DEF t
<1>6. QED
  BY <1>1, <1>2, <1>3, <1>4, <1>5

-----------------------------------------------------------------------------
(* Types, control and counts. *)

LEMMA InitTypeOK == Init => TypeOK
<1> SUFFICES ASSUME Init PROVE TypeOK
  OBVIOUS
<1>1. ClientTypeOK
  BY ClientInitType DEF Init
<1>2. QED
  BY <1>1, AgentLoopAssumption DEF Init, TypeOK

LEMMA RecordedType ==
    ASSUME TypeOK, todo # <<>>, NEW outcome \in {"ok", "error", "timeout"}
    PROVE  /\ Head(todo) \in MessageType /\ Tail(todo) \in Seq(MessageType)
           /\ Len(Tail(todo)) = Len(todo) - 1 /\ Len(todo) \in Nat /\ Len(todo) > 0
           /\ \A k \in DOMAIN Tail(todo) : k + 1 \in DOMAIN todo /\ Tail(todo)[k] = todo[k + 1]
           /\ Head(todo) = todo[1] /\ 1 \in DOMAIN todo
           /\ Recorded(outcome) \in Seq(Record) /\ Len(Recorded(outcome)) = Len(records) + 1
           /\ \A r \in DOMAIN records :
                 r \in DOMAIN Recorded(outcome) /\ Recorded(outcome)[r] = records[r]
           /\ Len(records) \in Nat /\ DOMAIN records = 1..Len(records)
           /\ DOMAIN Recorded(outcome) = 1..(Len(records) + 1)
           /\ Recorded(outcome)[Len(records) + 1].call = Head(todo)
           /\ Recorded(outcome)[Len(records) + 1].outcome = outcome
           /\ Append(history, Head(todo)) \in Seq(MessageType)
<1>1. /\ Head(todo) \in MessageType /\ Tail(todo) \in Seq(MessageType)
      /\ Len(Tail(todo)) = Len(todo) - 1 /\ Len(todo) \in Nat /\ Len(todo) > 0
      /\ \A k \in DOMAIN Tail(todo) : k + 1 \in DOMAIN todo /\ Tail(todo)[k] = todo[k + 1]
      /\ Head(todo) = todo[1] /\ 1 \in DOMAIN todo
  BY DEF TypeOK
<1> DEFINE rec == [call |-> Head(todo), outcome |-> outcome]
<1>2. rec \in Record /\ rec.call = Head(todo) /\ rec.outcome = outcome
  BY <1>1 DEF Record
<1>3. Recorded(outcome) = Append(records, rec)
  BY DEF Recorded
<1> HIDE DEF rec
<1>4. records \in Seq(Record) /\ history \in Seq(MessageType)
  BY DEF TypeOK, ClientTypeOK
<1>5. QED
  BY <1>1, <1>2, <1>3, <1>4

(* The outcomes of a tool step, and what comes of each. *)
LEMMA ToolEndsIs ==
    ASSUME TypeOK, ControlInv, ToolEnds
    PROVE  \E outcome \in {"ok", "error", "timeout"} :
              /\ phase = "tools" /\ todo # <<>>
              /\ UNCHANGED <<call, made, usage, round, llm_calls, final, executions, started,
                             continue_on_tool_error>>
              /\ tool' = "none" /\ history' = Append(history, Head(todo))
              /\ records' = Recorded(outcome)
              /\ \/ /\ outcome # "ok" /\ ~continue_on_tool_error
                    /\ phase' = "idle" /\ status' = "failed" /\ todo' = <<>>
                 \/ /\ outcome = "ok" \/ continue_on_tool_error
                    /\ status' = status /\ todo' = Tail(todo)
                    /\ phase' = IF Len(todo) = 1 THEN "round" ELSE "tools"
<1>1. PICK outcome \in ToolOutcomes :
         /\ AddToolResult(outcome)
         /\ records' = Recorded(outcome)
         /\ IF StopsLoop(outcome) THEN Return("failed")
            ELSE /\ phase' = IF Len(todo) = 1 THEN "round" ELSE "tools"
                 /\ UNCHANGED status
  BY DEF ToolEnds
<1>2. outcome \in {"ok", "error", "timeout"}
  BY DEF ToolOutcomes
<1>3. phase = "tools" /\ todo # <<>>
  BY DEF ToolEnds, ControlInv
<1>4. QED
  BY <1>1, <1>2, <1>3 DEF ToolEnds, AddToolResult, StopsLoop, Return

LEMMA NextTypeOK == TypeOK /\ ControlInv /\ Next => TypeOK'
<1> SUFFICES ASSUME TypeOK, ControlInv, Next PROVE TypeOK'
  OBVIOUS
<1>a. ClientTypeOK /\ made[Loop] \in Nat /\ MaxRounds \in Nat
  BY AgentLoopAssumption, CallFields DEF TypeOK
<1>1. CASE Begin
  BY <1>1, <1>a DEF Begin, TypeOK, ClientTypeOK, clientVars
<1>2. CASE NextRound
  <2>1. ClientTypeOK'
    BY <1>2, <1>a, AskIs DEF NextRound
  <2>2. QED
    BY <1>2, <1>a, <2>1 DEF NextRound, TypeOK
<1>3. CASE OutOfRounds
  BY <1>3 DEF OutOfRounds, Return, TypeOK, ClientTypeOK, clientVars
<1>4. CASE AskSingle
  <2>1. ClientTypeOK'
    BY <1>4, <1>a, AskIs DEF AskSingle
  <2>2. QED
    BY <1>4, <2>1 DEF AskSingle, TypeOK, loopVars
<1>5. CASE Advance
  <2>1. ClientTypeOK'
    BY <1>5, <1>a, LoopCalls, ClientStepIs DEF Advance
  <2>2. QED
    BY <1>5, <2>1 DEF Advance, TypeOK, loopVars
<1>6. CASE SingleReturns
  <2>1. ClientTypeOK'
    BY <1>6, <1>a, EndCallIs DEF SingleReturns
  <2>2. QED
    BY <1>6, <1>a, <2>1 DEF SingleReturns, Return, TypeOK
<1>7. CASE CallFailed
  <2>1. ClientTypeOK'
    BY <1>7, <1>a, EndCallIs DEF CallFailed
  <2>2. QED
    BY <1>7, <2>1 DEF CallFailed, Return, TypeOK
<1>8. CASE Answered
  <2>1. ClientTypeOK'
    BY <1>8, <1>a, EndCallIs DEF Answered
  <2>2. ExtractToolCalls \in Seq(MessageType)
    <3>1. CASE LastReply = {}
      BY <3>1 DEF ExtractToolCalls
    <3>2. CASE LastReply # {}
      <4> DEFINE m == history[CHOOSE i \in LastReply : TRUE]
      <4>1. (CHOOSE i \in LastReply : TRUE) \in DOMAIN history
        BY <3>2 DEF LastReply
      <4>2. m \in MessageType
        BY <1>a, <4>1, CallFields
      <4> HIDE DEF m
      <4>3. m.num \in Nat /\ \A k \in 1..m.num : Message("tool", m.id, k) \in MessageType
        BY <4>2 DEF Message, MessageType
      <4>4. ExtractToolCalls = [k \in 1..m.num |-> Message("tool", m.id, k)]
        BY <3>2 DEF ExtractToolCalls, m
      <4>5. QED
        BY <4>3, <4>4
    <3>3. QED
      BY <3>1, <3>2
  <2>3. QED
    BY <1>8, <1>a, <2>1, <2>2 DEF Answered, Return, TypeOK
<1>9. CASE StartTool \/ ToolTimesOut
  BY <1>9 DEF StartTool, ToolTimesOut, TypeOK, ClientTypeOK, clientVars
<1>10. CASE ToolEnds
  <2>1. PICK outcome \in {"ok", "error", "timeout"} :
              /\ phase = "tools" /\ todo # <<>>
              /\ UNCHANGED <<call, made, usage, round, llm_calls, final, executions, started,
                             continue_on_tool_error>>
              /\ tool' = "none" /\ history' = Append(history, Head(todo))
              /\ records' = Recorded(outcome)
              /\ phase' \in {"idle", "round", "tools"} /\ status' \in {"failed", status}
              /\ todo' \in {<<>>, Tail(todo)}
    BY <1>10, ToolEndsIs
  <2>2. ClientTypeOK' /\ todo' \in Seq(MessageType) /\ records' \in Seq(Record)
    <3>1. /\ Tail(todo) \in Seq(MessageType) /\ Recorded(outcome) \in Seq(Record)
          /\ Append(history, Head(todo)) \in Seq(MessageType)
      BY <2>1, RecordedType
    <3>2. ClientTypeOK'
      BY <1>a, <2>1, <3>1 DEF ClientTypeOK
    <3>3. <<>> \in Seq(MessageType)
      OBVIOUS
    <3>4. QED
      BY <2>1, <3>1, <3>2, <3>3
  <2>3. QED
    BY <2>1, <2>2 DEF TypeOK
<1>11. CASE Stopped
  BY <1>11 DEF Stopped, vars, loopVars, clientVars, TypeOK, ClientTypeOK
<1>12. QED
  BY <1>1, <1>2, <1>3, <1>4, <1>5, <1>6, <1>7, <1>8, <1>9, <1>10, <1>11 DEF Next, LoopStep

LEMMA InitControl == Init => ControlInv /\ CountInv
<1> SUFFICES ASSUME Init PROVE ControlInv /\ CountInv
  OBVIOUS
<1>1. /\ stage = "idle" /\ call[Loop].asked = 0 /\ made[Loop] = 0 /\ phase = "idle" /\ todo = <<>>
      /\ tool = "none" /\ executions = 0 /\ started = 0 /\ final = 0 /\ status = "none"
  BY LoopCalls DEF Init, ClientInit, NoCall, stage
<1>2. QED
  BY <1>1 DEF ControlInv, CountInv

LEMMA NextControl == TypeOK /\ ControlInv /\ Next => ControlInv'
<1> SUFFICES ASSUME TypeOK, ControlInv, Next PROVE ControlInv'
  OBVIOUS
<1>a. ClientTypeOK /\ executions \in Nat
  BY DEF TypeOK
<1>1. CASE Begin
  <2>1. call' = call /\ stage' = stage
    BY <1>1 DEF Begin, clientVars, stage
  <2>2. executions' > 0
    BY <1>1, <1>a DEF Begin
  <2>3. QED
    BY <1>1, <2>1, <2>2 DEF Begin, ControlInv
<1>2. CASE NextRound
  BY <1>2, <1>a, AskIs DEF NextRound, ControlInv
<1>3. CASE OutOfRounds
  <2>1. call' = call /\ stage' = stage
    BY <1>3 DEF OutOfRounds, clientVars, stage
  <2>2. QED
    BY <1>3, <2>1 DEF OutOfRounds, Return, ControlInv
<1>4. CASE AskSingle
  BY <1>4, <1>a, AskIs DEF AskSingle, loopVars, ControlInv
<1>5. CASE Advance
  <2>1. /\ call'[Loop].tools = call[Loop].tools
        /\ ~call'[Loop].tools => call'[Loop].asked = 0
        /\ stage' # "idle" /\ stage # "idle"
    BY <1>5, <1>a, AdvanceIs, InFlightIs DEF Advance, ControlInv, Quiet, Prompted, Replied
  <2>2. UNCHANGED <<phase, tool, todo, executions>>
    BY <1>5 DEF Advance, loopVars
  <2>3. QED
    BY <2>1, <2>2 DEF ControlInv
<1>6. CASE SingleReturns
  BY <1>6, <1>a, EndCallIs DEF SingleReturns, Return, ControlInv
<1>7. CASE CallFailed
  BY <1>7, <1>a, EndCallIs DEF CallFailed, Return, ControlInv
<1>8. CASE Answered
  BY <1>8, <1>a, EndCallIs DEF Answered, Return, ControlInv
<1>9. CASE StartTool \/ ToolTimesOut
  <2>1. call' = call /\ stage' = stage
    BY <1>9 DEF StartTool, ToolTimesOut, clientVars, stage
  <2>2. QED
    BY <1>9, <2>1 DEF StartTool, ToolTimesOut, ControlInv
<1>10. CASE ToolEnds
  <2>1. /\ phase = "tools" /\ todo # <<>> /\ UNCHANGED <<call, executions>> /\ tool' = "none"
        /\ \/ phase' = "idle" /\ todo' = <<>>
           \/ todo' = Tail(todo) /\ phase' = IF Len(todo) = 1 THEN "round" ELSE "tools"
    BY <1>10, ToolEndsIs
  <2>2. Len(Tail(todo)) = Len(todo) - 1 /\ Len(todo) \in Nat
    BY <2>1, RecordedType
  <2>3. Len(todo) = 1 <=> Tail(todo) = <<>>
    <3>1. Tail(todo) \in Seq(MessageType)
      BY <2>1, RecordedType
    <3>2. Tail(todo) = <<>> <=> Len(Tail(todo)) = 0
      BY <3>1, EmptySeq
    <3>3. QED
      BY <2>2, <3>2
  <2>4. stage' = stage
    BY <2>1 DEF stage
  <2>5. QED
    BY <2>1, <2>3, <2>4 DEF ControlInv
<1>11. CASE Stopped
  <2>1. call' = call /\ stage' = stage
    BY <1>11 DEF Stopped, vars, clientVars, stage
  <2>2. QED
    BY <1>11, <2>1 DEF Stopped, vars, loopVars, clientVars, ControlInv
<1>12. QED
  BY <1>1, <1>2, <1>3, <1>4, <1>5, <1>6, <1>7, <1>8, <1>9, <1>10, <1>11 DEF Next, LoopStep

LEMMA NextCount == TypeOK /\ ControlInv /\ CountInv /\ Next => CountInv'
<1> SUFFICES ASSUME TypeOK, ControlInv, CountInv, Next PROVE CountInv'
  OBVIOUS
<1>a. /\ ClientTypeOK /\ made[Loop] \in Nat /\ executions \in Nat /\ started \in Nat
      /\ final \in Nat /\ llm_calls \in Nat
  BY CallFields DEF TypeOK
<1>1. CASE Begin
  <2>1. call' = call /\ made' = made /\ stage' = stage /\ stage = "idle"
    BY <1>1 DEF Begin, clientVars, stage, ControlInv
  <2>2. QED
    BY <1>1, <1>a, <2>1 DEF Begin, CountInv
<1>2. CASE NextRound
  <2>1. /\ made'[Loop] = made[Loop] + 1 /\ phase = "round" /\ phase' = "asking"
        /\ llm_calls' = llm_calls + 1 /\ UNCHANGED <<final, started>>
    BY <1>2, <1>a, AskIs DEF NextRound
  <2>2. QED
    BY <1>a, <2>1 DEF CountInv
<1>3. CASE OutOfRounds
  BY <1>3 DEF OutOfRounds, Return, CountInv, clientVars
<1>4. CASE AskSingle
  <2>1. /\ made'[Loop] = made[Loop] + 1 /\ phase = "single" /\ phase' = "single"
        /\ stage = "idle" /\ stage' # "idle" /\ UNCHANGED <<llm_calls, final, started>>
    BY <1>4, <1>a, AskIs DEF AskSingle, loopVars
  <2>2. QED
    BY <1>a, <2>1 DEF CountInv
<1>5. CASE Advance
  <2>1. made' = made /\ stage' # "idle" /\ stage # "idle"
    BY <1>5, <1>a, AdvanceIs, InFlightIs DEF Advance, ControlInv, Quiet, Prompted, Replied
  <2>2. QED
    BY <1>5, <2>1 DEF Advance, loopVars, CountInv
<1>6. CASE SingleReturns
  <2>1. /\ made' = made /\ stage # "idle" /\ phase = "single" /\ phase' = "idle" /\ started' = started
        /\ \/ status' = "success" /\ llm_calls' = 1 /\ final' = made[Loop]
           \/ status' = "raised" /\ final' = final
    <3>1. made' = made /\ stage # "idle" /\ phase = "single" /\ started' = started
      BY <1>6, <1>a, EndCallIs DEF SingleReturns, stage
    <3>2. QED
      BY <1>6, <3>1 DEF SingleReturns, Return
  <2>2. QED
    BY <1>a, <2>1 DEF CountInv
<1>7. CASE CallFailed
  <2>1. /\ made' = made /\ phase = "asking" /\ phase' = "idle" /\ UNCHANGED <<started, final, llm_calls>>
        /\ status' = IF llm_calls = 1 THEN "failed" ELSE "success"
    BY <1>7, <1>a, EndCallIs DEF CallFailed, Return
  <2>2. QED
    BY <1>a, <2>1 DEF CountInv
<1>8. CASE Answered
  <2>1. /\ made' = made /\ phase = "asking" /\ phase' \in {"idle", "tools"}
        /\ UNCHANGED <<started, llm_calls>> /\ final' = made[Loop]
    BY <1>8, <1>a, EndCallIs DEF Answered, Return
  <2>2. QED
    BY <1>a, <2>1 DEF CountInv
<1>9. CASE StartTool \/ ToolTimesOut
  <2>1. phase = "tools"
    BY <1>9 DEF StartTool, ToolTimesOut, ControlInv
  <2>2. QED
    BY <1>9, <2>1 DEF StartTool, ToolTimesOut, CountInv, clientVars
<1>10. CASE ToolEnds
  <2>1. /\ phase = "tools" /\ UNCHANGED <<made, llm_calls, final, started>>
        /\ \/ phase' = "idle" /\ status' = "failed"
           \/ phase' \in {"round", "tools"}
    BY <1>10, ToolEndsIs
  <2>2. QED
    BY <1>a, <2>1 DEF CountInv
<1>11. CASE Stopped
  BY <1>11 DEF Stopped, vars, loopVars, clientVars, CountInv, stage
<1>12. QED
  BY <1>1, <1>2, <1>3, <1>4, <1>5, <1>6, <1>7, <1>8, <1>9, <1>10, <1>11 DEF Next, LoopStep

-----------------------------------------------------------------------------
(* Which call each message is about. *)

LEMMA ReplyFrame ==
    ASSUME ReplyInv, UNCHANGED <<history, made, todo, started>>, stage' \in {"idle", stage},
           stage' = "replied" => stage = "replied" /\ call' = call
    PROVE  ReplyInv'
<1>1. InFlight(Loop)' => InFlight(Loop)
  BY DEF InFlight, stage
<1>2. Id(Loop)' = Id(Loop)
  BY DEF Id
<1>3. QED
  BY <1>1, <1>2 DEF ReplyInv

LEMMA TodoEmpty ==
    ASSUME ControlInv, phase # "tools" PROVE todo = <<>> /\ DOMAIN todo = {}
  BY DEF ControlInv

LEMMA NextReply == TypeOK /\ ControlInv /\ CountInv /\ ReplyInv /\ Next => ReplyInv'
<1> SUFFICES ASSUME TypeOK, ControlInv, CountInv, ReplyInv, Next PROVE ReplyInv'
  OBVIOUS
<1>a. /\ ClientTypeOK /\ made[Loop] \in Nat /\ started \in Nat /\ llm_calls \in Nat
      /\ history \in Seq(MessageType)
  BY CallFields DEF TypeOK
<1>b. \A i \in DOMAIN history : history[i].id[2] \in Nat
  BY <1>a, MessageFields
<1>1. CASE Begin
  <2>1. UNCHANGED <<history, made, call, todo>> /\ todo = <<>> /\ DOMAIN todo = {}
    BY <1>1, TodoEmpty DEF Begin, clientVars
  <2>2. InFlight(Loop)' = InFlight(Loop) /\ stage' = stage /\ Id(Loop)' = Id(Loop)
    BY <2>1 DEF InFlight, stage, Id
  <2>3. QED
    BY <2>1, <2>2 DEF ReplyInv
<1>2. CASE NextRound \/ AskSingle
  <2>1. /\ history' = history /\ made'[Loop] = made[Loop] + 1 /\ stage' \in {"primary", "raised"}
        /\ todo' = todo /\ DOMAIN todo = {}
    BY <1>2, <1>a, AskIs, TodoEmpty DEF NextRound, AskSingle, loopVars
  <2>2. \A i \in DOMAIN history : history[i].id[2] < made'[Loop]
    BY <1>a, <1>b, <2>1 DEF ReplyInv
  <2>3. \A i \in DOMAIN history : history[i].id[2] <= made'[Loop]
    BY <1>a, <1>b, <2>1 DEF ReplyInv
  <2>4. QED
    BY <2>1, <2>2, <2>3 DEF ReplyInv
<1>3. CASE Advance
  <2>1. /\ made' = made /\ InFlight(Loop) /\ UNCHANGED <<todo, started>>
        /\ call'[Loop].tools = call[Loop].tools /\ Id(Loop)' = Id(Loop)
    BY <1>3, <1>a, AdvanceIs DEF Advance, loopVars, ControlInv, Id
  <2>2. ClientStep(Loop) /\ (~call[Loop].tools => call[Loop].asked = 0)
    BY <1>3 DEF Advance, ControlInv
  <2>a. Id(Loop)[2] = made[Loop] /\ Id(Loop) \in Caller \X Nat
    BY <1>a, CallFields
  <2>3. CASE Quiet
    BY <2>1, <2>3 DEF Quiet, ReplyInv
  <2>4. CASE Prompted
    <3> DEFINE m == Message("user", Id(Loop), 0)
    <3>1. m \in MessageType /\ m.role = "user" /\ m.id = Id(Loop)
      BY <1>a, LoopCalls, MessageIs DEF Message
    <3> HIDE DEF m
    <3>2. history' = Append(history, m) /\ stage' = "record_reply"
      BY <2>4 DEF Prompted, m
    <3>3. \A i \in DOMAIN history' : (i \in DOMAIN history /\ history'[i] = history[i]) \/ history'[i] = m
      BY <1>a, <3>1, <3>2, AppendIs
    <3>4. \A i \in DOMAIN history' :
             /\ history'[i].id[2] <= made[Loop]
             /\ history'[i].role # "user" => history'[i].id[2] < made[Loop]
      BY <1>a, <2>1, <2>a, <3>1, <3>3 DEF ReplyInv
    <3>5. QED
      BY <2>1, <3>2, <3>4 DEF ReplyInv
  <2>5. ASSUME NEW n \in Nat, Replied(n), ~call[Loop].tools => n = 0
        PROVE  ReplyInv'
    <3> DEFINE m == Message("assistant", Id(Loop), n)
    <3>1. m \in MessageType /\ Reply(m) /\ m.id = Id(Loop) /\ m.num = n
      BY <1>a, LoopCalls, MessageIs DEF Message, Reply
    <3> HIDE DEF m
    <3>2. history' = Append(history, m) /\ stage' = "replied"
      BY <2>5 DEF Replied, m
    <3>3. /\ Len(history') = Len(history) + 1 /\ Len(history) \in Nat /\ history'[Len(history')] = m
          /\ \A i \in DOMAIN history' : (i \in DOMAIN history /\ history'[i] = history[i]) \/ i = Len(history')
      BY <1>a, <3>1, <3>2, AppendIs
    <3>4. \A i \in DOMAIN history' :
             /\ history'[i].id[2] <= made[Loop]
             /\ Reply(history'[i]) /\ history'[i].id[2] = made[Loop] => i = Len(history')
      <4> SUFFICES ASSUME NEW i \in DOMAIN history'
                   PROVE  /\ history'[i].id[2] <= made[Loop]
                          /\ Reply(history'[i]) /\ history'[i].id[2] = made[Loop] => i = Len(history')
        OBVIOUS
      <4>1. CASE i = Len(history')
        BY <1>a, <2>a, <3>1, <3>3, <4>1
      <4>2. CASE i \in DOMAIN history /\ history'[i] = history[i]
        <5>1. history[i].id[2] <= made[Loop] /\ history[i].id[2] \in Nat
          BY <1>b, <4>2 DEF ReplyInv
        <5>2. Reply(history[i]) => history[i].id[2] < made[Loop]
          BY <2>1, <4>2 DEF ReplyInv, Reply
        <5>3. QED
          BY <1>a, <4>2, <5>1, <5>2
      <4>3. QED
        BY <3>3, <4>1, <4>2
    <3>5. ~InFlight(Loop)'
      BY <3>2 DEF InFlight, stage
    <3>6. Len(history') > 0
      BY <3>3
    <3>7. ~call'[Loop].tools => history'[Len(history')].num = 0
      BY <2>1, <2>5, <3>1, <3>3
    <3>8. history'[Len(history')].id = Id(Loop)' /\ Reply(history'[Len(history')])
      BY <2>1, <3>1, <3>3
    <3>9. QED
      BY <2>1, <3>4, <3>5, <3>6, <3>7, <3>8 DEF ReplyInv
  <2>6. QED
    BY <1>a, <2>2, <2>3, <2>4, <2>5, AdvanceIs
<1>4. CASE SingleReturns \/ CallFailed
  <2>1. UNCHANGED <<history, made, todo, started>> /\ stage' = "idle"
    BY <1>4, <1>a, EndCallIs DEF SingleReturns, CallFailed
  <2>2. QED
    BY <2>1, ReplyFrame
<1>5. CASE Answered
  <2>1. /\ UNCHANGED <<history, made, started>> /\ stage' = "idle" /\ stage = "replied"
        /\ todo' = ExtractToolCalls /\ phase = "asking"
    BY <1>5, <1>a, EndCallIs DEF Answered, stage
  <2>2. started < made[Loop]
    BY <1>a, <2>1 DEF CountInv
  <2>3. \A k \in DOMAIN todo' : todo'[k].role = "tool" /\ todo'[k].id[2] = made[Loop]
    BY <1>a, <2>1, TodoIs DEF ReplyInv
  <2>4. ~InFlight(Loop)'
    BY <2>1 DEF InFlight, stage
  <2>5. \A k \in DOMAIN todo' :
           todo'[k].role = "tool" /\ todo'[k].id[2] > started /\ todo'[k].id[2] <= made[Loop]
    BY <1>a, <2>2, <2>3
  <2>6. QED
    BY <2>1, <2>4, <2>5 DEF ReplyInv
<1>6. CASE ToolEnds
  <2>1. PICK outcome \in {"ok", "error", "timeout"} :
           /\ phase = "tools" /\ todo # <<>> /\ UNCHANGED <<call, made, started>>
           /\ history' = Append(history, Head(todo)) /\ todo' \in {<<>>, Tail(todo)}
    BY <1>6, ToolEndsIs
  <2>2. /\ Head(todo) \in MessageType /\ Head(todo) = todo[1] /\ 1 \in DOMAIN todo
        /\ \A k \in DOMAIN Tail(todo) : k + 1 \in DOMAIN todo /\ Tail(todo)[k] = todo[k + 1]
    BY <2>1, RecordedType
  <2>3. stage = "idle" /\ stage' = "idle" /\ ~InFlight(Loop)'
    BY <2>1 DEF ControlInv, stage, InFlight
  <2>4. \A k \in DOMAIN todo' :
           todo'[k].role = "tool" /\ todo'[k].id[2] > started /\ todo'[k].id[2] <= made[Loop]
    BY <2>1, <2>2 DEF ReplyInv
  <2>5. Head(todo).id[2] <= made[Loop]
    BY <2>2 DEF ReplyInv
  <2>6. \A i \in DOMAIN history' :
           (i \in DOMAIN history /\ history'[i] = history[i]) \/ history'[i] = Head(todo)
    BY <1>a, <2>1, <2>2, AppendIs
  <2>7. \A i \in DOMAIN history' : history'[i].id[2] <= made[Loop]
    BY <2>5, <2>6 DEF ReplyInv
  <2>8. QED
    BY <2>1, <2>3, <2>4, <2>7 DEF ReplyInv
<1>7. CASE OutOfRounds \/ StartTool \/ ToolTimesOut \/ Stopped
  <2>1. UNCHANGED <<history, made, todo, started, call>>
    BY <1>7 DEF OutOfRounds, StartTool, ToolTimesOut, Stopped, vars, loopVars, clientVars
  <2>2. stage' = stage
    BY <2>1 DEF stage
  <2>3. QED
    BY <2>1, <2>2, ReplyFrame
<1>8. QED
  BY <1>1, <1>2, <1>3, <1>4, <1>5, <1>6, <1>7 DEF Next, LoopStep

-----------------------------------------------------------------------------
(* How a conversation stays answered. *)

LEMMA AnsweredAppend ==
    ASSUME NEW s \in Seq(MessageType), NEW m \in MessageType, NEW i \in DOMAIN s, AnsweredAt(s, i)
    PROVE  AnsweredAt(Append(s, m), i)
<1> DEFINE t == Append(s, m)
<1>1. /\ Len(s) \in Nat /\ Len(t) = Len(s) + 1 /\ DOMAIN s = 1..Len(s)
      /\ \A j \in DOMAIN s : t[j] = s[j]
  BY AppendIs
<1>2. s[i].num \in Nat
  BY MessageFields
<1> HIDE DEF t
<1>3. ASSUME NEW k \in 1..s[i].num PROVE i + k <= Len(t) /\ t[i + k] = Tool(t[i], k)
  <2>1. i + k <= Len(s) /\ s[i + k] = Tool(s[i], k)
    BY DEF AnsweredAt
  <2>2. i + k \in DOMAIN s
    BY <1>1, <1>2, <2>1
  <2>3. QED
    BY <1>1, <1>2, <2>1, <2>2
<1>4. t[i] = s[i]
  BY <1>1
<1>5. QED
  BY <1>3, <1>4 DEF AnsweredAt, t

LEMMA BehindAppend ==
    ASSUME NEW s \in Seq(MessageType), NEW m \in MessageType, Behind(s),
           m.role = "tool" => \E i \in DOMAIN s : Reply(s[i]) /\ m.num = Len(s) + 1 - i
    PROVE  Behind(Append(s, m))
<1> DEFINE t == Append(s, m)
<1>1. /\ Len(s) \in Nat /\ DOMAIN t = 1..(Len(s) + 1) /\ DOMAIN s = 1..Len(s)
      /\ t[Len(s) + 1] = m /\ \A j \in DOMAIN s : t[j] = s[j]
  BY AppendIs
<1> HIDE DEF t
<1>2. ASSUME NEW j \in DOMAIN t, t[j].role = "tool"
      PROVE  \E i \in 1..(j - 1) : Reply(t[i]) /\ t[j].num = j - i
  <2>1. CASE j = Len(s) + 1
    <3>1. PICK i \in DOMAIN s : Reply(s[i]) /\ m.num = Len(s) + 1 - i
      BY <1>1, <1>2, <2>1
    <3>2. i \in 1..(j - 1) /\ t[i] = s[i]
      BY <1>1, <2>1
    <3>3. QED
      BY <1>1, <2>1, <3>1, <3>2
  <2>2. CASE j \in DOMAIN s
    <3>1. PICK i \in 1..(j - 1) : Reply(s[i]) /\ s[j].num = j - i
      BY <1>1, <1>2, <2>2 DEF Behind
    <3>2. i \in DOMAIN s
      BY <1>1, <2>2
    <3>3. QED
      BY <1>1, <2>2, <3>1, <3>2
  <2>3. QED
    BY <1>1, <2>1, <2>2
<1>3. QED
  BY <1>2 DEF Behind, t

(* A prompt. *)
LEMMA WholePrompt ==
    ASSUME NEW s \in Seq(MessageType), NEW m \in MessageType, m.role = "user", Whole(s)
    PROVE  Whole(Append(s, m))
<1> DEFINE t == Append(s, m)
<1>1. /\ DOMAIN t = 1..(Len(s) + 1) /\ DOMAIN s = 1..Len(s) /\ Len(s) \in Nat
      /\ t[Len(s) + 1] = m /\ \A j \in DOMAIN s : t[j] = s[j]
  BY AppendIs
<1>2. Behind(t)
  BY BehindAppend DEF Whole
<1>3. ASSUME NEW i \in DOMAIN t, Reply(t[i]) PROVE AnsweredAt(t, i)
  <2>1. i # Len(s) + 1
    BY <1>1, <1>3 DEF Reply
  <2>2. i \in DOMAIN s /\ Reply(s[i])
    BY <1>1, <1>3, <2>1
  <2>3. QED
    BY <2>2, AnsweredAppend DEF Whole
<1>4. QED
  BY <1>2, <1>3 DEF Whole

(* An answer, with the tool calls it asks for. *)
LEMMA WholeReply ==
    ASSUME NEW s \in Seq(MessageType), NEW m \in MessageType, Reply(m), Whole(s)
    PROVE  Answering(Append(s, m), Len(s) + 1, m.num)
<1> DEFINE t == Append(s, m)
<1>1. /\ DOMAIN t = 1..(Len(s) + 1) /\ DOMAIN s = 1..Len(s) /\ Len(s) \in Nat
      /\ Len(t) = Len(s) + 1
      /\ t[Len(s) + 1] = m /\ \A j \in DOMAIN s : t[j] = s[j]
  BY AppendIs
<1>2. Behind(t)
  BY BehindAppend DEF Whole, Reply
<1>3. \A i \in DOMAIN t : Reply(t[i]) /\ i # Len(s) + 1 => AnsweredAt(t, i)
  <2> SUFFICES ASSUME NEW i \in DOMAIN t, Reply(t[i]), i # Len(s) + 1 PROVE AnsweredAt(t, i)
    OBVIOUS
  <2>1. i \in DOMAIN s /\ Reply(s[i])
    BY <1>1
  <2>2. QED
    BY <2>1, AnsweredAppend DEF Whole
<1>4. m.num \in Nat
  BY DEF MessageType
<1> HIDE DEF t
<1>5. Len(s) + 1 \in DOMAIN t /\ t[Len(s) + 1].num = Len(t) - (Len(s) + 1) + m.num
  BY <1>1, <1>4
<1>6. \A j \in DOMAIN t : ~(j > Len(s) + 1)
  BY <1>1
<1>7. Answering(t, Len(s) + 1, m.num)
  BY <1>1, <1>2, <1>3, <1>5, <1>6 DEF Answering
<1>8. QED
  BY <1>7 DEF t

LEMMA AnsweredWhole ==
    ASSUME NEW s \in Seq(MessageType), NEW a \in DOMAIN s, Answering(s, a, 0)
    PROVE  Whole(s)
<1>1. Len(s) \in Nat /\ DOMAIN s = 1..Len(s) /\ s[a].num = Len(s) - a
  BY DEF Answering
<1>2. AnsweredAt(s, a)
  <2>1. ASSUME NEW k \in 1..s[a].num PROVE a + k <= Len(s) /\ s[a + k] = Tool(s[a], k)
    <3>1. a + k \in DOMAIN s /\ a + k > a /\ a + k - a = k
      BY <1>1
    <3>2. s[a + k] = Tool(s[a], a + k - a)
      BY <3>1 DEF Answering
    <3>3. QED
      BY <1>1, <3>1, <3>2
  <2>2. QED
    BY <2>1 DEF AnsweredAt
<1>3. \A i \in DOMAIN s : Reply(s[i]) => AnsweredAt(s, i)
  BY <1>2 DEF Answering
<1>4. QED
  BY <1>3 DEF Whole, Answering

(* The next result. *)
LEMMA AnsweringNext ==
    ASSUME NEW s \in Seq(MessageType), NEW a \in DOMAIN s, NEW n \in Nat, n > 0,
           Answering(s, a, n), NEW m \in MessageType, m = Tool(s[a], Len(s) - a + 1)
    PROVE  Answering(Append(s, m), a, n - 1)
<1> DEFINE t == Append(s, m)
<1>1. /\ DOMAIN t = 1..(Len(s) + 1) /\ DOMAIN s = 1..Len(s) /\ Len(s) \in Nat
      /\ Len(t) = Len(s) + 1
      /\ t[Len(s) + 1] = m /\ \A j \in DOMAIN s : t[j] = s[j]
  BY AppendIs
<1>2. m.num = Len(s) + 1 - a /\ m.role = "tool"
  BY <1>1 DEF Tool, Message
<1>3. Behind(t)
  BY <1>2, BehindAppend DEF Answering
<1>4. \A i \in DOMAIN t : Reply(t[i]) /\ i # a => AnsweredAt(t, i)
  <2> SUFFICES ASSUME NEW i \in DOMAIN t, Reply(t[i]), i # a PROVE AnsweredAt(t, i)
    OBVIOUS
  <2>1. i \in DOMAIN s /\ Reply(s[i])
    BY <1>1, <1>2 DEF Reply
  <2>2. QED
    BY <2>1, AnsweredAppend DEF Answering
<1> HIDE DEF t
<1>5. a \in DOMAIN t /\ Reply(t[a]) /\ t[a].num = Len(t) - a + (n - 1)
  BY <1>1 DEF Answering
<1>6. ASSUME NEW j \in DOMAIN t, j > a PROVE t[j] = Tool(t[a], j - a)
  <2>1. CASE j = Len(s) + 1
    <3>1. j - a = Len(s) - a + 1 /\ t[a] = s[a] /\ t[j] = m
      BY <1>1, <2>1
    <3>2. QED
      BY <3>1, Zenon
  <2>2. CASE j \in DOMAIN s
    BY <1>1, <1>6, <2>2 DEF Answering
  <2>3. QED
    BY <1>1, <2>1, <2>2
<1>7. Answering(t, a, n - 1)
  BY <1>3, <1>4, <1>5, <1>6 DEF Answering
<1>8. QED
  BY <1>7 DEF t

LEMMA Kept == TypeOK /\ ControlInv /\ Next => continue_on_tool_error' = continue_on_tool_error
<1> SUFFICES ASSUME TypeOK, ControlInv, Next PROVE continue_on_tool_error' = continue_on_tool_error
  OBVIOUS
<1>1. CASE ToolEnds
  BY <1>1, ToolEndsIs
<1>2. CASE Begin \/ LoopStep \/ Stopped
  BY <1>2 DEF Begin, NextRound, OutOfRounds, AskSingle, Advance, SingleReturns, CallFailed,
     Answered, StartTool, ToolTimesOut, Stopped, LoopStep, vars, loopVars
<1>3. QED
  BY <1>1, <1>2 DEF Next

(* Where the history is whole, it is what every later request carries. *)
LEMMA HistoryWhole ==
    ASSUME phase' # "tools", phase' = "asking" => stage' # "replied", Whole(history'),
           InFlight(Loop)' => Whole(call'[Loop].seen)
    PROVE  HistoryInv'
  BY DEF HistoryInv

LEMMA NextHistory == TypeOK /\ ControlInv /\ ReplyInv /\ HistoryInv /\ Next => HistoryInv'
<1> SUFFICES ASSUME TypeOK, ControlInv, ReplyInv, HistoryInv, Next, continue_on_tool_error
             PROVE  HistoryInv'
  BY Kept DEF HistoryInv
<1>a. /\ ClientTypeOK /\ history \in Seq(MessageType)
  BY CallFields DEF TypeOK
<1>b. phase \in {"idle", "round", "single"} => Whole(history)
  BY DEF HistoryInv
<1>c. InFlight(Loop) => Whole(call[Loop].seen)
  BY DEF HistoryInv
<1>1. CASE Begin \/ OutOfRounds \/ Stopped
  <2>1. /\ UNCHANGED <<history, call>> /\ phase' \in {"idle", "round", "single"}
        /\ phase \in {"idle", "round", "single"}
    BY <1>1 DEF Begin, OutOfRounds, Return, Stopped, vars, loopVars, clientVars
  <2>2. InFlight(Loop)' = InFlight(Loop)
    BY <2>1 DEF InFlight
  <2>3. QED
    BY <1>b, <1>c, <2>1, <2>2, HistoryWhole
<1>2. CASE NextRound \/ AskSingle
  <2>1. /\ history' = history /\ phase' \in {"asking", "single"} /\ phase \in {"round", "single"}
        /\ stage' \in {"primary", "raised"}
        /\ stage' = "primary" => call'[Loop].seen = history
    BY <1>2, <1>a, AskIs DEF NextRound, AskSingle, loopVars
  <2>2. InFlight(Loop)' => stage' = "primary"
    BY <2>1 DEF InFlight, stage
  <2>3. QED
    BY <1>b, <2>1, <2>2, HistoryWhole
<1>3. CASE Advance
  <2>1. /\ ClientStep(Loop) /\ (~call[Loop].tools => call[Loop].asked = 0) /\ phase' = phase
        /\ todo' = todo
    BY <1>3 DEF Advance, loopVars, ControlInv
  <2>2. InFlight(Loop) /\ call'[Loop].seen = call[Loop].seen
    BY <1>a, <2>1, AdvanceIs
  <2>3. phase \in {"asking", "single"} /\ stage # "replied"
    BY <2>2 DEF ControlInv, InFlight, stage
  <2>4. Whole(history) /\ Whole(call'[Loop].seen)
    BY <1>c, <2>2, <2>3 DEF HistoryInv
  <2>5. CASE Quiet
    BY <2>1, <2>3, <2>4, <2>5, HistoryWhole DEF Quiet
  <2>6. CASE Prompted
    <3> DEFINE m == Message("user", Id(Loop), 0)
    <3>1. m \in MessageType /\ m.role = "user"
      BY <1>a, LoopCalls, MessageIs DEF Message
    <3> HIDE DEF m
    <3>2. history' = Append(history, m) /\ stage' = "record_reply"
      BY <2>6 DEF Prompted, m
    <3>3. Whole(history')
      BY <1>a, <2>4, <3>1, <3>2, WholePrompt
    <3>4. QED
      BY <2>1, <2>3, <2>4, <3>2, <3>3, HistoryWhole
  <2>7. ASSUME NEW n \in Nat, Replied(n), ~call[Loop].tools => n = 0 PROVE HistoryInv'
    <3> DEFINE m == Message("assistant", Id(Loop), n)
    <3>1. m \in MessageType /\ Reply(m) /\ m.num = n
      BY <1>a, LoopCalls, MessageIs DEF Message, Reply
    <3> HIDE DEF m
    <3>2. history' = Append(history, m) /\ stage' = "replied"
      BY <2>7 DEF Replied, m
    <3>3. Len(history') = Len(history) + 1 /\ history'[Len(history')] = m
          /\ history' \in Seq(MessageType) /\ Len(history') \in DOMAIN history'
      BY <1>a, <3>1, <3>2, AppendIs
    <3>4. Answering(history', Len(history'), n)
      BY <1>a, <2>4, <3>1, <3>2, <3>3, WholeReply
    <3>5. ~InFlight(Loop)'
      BY <3>2 DEF InFlight, stage
    <3>6. CASE phase = "asking"
      BY <2>1, <3>1, <3>2, <3>3, <3>4, <3>5, <3>6 DEF HistoryInv
    <3>7. CASE phase = "single"
      <4>1. n = 0
        BY <2>2, <2>7, <3>7 DEF ControlInv, InFlight, stage
      <4>2. Whole(history')
        BY <3>3, <3>4, <4>1, AnsweredWhole
      <4>3. QED
        BY <2>1, <3>5, <3>7, <4>2, HistoryWhole
    <3>8. QED
      BY <2>3, <3>6, <3>7
  <2>8. QED
    BY <1>a, <2>1, <2>5, <2>6, <2>7, AdvanceIs
<1>4. CASE SingleReturns \/ CallFailed
  <2>1. /\ history' = history /\ stage' = "idle" /\ phase' = "idle"
        /\ phase = "single" \/ (phase = "asking" /\ stage # "replied")
    BY <1>4, <1>a, EndCallIs DEF SingleReturns, CallFailed, Return, stage
  <2>2. Whole(history)
    BY <1>b, <2>1 DEF HistoryInv
  <2>3. ~InFlight(Loop)'
    BY <2>1 DEF InFlight, stage
  <2>4. QED
    BY <2>1, <2>2, <2>3, HistoryWhole
<1>5. CASE Answered
  <2>1. /\ history' = history /\ stage' = "idle" /\ stage = "replied" /\ phase = "asking"
        /\ todo' = ExtractToolCalls /\ phase' = IF ExtractToolCalls = <<>> THEN "idle" ELSE "tools"
    BY <1>5, <1>a, EndCallIs DEF Answered, Return, stage
  <2> DEFINE n == Len(history)
             m == history[n]
  <2>2. n > 0 /\ Reply(m) /\ m.id = Id(Loop) /\ Answering(history, n, m.num)
    BY <2>1 DEF ReplyInv, HistoryInv
  <2>3. n \in DOMAIN history
    BY <1>a, <2>2
  <2>4. /\ Len(ExtractToolCalls) = m.num /\ DOMAIN ExtractToolCalls = 1..m.num
        /\ ExtractToolCalls \in Seq(MessageType)
        /\ \A k \in 1..m.num : ExtractToolCalls[k] = Tool(m, k)
    BY <1>a, <2>2, TodoIs
  <2>5. ~InFlight(Loop)'
    BY <2>1 DEF InFlight, stage
  <2> HIDE DEF m
  <2>6. CASE ExtractToolCalls = <<>>
    <3>1. m.num = 0
      BY <2>4, <2>6
    <3>2. Whole(history)
      BY <1>a, <2>2, <2>3, <3>1, AnsweredWhole
    <3>3. QED
      BY <2>1, <2>5, <2>6, <3>2, HistoryWhole
  <2>7. CASE ExtractToolCalls # <<>>
    <3>1. \A k \in 1..m.num : n - n + k = k
      BY <1>a
    <3>2. \A k \in DOMAIN todo' : todo'[k] = Tool(history'[n], Len(history') - n + k)
      BY <2>1, <2>4, <3>1 DEF m
    <3>3. Answering(history', n, Len(todo'))
      BY <2>1, <2>2, <2>4
    <3>4. QED
      BY <2>1, <2>3, <2>5, <2>7, <3>2, <3>3 DEF HistoryInv
  <2>8. QED
    BY <2>6, <2>7
<1>6. CASE StartTool \/ ToolTimesOut
  <2>1. UNCHANGED <<history, call, phase, todo>>
    BY <1>6 DEF StartTool, ToolTimesOut, clientVars
  <2>2. InFlight(Loop)' = InFlight(Loop) /\ stage' = stage
    BY <2>1 DEF InFlight, stage
  <2>3. QED
    BY <2>1, <2>2, Kept DEF HistoryInv
<1>7. CASE ToolEnds
  <2>1. PICK outcome \in {"ok", "error", "timeout"} :
           /\ phase = "tools" /\ todo # <<>> /\ call' = call
           /\ history' = Append(history, Head(todo)) /\ todo' = Tail(todo)
           /\ phase' = IF Len(todo) = 1 THEN "round" ELSE "tools"
    BY <1>7, ToolEndsIs
  <2>2. /\ Head(todo) \in MessageType /\ Head(todo) = todo[1] /\ 1 \in DOMAIN todo
        /\ \A k \in DOMAIN Tail(todo) : k + 1 \in DOMAIN todo /\ Tail(todo)[k] = todo[k + 1]
        /\ Len(Tail(todo)) = Len(todo) - 1 /\ Len(todo) \in Nat /\ Len(todo) > 0
        /\ Tail(todo) \in Seq(MessageType)
    BY <2>1, RecordedType
  <2>3. ~InFlight(Loop)' /\ stage' # "replied"
    BY <2>1 DEF ControlInv, stage, InFlight
  <2>4. PICK a \in DOMAIN history :
           /\ Answering(history, a, Len(todo))
           /\ \A k \in DOMAIN todo : todo[k] = Tool(history[a], Len(history) - a + k)
    BY <2>1 DEF HistoryInv
  <2>5. Head(todo) = Tool(history[a], Len(history) - a + 1)
    BY <2>2, <2>4
  <2>6. Answering(history', a, Len(todo) - 1)
    BY <1>a, <2>1, <2>2, <2>4, <2>5, AnsweringNext
  <2>7. /\ history' \in Seq(MessageType) /\ a \in DOMAIN history' /\ history'[a] = history[a]
        /\ Len(history') = Len(history) + 1 /\ Len(history) \in Nat /\ a \in Nat
    BY <1>a, <2>1, <2>2, AppendIs
  <2>8. CASE Len(todo) = 1
    <3>1. Whole(history')
      BY <2>6, <2>7, <2>8, AnsweredWhole
    <3>2. QED
      BY <2>1, <2>3, <2>8, <3>1, HistoryWhole
  <2>9. CASE Len(todo) # 1
    <3>1. \A k \in DOMAIN todo' : todo'[k] = Tool(history'[a], Len(history') - a + k)
      <4> SUFFICES ASSUME NEW k \in DOMAIN todo'
                   PROVE  todo'[k] = Tool(history'[a], Len(history') - a + k)
        OBVIOUS
      <4>1. todo'[k] = Tool(history[a], Len(history) - a + (k + 1)) /\ k \in Nat
        BY <2>1, <2>2, <2>4
      <4>2. Len(history) - a + (k + 1) = Len(history') - a + k
        BY <2>7, <4>1
      <4>3. QED
        BY <2>7, <4>1, <4>2
    <3>2. Answering(history', a, Len(todo'))
      BY <2>1, <2>2, <2>6
    <3>3. QED
      BY <2>1, <2>3, <2>7, <2>9, <3>1, <3>2 DEF HistoryInv
  <2>10. QED
    BY <2>8, <2>9
<1>8. QED
  BY <1>1, <1>2, <1>3, <1>4, <1>5, <1>6, <1>7 DEF Next, LoopStep

-----------------------------------------------------------------------------
(* What was asked for has run, and what ran is recorded. *)

LEMMA RanFrame ==
    ASSUME RanInv, UNCHANGED <<history, made, final, started, todo, records>>,
           phase' \in {"round", "asking", "tools"} => phase \in {"round", "asking", "tools"},
           phase' = "idle" /\ status' = "success" => phase = "idle" /\ status = "success"
    PROVE  RanInv'
  BY DEF RanInv, Ran

(* A message is added that is no part of what final asked for. *)
LEMMA RanAppend ==
    ASSUME RanInv, NEW m \in MessageType, history \in Seq(MessageType),
           history' = Append(history, m), UNCHANGED <<final, started, todo, records>>,
           Reply(m) => m.id[2] # final, phase' = phase, phase # "idle"
    PROVE  RanInv'
<1>1. \A i \in DOMAIN history' : Reply(history'[i]) /\ history'[i].id[2] = final =>
         i \in DOMAIN history /\ history'[i] = history[i]
  BY AppendIs
<1>2. QED
  BY <1>1 DEF RanInv, Ran

LEMMA NextRan ==
    TypeOK /\ ControlInv /\ CountInv /\ ReplyInv /\ RanInv /\ Next => RanInv'
<1> SUFFICES ASSUME TypeOK, ControlInv, CountInv, ReplyInv, RanInv, Next PROVE RanInv'
  OBVIOUS
<1>a. /\ ClientTypeOK /\ history \in Seq(MessageType) /\ made[Loop] \in Nat /\ final \in Nat
      /\ started \in Nat /\ llm_calls \in Nat
  BY CallFields DEF TypeOK
<1>1. CASE Begin
  <2>1. phase' \in {"round", "single"} /\ final' = 0 /\ started' \in Nat
    BY <1>1, <1>a DEF Begin
  <2>2. ~(final' > started')
    BY <2>1
  <2>3. QED
    BY <2>1, <2>2 DEF RanInv
<1>2. CASE NextRound
  <2>1. /\ UNCHANGED <<history, final, started, todo, records>>
        /\ phase = "round" /\ phase' = "asking"
    BY <1>2, <1>a, AskIs DEF NextRound
  <2>2. QED
    BY <2>1 DEF RanInv, Ran
<1>3. CASE OutOfRounds
  BY <1>3 DEF OutOfRounds, Return, RanInv
<1>4. CASE AskSingle
  BY <1>4 DEF AskSingle, loopVars, RanInv
<1>5. CASE Advance
  <2>1. /\ ClientStep(Loop) /\ (~call[Loop].tools => call[Loop].asked = 0)
        /\ UNCHANGED <<phase, final, started, todo, records, status>>
    BY <1>5 DEF Advance, loopVars, ControlInv
  <2>2. InFlight(Loop) /\ made' = made
    BY <1>a, <2>1, AdvanceIs
  <2>3. phase \in {"asking", "single"}
    BY <2>2 DEF ControlInv, InFlight, stage
  <2>4. CASE phase = "single"
    BY <2>1, <2>4 DEF RanInv
  <2>5. CASE phase = "asking"
    <3>1. final < made[Loop] /\ Id(Loop)[2] = made[Loop]
      BY <1>a, <2>5, CallFields DEF CountInv
    <3>2. CASE Quiet
      BY <2>1, <2>2, <3>2, RanFrame DEF Quiet
    <3>3. CASE Prompted
      <4>1. Message("user", Id(Loop), 0) \in MessageType /\ ~Reply(Message("user", Id(Loop), 0))
        BY <1>a, LoopCalls, MessageIs DEF Message, Reply
      <4>2. QED
        BY <1>a, <2>1, <2>5, <3>3, <4>1, RanAppend DEF Prompted
    <3>4. ASSUME NEW n \in Nat, Replied(n) PROVE RanInv'
      <4>1. /\ Message("assistant", Id(Loop), n) \in MessageType
            /\ Message("assistant", Id(Loop), n).id = Id(Loop)
        BY <1>a, LoopCalls, MessageIs DEF Message
      <4>2. Message("assistant", Id(Loop), n).id[2] # final
        BY <1>a, <3>1, <4>1
      <4>3. QED
        BY <1>a, <2>1, <2>5, <3>4, <4>1, <4>2, RanAppend DEF Replied
    <3>5. QED
      BY <1>a, <2>1, <3>2, <3>3, <3>4, AdvanceIs
  <2>6. QED
    BY <2>3, <2>4, <2>5
<1>6. CASE SingleReturns
  <2>1. /\ UNCHANGED <<history, made>> /\ phase' = "idle" /\ phase = "single"
        /\ status' = "success" => final' = made[Loop] /\ stage = "replied"
    <3>1. UNCHANGED <<history, made>> /\ phase' = "idle" /\ phase = "single"
      BY <1>6, <1>a, EndCallIs DEF SingleReturns, Return
    <3>2. status' = "success" => final' = made[Loop] /\ stage = "replied"
      BY <1>6 DEF SingleReturns, Return, stage
    <3>3. QED
      BY <3>1, <3>2
  <2>2. ASSUME status' = "success", NEW i \in DOMAIN history, Reply(history[i]),
               history[i].id[2] = final'
        PROVE  history[i].num = 0
    BY <2>1, <2>2 DEF ReplyInv, ControlInv
  <2>3. \A i \in DOMAIN history : history[i].num = 0 => 1..history[i].num = {}
    OBVIOUS
  <2>4. QED
    BY <2>1, <2>2, <2>3 DEF RanInv
<1>7. CASE CallFailed
  <2>1. /\ UNCHANGED <<history, made, final, started, todo, records>> /\ phase = "asking"
        /\ phase' = "idle" /\ status' = IF llm_calls = 1 THEN "failed" ELSE "success"
    BY <1>7, <1>a, EndCallIs DEF CallFailed, Return
  <2>2. CASE llm_calls = 1
    BY <2>1, <2>2 DEF RanInv
  <2>3. CASE llm_calls # 1
    <3>1. final > started /\ final < made[Loop]
      BY <1>a, <2>1, <2>3 DEF CountInv
    <3>2. DOMAIN todo = {}
      BY <2>1, TodoEmpty
    <3>3. QED
      BY <2>1, <3>1, <3>2 DEF RanInv, Ran
  <2>4. QED
    BY <2>2, <2>3
<1>8. CASE Answered
  <2>1. /\ UNCHANGED <<history, made, started, records>> /\ stage = "replied" /\ phase = "asking"
        /\ todo' = ExtractToolCalls /\ final' = made[Loop]
        /\ phase' = IF ExtractToolCalls = <<>> THEN "idle" ELSE "tools"
    BY <1>8, <1>a, EndCallIs DEF Answered, Return, stage
  <2> DEFINE n == Len(history)
             m == history[n]
  <2>2. /\ n > 0 /\ Reply(m) /\ m.id = Id(Loop)
        /\ \A i \in DOMAIN history : Reply(history[i]) /\ history[i].id[2] = made[Loop] => i = n
    BY <2>1 DEF ReplyInv
  <2>3. /\ Len(ExtractToolCalls) = m.num /\ DOMAIN ExtractToolCalls = 1..m.num
        /\ \A k \in 1..m.num : ExtractToolCalls[k] = Tool(m, k)
    BY <1>a, <2>2, TodoIs
  <2> HIDE DEF n
  <2>4. ASSUME NEW i \in DOMAIN history, Reply(history[i]), history[i].id[2] = final',
               NEW k \in 1..history[i].num
        PROVE  k \in DOMAIN todo' /\ todo'[k] = Tool(history[i], k) /\ phase' = "tools"
    <3>1. i = n
      BY <2>1, <2>2, <2>4
    <3>2. k \in DOMAIN ExtractToolCalls /\ ExtractToolCalls[k] = Tool(history[i], k)
      BY <2>3, <2>4, <3>1
    <3>3. ExtractToolCalls # <<>>
      BY <3>2
    <3>4. QED
      BY <2>1, <3>2, <3>3
  <2>5. QED
    BY <2>1, <2>4 DEF RanInv
<1>9. CASE StartTool \/ ToolTimesOut
  <2>1. phase = "tools"
    BY <1>9 DEF StartTool, ToolTimesOut, ControlInv
  <2>2. QED
    BY <1>9, <2>1, RanFrame DEF StartTool, ToolTimesOut, clientVars
<1>10. CASE ToolEnds
  <2>1. PICK outcome \in {"ok", "error", "timeout"} :
           /\ phase = "tools" /\ todo # <<>> /\ UNCHANGED <<made, final, started>>
           /\ history' = Append(history, Head(todo)) /\ records' = Recorded(outcome)
           /\ \/ phase' = "idle" /\ status' = "failed"
              \/ phase' \in {"round", "tools"} /\ todo' = Tail(todo)
    BY <1>10, ToolEndsIs
  <2>2. /\ Head(todo) \in MessageType /\ Head(todo) = todo[1] /\ 1 \in DOMAIN todo
        /\ todo \in Seq(MessageType) /\ Len(todo) \in Nat /\ Len(todo) > 0
        /\ Tail(todo) \in Seq(MessageType) /\ Len(Tail(todo)) = Len(todo) - 1
        /\ \A k \in DOMAIN Tail(todo) : k + 1 \in DOMAIN todo /\ Tail(todo)[k] = todo[k + 1]
    BY <2>1, RecordedType DEF TypeOK
  <2>3. /\ \A r \in DOMAIN records : r \in DOMAIN records' /\ records'[r] = records[r]
        /\ Len(records) + 1 \in DOMAIN records' /\ records'[Len(records) + 1].call = Head(todo)
    BY <2>1, RecordedType
  <2>4. ~Reply(Head(todo))
    BY <2>2 DEF ReplyInv, Reply
  <2>5. \A i \in DOMAIN history' : Reply(history'[i]) =>
           i \in DOMAIN history /\ history'[i] = history[i]
    BY <1>a, <2>1, <2>2, <2>4, AppendIs
  <2>6. \A m : Ran(m) => Ran(m)'
    BY <2>3 DEF Ran
  <2>7. \A m : m = Head(todo) => Ran(m)'
    BY <2>3 DEF Ran
  <2>8. ASSUME todo' = Tail(todo), NEW m, NEW t \in DOMAIN todo, todo[t] = m
        PROVE  Ran(m)' \/ \E u \in DOMAIN todo' : todo'[u] = m
    <3>1. CASE t = 1
      BY <2>2, <2>7, <2>8, <3>1
    <3>2. CASE t # 1
      <4>1. t - 1 \in DOMAIN Tail(todo) /\ Tail(todo)[t - 1] = todo[t]
        BY <2>2, <3>2
      <4>2. QED
        BY <2>8, <4>1
    <3>3. QED
      BY <3>1, <3>2
  <2>9. QED
    BY <2>1, <2>5, <2>6, <2>8 DEF RanInv
<1>11. CASE Stopped
  BY <1>11, RanFrame DEF Stopped, vars, loopVars, clientVars
<1>12. QED
  BY <1>1, <1>2, <1>3, <1>4, <1>5, <1>6, <1>7, <1>8, <1>9, <1>10, <1>11 DEF Next, LoopStep

LEMMA RecordFrame ==
    ASSUME RecordInv, Added' = Added, records' = records,
           \A j \in Added : history'[j] = history[j]
    PROVE  RecordInv'
<1>1. \A j : Place(j)' = Place(j)
  BY DEF Place
<1>2. QED
  BY <1>1 DEF RecordInv

LEMMA AddedAppend ==
    ASSUME history \in Seq(MessageType), NEW m \in MessageType, history' = Append(history, m),
           started' = started
    PROVE  /\ Added' = IF m.role = "tool" /\ m.id[2] > started THEN Added \union {Len(history) + 1}
                       ELSE Added
           /\ \A j \in Added : history'[j] = history[j] /\ j \in 1..Len(history)
           /\ Len(history) \in Nat /\ history'[Len(history) + 1] = m
<1>1. /\ Len(history) \in Nat /\ DOMAIN history = 1..Len(history)
      /\ DOMAIN history' = 1..(Len(history) + 1)
      /\ history'[Len(history) + 1] = m /\ \A j \in DOMAIN history : history'[j] = history[j]
  BY AppendIs
<1>2. \A j : j \in Added' <=> j \in Added \/ (j = Len(history) + 1 /\ m.role = "tool" /\ m.id[2] > started)
  BY <1>1 DEF Added
<1>3. \A j \in Added : history'[j] = history[j] /\ j \in 1..Len(history)
  BY <1>1 DEF Added
<1>4. CASE m.role = "tool" /\ m.id[2] > started
  BY <1>1, <1>2, <1>3, <1>4
<1>5. CASE ~(m.role = "tool" /\ m.id[2] > started)
  BY <1>1, <1>2, <1>3, <1>5
<1>6. QED
  BY <1>4, <1>5

LEMMA AddedFinite ==
    ASSUME ClientTypeOK
    PROVE  /\ IsFiniteSet(Added)
           /\ \A j \in Added : Place(j) \in 1..Cardinality(Added)
<1>1. IsFiniteSet(1..Len(history))
  BY CallFields, FS_Interval
<1>2. Added \in SUBSET (1..Len(history))
  BY CallFields DEF Added
<1>3. IsFiniteSet(Added)
  BY <1>1, <1>2, FS_Subset
<1>4. ASSUME NEW j \in Added PROVE Place(j) \in 1..Cardinality(Added)
  <2> DEFINE S == {i \in Added : i <= j}
  <2>1. S \in SUBSET Added /\ S # {}
    BY <1>2
  <2> HIDE DEF S
  <2>2. IsFiniteSet(S) /\ Cardinality(S) <= Cardinality(Added)
    BY <1>3, <2>1, FS_Subset
  <2>3. Cardinality(S) # 0 /\ Cardinality(S) \in Nat /\ Cardinality(Added) \in Nat
    BY <1>3, <2>1, <2>2, FS_EmptySet, FS_CardinalityType
  <2>4. Place(j) = Cardinality(S)
    BY DEF Place, S
  <2>5. QED
    BY <2>2, <2>3, <2>4
<1>5. QED
  BY <1>3, <1>4

(* A result is the next tool message and the next record. *)
LEMMA RecordAppend ==
    ASSUME TypeOK, RecordInv, NEW outcome \in {"ok", "error", "timeout"}, todo # <<>>,
           Head(todo).role = "tool", Head(todo).id[2] > started, started' = started,
           history' = Append(history, Head(todo)), records' = Recorded(outcome)
    PROVE  RecordInv'
<1> DEFINE n == Len(history) + 1
<1>a. ClientTypeOK /\ history \in Seq(MessageType) /\ Head(todo) \in MessageType
  BY RecordedType DEF TypeOK, ClientTypeOK
<1>1. /\ Added' = Added \union {n}
      /\ \A j \in Added : history'[j] = history[j] /\ j \in 1..Len(history)
      /\ Len(history) \in Nat /\ history'[n] = Head(todo)
  BY <1>a, AddedAppend
<1> HIDE DEF n
<1>2. IsFiniteSet(Added) /\ \A j \in Added : Place(j) \in 1..Cardinality(Added)
  BY <1>a, AddedFinite
<1>3. /\ Len(records) \in Nat /\ DOMAIN records = 1..Len(records)
      /\ Len(records') = Len(records) + 1
      /\ \A r \in DOMAIN records : records'[r] = records[r]
      /\ records'[Len(records) + 1].call = Head(todo)
  BY RecordedType
<1>4. n \notin Added
  BY <1>1 DEF n
<1>5. Cardinality(Added') = Len(records) + 1
  <2>1. Cardinality(Added \union {n}) = Cardinality(Added) + 1
    BY <1>2, <1>4, FS_AddElement
  <2>2. Cardinality(Added) = Len(records)
    BY DEF RecordInv
  <2>3. QED
    BY <1>1, <2>1, <2>2
<1>6. \A j \in Added : Place(j)' = Place(j)
  <2> SUFFICES ASSUME NEW j \in Added PROVE Place(j)' = Place(j)
    OBVIOUS
  <2>1. {i \in Added' : i <= j} = {i \in Added : i <= j}
    BY <1>1 DEF n
  <2>2. QED
    BY <2>1 DEF Place
<1>7. ASSUME NEW j, j = n PROVE Place(j)' = Len(records) + 1
  <2>1. {i \in Added' : i <= j} = Added'
    BY <1>1, <1>7 DEF n
  <2>2. QED
    BY <1>5, <2>1 DEF Place
<1>8. ASSUME NEW j \in Added' PROVE records'[Place(j)'].call = history'[j]
  <2>1. CASE j \in Added
    BY <1>1, <1>2, <1>3, <1>6, <2>1 DEF RecordInv
  <2>2. CASE j = n
    BY <1>1, <1>3, <1>7, <2>2
  <2>3. QED
    BY <1>1, <2>1, <2>2
<1>9. QED
  BY <1>3, <1>5, <1>8 DEF RecordInv

LEMMA NextRecord ==
    TypeOK /\ ControlInv /\ ReplyInv /\ RecordInv /\ Next => RecordInv'
<1> SUFFICES ASSUME TypeOK, ControlInv, ReplyInv, RecordInv, Next PROVE RecordInv'
  OBVIOUS
<1>a. ClientTypeOK /\ history \in Seq(MessageType) /\ made[Loop] \in Nat
  BY CallFields DEF TypeOK
<1>1. CASE Begin
  <2>1. history' = history /\ started' = made[Loop] /\ records' = <<>>
    BY <1>1 DEF Begin, clientVars
  <2>2. \A i \in DOMAIN history : history[i].id[2] \in Nat /\ history[i].id[2] <= made[Loop]
    BY <1>a, MessageFields DEF ReplyInv
  <2>3. Added' = {}
    BY <1>a, <2>1, <2>2 DEF Added
  <2>4. QED
    BY <2>1, <2>3, FS_EmptySet DEF RecordInv
<1>2. CASE Advance
  <2>1. /\ ClientStep(Loop) /\ (~call[Loop].tools => call[Loop].asked = 0)
        /\ records' = records /\ started' = started
    BY <1>2 DEF Advance, loopVars, ControlInv
  <2>2. CASE Quiet
    <3>1. Added' = Added /\ history' = history
      BY <2>1, <2>2 DEF Quiet, Added
    <3>2. QED
      BY <2>1, <3>1, RecordFrame
  <2>3. ASSUME NEW r \in {"user", "assistant"}, NEW n \in Nat,
               history' = Append(history, Message(r, Id(Loop), n))
        PROVE  RecordInv'
    <3>1. Message(r, Id(Loop), n) \in MessageType /\ Message(r, Id(Loop), n).role # "tool"
      BY <1>a, LoopCalls, MessageIs DEF Message
    <3>2. Added' = Added /\ \A j \in Added : history'[j] = history[j]
      BY <1>a, <2>1, <2>3, <3>1, AddedAppend
    <3>3. QED
      BY <2>1, <3>2, RecordFrame
  <2>4. QED
    BY <1>a, <2>1, <2>2, <2>3, AdvanceIs DEF Prompted, Replied
<1>3. CASE ToolEnds
  <2>1. PICK outcome \in {"ok", "error", "timeout"} :
           /\ phase = "tools" /\ todo # <<>> /\ started' = started
           /\ history' = Append(history, Head(todo)) /\ records' = Recorded(outcome)
    BY <1>3, ToolEndsIs
  <2>2. Head(todo).role = "tool" /\ Head(todo).id[2] > started
    BY <2>1, RecordedType DEF ReplyInv
  <2>3. QED
    BY <2>1, <2>2, RecordAppend
<1>4. CASE NextRound \/ OutOfRounds \/ AskSingle \/ SingleReturns \/ CallFailed \/ Answered
           \/ StartTool \/ ToolTimesOut \/ Stopped
  <2>1. history' = history
    BY <1>4, <1>a, AskIs, EndCallIs DEF NextRound, OutOfRounds, AskSingle, SingleReturns, CallFailed,
       Answered, StartTool, ToolTimesOut, Stopped, vars, clientVars
  <2>2. started' = started /\ records' = records
    BY <1>4 DEF NextRound, OutOfRounds, AskSingle, SingleReturns, CallFailed,
       Answered, StartTool, ToolTimesOut, Stopped, vars, loopVars
  <2>3. Added' = Added
    BY <2>1, <2>2 DEF Added
  <2>4. QED
    BY <2>1, <2>2, <2>3, RecordFrame
<1>5. QED
  BY <1>1, <1>2, <1>3, <1>4 DEF Next, LoopStep

LEMMA NextError == TypeOK /\ ControlInv /\ ErrorInv /\ Next => ErrorInv'
<1> SUFFICES ASSUME TypeOK, ControlInv, ErrorInv, Next PROVE ErrorInv'
  OBVIOUS
<1>1. CASE Begin
  BY <1>1 DEF Begin, ErrorInv
<1>2. CASE ToolEnds
  <2>1. PICK outcome \in {"ok", "error", "timeout"} :
           /\ phase = "tools" /\ todo # <<>> /\ records' = Recorded(outcome)
           /\ continue_on_tool_error' = continue_on_tool_error
           /\ outcome # "ok" /\ ~continue_on_tool_error => phase' = "idle"
    BY <1>2, ToolEndsIs
  <2>2. /\ DOMAIN records' = 1..(Len(records) + 1) /\ DOMAIN records = 1..Len(records)
        /\ Len(records) \in Nat
        /\ \A r \in DOMAIN records : records'[r] = records[r]
        /\ records'[Len(records) + 1].outcome = outcome
    BY <2>1, RecordedType
  <2>3. ASSUME ~continue_on_tool_error, NEW r \in DOMAIN records', records'[r].outcome # "ok"
        PROVE  phase' = "idle"
    <3>1. CASE r \in DOMAIN records
      BY <2>1, <2>2, <2>3, <3>1 DEF ErrorInv
    <3>2. CASE r = Len(records) + 1
      BY <2>1, <2>2, <2>3, <3>2
    <3>3. QED
      BY <2>2, <3>1, <3>2
  <2>4. QED
    BY <2>1, <2>3 DEF ErrorInv
<1>3. CASE LoopStep \/ Stopped
  <2>1. UNCHANGED <<records, continue_on_tool_error>>
    BY <1>3 DEF LoopStep, NextRound, OutOfRounds, AskSingle, Advance, SingleReturns, CallFailed,
       Answered, StartTool, ToolTimesOut, Stopped, vars, loopVars
  <2>2. phase = "idle" => phase' = "idle"
    <3>1. CASE Advance
      BY <3>1 DEF Advance, loopVars
    <3>2. CASE ~Advance
      BY <1>3, <3>2 DEF LoopStep, NextRound, OutOfRounds, AskSingle, SingleReturns, CallFailed,
         Answered, StartTool, ToolTimesOut, Stopped, vars, loopVars, ControlInv
    <3>3. QED
      BY <3>1, <3>2
  <2>3. QED
    BY <2>1, <2>2 DEF ErrorInv
<1>4. QED
  BY <1>1, <1>2, <1>3 DEF Next

LEMMA InitInv == Init => IInv
<1> SUFFICES ASSUME Init PROVE IInv
  OBVIOUS
<1>1. /\ history = <<>> /\ DOMAIN history = {} /\ stage = "idle" /\ ~InFlight(Loop)
      /\ phase = "idle" /\ status = "none" /\ todo = <<>> /\ DOMAIN todo = {}
      /\ records = <<>> /\ DOMAIN records = {}
  BY LoopCalls DEF Init, ClientInit, NoCall, stage, InFlight
<1>2. Added = {} /\ Len(records) = 0
  BY <1>1 DEF Added
<1>3. RecordInv
  BY <1>2, FS_EmptySet DEF RecordInv
<1>4. Whole(history)
  BY <1>1 DEF Whole, Behind
<1>5. HistoryInv
  BY <1>1, <1>4 DEF HistoryInv
<1>6. ReplyInv
  BY <1>1 DEF ReplyInv
<1>7. RanInv /\ ErrorInv
  BY <1>1 DEF RanInv, ErrorInv
<1>8. QED
  BY <1>3, <1>5, <1>6, <1>7, InitTypeOK, InitControl DEF IInv

LEMMA NextInv == IInv /\ [Next]_vars => IInv'
<1> SUFFICES ASSUME IInv, [Next]_vars PROVE IInv'
  OBVIOUS
<1>1. CASE Next
  BY <1>1, NextTypeOK, NextControl, NextCount, NextReply, NextHistory, NextRan, NextRecord, NextError
     DEF IInv
<1>2. CASE UNCHANGED vars
  <2>1. /\ UNCHANGED <<history, call, made, usage>>
        /\ UNCHANGED <<phase, round, llm_calls, todo, tool, records, final, status,
                       continue_on_tool_error, executions, started>>
    BY <1>2 DEF vars, clientVars, loopVars
  <2>2. stage' = stage /\ InFlight(Loop)' = InFlight(Loop)
    BY <2>1 DEF stage, InFlight
  <2>3. TypeOK'
    BY <2>1 DEF IInv, TypeOK, ClientTypeOK
  <2>4. ControlInv' /\ CountInv' /\ ErrorInv'
    BY <2>1, <2>2 DEF IInv, ControlInv, CountInv, ErrorInv
  <2>5. ReplyInv'
    BY <2>1, <2>2, ReplyFrame DEF IInv
  <2>6. HistoryInv'
    BY <2>1, <2>2 DEF IInv, HistoryInv
  <2>7. RanInv'
    BY <2>1, RanFrame DEF IInv
  <2>8. Added' = Added
    BY <2>1 DEF Added
  <2>9. RecordInv'
    BY <2>1, <2>8, RecordFrame DEF IInv
  <2>10. QED
    BY <2>3, <2>4, <2>5, <2>6, <2>7, <2>9 DEF IInv
<1>3. QED
  BY <1>1, <1>2

-----------------------------------------------------------------------------
(* Theorems. *)

(* What an execution has counted, asked for, run and recorded fits together at
   every step, whatever the model answers and the tools do. *)
THEOREM Invariant == Spec => []IInv
  BY InitInv, NextInv, PTL DEF Spec

(* Every variable keeps its type. *)
THEOREM TypeCorrect == Spec => []TypeOK
<1>1. IInv => TypeOK
  BY DEF IInv
<1>2. QED
  BY <1>1, Invariant, PTL

(* With continue_on_tool_error, no request leaves a tool call of an earlier
   answer open or carries a result nobody asked for: add_tool_result answers
   each call in its turn, also one that failed or timed out. *)
THEOREM CallsAnswered == Spec => []ToolCallsAnswered
<1>1. IInv => ToolCallsAnswered
  <2> SUFFICES ASSUME IInv, continue_on_tool_error, InFlight(Loop) PROVE ToolCallsAnswered
    BY DEF ToolCallsAnswered
  <2> DEFINE seen == call[Loop].seen
  <2>1. Whole(seen)
    BY DEF IInv, HistoryInv
  <2>2. QED
    BY <2>1 DEF Whole, AnsweredAt, Behind, Reply, Tool, ToolCallsAnswered
<1>2. QED
  BY <1>1, Invariant, PTL

(* AgentResult tells what happened: the tool records are the tool messages of
   the execution in their order, total_llm_calls the calls made, and a success
   leaves no tool call of its answer unrun. *)
THEOREM ResultsTrue == Spec => []ResultAddsUp
<1>1. IInv => ResultAddsUp
  <2> SUFFICES ASSUME IInv, phase = "idle", executions > 0, status # "raised" PROVE ResultAddsUp
    BY DEF ResultAddsUp
  <2>1. llm_calls = made[Loop] - started
        /\ (status = "success" => final \in {made[Loop], made[Loop] - 1})
    BY DEF IInv, CountInv
  <2>2. Cardinality(Added) = Len(records) /\ \A j \in Added : records[Place(j)].call = history[j]
    BY DEF IInv, RecordInv
  <2>3. \A i \in DOMAIN history :
           status = "success" /\ history[i].role = "assistant" /\ history[i].id[2] = final
               => \A k \in 1..history[i].num :
                     /\ final < made[Loop]
                     /\ \E r \in DOMAIN records : records[r].call = Message("tool", history[i].id, k)
    BY DEF IInv, RanInv, Ran, Reply, Tool
  <2>4. QED
    BY <2>1, <2>2, <2>3 DEF ResultAddsUp
<1>2. QED
  BY <1>1, Invariant, PTL

(* Without continue_on_tool_error a failed tool ends the execution: no model
   call, tool or message follows. *)
THEOREM ErrorStops == Spec => ErrorStopsLoop
<1>1. ASSUME IInv, [Next]_vars, ~continue_on_tool_error, executions' = executions,
             \E i \in DOMAIN records : records[i].outcome # "ok"
      PROVE  UNCHANGED <<made, records, tool, history>>
  <2>1. phase = "idle" /\ stage = "idle" /\ tool = "none" /\ executions \in Nat
    BY <1>1 DEF IInv, ErrorInv, ControlInv, TypeOK
  <2>2. CASE Begin
    BY <1>1, <2>1, <2>2 DEF Begin
  <2>3. CASE Advance
    <3>1. InFlight(Loop)
      BY <1>1, <2>3, AdvanceIs DEF Advance, IInv, TypeOK, ControlInv
    <3>2. QED
      BY <2>1, <3>1 DEF InFlight, stage
  <2>4. CASE ~Begin /\ ~Advance /\ Next
    BY <2>1, <2>4 DEF Next, LoopStep, NextRound, OutOfRounds, AskSingle, SingleReturns, CallFailed,
       Answered, StartTool, ToolTimesOut, ToolEnds, Stopped, vars, loopVars, clientVars
  <2>5. CASE UNCHANGED vars
    BY <2>5 DEF vars, loopVars, clientVars
  <2>6. QED
    BY <1>1, <2>2, <2>3, <2>4, <2>5
<1>2. QED
  BY <1>1, Invariant, PTL DEF Spec, ErrorStopsLoop
=============================================================================
