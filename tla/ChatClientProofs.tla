--------------------------- MODULE ChatClientProofs ---------------------------
(***************************************************************************)
(* What a step of a client call does to the client, for any number of      *)
(* fallbacks and attempts: the lemmas that ConversationProofs and          *)
(* AgentLoopProofs rest on.                                                *)
(***************************************************************************)
EXTENDS ChatClient, SequenceTheorems, TLAPS

LEMMA MessageIs ==
    ASSUME ClientTypeOK, NEW c \in Caller, NEW r \in {"user", "assistant", "tool"}, NEW n \in Nat
    PROVE  Message(r, Id(c), n) \in MessageType
  BY DEF ClientTypeOK, Message, Id, MessageType

LEMMA NoCallType == NoCall \in CallType
  BY ChatClientAssumption DEF NoCall, CallType, Stage

LEMMA ClientInitType == ClientInit => ClientTypeOK
<1> SUFFICES ASSUME ClientInit PROVE ClientTypeOK
  OBVIOUS
<1>1. NoCall \in CallType
  BY NoCallType
<1>2. history \in Seq(MessageType) /\ made \in [Caller -> Nat] /\ usage \in SUBSET (Caller \X Nat)
  BY DEF ClientInit
<1>3. QED
  BY <1>1, <1>2 DEF ClientInit, ClientTypeOK

(* A call begins: with the whole history, or refused before it is read. *)
LEMMA PrepareIs ==
    ASSUME ClientTypeOK, NEW c \in Caller, NEW tools \in BOOLEAN, Prepare(c, tools)
    PROVE  /\ ClientTypeOK'
           /\ call[c].stage = "idle" /\ call'[c].stage = "primary" /\ call'[c].seen = history
           /\ call'[c].tools = tools
           /\ made'[c] = made[c] + 1 /\ history' = history
           /\ \A d \in Caller \ {c} : call'[d] = call[d] /\ made'[d] = made[d]
<1> DEFINE new == [NoCall EXCEPT !.stage = "primary", !.tools = tools, !.attempt = 1, !.seen = history]
<1>1. new \in CallType
  <2>1. 1 \in 0..MaxAttempts /\ "primary" \in Stage /\ history \in Seq(MessageType)
    BY ChatClientAssumption DEF Stage, ClientTypeOK
  <2>2. QED
    BY <2>1, NoCallType DEF CallType
<1>2. new.stage = "primary" /\ new.seen = history /\ new.tools = tools
  BY DEF NoCall
<1>3. call' = [call EXCEPT ![c] = new]
  BY DEF Prepare
<1> HIDE DEF new
<1>4. QED
  BY <1>1, <1>2, <1>3 DEF Prepare, ClientTypeOK

LEMMA RefuseIs ==
    ASSUME ClientTypeOK, NEW c \in Caller, Refuse(c)
    PROVE  /\ ClientTypeOK'
           /\ call[c].stage = "idle" /\ call'[c].stage = "raised"
           /\ made'[c] = made[c] + 1 /\ history' = history /\ usage' = usage
           /\ \A d \in Caller \ {c} : call'[d] = call[d] /\ made'[d] = made[d]
<1> DEFINE new == [NoCall EXCEPT !.stage = "raised"]
<1>1. new \in CallType
  BY NoCallType DEF CallType, Stage
<1>2. new.stage = "raised"
  BY DEF NoCall
<1>3. call' = [call EXCEPT ![c] = new]
  BY DEF Refuse
<1> HIDE DEF new
<1>4. QED
  <2>1. call' \in [Caller -> CallType] /\ call'[c] = new /\ \A d \in Caller \ {c} : call'[d] = call[d]
    BY <1>1, <1>3 DEF ClientTypeOK
  <2>2. made' \in [Caller -> Nat] /\ made'[c] = made[c] + 1 /\ \A d \in Caller \ {c} : made'[d] = made[d]
    BY DEF Refuse, ClientTypeOK
  <2>3. QED
    BY <1>2, <2>1, <2>2 DEF Refuse, ClientTypeOK

LEMMA GiveUpType ==
    ASSUME NEW r \in CallType
    PROVE  /\ GiveUpPrimary(r) \in CallType /\ GiveUpPrimary(r).stage \in {"fallback", "raised"}
           /\ GiveUpPrimary(r).seen = r.seen /\ GiveUpPrimary(r).tools = r.tools
           /\ GiveUpPrimary(r).asked = r.asked
<1>1. Fallbacks > 0 => 1 \in 0..Fallbacks
  BY ChatClientAssumption
<1>2. CASE Fallbacks > 0
  <2>1. GiveUpPrimary(r) = [r EXCEPT !.stage = "fallback", !.fallback = 1]
    BY <1>2 DEF GiveUpPrimary
  <2>2. QED
    BY <1>1, <1>2, <2>1 DEF CallType, Stage
<1>3. CASE ~(Fallbacks > 0)
  <2>1. GiveUpPrimary(r) = [r EXCEPT !.stage = "raised"]
    BY <1>3 DEF GiveUpPrimary
  <2>2. QED
    BY <2>1 DEF CallType, Stage
<1>4. QED
  BY <1>2, <1>3

(* A step of a call under way: the attempts change the call alone, and the
   recording appends to the history, the prompt first. *)
LEMMA ClientStepIs ==
    ASSUME ClientTypeOK, NEW c \in Caller, ClientStep(c)
    PROVE  /\ ClientTypeOK' /\ made' = made
           /\ \A d \in Caller \ {c} : call'[d] = call[d]
           /\ call'[c].seen = call[c].seen /\ call'[c].tools = call[c].tools
           /\ InFlight(c)
           /\ \/ /\ call[c].stage \in {"primary", "fallback"} /\ history' = history
                 /\ call'[c].stage \in {"primary", "fallback", "record_user", "record_fallback", "raised"}
                 /\ call'[c].asked = call[c].asked \/ call'[c].asked \in Asks(c)
              \/ /\ call[c].stage = "record_user" /\ call'[c].stage = "record_reply"
                 /\ history' = Append(history, Message("user", Id(c), 0))
                 /\ call'[c].asked = call[c].asked /\ usage' = {Id(c)}
              \/ /\ call[c].stage = "record_reply" /\ call'[c].stage = "replied"
                 /\ history' = Append(history, Message("assistant", Id(c), call[c].asked))
                 /\ call'[c].asked = call[c].asked /\ usage' = usage
              \/ /\ call[c].stage = "record_fallback" /\ call'[c].stage = "replied"
                 /\ history' = Append(history, Message("assistant", Id(c), 0))
                 /\ call'[c].asked = call[c].asked /\ usage' = {Id(c)}
<1>a. call[c] \in CallType /\ history \in Seq(MessageType) /\ call \in [Caller -> CallType]
      /\ made \in [Caller -> Nat] /\ usage \in SUBSET (Caller \X Nat) /\ Id(c) \in Caller \X Nat
  BY DEF ClientTypeOK, Id
<1>b. call[c].asked \in Nat /\ call[c].attempt \in 0..MaxAttempts /\ call[c].fallback \in 0..Fallbacks
  BY <1>a, ChatClientAssumption DEF CallType
<1>c. ASSUME NEW new \in CallType, call' = [call EXCEPT ![c] = new]
      PROVE  /\ call' \in [Caller -> CallType] /\ call'[c] = new
             /\ \A d \in Caller \ {c} : call'[d] = call[d]
  BY <1>a, <1>c
<1>1. CASE PrimaryAnswers(c)
  <2>1. PICK k \in Asks(c) : call' = [call EXCEPT ![c].stage = "record_user", ![c].asked = k]
    BY <1>1 DEF PrimaryAnswers
  <2> DEFINE new == [call[c] EXCEPT !.stage = "record_user", !.asked = k]
  <2>2. call' = [call EXCEPT ![c] = new]
    BY <1>a, <2>1
  <2>3. new \in CallType /\ new.stage = "record_user" /\ new.asked = k /\ new.seen = call[c].seen
        /\ new.tools = call[c].tools
    BY <1>a, ChatClientAssumption DEF CallType, Stage, Asks
  <2> HIDE DEF new
  <2>4. QED
    BY <1>1, <1>a, <1>c, <2>2, <2>3 DEF PrimaryAnswers, ClientTypeOK, InFlight
<1>2. CASE PrimaryFails(c)
  <2>1. PICK transient \in BOOLEAN :
           call' = [call EXCEPT ![c] = IF transient /\ @.attempt < MaxAttempts
                                       THEN AttemptAgain(@) ELSE GiveUpPrimary(@)]
    BY <1>2 DEF PrimaryFails
  <2>2. CASE transient /\ call[c].attempt < MaxAttempts
    <3> DEFINE new == AttemptAgain(call[c])
    <3>1. call' = [call EXCEPT ![c] = new]
      BY <2>1, <2>2
    <3>2. call[c].attempt + 1 \in 0..MaxAttempts
      BY <1>b, <2>2, ChatClientAssumption
    <3>3. new \in CallType /\ new.stage = "primary" /\ new.seen = call[c].seen
          /\ new.tools = call[c].tools /\ new.asked = call[c].asked
      BY <1>2, <1>a, <3>2 DEF CallType, PrimaryFails, AttemptAgain
    <3> HIDE DEF new
    <3>4. QED
      BY <1>2, <1>a, <1>c, <3>1, <3>3 DEF PrimaryFails, Unusable, ClientTypeOK, InFlight
  <2>3. CASE ~(transient /\ call[c].attempt < MaxAttempts)
    <3> DEFINE new == GiveUpPrimary(call[c])
    <3>1. call' = [call EXCEPT ![c] = new]
      BY <2>1, <2>3
    <3>2. new \in CallType /\ new.stage \in {"fallback", "raised"} /\ new.seen = call[c].seen
          /\ new.tools = call[c].tools
      BY <1>a, GiveUpType
    <3>3. new.asked = call[c].asked
      BY <1>a, GiveUpType
    <3> HIDE DEF new
    <3>4. QED
      BY <1>2, <1>a, <1>c, <3>1, <3>2, <3>3 DEF PrimaryFails, Unusable, ClientTypeOK, InFlight
  <2>4. QED
    BY <2>2, <2>3
<1>3. CASE FallbackAnswers(c)
  <2>1. PICK k \in Asks(c) : call' = [call EXCEPT ![c].stage = "record_fallback", ![c].asked = k]
    BY <1>3 DEF FallbackAnswers
  <2> DEFINE new == [call[c] EXCEPT !.stage = "record_fallback", !.asked = k]
  <2>2. call' = [call EXCEPT ![c] = new]
    BY <1>a, <2>1
  <2>3. new \in CallType /\ new.stage = "record_fallback" /\ new.asked = k /\ new.seen = call[c].seen
        /\ new.tools = call[c].tools
    BY <1>a, ChatClientAssumption DEF CallType, Stage, Asks
  <2> HIDE DEF new
  <2>4. QED
    BY <1>3, <1>a, <1>c, <2>2, <2>3 DEF FallbackAnswers, ClientTypeOK, InFlight
<1>4. CASE FallbackFails(c)
  <2>1. CASE call[c].fallback < Fallbacks
    <3> DEFINE new == NextFallback(call[c])
    <3>1. call' = [call EXCEPT ![c] = new]
      BY <1>4, <2>1 DEF FallbackFails
    <3>2. call[c].fallback + 1 \in 0..Fallbacks
      BY <1>b, <2>1, ChatClientAssumption
    <3>3. new \in CallType /\ new.stage = "fallback" /\ new.seen = call[c].seen
          /\ new.tools = call[c].tools /\ new.asked = call[c].asked
      BY <1>4, <1>a, <3>2 DEF FallbackFails, CallType, NextFallback
    <3> HIDE DEF new
    <3>4. QED
      BY <1>4, <1>a, <1>c, <3>1, <3>3 DEF FallbackFails, Unusable, ClientTypeOK, InFlight
  <2>2. CASE ~(call[c].fallback < Fallbacks)
    <3> DEFINE new == [call[c] EXCEPT !.stage = "raised"]
    <3>1. call' = [call EXCEPT ![c] = new]
      BY <1>4, <2>2 DEF FallbackFails
    <3>2. new \in CallType /\ new.stage = "raised" /\ new.seen = call[c].seen
          /\ new.tools = call[c].tools /\ new.asked = call[c].asked
      BY <1>a DEF CallType, Stage
    <3> HIDE DEF new
    <3>3. QED
      BY <1>4, <1>a, <1>c, <3>1, <3>2 DEF FallbackFails, Unusable, ClientTypeOK, InFlight
  <2>3. QED
    BY <2>1, <2>2
<1>5. CASE RecordUser(c) \/ RecordReply(c) \/ RecordFallback(c)
  <2>1. Message("user", Id(c), 0) \in MessageType /\ Message("assistant", Id(c), 0) \in MessageType
        /\ Message("assistant", Id(c), call[c].asked) \in MessageType
    BY <1>b, MessageIs
  <2>2. PICK s \in {"record_reply", "replied"} : call' = [call EXCEPT ![c].stage = s]
    BY <1>5 DEF RecordUser, RecordReply, RecordFallback
  <2> DEFINE new == [call[c] EXCEPT !.stage = s]
  <2>3. call' = [call EXCEPT ![c] = new]
    BY <1>a, <2>2
  <2>4. new \in CallType /\ new.stage = s /\ new.seen = call[c].seen /\ new.tools = call[c].tools
        /\ new.asked = call[c].asked
    BY <1>a DEF CallType, Stage
  <2> HIDE DEF new
  <2>5. ClientTypeOK'
    <3>1. call' \in [Caller -> CallType]
      BY <1>c, <2>3, <2>4
    <3>2. history' \in Seq(MessageType)
      <4>1. PICK m \in MessageType : history' = Append(history, m)
        BY <1>5, <2>1 DEF RecordUser, RecordReply, RecordFallback
      <4>2. QED
        BY <1>a, <4>1
    <3>3. made' = made /\ (usage' = usage \/ usage' = {Id(c)})
      BY <1>5 DEF RecordUser, RecordReply, RecordFallback
    <3>4. QED
      BY <1>a, <3>1, <3>2, <3>3 DEF ClientTypeOK
  <2>6. (RecordUser(c) => call' = [call EXCEPT ![c].stage = "record_reply"])
        /\ (RecordReply(c) \/ RecordFallback(c) => call' = [call EXCEPT ![c].stage = "replied"])
    BY DEF RecordUser, RecordReply, RecordFallback
  <2>7. (RecordUser(c) => call'[c].stage = "record_reply")
        /\ (RecordReply(c) \/ RecordFallback(c) => call'[c].stage = "replied")
    BY <1>a, <2>6 DEF CallType
  <2>8. QED
    BY <1>5, <1>a, <1>c, <2>3, <2>4, <2>5, <2>7 DEF RecordUser, RecordReply, RecordFallback, InFlight
<1>6. QED
  BY <1>1, <1>2, <1>3, <1>4, <1>5 DEF ClientStep

(* A caller takes the outcome of its call. *)
LEMMA CallTaken ==
    ASSUME ClientTypeOK, NEW c \in Caller, call' = [call EXCEPT ![c].stage = "idle"],
           UNCHANGED <<history, made, usage>>
    PROVE  /\ ClientTypeOK' /\ call'[c].stage = "idle"
           /\ call'[c].seen = call[c].seen /\ call'[c].asked = call[c].asked
           /\ \A d \in Caller \ {c} : call'[d] = call[d]
<1> DEFINE new == [call[c] EXCEPT !.stage = "idle"]
<1>1. new \in CallType /\ new.stage = "idle" /\ new.seen = call[c].seen /\ new.asked = call[c].asked
  BY DEF ClientTypeOK, CallType, Stage
<1>2. call' = [call EXCEPT ![c] = new]
  BY DEF ClientTypeOK
<1> HIDE DEF new
<1>3. QED
  BY <1>1, <1>2 DEF ClientTypeOK
=============================================================================
