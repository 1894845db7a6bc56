-------------------------------- MODULE Facade --------------------------------
(***************************************************************************)
(* FFAI with a RAG: one client goes to the conversation manager, the       *)
(* engine and the RAG adapter, and set_client replaces it in each of them. *)
(* A worker thread is inside generate_response or RAG.query while the main *)
(* thread switches the client or adds a message by hand. What an engine    *)
(* call does between its reads of the client is in Conversation; here an   *)
(* exchange with a client is one step.                                     *)
(***************************************************************************)
EXTENDS Naturals, Sequences, FiniteSets

CONSTANTS Client,
          MaxCalls, MaxDeeds    \* bounds: calls of the worker, deeds of the main thread

VARIABLES conv,        \* conversation_history of each client: the exchanges in it
          metered,     \* last_usage of each client
          wired,       \* the client in the facade, manager, engine and adapter
          worker, main,
          calls, deeds,
          told,        \* the exchanges that were answered or added
          torn         \* a history was overwritten that had changed since it was read

vars == << conv, metered, wired, worker, main, calls, deeds, told, torn >>

Part == {"facade", "manager", "engine", "adapter"}

NoCall == [pc |-> "idle", kind |-> "plain", asked |-> CHOOSE c \in Client : TRUE, saved |-> <<>>, new |-> <<>>,
           seen |-> <<>>, ok |-> FALSE, reported |-> 0, quiet |-> TRUE, before |-> <<>>]

Init ==
    /\ conv = [c \in Client |-> <<>>] /\ metered = [c \in Client |-> 0]
    /\ wired \in {[p \in Part |-> c] : c \in Client}
    /\ worker = NoCall
    /\ main = [pc |-> "idle", client |-> wired["facade"], copy |-> <<>>]
    /\ calls = 0 /\ deeds = 0 /\ told = {} /\ torn = FALSE

Busy == worker.pc \notin {"idle", "done"}

(* The number of the exchange under way, and of one added by hand. *)
Exchange == calls
ByHand == MaxCalls + deeds

-----------------------------------------------------------------------------
(* Of the worker. A declarative prompt suspends the conversation; a query of
   RAG asks the client of the adapter, inside its conversation. *)
Begin ==
    /\ ~Busy /\ calls < MaxCalls /\ calls' = calls + 1
    /\ \E kind \in {"plain", "declarative", "query"} :
          worker' = [NoCall EXCEPT !.kind = kind, !.before = conv, !.quiet = main.pc = "idle",
                        !.pc = CASE kind = "declarative" -> "suspend"
                                 [] kind = "plain" -> "take"
                                 [] kind = "query" -> "generate",
                        !.asked = wired["adapter"]]
    /\ UNCHANGED << conv, metered, wired, main, deeds, told, torn >>

(* suspend: the client is looked up in either statement. *)
SuspendRead ==
    /\ worker.pc = "suspend"
    /\ worker' = [worker EXCEPT !.pc = "clear", !.saved = conv[wired["manager"]]]
    /\ UNCHANGED << conv, metered, wired, main, calls, deeds, told, torn >>

SuspendClear ==
    /\ worker.pc = "clear"
    /\ torn' = (torn \/ conv[wired["manager"]] # worker.saved)
    /\ conv' = [conv EXCEPT ![wired["manager"]] = <<>>]
    /\ worker' = [worker EXCEPT !.pc = "take"]
    /\ UNCHANGED << metered, wired, main, calls, deeds, told >>

(* base_fn = self._client.generate_response *)
Take ==
    /\ worker.pc = "take"
    /\ worker' = [worker EXCEPT !.pc = "generate", !.asked = wired["engine"]]
    /\ UNCHANGED << conv, metered, wired, main, calls, deeds, told, torn >>

After == IF worker.kind = "declarative" THEN "restore" ELSE "report"

Generate ==
    /\ worker.pc = "generate"
    /\ \E ok \in BOOLEAN :
          /\ worker' = [worker EXCEPT !.pc = IF ok \/ After = "restore" THEN After ELSE "done",
                                      !.seen = conv[worker.asked], !.ok = ok]
          /\ conv' = IF ok THEN [conv EXCEPT ![worker.asked] = Append(@, Exchange)] ELSE conv
          /\ told' = IF ok THEN told \union {Exchange} ELSE told
          /\ metered' = [metered EXCEPT ![worker.asked] = IF ok THEN Exchange ELSE 0]
    /\ UNCHANGED << wired, main, calls, deeds, torn >>

(* restore, on success and on failure. *)
RestoreRead ==
    /\ worker.pc = "restore"
    /\ worker' = [worker EXCEPT !.pc = "write", !.new = conv[wired["manager"]]]
    /\ UNCHANGED << conv, metered, wired, main, calls, deeds, told, torn >>

RestoreWrite ==
    /\ worker.pc = "write"
    /\ torn' = (torn \/ conv[wired["manager"]] # worker.new)
    /\ conv' = [conv EXCEPT ![wired["manager"]] = worker.saved \o worker.new]
    /\ worker' = [worker EXCEPT !.pc = IF worker.ok THEN "report" ELSE "done"]
    /\ UNCHANGED << metered, wired, main, calls, deeds, told >>

(* The engine reads the usage of the client it has now, the adapter that of
   the client it asked. *)
Report ==
    /\ worker.pc = "report"
    /\ worker' = [worker EXCEPT !.pc = "done",
                     !.reported = metered[IF worker.kind = "query" THEN worker.asked ELSE wired["engine"]]]
    /\ UNCHANGED << conv, metered, wired, main, calls, deeds, told, torn >>

Work == Begin \/ SuspendRead \/ SuspendClear \/ Take \/ Generate \/ RestoreRead \/ RestoreWrite \/ Report

-----------------------------------------------------------------------------
(* Of the main thread. *)
Disturbs == worker' = [worker EXCEPT !.quiet = FALSE]

Switch ==
    /\ main.pc = "idle" /\ deeds < MaxDeeds /\ deeds' = deeds + 1
    /\ \E c \in Client : main' = [main EXCEPT !.pc = "facade", !.client = c]
    /\ Disturbs
    /\ UNCHANGED << conv, metered, wired, calls, told, torn >>

(* Mutant: one part keeps the client it had. *)
SetPartButManager(part, next) ==
    /\ main.pc = part
    /\ wired' = IF part = "manager" THEN wired ELSE [wired EXCEPT ![part] = main.client]
    /\ main' = [main EXCEPT !.pc = next]
    /\ Disturbs
    /\ UNCHANGED << conv, metered, calls, deeds, told, torn >>

(* The statements of set_client, in their order. *)
SetPart(part, next) ==
    /\ main.pc = part
    /\ wired' = [wired EXCEPT ![part] = main.client]
    /\ main' = [main EXCEPT !.pc = next]
    /\ Disturbs
    /\ UNCHANGED << conv, metered, calls, deeds, told, torn >>

(* add_client_message: a copy of the history is read, and set one longer. *)
AddRead ==
    /\ main.pc = "idle" /\ deeds < MaxDeeds /\ deeds' = deeds + 1
    /\ main' = [main EXCEPT !.pc = "add", !.copy = conv[wired["manager"]]]
    /\ Disturbs
    /\ UNCHANGED << conv, metered, wired, calls, told, torn >>

AddWrite ==
    /\ main.pc = "add"
    /\ torn' = (torn \/ conv[wired["manager"]] # main.copy)
    /\ conv' = [conv EXCEPT ![wired["manager"]] = Append(main.copy, ByHand)]
    /\ told' = told \union {ByHand}
    /\ main' = [main EXCEPT !.pc = "idle", !.copy = <<>>]
    /\ Disturbs
    /\ UNCHANGED << metered, wired, calls, deeds >>

Deeds ==
    \/ Switch \/ AddRead \/ AddWrite
    \/ SetPart("facade", "manager") \/ SetPart("manager", "engine")
    \/ SetPart("engine", "adapter") \/ SetPart("adapter", "idle")

Next == Work \/ Deeds

Spec == Init /\ [][Next]_vars

-----------------------------------------------------------------------------
(* Where an exchange stands: in a conversation, or saved by the call. *)
Places(message) ==
    {place \in Client \X (1..MaxCalls + MaxDeeds) :
        place[2] \in DOMAIN conv[place[1]] /\ conv[place[1]][place[2]] = message}

SavedPlaces(message) ==
    IF worker.kind = "declarative" /\ worker.pc \in {"take", "generate", "restore", "write"}
      THEN {k \in DOMAIN worker.saved : worker.saved[k] = message}
    ELSE {}

Heard(message) == Cardinality(Places(message)) + Cardinality(SavedPlaces(message))

(* When set_client is over all parts use its client. Whatever is switched or
   added during calls, every exchange answered or added is heard once, but where
   a history is overwritten that changed since it was read; a switch may move a
   conversation to the other client. A call that nothing disturbs adds its own
   exchange to the conversation of the client it asked and to no other, a failed
   one none; a declarative one is answered outside of the conversation, any other
   inside; and it reports the usage of its own exchange (FFAI.py:259-276,
   conversation_manager.py:62-95). *)
WiringRight ==
    /\ main.pc \in {"idle", "add"} => \A p \in Part : wired[p] = main.client
    /\ ~torn => \A message \in 1..MaxCalls + MaxDeeds : Heard(message) = IF message \in told THEN 1 ELSE 0
    /\ worker.pc = "done" /\ worker.quiet =>
          /\ conv = IF worker.ok THEN [worker.before EXCEPT ![worker.asked] = Append(@, Exchange)]
                    ELSE worker.before
          /\ worker.seen = IF worker.kind = "declarative" THEN <<>> ELSE worker.before[worker.asked]
          /\ worker.ok => worker.reported = Exchange
=============================================================================
