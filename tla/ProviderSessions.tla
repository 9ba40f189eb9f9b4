-------------------------- MODULE ProviderSessions --------------------------
(* The provider session of one thread: what the user chose, what the read    *)
(* model shows, what the session directory remembers over restarts, and the  *)
(* processes that really run.                                                *)
(*                                                                           *)
(* ProviderCommandReactor handles the intents of the thread one by one;      *)
(* streaming messages of the client call ProviderService beside it; the      *)
(* ingestion of runtime events writes the shown session as well.  Each of    *)
(* them reads one of these states and writes another some steps later.       *)
EXTENDS Naturals, Sequences

CONSTANTS
    Providers,  \* "codex": the pi adapter, which keeps a session it has;
                \* "claudeAgent": its adapter starts another one
    Budgets     \* how often the rest may happen, by name of the kind (see Kinds)

Kinds == {"modes", "turns", "streams", "interrupts", "stops", "exits", "crashes", "failures"}

ASSUME SessionsAssumption ==
    /\ Providers \subseteq {"codex", "claudeAgent"}
    /\ Budgets \subseteq [Kinds -> Nat]

VARIABLES
    provider,    \* the provider of the thread
    mode,        \* thread.runtimeMode
    session,     \* thread.session: its status ("live": any but stopped) and mode
    binding,     \* the row of the session directory: mode and resume cursor
    registered,  \* the adapter's entry for the thread: mode and conversation
    orphans,     \* processes of the thread that are in no map any more
    queue,       \* intents the reactor has not taken
    call,        \* call[c]: where the reactor and a streaming message are
    events,      \* runtime events not ingested: "live" or "stopped"
    ingest,      \* the event in hand, with the mode read at its beginning
    fresh,       \* conversations begun
    spoken,      \* the conversation the last message went to (history)
    races,       \* what went wrong so far (history)
    budget       \* what is left of the chosen member of Budgets

stored == <<mode, session, binding>>
vars == <<provider, stored, registered, orphans, queue, call, events, ingest, fresh, spoken, races,
          budget>>

Modes == {"full-access", "approval-required"}
Default == "full-access"
Callers == {"reactor", "stream"}

(* A mode and a conversation; conversation 0 is none, without a process, row *)
(* or cursor.                                                                *)
At(m, conversation) == [mode |-> m, conv |-> conversation]
Nothing == At(Default, 0)
Is(x) == x.conv # 0

(* Where a caller is, for which intent, the mode it wants, and the session   *)
(* it starts or has got.                                                     *)
Free == [at |-> "idle", intent |-> "none", wanted |-> Default, for |-> Nothing, then |-> "none"]
NoEvent == [kind |-> "none", mode |-> Default]

Init ==
    /\ provider \in Providers
    /\ mode \in Modes
    /\ session = [status |-> "none", mode |-> Default]
    /\ binding = Nothing
    /\ registered = Nothing
    /\ orphans = {}
    /\ queue = <<>>
    /\ call = [c \in Callers |-> Free]
    /\ events = <<>>
    /\ ingest = NoEvent
    /\ fresh = 0
    /\ spoken = 0
    /\ races = {}
    /\ budget \in Budgets

Spend(what) == budget[what] > 0 /\ budget' = [budget EXCEPT ![what] = @ - 1]

-----------------------------------------------------------------------------
(* What clients ask for.                                                     *)

Request(intent, what) ==
    /\ Spend(what)
    /\ queue' = Append(queue, intent)
    /\ UNCHANGED <<provider, session, binding, registered, orphans, call, events, ingest, fresh,
                   spoken, races>>

SetMode == \E m \in Modes \ {mode} : mode' = m /\ Request("mode", "modes")
RequestTurn == Request("turn", "turns") /\ UNCHANGED mode
RequestInterrupt == Request("interrupt", "interrupts") /\ UNCHANGED mode
RequestStop == Request("stop", "stops") /\ UNCHANGED mode

(* sendStreamingMessage, of a client that is shown a session.                *)
SendStreaming ==
    /\ Spend("streams")
    /\ call["stream"] = Free /\ session.status = "live"
    /\ call' = [call EXCEPT !["stream"] = [Free EXCEPT !.at = "route", !.intent = "stream"]]
    /\ UNCHANGED <<provider, stored, registered, orphans, queue, events, ingest, fresh, spoken, races>>

-----------------------------------------------------------------------------
(* The reactor takes an intent and decides on what is shown.                 *)

Goes(c, to) == call' = [call EXCEPT ![c].at = to]
Ends(c) == call' = [call EXCEPT ![c] = Free]

(* ensureSessionForThread: what to do before the intent.                     *)
Ensure(intent) ==
    LET next == [Free EXCEPT !.intent = intent, !.wanted = mode, !.then = "set"]
        restart == session.status = "live" /\ session.mode # mode
    IN IF session.status = "live" /\ ~restart
       THEN IF intent = "mode" THEN Free ELSE [next EXCEPT !.at = "route"]
       ELSE [next EXCEPT !.at = "start",
                         !.for = At(mode, IF restart THEN registered.conv ELSE 0)]

TakeIntent ==
    /\ queue # <<>> /\ call["reactor"] = Free
    /\ queue' = Tail(queue)
    /\ LET intent == Head(queue)
           shown == session.status = "live"
           next == [Free EXCEPT !.intent = intent, !.wanted = session.mode]
       IN call' = [call EXCEPT !["reactor"] =
              CASE intent = "turn" -> Ensure(intent)
                [] intent = "mode" -> IF shown THEN Ensure(intent) ELSE Free
                [] intent = "interrupt" -> IF shown THEN [next EXCEPT !.at = "route"] ELSE Free
                [] OTHER -> [next EXCEPT !.at = IF shown THEN "stop" ELSE "unset"]]
    /\ UNCHANGED <<provider, stored, registered, orphans, events, ingest, fresh, spoken, races, budget>>

-----------------------------------------------------------------------------
(* ProviderService, for either caller.                                       *)

Unshown == <<provider, mode, queue, ingest, spoken, budget>>

\* Mutant of Adapted: the pi adapter starts a process even if it has one.
AdaptedAlways(c, for) == [call EXCEPT ![c].for = for, ![c].at = "create"]

(* startSession: the cursor given, else that of the row; the pi adapter      *)
(* returns a session it has.                                                 *)
Adapted(c, for) ==
    IF provider = "codex" /\ Is(registered)
    THEN [call EXCEPT ![c].for = registered, ![c].at = "bind"]
    ELSE [call EXCEPT ![c].for = for, ![c].at = "create"]

(* History: the other caller is starting a session as well.                  *)
WhileTheOtherStarts(c) ==
    races' = races \cup (IF \E d \in Callers \ {c} : call[d].at \in {"recover", "create", "bind"}
                         THEN {"two_starts"} ELSE {})

\* Mutant of StartSession: the cursor of the row is not used.
StartWithoutRow(c) ==
    /\ call[c].at = "start"
    /\ WhileTheOtherStarts(c)
    /\ call' = Adapted(c, At(call[c].wanted, call[c].for.conv))
    /\ UNCHANGED <<Unshown, session, binding, registered, orphans, events, fresh>>

StartSession(c) ==
    /\ call[c].at = "start"
    /\ WhileTheOtherStarts(c)
    /\ call' = Adapted(c, At(call[c].wanted,
                             IF Is(call[c].for) THEN call[c].for.conv ELSE binding.conv))
    /\ UNCHANGED <<Unshown, session, binding, registered, orphans, events, fresh>>

(* resolveRoutableSession: without a row the call fails; without a session   *)
(* the conversation of the row is resumed in the mode of the row.            *)
Route(c) ==
    /\ call[c].at = "route"
    /\ call' = CASE ~Is(binding) -> [call EXCEPT ![c] = Free]
                 [] Is(binding) /\ Is(registered) -> [call EXCEPT ![c].at = "send"]
                 [] OTHER -> [call EXCEPT ![c].at = "recover", ![c].for = binding, ![c].then = "send"]
    /\ IF Is(binding) /\ ~Is(registered) THEN WhileTheOtherStarts(c) ELSE UNCHANGED races
    /\ UNCHANGED <<Unshown, session, binding, registered, orphans, events, fresh>>

(* recoverSessionForThread looks for a session once more.                    *)
Recover(c) ==
    /\ call[c].at = "recover"
    /\ call' = IF Is(registered) THEN [call EXCEPT ![c].for = registered, ![c].at = "bind"]
               ELSE [call EXCEPT ![c].at = "create"]
    /\ UNCHANGED <<Unshown, session, binding, registered, orphans, events, fresh, races>>

(* What is started: without a cursor the pi adapter uses the session file of *)
(* the thread, the other one begins a conversation.                          *)
Started(for) ==
    At(for.mode, IF Is(for) THEN for.conv ELSE IF provider = "codex" THEN 1 ELSE fresh + 1)

(* The adapter has started the process and enters it under the thread, in    *)
(* the place of what is there.                                               *)
Create(c) ==
    /\ call[c].at = "create"
    /\ LET process == Started(call[c].for)
       IN /\ registered' = process
          /\ fresh' = IF process.conv > fresh THEN process.conv ELSE fresh
          /\ call' = [call EXCEPT ![c].for = process, ![c].at = "bind"]
    /\ orphans' = orphans \cup (IF Is(registered) THEN {registered} ELSE {})
    /\ events' = Append(events, "live")
    /\ UNCHANGED <<Unshown, session, binding, races>>

(* The pi adapter has spawned its process when a first request to it fails   *)
(* (get_state, set_model) or times out: it runs on, and nobody has it.       *)
CreateFails(c) ==
    /\ call[c].at = "create"
    /\ Spend("failures")
    /\ Ends(c)
    /\ \/ /\ races' = races \cup {"not_started"}
          /\ UNCHANGED orphans
       \/ /\ provider = "codex"
          /\ races' = races \cup {"not_started", "left_running"}
          /\ orphans' = orphans \cup {Started(call[c].for)}
    /\ UNCHANGED <<provider, stored, registered, queue, events, ingest, fresh, spoken>>

\* Mutant of Bind: the row keeps its mode.
BindKeepingMode(c) ==
    /\ call[c].at = "bind"
    /\ binding' = IF Is(binding) THEN [call[c].for EXCEPT !.mode = binding.mode] ELSE call[c].for
    /\ Goes(c, call[c].then)
    /\ UNCHANGED <<Unshown, session, registered, orphans, events, fresh, races>>

(* upsertSessionBinding.                                                     *)
Bind(c) ==
    /\ call[c].at = "bind"
    /\ binding' = call[c].for
    /\ Goes(c, call[c].then)
    /\ UNCHANGED <<Unshown, session, registered, orphans, events, fresh, races>>

\* Mutant of ShowSession: the mode of the session that was returned is shown.
ShowReturnedMode(c) ==
    /\ call[c].at = "set"
    /\ session' = [status |-> "live", mode |-> call[c].for.mode]
    /\ IF call[c].intent = "mode" THEN Ends(c) ELSE Goes(c, "route")
    /\ UNCHANGED <<Unshown, binding, registered, orphans, events, fresh, races>>

(* bindSessionToThread: the session is shown in the mode that was wanted.    *)
ShowSession(c) ==
    /\ call[c].at = "set"
    /\ session' = [status |-> "live", mode |-> call[c].wanted]
    /\ IF call[c].intent = "mode" THEN Ends(c) ELSE Goes(c, "route")
    /\ UNCHANGED <<Unshown, binding, registered, orphans, events, fresh, races>>

(* The adapter's sendTurn or interruptTurn.                                  *)
Send(c) ==
    /\ call[c].at = "send"
    /\ IF ~Is(registered) \/ call[c].intent = "interrupt"
       THEN Ends(c) /\ UNCHANGED <<events, spoken>>
       ELSE /\ spoken' = registered.conv
            /\ events' = Append(events, "live")
            /\ call' = [call EXCEPT ![c].at = "record", ![c].for = registered]
    /\ UNCHANGED <<provider, stored, queue, ingest, budget, registered, orphans, fresh, races>>

(* The upsert after a send: the mode of the row is kept; if there is no row  *)
(* any more, one is inserted with the default.                               *)
Record(c) ==
    /\ call[c].at = "record"
    /\ binding' = At(binding.mode, call[c].for.conv)
    /\ Ends(c)
    /\ UNCHANGED <<Unshown, session, registered, orphans, events, fresh, races>>

-----------------------------------------------------------------------------
(* stopSession: the adapter's session, the row, and what is shown.           *)

StopProcess ==
    /\ call["reactor"].at = "stop"
    /\ IF ~Is(binding)
       THEN Ends("reactor") /\ UNCHANGED <<registered, events>>
       ELSE /\ Goes("reactor", "remove")
            /\ registered' = Nothing
            /\ events' = IF Is(registered) THEN Append(events, "stopped") ELSE events
    /\ UNCHANGED <<Unshown, session, binding, orphans, fresh, races>>

RemoveBinding ==
    /\ call["reactor"].at = "remove"
    /\ binding' = Nothing
    /\ spoken' = 0
    /\ Goes("reactor", "unset")
    /\ races' = races \cup
           (IF call["stream"] = Free /\ ~Is(registered) THEN {} ELSE {"message_during_stop"})
    /\ UNCHANGED <<provider, mode, queue, ingest, budget, session, registered, orphans, events, fresh>>

\* Mutant of ShowStopped: the stop is left to the event of the process.
ShowStoppedByEvent ==
    /\ call["reactor"].at = "unset"
    /\ Ends("reactor")
    /\ UNCHANGED <<Unshown, session, binding, registered, orphans, events, fresh, races>>

ShowStopped ==
    /\ call["reactor"].at = "unset"
    /\ session' = [status |-> "stopped", mode |-> call["reactor"].wanted]
    /\ Ends("reactor")
    /\ UNCHANGED <<Unshown, binding, registered, orphans, events, fresh, races>>

-----------------------------------------------------------------------------
(* The process of the session exits, or one that is in no map: its handler   *)
(* deletes the entry of the thread, whichever process it names.  The pi      *)
(* adapter publishes the exit only when there was an entry.                  *)
ProcessExits ==
    /\ Spend("exits")
    /\ events' = IF provider = "codex" /\ ~Is(registered) THEN events ELSE Append(events, "stopped")
    /\ registered' = Nothing
    /\ \/ Is(registered) /\ UNCHANGED orphans
       \/ \E p \in orphans :
             orphans' = (orphans \ {p}) \cup (IF Is(registered) THEN {registered} ELSE {})
    /\ UNCHANGED <<provider, stored, queue, call, ingest, fresh, spoken, races>>

(* Ingestion writes the status of the event with the mode it found when it   *)
(* began with the event.                                                     *)
IngestRead ==
    /\ ingest = NoEvent /\ events # <<>>
    /\ ingest' = [kind |-> Head(events), mode |-> session.mode]
    /\ events' = Tail(events)
    /\ UNCHANGED <<provider, stored, registered, orphans, queue, call, fresh, spoken, races, budget>>

IngestWrite ==
    /\ ingest # NoEvent
    /\ session' = [status |-> ingest.kind, mode |-> ingest.mode]
    /\ races' = races \cup (IF ingest.mode = session.mode THEN {} ELSE {"stale_ingest"})
                     \cup (IF ingest.kind = "live" /\ session.status = "stopped" THEN {"revived"} ELSE {})
    /\ ingest' = NoEvent
    /\ UNCHANGED <<provider, mode, binding, registered, orphans, queue, call, events, fresh, spoken,
                   budget>>

(* Nothing is left to do.                                                    *)
Rest == queue = <<>> /\ events = <<>> /\ ingest = NoEvent /\ \A c \in Callers : call[c] = Free

(* The server goes down, with its processes; on a shutdown the service first *)
(* writes the rows of the sessions it has (runStopAll).                      *)
ServerStops(graceful) ==
    /\ Spend("crashes")
    /\ binding' = IF graceful /\ Is(registered) THEN registered ELSE binding
    /\ races' = races \cup (IF Rest THEN {} ELSE {"cut"})
    /\ registered' = Nothing /\ orphans' = {}
    /\ queue' = <<>> /\ events' = <<>> /\ ingest' = NoEvent
    /\ call' = [c \in Callers |-> Free]
    /\ UNCHANGED <<provider, mode, session, fresh, spoken>>

-----------------------------------------------------------------------------
ServiceStep(c) ==
    \/ StartSession(c) \/ Route(c) \/ Recover(c) \/ Create(c) \/ Bind(c) \/ ShowSession(c)
    \/ Send(c) \/ Record(c)

ReactorStep == TakeIntent \/ ServiceStep("reactor") \/ StopProcess \/ RemoveBinding \/ ShowStopped
Ingestion == IngestRead \/ IngestWrite

Next ==
    \/ SetMode \/ RequestTurn \/ RequestInterrupt \/ RequestStop \/ SendStreaming
    \/ ReactorStep \/ ServiceStep("stream")
    \/ \E c \in Callers : CreateFails(c)
    \/ ProcessExits \/ Ingestion
    \/ \E graceful \in BOOLEAN : ServerStops(graceful)

Spec == Init /\ [][Next]_vars

-----------------------------------------------------------------------------
Without(some) == races \cap some = {}
Live == Rest /\ session.status = "live"
Sessions == [mode : Modes, conv : Nat]

TypeOK ==
    /\ provider \in Providers /\ mode \in Modes
    /\ session \in [status : {"none", "live", "stopped"}, mode : Modes]
    /\ {binding, registered} \subseteq Sessions /\ orphans \subseteq Sessions
    /\ queue \in Seq({"mode", "turn", "interrupt", "stop"})
    /\ events \in Seq({"live", "stopped"})
    /\ \A c \in Callers : call[c].for \in Sessions /\ call[c].wanted \in Modes

(* A thread that shows a session has a row, or every message, interrupt and  *)
(* stop of it would be refused from then on.  Two ways lead out of it: the   *)
(* server goes down between a write and the next (before the row is written, *)
(* or between its removal and the stop shown), and a message that resumes    *)
(* the session while it is being stopped.                                    *)
ShownSessionsAreBound == Live /\ Without({"cut", "message_during_stop"}) => Is(binding)

(* What runs is what the row would resume: otherwise a restart goes on with  *)
(* another conversation, or in another mode, than the one that was running.  *)
(* A message resumes by the row while a mode change starts in the new mode.  *)
BoundAsItRuns ==
    Rest /\ Is(registered) /\ Without({"message_during_stop", "two_starts"}) => binding = registered

(* Until the session is stopped, every message goes to one conversation: by  *)
(* mode changes, exits of the process, failed starts and restarts of the     *)
(* server.                                                                   *)
OneConversation ==
    [][spoken # 0 /\ spoken' # 0 /\ Without({"message_during_stop"}) => spoken' = spoken]_vars

(* The pi adapter runs one process for a thread (two would append to one     *)
(* session file), and none that it has no entry for, unless two callers      *)
(* start it at once (neither finds an entry while the other waits for its    *)
(* process) or a start fails with its process running (it is not closed, and *)
(* the next message starts a second one).                                    *)
OneProcess == provider = "codex" /\ Without({"two_starts", "left_running"}) => orphans = {}

(* When all is done, a shown session shows the mode the user chose last.  It *)
(* is lost by a crash before the change was handled, a restart that fails,   *)
(* an event that writes the mode read before the change, and an event that   *)
(* shows a stopped session, for which a change does nothing, as live again.  *)
ShownAsChosen ==
    Live /\ Without({"cut", "not_started", "stale_ingest", "revived"}) => session.mode = mode

(* The process runs in the mode that is shown: a test has it that a mode     *)
(* change "restarts the provider session" (ProviderCommandReactor.test.ts).  *)
(* The pi adapter returns the session it has, in the mode it was started.    *)
RunsAsShown ==
    Live /\ Is(registered) /\ Without({"cut", "stale_ingest", "revived", "two_starts"}) =>
        registered.mode = session.mode

=============================================================================
