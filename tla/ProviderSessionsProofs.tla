----------------------- MODULE ProviderSessionsProofs -----------------------
(* The sessions of a thread, for any budgets of requests, exits, crashes and  *)
(* failures: the types, that the pi adapter keeps to one process, that a      *)
(* restart resumes what ran, in one conversation between stops, and that what *)
(* the thread shows has a row and the mode chosen last.                       *)
EXTENDS ProviderSessions, TLAPS

Intents == {"none", "mode", "turn", "interrupt", "stop", "stream"}
Places == {"none", "idle", "start", "route", "recover", "create", "bind", "set", "send", "record", "stop",
           "remove", "unset"}
Calls == [at : Places, intent : Intents, wanted : Modes, for : Sessions,
          then : {"none", "set", "send"}]

(* TypeOK, with the variables it leaves out.                                 *)
TypeInv ==
    /\ provider \in Providers /\ mode \in Modes
    /\ session \in [status : {"none", "live", "stopped"}, mode : Modes]
    /\ binding \in Sessions /\ registered \in Sessions /\ orphans \subseteq Sessions
    /\ queue \in Seq({"mode", "turn", "interrupt", "stop"})
    /\ call \in [Callers -> Calls]
    /\ events \in Seq({"live", "stopped"})
    /\ ingest \in [kind : {"none", "live", "stopped"}, mode : Modes]
    /\ fresh \in Nat

Starting == {"recover", "create", "bind"}

(* As long as the two callers have not been starting a session together, at  *)
(* most one of them is, and as long as no failed start has left a process    *)
(* behind, it finds none when it enters its own.                             *)
OneStart ==
    /\ provider \in Providers
    /\ "two_starts" \notin races =>
           /\ ~(call["reactor"].at \in Starting /\ call["stream"].at \in Starting)
           /\ provider = "codex" /\ "left_running" \notin races =>
                  /\ orphans = {}
                  /\ \A c \in Callers : call[c].at = "create" => ~Is(registered)

ProcessInv == TypeInv /\ OneStart

LEMMA InitialTypes == Init => TypeInv
BY SessionsAssumption DEF Init, TypeInv, Nothing, At, Sessions, NoEvent, Default, Modes, Calls, Places,
                         Intents, Free, SessionsAssumption

(* A caller that moves on keeps the rest of its record.                      *)
LEMMA Going ==
    ASSUME call \in [Callers -> Calls], NEW c \in Callers
    PROVE  /\ \A to \in Places : [call EXCEPT ![c].at = to] \in [Callers -> Calls]
           /\ [call EXCEPT ![c] = Free] \in [Callers -> Calls]
<1>1. call[c] \in Calls  OBVIOUS
<1>2. ASSUME NEW to \in Places PROVE [call[c] EXCEPT !.at = to] \in Calls  BY <1>1 DEF Calls
<1>3. Free \in Calls
  BY DEF Free, Calls, Places, Intents, Nothing, At, Sessions, Modes, Default
<1> QED BY <1>2, <1>3

LEMMA Moving ==
    ASSUME call \in [Callers -> Calls], NEW c \in Callers, NEW to \in Places, NEW next \in Sessions,
           NEW then \in {"none", "set", "send"}
    PROVE  /\ [call EXCEPT ![c].for = next, ![c].at = to] \in [Callers -> Calls]
           /\ [call EXCEPT ![c].at = to, ![c].for = next] \in [Callers -> Calls]
           /\ [call EXCEPT ![c].at = to, ![c].for = next, ![c].then = then] \in [Callers -> Calls]
<1>1. call[c] \in Calls  OBVIOUS
<1>3. [call[c] EXCEPT !.for = next, !.at = to] \in Calls  BY <1>1 DEF Calls
<1>4. [call[c] EXCEPT !.at = to, !.for = next] \in Calls  BY <1>1 DEF Calls
<1>5. [call[c] EXCEPT !.at = to, !.for = next, !.then = then] \in Calls  BY <1>1 DEF Calls
<1> QED BY <1>3, <1>4, <1>5

LEMMA AskingKeepsTypes ==
    ASSUME TypeInv
    PROVE  SetMode \/ RequestTurn \/ RequestInterrupt \/ RequestStop \/ SendStreaming => TypeInv'
<1> USE DEF TypeInv, Request, Spend, stored
<1>1. ASSUME SetMode PROVE TypeInv'  BY <1>1 DEF SetMode
<1>2. ASSUME RequestTurn \/ RequestInterrupt \/ RequestStop PROVE TypeInv'
  <2>1. PICK intent \in {"turn", "interrupt", "stop"} : queue' = Append(queue, intent)
    BY <1>2 DEF RequestTurn, RequestInterrupt, RequestStop
  <2>2. queue' \in Seq({"mode", "turn", "interrupt", "stop"})  BY <2>1
  <2>3. UNCHANGED <<provider, mode, session, binding, registered, orphans, call, events, ingest, fresh>>
    BY <1>2 DEF RequestTurn, RequestInterrupt, RequestStop
  <2> QED BY <2>2, <2>3
<1>3. ASSUME SendStreaming PROVE TypeInv'
  <2>1. [Free EXCEPT !.at = "route", !.intent = "stream"] \in Calls
    BY DEF Free, Calls, Places, Intents, Nothing, At, Sessions, Modes, Default
  <2>2. call' \in [Callers -> Calls]  BY <1>3, <2>1 DEF SendStreaming
  <2> QED BY <1>3, <2>2 DEF SendStreaming
<1> QED BY <1>1, <1>2, <1>3

LEMMA TakingKeepsTypes ==
    ASSUME TypeInv, TakeIntent
    PROVE  TypeInv'
<1> USE DEF TypeInv, stored
<1>1. /\ Head(queue) \in {"mode", "turn", "interrupt", "stop"}
      /\ Tail(queue) \in Seq({"mode", "turn", "interrupt", "stop"})
  BY DEF TakeIntent
<1>2. Free \in Calls
  BY DEF Free, Calls, Places, Intents, Nothing, At, Sessions, Modes, Default
<1>3. ASSUME NEW intent \in {"mode", "turn", "interrupt", "stop"}
      PROVE  Ensure(intent) \in Calls
  <2>1. [Free EXCEPT !.intent = intent, !.wanted = mode, !.then = "set", !.at = "route"] \in Calls
    BY <1>2 DEF Calls, Places, Intents
  <2>2. ASSUME NEW conv \in Nat
        PROVE  [Free EXCEPT !.intent = intent, !.wanted = mode, !.then = "set", !.at = "start",
                            !.for = At(mode, conv)] \in Calls
    BY <1>2 DEF Calls, Places, Intents, At, Sessions
  <2>3. registered.conv \in Nat /\ 0 \in Nat  BY DEF Sessions
  <2> QED BY <1>2, <2>1, <2>2, <2>3 DEF Ensure
<1>4. ASSUME NEW intent \in {"mode", "turn", "interrupt", "stop"}, NEW to \in Places
      PROVE  [Free EXCEPT !.intent = intent, !.wanted = session.mode, !.at = to] \in Calls
  BY <1>2 DEF Calls, Intents
<1>5. call' \in [Callers -> Calls]
  BY <1>1, <1>2, <1>3, <1>4 DEF TakeIntent, Places
<1> QED BY <1>1, <1>5 DEF TakeIntent

LEMMA ServiceKeepsTypes ==
    ASSUME TypeInv, NEW c \in Callers, ServiceStep(c)
    PROVE  TypeInv'
<1> USE DEF TypeInv, stored, Unshown
<1>1. /\ call[c] \in Calls /\ call[c].for \in Sessions /\ call[c].wanted \in Modes
      /\ call[c].then \in {"none", "set", "send"}
  BY DEF Calls
<1>2. ASSUME NEW to \in Places, NEW next \in Sessions, NEW then \in {"none", "set", "send"}
      PROVE  /\ [call EXCEPT ![c].for = next, ![c].at = to] \in [Callers -> Calls]
             /\ [call EXCEPT ![c].at = to, ![c].for = next] \in [Callers -> Calls]
             /\ [call EXCEPT ![c].at = to, ![c].for = next, ![c].then = then]
                   \in [Callers -> Calls]
  BY Moving
<1>3. \A m \in Modes, conv \in Nat : At(m, conv) \in Sessions  BY DEF At, Sessions
<1>4. \A x \in Sessions : x.mode \in Modes /\ x.conv \in Nat  BY DEF Sessions
<1>5. /\ Append(events, "live") \in Seq({"live", "stopped"})
      /\ \A to \in Places : [call EXCEPT ![c].at = to] \in [Callers -> Calls]
      /\ [call EXCEPT ![c] = Free] \in [Callers -> Calls]
  BY Going
<1>6. ASSUME StartSession(c) PROVE TypeInv'
  <2> DEFINE for == At(call[c].wanted, IF Is(call[c].for) THEN call[c].for.conv ELSE binding.conv)
  <2>1. for \in Sessions  BY <1>1, <1>3, <1>4
  <2> HIDE DEF for
  <2>2. Adapted(c, for) \in [Callers -> Calls]  BY <1>2, <2>1 DEF Adapted, Places
  <2>3. call' = Adapted(c, for)  BY <1>6 DEF StartSession, for
  <2> QED BY <1>6, <2>2, <2>3 DEF StartSession
<1>7. ASSUME Route(c) PROVE TypeInv'
  <2>1. call' \in [Callers -> Calls]  BY <1>2, <1>5, <1>7 DEF Route, Places
  <2> QED BY <1>7, <2>1 DEF Route
<1>8. ASSUME Recover(c) PROVE TypeInv'
  <2>1. call' \in [Callers -> Calls]  BY <1>2, <1>5, <1>8 DEF Recover, Places
  <2> QED BY <1>8, <2>1 DEF Recover
<1>9. ASSUME Create(c) PROVE TypeInv'
  <2> DEFINE conv == IF Is(call[c].for) THEN call[c].for.conv
                     ELSE IF provider = "codex" THEN 1 ELSE fresh + 1
  <2>1. conv \in Nat  BY <1>1, <1>4
  <2>2. At(call[c].for.mode, conv) \in Sessions  BY <1>1, <1>3, <1>4, <2>1
  <2>3. /\ registered' = At(call[c].for.mode, conv)
        /\ fresh' = IF conv > fresh THEN conv ELSE fresh
        /\ call' = [call EXCEPT ![c].for = At(call[c].for.mode, conv), ![c].at = "bind"]
    <3>1. Started(call[c].for) = At(call[c].for.mode, conv)
      BY DEF Started
    <3>2. Started(call[c].for).conv = conv
      BY <3>1 DEF At
    <3> QED BY <1>9, <3>1, <3>2 DEF Create
  <2> HIDE DEF conv
  <2>4. call' \in [Callers -> Calls]  BY <1>2, <2>2, <2>3 DEF Places
  <2>5. orphans' \subseteq Sessions  BY <1>9 DEF Create
  <2>6. fresh' \in Nat  BY <2>1, <2>3
  <2> QED BY <1>5, <1>9, <2>2, <2>3, <2>4, <2>5, <2>6 DEF Create
<1>10. ASSUME Bind(c) PROVE TypeInv'
  <2>1. call' \in [Callers -> Calls]
    BY <1>1, <1>5, <1>10 DEF Bind, Goes, Places
  <2> QED BY <1>1, <1>10, <2>1 DEF Bind
<1>11. ASSUME ShowSession(c) PROVE TypeInv'
  <2>1. call' \in [Callers -> Calls]  BY <1>5, <1>11 DEF ShowSession, Goes, Ends, Places
  <2>2. session' \in [status : {"none", "live", "stopped"}, mode : Modes]
    BY <1>1, <1>11 DEF ShowSession
  <2> QED BY <1>11, <2>1, <2>2 DEF ShowSession
<1>12. ASSUME Send(c) PROVE TypeInv'
  <2>1. [call EXCEPT ![c].at = "record", ![c].for = registered] \in [Callers -> Calls]
    BY <1>2 DEF Places
  <2>2. call' \in [Callers -> Calls]  BY <1>5, <1>12, <2>1 DEF Send, Ends
  <2> QED BY <1>5, <1>12, <2>2 DEF Send
<1>13. ASSUME Record(c) PROVE TypeInv'
  <2>1. call' \in [Callers -> Calls]  BY <1>5, <1>13 DEF Record, Ends
  <2>2. binding' \in Sessions  BY <1>1, <1>3, <1>4, <1>13 DEF Record
  <2> QED BY <1>13, <2>1, <2>2 DEF Record
<1> QED BY <1>6, <1>7, <1>8, <1>9, <1>10, <1>11, <1>12, <1>13 DEF ServiceStep

LEMMA StoppingKeepsTypes ==
    ASSUME TypeInv, StopProcess \/ RemoveBinding \/ ShowStopped
    PROVE  TypeInv'
<1> USE DEF TypeInv, stored, Unshown
<1>1. Nothing \in Sessions  BY DEF Nothing, At, Sessions, Default, Modes
<1>2. "reactor" \in Callers  BY DEF Callers
<1>3. call["reactor"].wanted \in Modes  BY <1>2 DEF Calls
<1>4. call' \in [Callers -> Calls]
  <2>1. /\ \A to \in Places : [call EXCEPT !["reactor"].at = to] \in [Callers -> Calls]
        /\ [call EXCEPT !["reactor"] = Free] \in [Callers -> Calls]
    BY <1>2, Going
  <2> QED BY <2>1 DEF StopProcess, RemoveBinding, ShowStopped, Goes, Ends, Places
<1>5. events' \in Seq({"live", "stopped"})  BY DEF StopProcess, RemoveBinding, ShowStopped
<1>6. session' \in [status : {"none", "live", "stopped"}, mode : Modes]
  BY <1>3 DEF StopProcess, RemoveBinding, ShowStopped
<1>7. binding' \in Sessions /\ registered' \in Sessions
  BY <1>1 DEF StopProcess, RemoveBinding, ShowStopped
<1>8. UNCHANGED <<provider, mode, orphans, queue, ingest, fresh>>
  BY DEF StopProcess, RemoveBinding, ShowStopped
<1> QED BY <1>4, <1>5, <1>6, <1>7, <1>8

LEMMA OthersKeepTypes ==
    ASSUME TypeInv,
           \/ \E c \in Callers : CreateFails(c)
           \/ ProcessExits \/ Ingestion
           \/ \E graceful \in BOOLEAN : ServerStops(graceful)
    PROVE  TypeInv'
<1> USE DEF TypeInv, stored
<1>1. Nothing \in Sessions  BY DEF Nothing, At, Sessions, Default, Modes
<1>2. Free \in Calls
  BY DEF Free, Calls, Places, Intents, Nothing, At, Sessions, Modes, Default
<1>3. NoEvent \in [kind : {"none", "live", "stopped"}, mode : Modes]
  BY DEF NoEvent, Default, Modes
<1>4. ASSUME NEW c \in Callers, CreateFails(c) PROVE TypeInv'
  <2>1. call' \in [Callers -> Calls]  BY <1>2, <1>4 DEF CreateFails, Ends
  <2>2. Started(call[c].for) \in Sessions
    <3>1. call[c].for \in Sessions  BY DEF Calls
    <3> QED BY <3>1 DEF Started, At, Sessions
  <2> QED BY <1>4, <2>1, <2>2 DEF CreateFails
<1>5. ASSUME ProcessExits PROVE TypeInv'
  <2>1. events' \in Seq({"live", "stopped"})  BY <1>5 DEF ProcessExits
  <2>2. orphans' \subseteq Sessions  BY <1>5 DEF ProcessExits
  <2> QED BY <1>1, <1>5, <2>1, <2>2 DEF ProcessExits
<1>6. ASSUME IngestRead PROVE TypeInv'
  <2>1. Head(events) \in {"live", "stopped"} /\ events' \in Seq({"live", "stopped"})
    BY <1>6 DEF IngestRead
  <2>2. ingest' \in [kind : {"none", "live", "stopped"}, mode : Modes]
    BY <1>6, <2>1 DEF IngestRead
  <2> QED BY <1>6, <2>1, <2>2 DEF IngestRead
<1>7. ASSUME IngestWrite PROVE TypeInv'
  <2>1. session' \in [status : {"none", "live", "stopped"}, mode : Modes]
    BY <1>7 DEF IngestWrite
  <2> QED BY <1>3, <1>7, <2>1 DEF IngestWrite
<1>8. ASSUME NEW graceful \in BOOLEAN, ServerStops(graceful) PROVE TypeInv'
  <2>1. binding' \in Sessions  BY <1>8 DEF ServerStops
  <2>2. /\ registered' = Nothing /\ orphans' = {} /\ queue' = <<>> /\ events' = <<>>
        /\ ingest' = NoEvent /\ call' = [c \in Callers |-> Free]
        /\ UNCHANGED <<provider, mode, session, fresh>>
    BY <1>8 DEF ServerStops
  <2> QED BY <1>1, <1>2, <1>3, <2>1, <2>2
<1> QED BY <1>4, <1>5, <1>6, <1>7, <1>8 DEF Ingestion

LEMMA StepKeepsTypes == TypeInv /\ [Next]_vars => TypeInv'
<1> SUFFICES ASSUME TypeInv, [Next]_vars PROVE TypeInv'
  OBVIOUS
<1>1. CASE UNCHANGED vars
  BY <1>1 DEF vars, stored, TypeInv
<1>2. CASE SetMode \/ RequestTurn \/ RequestInterrupt \/ RequestStop \/ SendStreaming
  BY <1>2, AskingKeepsTypes
<1>3. CASE TakeIntent  BY <1>3, TakingKeepsTypes
<1>4. CASE \E c \in Callers : ServiceStep(c)  BY <1>4, ServiceKeepsTypes
<1>5. CASE StopProcess \/ RemoveBinding \/ ShowStopped  BY <1>5, StoppingKeepsTypes
<1>6. CASE \/ \E c \in Callers : CreateFails(c)
           \/ ProcessExits \/ Ingestion
           \/ \E graceful \in BOOLEAN : ServerStops(graceful)
  BY <1>6, OthersKeepTypes
<1> QED BY <1>1, <1>2, <1>3, <1>4, <1>5, <1>6 DEF Next, ReactorStep, Callers

(* The types of the sessions, of the queues and of what each caller is at.   *)
THEOREM TypesHold == Spec => []TypeOK
<1>1. TypeInv => TypeOK
  BY DEF TypeInv, TypeOK, Calls
<1> QED BY <1>1, InitialTypes, StepKeepsTypes, PTL DEF Spec
-----------------------------------------------------------------------------
(* The notes are never taken back, and a caller that begins to start a       *)
(* session while the other does leaves one.                                  *)
LEMMA NotesStay == Next => races \subseteq races'
<1> SUFFICES ASSUME Next PROVE races \subseteq races'
  OBVIOUS
<1>1. \A c \in Callers : ServiceStep(c) => races \subseteq races'
  BY DEF ServiceStep, StartSession, WhileTheOtherStarts, Route, Recover, Create, Bind, ShowSession,
         Send, Record
<1> QED
  BY <1>1 DEF Next, ReactorStep, Callers, SetMode, RequestTurn, RequestInterrupt, RequestStop, Request,
              SendStreaming, TakeIntent, StopProcess, RemoveBinding, ShowStopped, CreateFails,
              ProcessExits, Ingestion, IngestRead, IngestWrite, ServerStops

LEMMA InitialProcess == Init => OneStart
BY DEF Init, OneStart, Callers, Free, Starting

(* A step that brings no caller to where it starts a session, and adds none  *)
(* of the processes.                                                         *)
LEMMA StartsNothing ==
    ASSUME OneStart, races \subseteq races', provider' = provider,
           \A c \in Callers : call'[c].at \in Starting => call[c].at \in Starting,
           \A c \in Callers : call'[c].at = "create" => call[c].at = "create",
           provider = "codex" /\ "left_running" \notin races' /\ orphans = {} =>
               orphans' = {} /\ (Is(registered') => Is(registered))
    PROVE  OneStart'
BY DEF OneStart, Callers, Starting

(* Where the callers are after a step of one of them.                        *)
LEMMA OneMoves ==
    ASSUME TypeInv, NEW c \in Callers, ServiceStep(c)
    PROVE  /\ \A d \in Callers \ {c} : call'[d] = call[d]
           /\ StartSession(c) => call'[c].at = IF provider = "codex" /\ Is(registered)
                                              THEN "bind" ELSE "create"
           /\ Route(c) => call'[c].at = IF ~Is(binding) THEN "idle"
                                       ELSE IF Is(registered) THEN "send" ELSE "recover"
           /\ Recover(c) => call'[c].at = IF Is(registered) THEN "bind" ELSE "create"
           /\ Create(c) => call'[c].at = "bind"
           /\ Bind(c) => call'[c].at = call[c].then
           /\ ShowSession(c) \/ Send(c) \/ Record(c) => call'[c].at \in {"idle", "route", "record"}
<1> USE DEF TypeInv
<1>1. call \in [Callers -> Calls] /\ call[c] \in Calls  OBVIOUS
<1>2. \A r : /\ [call EXCEPT ![c] = r][c] = r
             /\ \A d \in Callers \ {c} : [call EXCEPT ![c] = r][d] = call[d]
  BY <1>1
<1>3. StartSession(c) =>
        /\ \A d \in Callers \ {c} : call'[d] = call[d]
        /\ call'[c].at = IF provider = "codex" /\ Is(registered) THEN "bind" ELSE "create"
  BY <1>1 DEF StartSession, Adapted, Calls
<1>4. Route(c) =>
        /\ \A d \in Callers \ {c} : call'[d] = call[d]
        /\ call'[c].at = IF ~Is(binding) THEN "idle" ELSE IF Is(registered) THEN "send" ELSE "recover"
  BY <1>1 DEF Route, Calls, Free
<1>5. Recover(c) =>
        /\ \A d \in Callers \ {c} : call'[d] = call[d]
        /\ call'[c].at = IF Is(registered) THEN "bind" ELSE "create"
  BY <1>1 DEF Recover, Calls
<1>6. Create(c) =>
        /\ \A d \in Callers \ {c} : call'[d] = call[d]
        /\ call'[c].at = "bind"
  BY <1>1 DEF Create, Calls
<1>7. Bind(c) => 
        /\ \A d \in Callers \ {c} : call'[d] = call[d]
        /\ call'[c].at = call[c].then
  BY <1>1 DEF Bind, Goes, Calls
<1>8. ShowSession(c) \/ Send(c) \/ Record(c) =>
        /\ \A d \in Callers \ {c} : call'[d] = call[d]
        /\ call'[c].at \in {"idle", "route", "record"}
  BY <1>1 DEF ShowSession, Send, Record, Goes, Ends, Calls, Free
<1> QED BY <1>3, <1>4, <1>5, <1>6, <1>7, <1>8 DEF ServiceStep

LEMMA ServiceKeepsProcess ==
    ASSUME TypeInv, OneStart, NEW c \in Callers, ServiceStep(c)
    PROVE  OneStart'
<1>1. /\ races \subseteq races' /\ provider' = provider
      /\ \A d \in Callers \ {c} : call'[d] = call[d]
  BY OneMoves
     DEF ServiceStep, StartSession, WhileTheOtherStarts, Route, Recover, Create, Bind, ShowSession,
         Send, Record, Unshown
<1>2. \A d \in Callers \ {c} : {c, d} = Callers
  BY DEF Callers
<1>3. ASSUME StartSession(c) \/ (Route(c) /\ Is(binding) /\ ~Is(registered)) PROVE OneStart'
  <2>1. \A d \in Callers \ {c} : call[d].at \in Starting => "two_starts" \in races'
    BY <1>3 DEF StartSession, Route, WhileTheOtherStarts, Starting
  <2>2. UNCHANGED <<registered, orphans>>
    BY <1>3 DEF StartSession, Route
  <2>3. /\ provider = "codex" /\ Is(registered) => call'[c].at # "create"
        /\ c \in Callers
    BY <1>3, OneMoves DEF ServiceStep
  <2> QED BY <1>1, <1>2, <2>1, <2>2, <2>3 DEF OneStart, Callers, Starting, Is
<1>4. ASSUME Recover(c) PROVE OneStart'
  <2>1. call[c].at \in Starting /\ UNCHANGED <<registered, orphans>>
    BY <1>4 DEF Recover, Starting
  <2>2. Is(registered) => call'[c].at # "create"
    BY <1>4, OneMoves
  <2> QED BY <1>1, <1>2, <2>1, <2>2 DEF OneStart, Callers, Starting, Is
<1>5. ASSUME Create(c) PROVE OneStart'
  <2>1. /\ call[c].at = "create" /\ call'[c].at = "bind"
        /\ orphans' = orphans \cup (IF Is(registered) THEN {registered} ELSE {})
    BY <1>5, OneMoves DEF Create
  <2> QED BY <1>1, <1>2, <2>1 DEF OneStart, Callers, Starting
<1>6. ASSUME \/ Bind(c) \/ ShowSession(c) \/ Send(c) \/ Record(c)
             \/ (Route(c) /\ (~Is(binding) \/ Is(registered)))
      PROVE  OneStart'
  <2>1. call[c].then \in {"none", "set", "send"}  BY DEF TypeInv, Calls
  <2>2. call'[c].at \notin Starting
    BY <1>6, <2>1, OneMoves DEF Starting
  <2>3. UNCHANGED <<registered, orphans>>
    BY <1>6 DEF Bind, ShowSession, Send, Record, Route
  <2> QED BY <1>1, <1>2, <2>2, <2>3, StartsNothing DEF Starting, Is
<1> QED BY <1>3, <1>4, <1>5, <1>6 DEF ServiceStep

LEMMA OthersKeepProcess ==
    ASSUME TypeInv, OneStart, Next, \A c \in Callers : ~ServiceStep(c)
    PROVE  OneStart'
<1> USE DEF TypeInv, Starting
<1>1. races \subseteq races'  BY NotesStay
<1>2. ASSUME \/ SetMode \/ RequestTurn \/ RequestInterrupt \/ RequestStop \/ Ingestion
      PROVE  OneStart'
  <2>1. UNCHANGED <<provider, call, registered, orphans>>
    BY <1>2 DEF SetMode, RequestTurn, RequestInterrupt, RequestStop, Request, Ingestion, IngestRead,
                IngestWrite
  <2> QED BY <1>1, <2>1, StartsNothing DEF Is
<1>3. ASSUME SendStreaming PROVE OneStart'
  <2>1. \A c \in Callers : call'[c] = call[c] \/ call'[c].at = "route"
    BY <1>3 DEF SendStreaming, Free
  <2>2. UNCHANGED <<provider, registered, orphans>>  BY <1>3 DEF SendStreaming
  <2> QED BY <1>1, <2>1, <2>2, StartsNothing DEF Is
<1>4. ASSUME TakeIntent PROVE OneStart'
  <2>1. \A intent : Ensure(intent).at \in {"idle", "route", "start"}
    BY DEF Ensure, Free
  <2>2. \A c \in Callers : call'[c] = call[c] \/ call'[c].at \notin Starting
    BY <1>4, <2>1 DEF TakeIntent, Free
  <2>3. UNCHANGED <<provider, registered, orphans>>  BY <1>4 DEF TakeIntent
  <2> QED BY <1>1, <2>2, <2>3, StartsNothing DEF Is
<1>5. ASSUME StopProcess \/ RemoveBinding \/ ShowStopped PROVE OneStart'
  <2>1. \A c \in Callers : call'[c] = call[c] \/ call'[c].at \notin Starting
    <3>1. call["reactor"] \in Calls  BY DEF Callers
    <3> QED BY <1>5, <3>1 DEF StopProcess, RemoveBinding, ShowStopped, Goes, Ends, Free, Calls, Callers
  <2>2. UNCHANGED <<provider, orphans>> /\ registered' \in {registered, Nothing}
    BY <1>5 DEF StopProcess, RemoveBinding, ShowStopped, Unshown
  <2> QED BY <1>1, <2>1, <2>2, StartsNothing DEF Is, Nothing, At
<1>6. ASSUME NEW c \in Callers, CreateFails(c) PROVE OneStart'
  <2>1. \A d \in Callers : call'[d] = call[d] \/ call'[d].at \notin Starting
    BY <1>6 DEF CreateFails, Ends, Free
  <2>2. UNCHANGED <<provider, registered>> /\ (orphans' = orphans \/ "left_running" \in races')
    BY <1>6 DEF CreateFails
  <2> QED BY <1>1, <2>1, <2>2, StartsNothing DEF Is
<1>7. ASSUME ProcessExits PROVE OneStart'
  <2>1. UNCHANGED <<provider, call>> /\ registered' = Nothing
    BY <1>7 DEF ProcessExits
  <2>2. orphans = {} => orphans' = {}
    BY <1>7 DEF ProcessExits
  <2> QED BY <1>1, <2>1, <2>2, StartsNothing DEF Is, Nothing, At
<1>8. ASSUME NEW graceful \in BOOLEAN, ServerStops(graceful) PROVE OneStart'
  <2>1. /\ provider' = provider /\ registered' = Nothing /\ orphans' = {}
        /\ \A c \in Callers : call'[c].at = "idle"
    BY <1>8 DEF ServerStops, Free
  <2> QED BY <1>1, <2>1, StartsNothing DEF Is, Nothing, At
<1> QED BY <1>2, <1>3, <1>4, <1>5, <1>6, <1>7, <1>8 DEF Next, ReactorStep, Callers

LEMMA ProcessInvHolds == Spec => []ProcessInv
<1>1. Init => ProcessInv  BY InitialTypes, InitialProcess DEF ProcessInv
<1>2. ProcessInv /\ [Next]_vars => ProcessInv'
  <2> SUFFICES ASSUME ProcessInv, [Next]_vars PROVE OneStart'
    BY StepKeepsTypes DEF ProcessInv
  <2>1. CASE UNCHANGED vars
    BY <2>1 DEF vars, stored, ProcessInv, OneStart, Is
  <2>2. CASE Next
    BY <2>2, ServiceKeepsProcess, OthersKeepProcess DEF ProcessInv
  <2> QED BY <2>1, <2>2
<1> QED BY <1>1, <1>2, PTL DEF Spec

(* OneProcess: the pi adapter never runs two processes for a thread unless   *)
(* a message resumed its session while the reactor was starting it, or a     *)
(* start failed after the process was spawned.                               *)
THEOREM OneProcessHolds == Spec => []OneProcess
<1>1. ProcessInv => OneProcess
  BY DEF ProcessInv, OneStart, OneProcess, Without
<1> QED BY <1>1, ProcessInvHolds, PTL
-----------------------------------------------------------------------------
(* Whoever has been routed found a row, which stays until the session is     *)
(* stopped; all that is known of a conversation is known of that of the row; *)
(* only the reactor starts a session without a row, and writes it next.      *)
Routed(c) ==
    \/ call[c].at \in {"recover", "send", "record"}
    \/ call[c].at \in {"create", "bind"} /\ call[c].then = "send"

Knows(c) ==
    call[c].at \in {"start", "recover", "create", "bind", "record"} /\ Is(call[c].for)

SameConversation ==
    "message_during_stop" \notin races =>
        /\ \A c \in Callers : Routed(c) => Is(binding)
        /\ \A c \in Callers : call[c].at \in {"recover", "bind", "record"} => Is(call[c].for)
        /\ \A c \in Callers : Knows(c) /\ Is(binding) => call[c].for.conv = binding.conv
        /\ \A c \in Callers : call[c].at = "create" /\ ~Is(call[c].for) => ~Is(binding)
        /\ Is(registered) /\ Is(binding) => registered.conv = binding.conv
        /\ Is(registered) /\ ~Is(binding) =>
               call["reactor"].at = "bind" /\ call["reactor"].for = registered
        /\ call["reactor"].at \in {"start", "create"} /\ Is(call["reactor"].for) => Is(binding)
        /\ spoken # 0 => Is(binding) /\ spoken = binding.conv

(* The stream only goes where a message goes, the reactor only there where   *)
(* its intent does.                                                          *)
Ways ==
    /\ call["stream"].at \in {"idle", "route", "recover", "create", "bind", "send", "record"}
    /\ call["stream"].at \in {"recover", "create", "bind"} => call["stream"].then = "send"
    /\ call["reactor"].at = "start" => call["reactor"].then = "set"
    /\ call["reactor"].at = "recover" => call["reactor"].then = "send"

(* The row is what runs, or is about to be written.                          *)
RowFollows ==
    races \cap {"message_during_stop", "two_starts"} = {} =>
        /\ \A c \in Callers : call[c].at = "bind" /\ Is(registered) => call[c].for = registered
        /\ Is(registered) => binding = registered \/ \E c \in Callers : call[c].at = "bind"

RowInv == ProcessInv /\ Ways /\ SameConversation /\ RowFollows

LEMMA InitialRow == Init => Ways /\ SameConversation /\ RowFollows
BY DEF Init, Ways, SameConversation, RowFollows, Routed, Knows, Callers, Free, Nothing, At, Is

(* What each step of a caller does to its record.                            *)
LEMMA Moves ==
    ASSUME TypeInv, NEW c \in Callers
    PROVE  /\ StartSession(c) =>
                 /\ call'[c].then = call[c].then
                 /\ call'[c].at = IF provider = "codex" /\ Is(registered) THEN "bind" ELSE "create"
                 /\ call'[c].for =
                       IF provider = "codex" /\ Is(registered) THEN registered
                       ELSE At(call[c].wanted,
                               IF Is(call[c].for) THEN call[c].for.conv ELSE binding.conv)
           /\ Route(c) =>
                 \/ call'[c].at \in {"idle", "send"} /\ (call'[c].at = "send" => Is(binding))
                 \/ /\ call'[c].at = "recover" /\ call'[c].for = binding
                    /\ call'[c].then = "send" /\ Is(binding)
           /\ Recover(c) =>
                 /\ call'[c].then = call[c].then
                 /\ call'[c].at = IF Is(registered) THEN "bind" ELSE "create"
                 /\ call'[c].for = IF Is(registered) THEN registered ELSE call[c].for
           /\ Create(c) =>
                 /\ call'[c].then = call[c].then /\ call'[c].at = "bind"
                 /\ call'[c].for = registered'
           /\ Bind(c) =>
                 call'[c].at = call[c].then /\ call'[c].for = call[c].for /\ call'[c].then = call[c].then
           /\ Send(c) =>
                 \/ call'[c].at = "idle" /\ spoken' = spoken
                 \/ /\ call'[c].at = "record" /\ call'[c].for = registered
                    /\ Is(registered) /\ spoken' = registered.conv
<1>1. call \in [Callers -> Calls] /\ call[c] \in Calls  BY DEF TypeInv
<1>2. StartSession(c) =>
        /\ call'[c].then = call[c].then
        /\ call'[c].at = IF provider = "codex" /\ Is(registered) THEN "bind" ELSE "create"
        /\ call'[c].for =
              IF provider = "codex" /\ Is(registered) THEN registered
              ELSE At(call[c].wanted, IF Is(call[c].for) THEN call[c].for.conv ELSE binding.conv)
  BY <1>1 DEF StartSession, Adapted, Calls
<1>3. Route(c) =>
        \/ call'[c].at \in {"idle", "send"} /\ (call'[c].at = "send" => Is(binding))
        \/ /\ call'[c].at = "recover" /\ call'[c].for = binding
           /\ call'[c].then = "send" /\ Is(binding)
  BY <1>1 DEF Route, Calls, Free
<1>4. Recover(c) =>
        /\ call'[c].then = call[c].then
        /\ call'[c].at = IF Is(registered) THEN "bind" ELSE "create"
        /\ call'[c].for = IF Is(registered) THEN registered ELSE call[c].for
  BY <1>1 DEF Recover, Calls
<1>5. Create(c) =>
        /\ call'[c].then = call[c].then /\ call'[c].at = "bind"
        /\ call'[c].for = registered'
  BY <1>1 DEF Create, Calls
<1>6. Bind(c) =>
        call'[c].at = call[c].then /\ call'[c].for = call[c].for /\ call'[c].then = call[c].then
  BY <1>1 DEF Bind, Goes, Calls
<1>7. Send(c) =>
        \/ call'[c].at = "idle" /\ spoken' = spoken
        \/ /\ call'[c].at = "record" /\ call'[c].for = registered
           /\ Is(registered) /\ spoken' = registered.conv
  BY <1>1 DEF Send, Ends, Calls, Free
<1> QED BY <1>2, <1>3, <1>4, <1>5, <1>6, <1>7

(* What the process that was started runs.                                   *)
LEMMA Created ==
    ASSUME TypeInv, NEW c \in Callers, Create(c)
    PROVE  /\ call[c].at = "create" /\ binding' = binding /\ spoken' = spoken
           /\ Is(registered')
           /\ Is(call[c].for) => registered'.conv = call[c].for.conv
<1> DEFINE conv == IF Is(call[c].for) THEN call[c].for.conv
                   ELSE IF provider = "codex" THEN 1 ELSE fresh + 1
<1>1. registered' = At(call[c].for.mode, conv)  BY DEF Create, Started
<1>2. registered'.conv = conv  BY <1>1 DEF At
<1>3. conv # 0  BY DEF Is, TypeInv
<1> QED BY <1>2, <1>3 DEF Is, Create, Unshown, stored

LEMMA ServiceKeepsWays ==
    ASSUME TypeInv, Ways, NEW c \in Callers, ServiceStep(c)
    PROVE  Ways'
<1>1. \A d \in Callers \ {c} : call'[d] = call[d]  BY OneMoves
<1>2. ASSUME StartSession(c) PROVE Ways'
  <2>1. call[c].at = "start"  BY <1>2 DEF StartSession
  <2>2. call'[c].at \in {"bind", "create"}  BY <1>2, Moves
  <2> QED BY <1>1, <2>1, <2>2 DEF Ways, Callers
<1>3. ASSUME Route(c) \/ Recover(c) \/ Create(c) \/ Send(c) PROVE Ways'
  <2>1. /\ call'[c].at \in {"idle", "send", "recover", "bind", "create", "record"}
        /\ call'[c].at \in {"bind", "create"} => call'[c].then = call[c].then
        /\ Recover(c) => call[c].at = "recover"
        /\ Create(c) => call[c].at = "create"
        /\ call'[c].at = "recover" => call'[c].then = "send"
    BY <1>3, Moves DEF Recover, Create
  <2>2. ASSUME c = "stream", call'[c].at \in {"recover", "bind", "create"}
        PROVE  call'[c].then = "send"
    BY <1>3, <2>1, <2>2, Moves DEF Ways
  <2> QED BY <1>1, <2>1, <2>2 DEF Ways, Callers
<1>4. ASSUME Bind(c) \/ ShowSession(c) \/ Record(c) PROVE Ways'
  <2>1. /\ Bind(c) => call[c].at = "bind"
        /\ call[c].then \in {"none", "set", "send"}
    BY DEF Bind, TypeInv, Calls
  <2>2. call'[c].at \notin {"start", "recover", "create", "bind"}
    BY <1>4, <2>1, Moves, OneMoves
  <2>3. c = "stream" => call'[c].at \in {"idle", "route", "send", "record"}
    BY <1>4, <2>1, Moves, OneMoves DEF Ways, ShowSession
  <2> QED BY <1>1, <2>2, <2>3 DEF Ways, Callers
<1> QED BY <1>2, <1>3, <1>4 DEF ServiceStep

(* The steps of a caller and the conversation of the row.                    *)
LEMMA ServiceKeepsConversation ==
    ASSUME TypeInv, Ways, SameConversation, NEW c \in Callers, ServiceStep(c)
    PROVE  SameConversation'
<1> SUFFICES ASSUME "message_during_stop" \notin races
             PROVE  SameConversation'
  BY NotesStay DEF SameConversation, ServiceStep, Next, ReactorStep, Callers
<1>1. /\ \A d \in Callers \ {c} : call'[d] = call[d]
      /\ Callers = {"reactor", "stream"}
  BY OneMoves DEF Callers
<1>2. /\ \A d \in Callers : Routed(d) => Is(binding)
      /\ \A d \in Callers : call[d].at \in {"recover", "bind", "record"} => Is(call[d].for)
      /\ \A d \in Callers : Knows(d) /\ Is(binding) => call[d].for.conv = binding.conv
      /\ \A d \in Callers : call[d].at = "create" /\ ~Is(call[d].for) => ~Is(binding)
      /\ Is(registered) /\ Is(binding) => registered.conv = binding.conv
      /\ Is(registered) /\ ~Is(binding) =>
            call["reactor"].at = "bind" /\ call["reactor"].for = registered
      /\ call["reactor"].at \in {"start", "create"} /\ Is(call["reactor"].for) => Is(binding)
      /\ spoken # 0 => Is(binding) /\ spoken = binding.conv
  BY DEF SameConversation
<1>3. \A m, conv : At(m, conv).conv = conv /\ At(m, conv).mode = m
  BY DEF At
<1>4. call["stream"].at \in {"create", "bind"} => Routed("stream")
  BY DEF Ways, Routed
<1>5. ASSUME StartSession(c) PROVE SameConversation'
  <2>1. /\ call[c].at = "start" /\ c = "reactor" /\ call[c].then = "set"
        /\ UNCHANGED <<binding, registered, spoken>>
    BY <1>1, <1>5 DEF StartSession, Ways, Unshown
  <2>2. /\ call'[c].at \in {"bind", "create"} /\ call'[c].then = "set"
        /\ call'[c].at = "bind" => call'[c].for = registered /\ Is(registered)
        /\ call'[c].at = "create" =>
              call'[c].for.conv = IF Is(call[c].for) THEN call[c].for.conv ELSE binding.conv
    BY <1>3, <1>5, <2>1, Moves
  <2>3. Is(call[c].for) => Is(binding) /\ call[c].for.conv = binding.conv
    BY <1>2, <2>1 DEF Knows
  <2>4. Is(registered) => Is(binding)
    BY <1>2, <2>1
  <2> QED BY <1>1, <1>2, <2>1, <2>2, <2>3, <2>4 DEF SameConversation, Routed, Knows, Is
<1>6. ASSUME Route(c) \/ ShowSession(c) PROVE SameConversation'
  <2>1. UNCHANGED <<binding, registered, spoken>>
    BY <1>6 DEF Route, ShowSession, Unshown, stored
  <2>2. \/ call'[c].at \in {"idle", "route", "send"} /\ (call'[c].at = "send" => Is(binding))
        \/ call'[c].at = "recover" /\ call'[c].for = binding /\ Is(binding)
    <3>1. ASSUME ShowSession(c) PROVE call'[c].at \in {"idle", "route"}
      <4>1. call[c] \in Calls  BY DEF TypeInv
      <4> QED BY <3>1, <4>1 DEF ShowSession, Goes, Ends, Free, Calls, TypeInv
    <3> QED BY <1>6, <3>1, Moves
  <2>3. call[c].at # "bind"  BY <1>6 DEF Route, ShowSession
  <2> QED BY <1>1, <1>2, <2>1, <2>2, <2>3 DEF SameConversation, Routed, Knows, Is
<1>7. ASSUME Recover(c) PROVE SameConversation'
  <2>1. /\ call[c].at = "recover" /\ UNCHANGED <<binding, registered, spoken>>
    BY <1>7 DEF Recover, Unshown
  <2>2. /\ call'[c].at \in {"bind", "create"}
        /\ call'[c].for = IF Is(registered) THEN registered ELSE call[c].for
    BY <1>7, Moves
  <2>3. /\ Is(binding) /\ Is(call'[c].for) /\ call'[c].for.conv = binding.conv
    BY <1>2, <2>1, <2>2 DEF Routed, Knows
  <2> QED BY <1>1, <1>2, <2>1, <2>2, <2>3 DEF SameConversation, Routed, Knows
<1>8. ASSUME Create(c) PROVE SameConversation'
  <2>1. /\ call[c].at = "create" /\ UNCHANGED <<binding, spoken>>
        /\ call'[c].at = "bind" /\ call'[c].for = registered' /\ call'[c].then = call[c].then
        /\ Is(registered')
        /\ Is(call[c].for) => registered'.conv = call[c].for.conv
    BY <1>8, Created, Moves
  <2>2. Is(binding) => registered'.conv = binding.conv
    BY <1>2, <2>1 DEF Knows
  <2>3. ~Is(binding) => c = "reactor"
    BY <1>1, <1>2, <1>4, <2>1
  <2> QED BY <1>1, <1>2, <2>1, <2>2, <2>3 DEF SameConversation, Routed, Knows, Is
<1>9. ASSUME Bind(c) PROVE SameConversation'
  <2>1. /\ call[c].at = "bind" /\ binding' = call[c].for /\ UNCHANGED <<registered, spoken>>
        /\ call'[c].at \in {"none", "set", "send"} /\ call'[c].for = call[c].for
    BY <1>9, Moves DEF Bind, Unshown, TypeInv, Calls
  <2>2. Is(binding') /\ (Is(binding) => binding'.conv = binding.conv)
    BY <1>2, <2>1 DEF Knows
  <2>3. CASE Is(binding)
    BY <1>1, <1>2, <2>1, <2>2, <2>3 DEF SameConversation, Routed, Knows, Is
  <2>4. CASE ~Is(binding)
    <3>1. c = "reactor" /\ spoken = 0
      BY <1>1, <1>2, <1>4, <2>1, <2>4
    <3>2. Is(registered) => registered = binding'
      BY <1>2, <2>1, <2>4, <3>1
    <3>3. call["stream"].at \in {"idle", "route"}
      BY <1>1, <1>2, <1>4, <2>4 DEF Ways, Routed
    <3> QED BY <1>1, <1>2, <2>1, <2>2, <3>1, <3>2, <3>3 DEF SameConversation, Routed, Knows
  <2> QED BY <2>3, <2>4
<1>10. ASSUME Send(c) PROVE SameConversation'
  <2>1. /\ call[c].at = "send" /\ UNCHANGED <<binding, registered>>
        /\ \/ call'[c].at = "idle" /\ spoken' = spoken
           \/ /\ call'[c].at = "record" /\ call'[c].for = registered
              /\ Is(registered) /\ spoken' = registered.conv
    BY <1>10, Moves DEF Send, stored
  <2>2. Is(binding)  BY <1>2, <2>1 DEF Routed
  <2> QED BY <1>1, <1>2, <2>1, <2>2 DEF SameConversation, Routed, Knows, Is
<1>11. ASSUME Record(c) PROVE SameConversation'
  <2>1. /\ call[c].at = "record" /\ binding' = At(binding.mode, call[c].for.conv)
        /\ UNCHANGED <<registered, spoken>> /\ call'[c].at = "idle"
    <3>1. call[c] \in Calls  BY DEF TypeInv
    <3> QED BY <1>11, <3>1 DEF Record, Unshown, Ends, Free, Calls, TypeInv
  <2>2. /\ Is(binding) /\ binding'.conv = binding.conv
    BY <1>2, <1>3, <2>1 DEF Routed, Knows
  <2> QED BY <1>1, <1>2, <2>1, <2>2 DEF SameConversation, Routed, Knows, Is
<1> QED BY <1>5, <1>6, <1>7, <1>8, <1>9, <1>10, <1>11 DEF ServiceStep

(* The same of the other steps.                                              *)
LEMMA OthersKeepRow ==
    ASSUME TypeInv, Ways, SameConversation, RowFollows, Next, \A c \in Callers : ~ServiceStep(c)
    PROVE  Ways' /\ SameConversation' /\ RowFollows'
<1> USE DEF Callers
<1>0. races \subseteq races'  BY NotesStay
<1>1. call \in [Callers -> Calls] /\ call["reactor"] \in Calls /\ call["stream"] \in Calls
  BY DEF TypeInv
<1>2. ASSUME \/ SetMode \/ RequestTurn \/ RequestInterrupt \/ RequestStop \/ Ingestion
      PROVE  Ways' /\ SameConversation' /\ RowFollows'
  <2>1. UNCHANGED <<call, binding, registered, spoken>>
    BY <1>2 DEF SetMode, RequestTurn, RequestInterrupt, RequestStop, Request, Ingestion, IngestRead,
                IngestWrite, stored
  <2> QED BY <1>0, <2>1 DEF Ways, SameConversation, RowFollows, Routed, Knows, Is
<1>3. ASSUME \/ SendStreaming \/ TakeIntent \/ ShowStopped \/ \E c \in Callers : CreateFails(c)
      PROVE  Ways' /\ SameConversation' /\ RowFollows'
  <2>1. UNCHANGED <<binding, registered, spoken>>
    BY <1>3 DEF SendStreaming, TakeIntent, ShowStopped, Unshown, CreateFails, stored
  <2>2. \A intent : \/ Ensure(intent).at \in {"idle", "route"}
                   \/ /\ Ensure(intent).at = "start" /\ Ensure(intent).then = "set"
                      /\ Ensure(intent).for.conv \in {0, registered.conv}
    BY DEF Ensure, Free, At
  <2>3. ASSUME TakeIntent
        PROVE  /\ call["reactor"].at = "idle" /\ call'["stream"] = call["stream"]
               /\ \/ call'["reactor"].at \in {"idle", "route", "stop", "unset"}
                  \/ /\ call'["reactor"].at = "start" /\ call'["reactor"].then = "set"
                     /\ call'["reactor"].for.conv \in {0, registered.conv}
    BY <1>1, <2>2, <2>3 DEF TakeIntent, Free
  <2>4. ASSUME SendStreaming \/ ShowStopped \/ \E c \in Callers : CreateFails(c)
        PROVE  \A d \in Callers : \/ call'[d] = call[d]
                                  \/ call'[d].at \in {"idle", "route"} /\ call[d].at # "bind"
    <3>1. SendStreaming => /\ call'["reactor"] = call["reactor"]
                           /\ call["stream"].at = "idle" /\ call'["stream"].at = "route"
      BY <1>1 DEF SendStreaming, Free
    <3>2. ShowStopped => /\ call'["stream"] = call["stream"]
                         /\ call["reactor"].at = "unset" /\ call'["reactor"].at = "idle"
      BY <1>1 DEF ShowStopped, Ends, Free
    <3>3. \A c \in Callers : CreateFails(c) =>
             /\ \A d \in Callers \ {c} : call'[d] = call[d]
             /\ call[c].at = "create" /\ call'[c].at = "idle"
      BY <1>1 DEF CreateFails, Ends, Free
    <3>4. CASE SendStreaming  BY <3>1, <3>4
    <3>5. CASE ShowStopped  BY <3>2, <3>5
    <3>6. ASSUME NEW c \in Callers, CreateFails(c)
          PROVE  \A d \in Callers : \/ call'[d] = call[d]
                                    \/ call'[d].at \in {"idle", "route"} /\ call[d].at # "bind"
      BY ONLY <3>3, <3>6
    <3> QED BY <2>4, <3>4, <3>5, <3>6
  <2>5. CASE TakeIntent
    BY <1>0, <2>1, <2>3, <2>5 DEF Ways, SameConversation, RowFollows, Routed, Knows, Is
  <2>6. CASE SendStreaming \/ ShowStopped \/ \E c \in Callers : CreateFails(c)
    BY <1>0, <2>1, <2>4, <2>6 DEF Ways, SameConversation, RowFollows, Routed, Knows, Is
  <2> QED BY <1>3, <2>5, <2>6
<1>4. ASSUME StopProcess \/ ProcessExits PROVE Ways' /\ SameConversation' /\ RowFollows'
  <2>1. /\ UNCHANGED <<binding, spoken>> /\ registered' \in {registered, Nothing}
        /\ call'["stream"] = call["stream"]
        /\ \/ call'["reactor"] = call["reactor"]
           \/ call'["reactor"].at \in {"idle", "remove"} /\ call["reactor"].at = "stop"
    BY <1>1, <1>4 DEF StopProcess, ProcessExits, Unshown, stored, Goes, Ends, Free, Calls
  <2>2. ~Is(Nothing)  BY DEF Is, Nothing, At
  <2> QED BY <1>0, <2>1, <2>2 DEF Ways, SameConversation, RowFollows, Routed, Knows
<1>5. ASSUME RemoveBinding PROVE Ways' /\ SameConversation' /\ RowFollows'
  <2>1. /\ binding' = Nothing /\ spoken' = 0 /\ registered' = registered
        /\ call'["stream"] = call["stream"] /\ call'["reactor"].at = "unset"
        /\ "message_during_stop" \notin races' => call["stream"] = Free /\ ~Is(registered)
    BY <1>1, <1>5 DEF RemoveBinding, Goes, Calls
  <2>2. ~Is(Nothing) /\ Free.at = "idle"  BY DEF Is, Nothing, At, Free
  <2> QED BY <1>0, <2>1, <2>2 DEF Ways, SameConversation, RowFollows, Routed, Knows
<1>6. ASSUME NEW graceful \in BOOLEAN, ServerStops(graceful)
      PROVE  Ways' /\ SameConversation' /\ RowFollows'
  <2>1. /\ binding' = IF graceful /\ Is(registered) THEN registered ELSE binding
        /\ registered' = Nothing /\ spoken' = spoken
        /\ \A c \in Callers : call'[c].at = "idle"
    BY <1>6 DEF ServerStops, Free
  <2>2. ~Is(Nothing)  BY DEF Is, Nothing, At
  <2> QED BY <1>0, <2>1, <2>2 DEF Ways, SameConversation, RowFollows, Routed, Knows, Is
<1> QED BY <1>2, <1>3, <1>4, <1>5, <1>6 DEF Next, ReactorStep

(* The steps of a caller and the row.                                        *)
LEMMA ServiceKeepsRow ==
    ASSUME TypeInv, OneStart, Ways, SameConversation, RowFollows, NEW c \in Callers, ServiceStep(c)
    PROVE  RowFollows'
<1> SUFFICES ASSUME races' \cap {"message_during_stop", "two_starts"} = {}
             PROVE  RowFollows'
  BY DEF RowFollows
<1>1. /\ races \cap {"message_during_stop", "two_starts"} = {}
      /\ races \subseteq races'
      /\ \A d \in Callers \ {c} : call'[d] = call[d]
      /\ Callers = {"reactor", "stream"}
  BY NotesStay, OneMoves DEF ServiceStep, Next, ReactorStep, Callers
<1>2. /\ \A d \in Callers : call[d].at = "bind" /\ Is(registered) => call[d].for = registered
      /\ Is(registered) => binding = registered \/ \E d \in Callers : call[d].at = "bind"
      /\ call[c].at \in {"recover", "create", "bind"} => \A d \in Callers \ {c} : call[d].at # "bind"
  BY <1>1 DEF RowFollows, OneStart, Starting
<1>3. ASSUME StartSession(c) PROVE RowFollows'
  <2>1. UNCHANGED registered /\ UNCHANGED binding /\ call[c].at = "start"
    BY <1>3 DEF StartSession
  <2>2. call'[c].at = "bind" => call'[c].for = registered  BY <1>3, Moves
  <2> QED BY <1>1, <1>2, <2>1, <2>2 DEF RowFollows, Is
<1>4. ASSUME Recover(c) PROVE RowFollows'
  <2>1. UNCHANGED registered /\ UNCHANGED binding /\ call[c].at = "recover"
    BY <1>4 DEF Recover
  <2>2. call'[c].at = "bind" => call'[c].for = registered  BY <1>4, Moves
  <2> QED BY <1>1, <1>2, <2>1, <2>2 DEF RowFollows, Is
<1>5. ASSUME Create(c) PROVE RowFollows'
  <2>1. call[c].at = "create" /\ call'[c].at = "bind" /\ call'[c].for = registered'
    BY <1>5, Moves DEF Create
  <2> QED BY <1>1, <1>2, <2>1 DEF RowFollows
<1>6. ASSUME Bind(c) PROVE RowFollows'
  <2>1. /\ call[c].at = "bind" /\ binding' = call[c].for /\ UNCHANGED registered
        /\ call'[c].at \in {"none", "set", "send"}
    BY <1>6, Moves DEF Bind, TypeInv, Calls
  <2> QED BY <1>1, <1>2, <2>1 DEF RowFollows, Is
<1>7. ASSUME Route(c) \/ ShowSession(c) \/ Send(c) PROVE RowFollows'
  <2>1. /\ UNCHANGED registered /\ UNCHANGED binding
        /\ call[c].at # "bind" /\ call'[c].at # "bind"
    BY <1>7, Moves, OneMoves DEF Route, ShowSession, Send, stored
  <2> QED BY <1>1, <1>2, <2>1 DEF RowFollows, Is
<1>8. ASSUME Record(c) PROVE RowFollows'
  <2>1. /\ call[c].at = "record" /\ binding' = At(binding.mode, call[c].for.conv)
        /\ UNCHANGED registered /\ call'[c].at # "bind"
    BY <1>8, OneMoves DEF Record
  <2>2. call[c].for.conv = binding.conv
    BY <1>1, <2>1 DEF SameConversation, Routed, Knows
  <2>3. binding' = binding
    BY <2>1, <2>2 DEF At, TypeInv, Sessions
  <2> QED BY <1>1, <1>2, <2>1, <2>3 DEF RowFollows, Is
<1> QED BY <1>3, <1>4, <1>5, <1>6, <1>7, <1>8 DEF ServiceStep

LEMMA RowInvHolds == Spec => []RowInv
<1>1. Init => Ways /\ SameConversation /\ RowFollows  BY InitialRow
<1>2. ProcessInv /\ Ways /\ SameConversation /\ RowFollows /\ [Next]_vars
        => Ways' /\ SameConversation' /\ RowFollows'
  <2> SUFFICES ASSUME ProcessInv, Ways, SameConversation, RowFollows, [Next]_vars
               PROVE  Ways' /\ SameConversation' /\ RowFollows'
    OBVIOUS
  <2>1. CASE UNCHANGED vars
    BY <2>1 DEF vars, stored, Ways, SameConversation, RowFollows, Routed, Knows, Is
  <2>2. CASE \E c \in Callers : ServiceStep(c)
    BY <2>2, ServiceKeepsWays, ServiceKeepsConversation, ServiceKeepsRow DEF ProcessInv
  <2>3. CASE Next /\ \A c \in Callers : ~ServiceStep(c)
    BY <2>3, OthersKeepRow DEF ProcessInv
  <2> QED BY <2>1, <2>2, <2>3
<1> QED BY <1>1, <1>2, ProcessInvHolds, PTL DEF Spec, RowInv

(* BoundAsItRuns: outside the two races, a restart resumes exactly what ran. *)
THEOREM BoundAsItRunsHolds == Spec => []BoundAsItRuns
<1>1. RowInv => BoundAsItRuns
  BY DEF RowInv, RowFollows, BoundAsItRuns, Without, Rest, Free, Callers
<1> QED BY <1>1, RowInvHolds, PTL

(* OneConversation: between stops, messages go to one conversation.          *)
THEOREM OneConversationHolds == Spec => OneConversation
<1>1. RowInv /\ RowInv' /\ [Next]_vars =>
        [spoken # 0 /\ spoken' # 0 /\ Without({"message_during_stop"}) => spoken' = spoken]_vars
  <2> SUFFICES ASSUME RowInv, Next, spoken # 0, spoken' # 0, Without({"message_during_stop"})
               PROVE  spoken' = spoken
    BY DEF vars
  <2>1. /\ Is(registered) /\ Is(binding) => registered.conv = binding.conv
        /\ Is(binding) /\ spoken = binding.conv
        /\ \A c \in Callers : Routed(c) => Is(binding)
    BY DEF RowInv, SameConversation, Without
  <2>2. ASSUME NEW c \in Callers, ServiceStep(c) PROVE spoken' = spoken
    <3>1. Send(c) => spoken' = spoken
      BY <2>1, Moves DEF RowInv, ProcessInv
    <3> QED BY <2>2, <3>1 DEF ServiceStep, StartSession, Route, Recover, Create, Bind, ShowSession,
                              Record, Unshown, stored
  <2>3. ASSUME \A c \in Callers : ~ServiceStep(c) PROVE spoken' = spoken
    BY <2>3 DEF Next, ReactorStep, Callers, SetMode, RequestTurn, RequestInterrupt, RequestStop,
                Request, SendStreaming, TakeIntent, StopProcess, RemoveBinding, ShowStopped, Unshown,
                CreateFails, ProcessExits, Ingestion, IngestRead, IngestWrite, ServerStops, stored
  <2> QED BY <2>2, <2>3
<1> QED BY <1>1, RowInvHolds, PTL DEF Spec, OneConversation

-----------------------------------------------------------------------------
(* Without a process, the last that is heard of one is that it stopped.      *)
EventsEnd ==
    ~Is(registered) => IF events = <<>> THEN ingest.kind # "live" ELSE events[Len(events)] = "stopped"

(* A session that is shown without a row is about to be shown as stopped.    *)
ShownFollows ==
    Without({"cut", "message_during_stop"}) =>
        /\ call["reactor"].at = "set" => Is(binding)
        /\ ~Is(binding) /\ ~Is(registered) /\ events = <<>> /\ ingest = NoEvent =>
               session.status # "live" \/ call["reactor"].at = "unset"

(* The reactor is on its way to show the session it starts.                  *)
Setting ==
    \/ call["reactor"].at \in {"start", "create", "bind"} /\ call["reactor"].then = "set"
    \/ call["reactor"].at = "set"

ModeQueued == \E n \in 1..Len(queue) : queue[n] = "mode"
LiveQueued == \E n \in 1..Len(events) : events[n] = "live"

(* The mode chosen last is shown, or will be: by the session that is being   *)
(* started, or by a change that was not taken yet.  A thread that has shown  *)
(* no session so far only gets events of the one that is being started.      *)
ModeFollows ==
    Without({"cut", "not_started", "stale_ingest", "revived"}) =>
        /\ Setting => call["reactor"].wanted = mode \/ ModeQueued
        /\ session.status = "live" /\ session.mode # mode => ModeQueued \/ Setting
        /\ session.status = "none" =>
               /\ call["stream"].at = "idle"
               /\ call["reactor"].at \in {"idle", "unset"} \/ Setting
               /\ Is(registered) \/ LiveQueued \/ ingest.kind = "live" =>
                      call["reactor"].at \in {"bind", "set"}

(* An event in hand is of a session that lives or of one that stopped.       *)
Kinded == ingest = NoEvent \/ ingest.kind \in {"live", "stopped"}

(* The mode a caller wants stays what it was when its intent was taken.      *)
LEMMA Wanted ==
    ASSUME TypeInv, NEW c \in Callers
    PROVE  /\ StartSession(c) \/ Recover(c) \/ Create(c) \/ Bind(c) =>
                 call'[c].wanted = call[c].wanted /\ call'[c].then = call[c].then
           /\ ShowSession(c) => call'[c].at \in {"idle", "route"}
<1>1. call \in [Callers -> Calls] /\ call[c] \in Calls  BY DEF TypeInv
<1>2. StartSession(c) => call'[c].wanted = call[c].wanted /\ call'[c].then = call[c].then
  BY <1>1 DEF StartSession, Adapted, Calls
<1>3. Recover(c) => call'[c].wanted = call[c].wanted /\ call'[c].then = call[c].then
  BY <1>1 DEF Recover, Calls
<1>4. Create(c) => call'[c].wanted = call[c].wanted /\ call'[c].then = call[c].then
  BY <1>1 DEF Create, Calls
<1>5. Bind(c) => call'[c].wanted = call[c].wanted /\ call'[c].then = call[c].then
  BY <1>1 DEF Bind, Goes, Calls
<1>6. ShowSession(c) => call'[c].at \in {"idle", "route"}
  BY <1>1 DEF ShowSession, Goes, Ends, Free, Calls
<1> QED BY <1>2, <1>3, <1>4, <1>5, <1>6

(* What the processes publish.                                               *)
LEMMA Published ==
    ASSUME TypeInv, Next
    PROVE  \/ UNCHANGED <<registered, events, ingest>>
           \/ IngestRead \/ IngestWrite
           \/ /\ registered' = Nothing /\ UNCHANGED ingest
              /\ events' = Append(events, "stopped")
              /\ ProcessExits \/ StopProcess
           \/ ~Is(registered) /\ ~Is(registered') /\ UNCHANGED <<events, ingest>>
           \/ /\ Is(registered') /\ UNCHANGED ingest /\ events' = Append(events, "live")
              /\ \E c \in Callers : Create(c) \/ (Send(c) /\ UNCHANGED registered)
           \/ /\ registered' = Nothing /\ events' = <<>> /\ ingest' = NoEvent
              /\ \E graceful \in BOOLEAN : ServerStops(graceful)
<1>1. CASE SetMode \/ RequestTurn \/ RequestInterrupt \/ RequestStop \/ SendStreaming \/ TakeIntent
  BY <1>1 DEF SetMode, RequestTurn, RequestInterrupt, RequestStop, Request, SendStreaming, TakeIntent
<1>2. CASE RemoveBinding \/ ShowStopped \/ \E c \in Callers : CreateFails(c)
  BY <1>2 DEF RemoveBinding, ShowStopped, CreateFails, Unshown
<1>3. CASE StopProcess
  <2>1. ~Is(Nothing)  BY DEF Is, Nothing, At
  <2> QED BY <1>3, <2>1 DEF StopProcess, Unshown
<1>4. CASE ProcessExits  BY <1>4 DEF ProcessExits, Is, Nothing, At
<1>5. CASE Ingestion  BY <1>5 DEF Ingestion
<1>6. CASE \E graceful \in BOOLEAN : ServerStops(graceful)  BY <1>6 DEF ServerStops
<1>7. ASSUME NEW c \in Callers, ServiceStep(c)
      PROVE  \/ UNCHANGED <<registered, events, ingest>>
             \/ /\ Is(registered') /\ UNCHANGED ingest /\ events' = Append(events, "live")
                /\ Create(c) \/ (Send(c) /\ UNCHANGED registered)
  <2>1. CASE Create(c)  BY <2>1, Created DEF Create, Unshown
  <2>2. CASE Send(c)  BY <2>2 DEF Send
  <2> QED BY <1>7, <2>1, <2>2 DEF ServiceStep, StartSession, Route, Recover, Bind, ShowSession, Record,
                                  Unshown
<1> QED BY <1>1, <1>2, <1>3, <1>4, <1>5, <1>6, <1>7 DEF Next, ReactorStep, Callers

LEMMA LastOfAppend ==
    ASSUME NEW q \in Seq({"live", "stopped"}), NEW e \in {"live", "stopped"}
    PROVE  Append(q, e) # <<>> /\ Append(q, e)[Len(Append(q, e))] = e
OBVIOUS

LEMMA LastOfTail ==
    ASSUME NEW q \in Seq({"live", "stopped"}), q # <<>>
    PROVE  /\ Tail(q) = <<>> => Head(q) = q[Len(q)]
           /\ Tail(q) # <<>> => Tail(q)[Len(Tail(q))] = q[Len(q)]
<1>1. Len(q) \in Nat \ {0} /\ Head(q) = q[1] /\ Len(Tail(q)) = Len(q) - 1
  OBVIOUS
<1>2. ASSUME Tail(q) = <<>> PROVE Len(q) = 1
  <2>1. Len(q) # 1 => 1 \in 1..Len(Tail(q))  BY <1>1
  <2>2. 1 \notin 1..Len(<<>>)  OBVIOUS
  <2> QED BY <1>2, <2>1, <2>2
<1>3. Tail(q) # <<>> => Len(Tail(q)) \in 1..(Len(q) - 1)
  BY <1>1
<1>4. \A i \in 1..(Len(q) - 1) : Tail(q)[i] = q[i + 1]
  OBVIOUS
<1> QED BY <1>1, <1>2, <1>3, <1>4

LEMMA NextEventsEnd ==
    ASSUME TypeInv, EventsEnd, [Next]_vars
    PROVE  EventsEnd'
<1>0. events \in Seq({"live", "stopped"}) /\ ~Is(Nothing)
  BY DEF TypeInv, Is, Nothing, At
<1>1. CASE UNCHANGED <<registered, events, ingest>>  BY <1>1 DEF EventsEnd, Is
<1>2. CASE IngestRead
  <2>1. registered' = registered /\ ingest'.kind = Head(events) /\ events' = Tail(events)
        /\ events # <<>>
    BY <1>2 DEF IngestRead
  <2>2. /\ Tail(events) = <<>> => Head(events) = events[Len(events)]
        /\ Tail(events) # <<>> => Tail(events)[Len(Tail(events))] = events[Len(events)]
    BY <1>0, <2>1, LastOfTail
  <2> QED BY <2>1, <2>2 DEF EventsEnd, Is
<1>3. CASE IngestWrite
  BY <1>3 DEF IngestWrite, EventsEnd, Is, NoEvent
<1>4. CASE events' = Append(events, "stopped")
  BY <1>0, <1>4, LastOfAppend DEF EventsEnd
<1>5. CASE Is(registered')  BY <1>5 DEF EventsEnd, Is
<1>6. CASE ~Is(registered) /\ ~Is(registered') /\ UNCHANGED <<events, ingest>>
  BY <1>6 DEF EventsEnd
<1>7. CASE events' = <<>> /\ ingest' = NoEvent  BY <1>7 DEF EventsEnd, NoEvent
<1>8. CASE UNCHANGED vars  BY <1>1, <1>8 DEF vars
<1> QED BY <1>1, <1>2, <1>3, <1>4, <1>5, <1>6, <1>7, <1>8, Published

(* The steps of the callers.                                                 *)
LEMMA NextShownFollows ==
    ASSUME RowInv, EventsEnd, ShownFollows, [Next]_vars
    PROVE  ShownFollows'
<1> DEFINE Sane == /\ call["reactor"].at = "set" => Is(binding)
                   /\ ~Is(binding) /\ ~Is(registered) /\ events = <<>> /\ ingest = NoEvent =>
                          session.status # "live" \/ call["reactor"].at = "unset"
<1> SUFFICES ASSUME Without({"cut", "message_during_stop"})', Next PROVE Sane'
  BY DEF ShownFollows, vars, stored, Without, Is
<1> USE DEF Callers
<1>0. /\ TypeInv /\ "cut" \notin races' /\ "message_during_stop" \notin races /\ Sane
      /\ call \in [Callers -> Calls] /\ call["reactor"] \in Calls /\ events \in Seq({"live", "stopped"})
      /\ session.status \in {"none", "live", "stopped"}
  BY NotesStay DEF RowInv, ProcessInv, ShownFollows, Without, TypeInv
<1>1. /\ \A c \in Callers : call[c].at \in {"recover", "bind", "record"} => Is(call[c].for)
      /\ Is(registered) /\ ~Is(binding) => call["reactor"].at = "bind"
      /\ call["stream"].at # "set"
  BY <1>0 DEF RowInv, SameConversation, Ways
<1>2. ~Is(Nothing) /\ Free.at = "idle"  BY DEF Is, Nothing, At, Free
<1>3. CASE SetMode \/ RequestTurn \/ RequestInterrupt \/ RequestStop \/ SendStreaming
  <2>1. UNCHANGED <<session, binding, registered, events, ingest>> /\ call'["reactor"] = call["reactor"]
    BY <1>0, <1>3 DEF SetMode, RequestTurn, RequestInterrupt, RequestStop, Request, SendStreaming, stored
  <2> QED BY <1>0, <2>1 DEF Is
<1>4. CASE TakeIntent
  <2>1. /\ UNCHANGED <<session, binding, registered, events, ingest>>
        /\ call["reactor"].at = "idle" /\ call'["reactor"].at # "set"
    <3>1. \A intent : Ensure(intent).at \in {"idle", "route", "start"}
      BY DEF Ensure, Free
    <3> QED BY <1>0, <1>2, <1>4, <3>1 DEF TakeIntent, Free, stored
  <2> QED BY <1>0, <2>1 DEF Is
<1>5. CASE StopProcess \/ RemoveBinding \/ ShowStopped
  <2>1. \A to : [call EXCEPT !["reactor"].at = to]["reactor"].at = to
    BY <1>0 DEF Calls
  <2>2. [call EXCEPT !["reactor"] = Free]["reactor"].at = "idle"
    BY <1>0, <1>2
  <2>3. CASE StopProcess
    <3>1. /\ UNCHANGED <<binding, session, ingest>> /\ (Is(binding) \/ UNCHANGED <<registered, events>>)
          /\ call["reactor"].at = "stop" /\ call'["reactor"].at \in {"idle", "remove"}
      BY <2>1, <2>2, <2>3 DEF StopProcess, Goes, Ends, Unshown
    <3> QED BY <1>0, <3>1 DEF Is
  <2>4. CASE RemoveBinding
    <3>1. call'["reactor"].at = "unset"  BY <2>1, <2>4 DEF RemoveBinding, Goes
    <3> QED BY <3>1
  <2>5. CASE ShowStopped
    <3>1. session'.status = "stopped" /\ call'["reactor"].at = "idle"
      BY <2>2, <2>5 DEF ShowStopped, Ends
    <3> QED BY <3>1
  <2> QED BY <1>5, <2>3, <2>4, <2>5
<1>6. ASSUME NEW c \in Callers, CreateFails(c) PROVE Sane'
  <2>1. /\ UNCHANGED <<session, binding, registered, events, ingest>>
        /\ call'["reactor"] = call["reactor"] \/ (call["reactor"].at = "create" /\ call'["reactor"].at = "idle")
    BY <1>0, <1>2, <1>6 DEF CreateFails, Ends, stored
  <2> QED BY <1>0, <2>1 DEF Is
<1>7. CASE ProcessExits
  <2>1. /\ UNCHANGED <<call, binding>>
        /\ events' # <<>> \/ (~Is(registered) /\ UNCHANGED <<session, events, ingest>>)
    BY <1>0, <1>7, LastOfAppend DEF ProcessExits, stored
  <2> QED BY <1>0, <2>1 DEF Is
<1>8. CASE IngestRead
  <2>1. UNCHANGED <<call, binding>> /\ ingest' # NoEvent
    <3>1. Head(events) \in {"live", "stopped"}  BY <1>0, <1>8 DEF IngestRead
    <3> QED BY <1>8, <3>1 DEF IngestRead, stored, NoEvent
  <2> QED BY <1>0, <2>1 DEF Is
<1>9. CASE IngestWrite
  <2>1. UNCHANGED <<call, binding, registered, events>> /\ session'.status = ingest.kind
    BY <1>9 DEF IngestWrite
  <2> QED BY <1>0, <2>1 DEF EventsEnd, Is
<1>10. ASSUME NEW graceful \in BOOLEAN, ServerStops(graceful) PROVE Sane'
  <2>1. Rest  BY <1>0, <1>10 DEF ServerStops
  <2>2. ~Is(binding) => ~Is(registered)
    BY <1>1, <1>2, <2>1 DEF Rest
  <2>3. /\ session' = session /\ call'["reactor"].at = "idle"
        /\ binding' = IF graceful /\ Is(registered) THEN registered ELSE binding
    BY <1>2, <1>10 DEF ServerStops
  <2> QED BY <1>0, <1>2, <2>1, <2>2, <2>3 DEF Rest, Is
<1>11. ASSUME NEW c \in Callers, ServiceStep(c) PROVE Sane'
  <2>1. \A d \in Callers \ {c} : call'[d] = call[d]
    BY <1>0, <1>11, OneMoves
  <2>2. ASSUME StartSession(c) \/ Route(c) \/ Recover(c) \/ Send(c) PROVE Sane'
    <3>1. /\ UNCHANGED <<session, binding, registered, ingest>>
          /\ UNCHANGED events \/ events' # <<>>
          /\ call[c].at \in {"start", "route", "recover", "send"}
      BY <1>0, <2>2, LastOfAppend DEF StartSession, Route, Recover, Send, Unshown, stored
    <3>2. call'[c].at \notin {"set", "unset"}
      BY <1>0, <2>2, Moves
    <3> QED BY <1>0, <2>1, <3>1, <3>2 DEF Is
  <2>3. ASSUME Create(c) PROVE Sane'
    <3>1. events' # <<>> /\ call'[c].at = "bind" /\ binding' = binding
      BY <1>0, <2>3, LastOfAppend, Moves DEF Create
    <3> QED BY <1>0, <2>1, <3>1 DEF Is
  <2>4. ASSUME Bind(c) PROVE Sane'
    <3>1. binding' = call[c].for /\ Is(call[c].for)
      BY <1>1, <2>4 DEF Bind
    <3> QED BY <3>1 DEF Is
  <2>5. ASSUME ShowSession(c) PROVE Sane'
    <3>1. /\ call[c].at = "set" /\ UNCHANGED binding /\ call'[c].at # "set"
          /\ c = "reactor"
      BY <1>0, <1>1, <2>5, Wanted DEF ShowSession
    <3> QED BY <1>0, <3>1 DEF Is
  <2>6. ASSUME Record(c) PROVE Sane'
    <3>1. binding' = At(binding.mode, call[c].for.conv) /\ Is(call[c].for)
      BY <1>1, <2>6 DEF Record
    <3> QED BY <3>1 DEF Is, At
  <2> QED BY <1>11, <2>2, <2>3, <2>4, <2>5, <2>6 DEF ServiceStep
<1> QED BY <1>3, <1>4, <1>5, <1>6, <1>7, <1>8, <1>9, <1>10, <1>11
        DEF Next, ReactorStep, Ingestion

(* ShownSessionsAreBound: but for the two ways out, a thread that shows a    *)
(* session when all is done has a row to resume it by.                       *)
THEOREM ShownSessionsAreBoundHolds == Spec => []ShownSessionsAreBound
<1>1. Init => EventsEnd /\ ShownFollows
  BY DEF Init, EventsEnd, ShownFollows, NoEvent, Callers, Free
<1>2. RowInv /\ EventsEnd /\ ShownFollows => ShownSessionsAreBound
  <2> SUFFICES ASSUME RowInv, ShownFollows, Rest, session.status = "live",
                      Without({"cut", "message_during_stop"})
               PROVE  Is(binding)
    BY DEF ShownSessionsAreBound, Live
  <2>1. call["reactor"].at = "idle"
    BY DEF Rest, Callers, Free
  <2>2. Is(registered) => Is(binding)
    BY <2>1 DEF RowInv, SameConversation, Without
  <2> QED BY <2>1, <2>2 DEF ShownFollows, Rest
<1>3. RowInv /\ EventsEnd /\ ShownFollows /\ [Next]_vars => EventsEnd' /\ ShownFollows'
  BY NextEventsEnd, NextShownFollows DEF RowInv, ProcessInv
<1> QED BY <1>1, <1>2, <1>3, RowInvHolds, PTL DEF Spec

-----------------------------------------------------------------------------
(* A queue that is put into, or taken from.                                  *)
LEMMA QueuedIn ==
    ASSUME NEW S, NEW q \in Seq(S), NEW e \in S, NEW x
    PROVE  (\E n \in 1..Len(Append(q, e)) : Append(q, e)[n] = x)
             <=> e = x \/ \E n \in 1..Len(q) : q[n] = x
<1>1. /\ Len(q) \in Nat /\ Len(Append(q, e)) = Len(q) + 1 /\ Append(q, e)[Len(q) + 1] = e
      /\ \A i \in 1..Len(q) : Append(q, e)[i] = q[i]
  OBVIOUS
<1>2. \A n \in 1..Len(Append(q, e)) : n = Len(q) + 1 \/ n \in 1..Len(q)
  BY <1>1
<1>3. Len(q) + 1 \in 1..Len(Append(q, e)) /\ \A m \in 1..Len(q) : m \in 1..Len(Append(q, e))
  BY <1>1
<1> QED BY <1>1, <1>2, <1>3

LEMMA QueuedOut ==
    ASSUME NEW S, NEW q \in Seq(S), q # <<>>, NEW x
    PROVE  (\E n \in 1..Len(q) : q[n] = x)
             <=> Head(q) = x \/ \E n \in 1..Len(Tail(q)) : Tail(q)[n] = x
<1>1. /\ Len(q) \in Nat /\ Len(Tail(q)) = Len(q) - 1 /\ Head(q) = q[1] /\ Len(q) > 0
      /\ \A i \in 1..Len(Tail(q)) : Tail(q)[i] = q[i + 1]
  OBVIOUS
<1>2. \A n \in 1..Len(q) : n = 1 \/ (n - 1 \in 1..Len(Tail(q)) /\ Tail(q)[n - 1] = q[n])
  BY <1>1
<1>3. 1 \in 1..Len(q) /\ \A m \in 1..Len(Tail(q)) : m + 1 \in 1..Len(q)
  BY <1>1
<1> QED BY <1>1, <1>2, <1>3

LEMMA NextKinded == TypeInv /\ Kinded /\ [Next]_vars => Kinded'
<1> SUFFICES ASSUME TypeInv, Kinded, [Next]_vars PROVE Kinded'
  OBVIOUS
<1>1. CASE IngestRead
  <2>1. Head(events) \in {"live", "stopped"}  BY <1>1 DEF IngestRead, TypeInv
  <2> QED BY <1>1, <2>1 DEF IngestRead, Kinded
<1>2. CASE IngestWrite  BY <1>2 DEF IngestWrite, Kinded
<1>3. UNCHANGED ingest => Kinded'  BY DEF Kinded
<1>4. ingest' = NoEvent => Kinded'  BY DEF Kinded
<1>5. CASE UNCHANGED vars  BY <1>3, <1>5 DEF vars
<1> QED BY <1>1, <1>2, <1>3, <1>4, <1>5, Published

(* No event of a session is there but of one that was entered.               *)
LEMMA LiveAfter ==
    ASSUME TypeInv, Next, LiveQueued' \/ ingest'.kind = "live"
    PROVE  \/ LiveQueued \/ ingest.kind = "live"
           \/ \E c \in Callers : Create(c) \/ (Send(c) /\ Is(registered))
<1>0. events \in Seq({"live", "stopped"}) /\ "live" # "stopped"  BY DEF TypeInv
<1>1. CASE UNCHANGED <<registered, events, ingest>>  BY <1>1 DEF LiveQueued
<1>2. CASE IngestRead
  <2>1. ingest'.kind = Head(events) /\ events' = Tail(events) /\ events # <<>>
    BY <1>2 DEF IngestRead
  <2> QED BY <1>0, <2>1, QueuedOut DEF LiveQueued
<1>3. CASE IngestWrite
  <2>1. UNCHANGED events /\ ingest'.kind = "none"  BY <1>3 DEF IngestWrite, NoEvent
  <2> QED BY <2>1 DEF LiveQueued
<1>4. CASE UNCHANGED ingest /\ events' = Append(events, "stopped")
  BY <1>0, <1>4, QueuedIn DEF LiveQueued
<1>5. CASE \E c \in Callers : Create(c) \/ (Send(c) /\ UNCHANGED registered /\ Is(registered'))
  BY <1>5 DEF Is
<1>6. CASE UNCHANGED <<events, ingest>>  BY <1>6 DEF LiveQueued
<1>7. CASE events' = <<>> /\ ingest' = NoEvent
  BY <1>7 DEF LiveQueued, NoEvent
<1> QED BY <1>1, <1>2, <1>3, <1>4, <1>5, <1>6, <1>7, Published

(* The reactor and the shown session, in the steps that leave the queue.     *)
LEMMA NextModeFollows ==
    ASSUME RowInv, Kinded, ModeFollows, [Next]_vars
    PROVE  ModeFollows'
<1> DEFINE Sane == /\ Setting => call["reactor"].wanted = mode \/ ModeQueued
                   /\ session.status = "live" /\ session.mode # mode => ModeQueued \/ Setting
                   /\ session.status = "none" =>
                          /\ call["stream"].at = "idle"
                          /\ call["reactor"].at \in {"idle", "unset"} \/ Setting
                          /\ Is(registered) \/ LiveQueued \/ ingest.kind = "live" =>
                                 call["reactor"].at \in {"bind", "set"}
<1> USE DEF Callers
<1>0. /\ TypeInv /\ Ways
      /\ call \in [Callers -> Calls] /\ call["reactor"] \in Calls
      /\ session.status \in {"none", "live", "stopped"}
      /\ queue \in Seq({"mode", "turn", "interrupt", "stop"})
  BY DEF RowInv, ProcessInv, TypeInv
<1>a. CASE UNCHANGED vars
  BY <1>a DEF ModeFollows, vars, stored, Without, Is, Setting, ModeQueued, LiveQueued
<1> SUFFICES ASSUME Without({"cut", "not_started", "stale_ingest", "revived"})', Next PROVE Sane'
  BY <1>a DEF ModeFollows
<1>1. /\ {"cut", "not_started", "stale_ingest", "revived"} \cap races' = {}
      /\ Sane
  BY NotesStay DEF ModeFollows, Without
<1>2. ~Is(Nothing) /\ Free.at = "idle"  BY DEF Is, Nothing, At, Free
<1>3. LiveQueued' \/ ingest'.kind = "live" =>
        \/ LiveQueued \/ ingest.kind = "live"
        \/ \E c \in Callers : Create(c) \/ (Send(c) /\ Is(registered))
  BY <1>0, LiveAfter
<1> HIDE DEF Sane
<1>4. ASSUME UNCHANGED <<mode, session, queue>>, call'["reactor"] = call["reactor"],
             session.status = "none" => call'["stream"] = call["stream"],
             Is(registered') \/ LiveQueued' \/ ingest'.kind = "live" =>
                 Is(registered) \/ LiveQueued \/ ingest.kind = "live"
      PROVE  Sane'
  BY <1>1, <1>4 DEF Sane, Setting, ModeQueued
<1>5. CASE SetMode \/ RequestTurn \/ RequestInterrupt \/ RequestStop
  <2>1. /\ UNCHANGED <<session, call, registered, events, ingest>>
        /\ \E intent \in {"mode", "turn", "interrupt", "stop"} : queue' = Append(queue, intent)
        /\ UNCHANGED mode \/ queue' = Append(queue, "mode")
    BY <1>5 DEF SetMode, RequestTurn, RequestInterrupt, RequestStop, Request
  <2>2. /\ ModeQueued => ModeQueued'
        /\ queue' = Append(queue, "mode") => ModeQueued'
    BY <1>0, <2>1, QueuedIn DEF ModeQueued
  <2> QED BY <1>1, <2>1, <2>2 DEF Sane, Setting, LiveQueued, Is
<1>6. CASE SendStreaming
  BY <1>0, <1>4, <1>6 DEF SendStreaming, stored, LiveQueued, Is
<1>7. CASE TakeIntent
  <2>1. /\ UNCHANGED <<mode, session, registered, events, ingest>>
        /\ call["reactor"] = Free /\ call'["stream"] = call["stream"]
        /\ queue # <<>> /\ queue' = Tail(queue)
    BY <1>0, <1>7 DEF TakeIntent, stored
  <2>2. /\ ModeQueued => Head(queue) = "mode" \/ ModeQueued'
    <3>1. ModeQueued => Head(queue) = "mode" \/ \E n \in 1..Len(Tail(queue)) : Tail(queue)[n] = "mode"
      <4>1. queue \in Seq({"mode", "turn", "interrupt", "stop"}) /\ queue # <<>>  BY <1>0, <2>1
      <4>2. (\E n \in 1..Len(queue) : queue[n] = "mode")
              <=> Head(queue) = "mode" \/ \E n \in 1..Len(Tail(queue)) : Tail(queue)[n] = "mode"
        BY ONLY <4>1, QueuedOut
      <4> QED BY ONLY <4>2 DEF ModeQueued
    <3> QED BY <2>1, <3>1 DEF ModeQueued
  <2>3. /\ call["reactor"].at = "idle" /\ ~Setting
    BY <2>1 DEF Free, Setting
  <2> DEFINE starts == call'["reactor"].at = "start" /\ call'["reactor"].then = "set"
                         /\ call'["reactor"].wanted = mode
  <2>4. \A intent : Ensure(intent).at = "start" =>
                        Ensure(intent).then = "set" /\ Ensure(intent).wanted = mode
    BY DEF Ensure, Free
  <2>5. \A intent : Ensure(intent).at \in {"idle", "route", "start"}
    BY DEF Ensure, Free
  <2>6. \A intent : (session.status = "live" /\ session.mode = mode) \/ Ensure(intent).at = "start"
    BY DEF Ensure, Free
  <2>7. \/ starts
        \/ /\ call'["reactor"].at \in {"idle", "route", "stop", "unset"}
           /\ session.status # "live" => call'["reactor"].at \in {"idle", "unset"}
           /\ Head(queue) = "mode" => session.status # "live" \/ session.mode = mode
    <3>1. CASE Head(queue) \in {"turn", "mode"}
      <4>1. \/ call'["reactor"] = Ensure(Head(queue))
            \/ call'["reactor"] = Free /\ Head(queue) = "mode" /\ session.status # "live"
        BY <1>0, <1>7, <3>1 DEF TakeIntent
      <4> QED BY <1>2, <2>4, <2>5, <2>6, <4>1
    <3>2. CASE Head(queue) \notin {"turn", "mode"}
      <4>1. call'["reactor"].at = IF Head(queue) = "interrupt"
                                  THEN IF session.status = "live" THEN "route" ELSE "idle"
                                  ELSE IF session.status = "live" THEN "stop" ELSE "unset"
        BY <1>0, <1>7, <3>2 DEF TakeIntent, Free
      <4> QED BY <3>2, <4>1
    <3> QED BY <3>1, <3>2
  <2>8. starts => Setting' /\ call'["reactor"].wanted = mode'
    BY <2>1 DEF Setting
  <2>9. CASE starts
    <3>1. ~ (session.status = "none" /\ (Is(registered) \/ LiveQueued \/ ingest.kind = "live"))
      BY <1>1, <2>3 DEF Sane
    <3>2. LiveQueued' = LiveQueued  BY <2>1 DEF LiveQueued
    <3> QED BY <1>1, <2>1, <2>8, <2>9, <3>1, <3>2 DEF Sane, Is
  <2>10. CASE ~starts
    <3>1. call'["reactor"].at \in {"idle", "route", "stop", "unset"} /\ ~Setting'
      BY <2>7, <2>10 DEF Setting
    <3>2. LiveQueued' = LiveQueued  BY <2>1 DEF LiveQueued
    <3> QED BY <1>1, <2>1, <2>2, <2>3, <2>7, <2>10, <3>1, <3>2 DEF Sane, Is
  <2> QED BY <2>9, <2>10
<1>8. CASE StopProcess \/ RemoveBinding
  <2>1. /\ UNCHANGED <<mode, session, queue>> /\ call["reactor"].at \in {"stop", "remove"}
        /\ call'["reactor"].at \in {"idle", "remove", "unset"}
    <3>1. /\ \A to : [call EXCEPT !["reactor"].at = to]["reactor"].at = to
          /\ [call EXCEPT !["reactor"] = Free]["reactor"].at = "idle"
      BY <1>0, <1>2 DEF Calls
    <3> QED BY <1>8, <3>1 DEF StopProcess, RemoveBinding, Goes, Ends, Unshown
  <2>2. ~Setting /\ ~Setting' /\ session.status # "none"
    BY <1>1, <2>1 DEF Sane, Setting
  <2> QED BY <1>1, <2>1, <2>2 DEF Sane, ModeQueued
<1>9. CASE ShowStopped
  <2>1. session'.status = "stopped" /\ call'["reactor"].at = "idle"
    BY <1>0, <1>2, <1>9 DEF ShowStopped, Ends
  <2> QED BY <2>1 DEF Sane, Setting
<1>10. ASSUME NEW c \in Callers, CreateFails(c) PROVE FALSE
  BY <1>1, <1>10 DEF CreateFails
<1>11. CASE ProcessExits
  <2>1. UNCHANGED <<mode, session, queue, call>> /\ registered' = Nothing
    BY <1>11 DEF ProcessExits, stored
  <2>2. ~ \E c \in Callers : Create(c) \/ (Send(c) /\ Is(registered))
    BY <1>11 DEF ProcessExits, Create, Send, Spend
  <2> QED BY <1>2, <1>3, <1>4, <2>1, <2>2
<1>12. CASE IngestRead
  <2>1. UNCHANGED <<mode, session, queue, call, registered>>
    BY <1>12 DEF IngestRead, stored
  <2>2. ~ \E c \in Callers : Create(c) \/ (Send(c) /\ Is(registered))
    <3>1. Len(Tail(events)) < Len(events) /\ events' = Tail(events)
      BY <1>0, <1>12 DEF IngestRead, TypeInv
    <3>2. Len(Append(events, "live")) > Len(events)
      BY <1>0 DEF TypeInv
    <3>3. ASSUME NEW c \in Callers, Create(c) \/ (Send(c) /\ Is(registered))
          PROVE  ingest' = ingest
      BY <3>3 DEF Create, Send, Unshown
    <3>4. ingest' # ingest
      <4>1. Head(events) \in {"live", "stopped"}  BY <1>0, <1>12 DEF IngestRead, TypeInv
      <4> QED BY <1>12, <4>1 DEF IngestRead, NoEvent
    <3> QED BY <3>3, <3>4
  <2> QED BY <1>3, <1>4, <2>1, <2>2 DEF Is
<1>13. CASE IngestWrite
  <2>1. /\ UNCHANGED <<mode, queue, call, registered, events>>
        /\ session' = [status |-> ingest.kind, mode |-> ingest.mode]
        /\ ingest.mode = session.mode
        /\ ~ (ingest.kind = "live" /\ session.status = "stopped")
    BY <1>1, <1>13 DEF IngestWrite
  <2>2. ingest.kind \in {"live", "stopped"}
    BY <1>13 DEF IngestWrite, Kinded
  <2>3. session'.status = ingest.kind /\ session'.mode = session.mode
    BY <2>1
  <2>4. ingest.kind = "live" /\ session.status = "none" => Setting
    BY <1>1 DEF Sane, Setting
  <2>5. Setting' = Setting /\ ModeQueued' = ModeQueued
    BY <2>1 DEF Setting, ModeQueued
  <2> QED BY <1>0, <1>1, <2>1, <2>2, <2>3, <2>4, <2>5 DEF Sane
<1>14. ASSUME NEW graceful \in BOOLEAN, ServerStops(graceful) PROVE Sane'
  <2>1. Rest  BY <1>1, <1>14 DEF ServerStops
  <2>2. call["reactor"].at = "idle" /\ ~Setting /\ ~ModeQueued
    BY <1>2, <2>1 DEF Rest, Setting, ModeQueued
  <2>3. /\ UNCHANGED <<mode, session>> /\ \A c \in Callers : call'[c].at = "idle"
        /\ registered' = Nothing /\ ingest'.kind = "none" /\ events' = <<>>
    BY <1>2, <1>14 DEF ServerStops, NoEvent
  <2>4. ~Setting' /\ ~LiveQueued'
    BY <2>3 DEF Setting, LiveQueued
  <2> QED BY <1>1, <1>2, <2>2, <2>3, <2>4 DEF Sane
<1>15. ASSUME ServiceStep("stream") PROVE Sane'
  <2>1. call'["reactor"] = call["reactor"] /\ call["stream"].at # "idle"
    BY <1>0, <1>15, OneMoves
       DEF ServiceStep, StartSession, Route, Recover, Create, Bind, ShowSession, Send, Record
  <2>2. UNCHANGED <<mode, queue>> /\ session' = session
    BY <1>0, <1>15 DEF ServiceStep, StartSession, Route, Recover, Create, Bind, ShowSession, Send,
                       Record, Unshown, stored, Ways
  <2>3. session.status # "none"  BY <1>1, <2>1 DEF Sane
  <2> QED BY <1>1, <2>1, <2>2, <2>3 DEF Sane, Setting, ModeQueued
<1>16. ASSUME ServiceStep("reactor") PROVE Sane'
  <2> DEFINE r == call["reactor"]
  <2>1. call'["stream"] = call["stream"] /\ UNCHANGED <<mode, queue>> /\ ModeQueued' = ModeQueued
    BY <1>0, <1>16, OneMoves
       DEF ServiceStep, StartSession, Route, Recover, Create, Bind, ShowSession, Send, Record,
           Unshown, stored, ModeQueued
  <2>2. ASSUME StartSession("reactor") \/ Create("reactor") \/ Bind("reactor") PROVE Sane'
    <3>1. /\ UNCHANGED session /\ r.at \in {"start", "create", "bind"}
          /\ call'["reactor"].wanted = r.wanted
      BY <1>0, <2>2, Wanted DEF StartSession, Create, Bind
    <3>2. Setting' = Setting
      <4>1. r.then \in {"none", "set", "send"} /\ call'["reactor"].then = r.then
        BY <1>0, <2>2, Wanted DEF Calls
      <4>2. \/ call'["reactor"].at \in {"create", "bind"}
            \/ r.at = "bind" /\ call'["reactor"].at = r.then
        BY <1>0, <2>2, Moves DEF Bind
      <4> QED BY <3>1, <4>1, <4>2 DEF Setting
    <3>3. session.status = "none" /\ (Is(registered') \/ LiveQueued' \/ ingest'.kind = "live")
            => call'["reactor"].at \in {"bind", "set"}
      <4> SUFFICES ASSUME session.status = "none", Is(registered') \/ LiveQueued' \/ ingest'.kind = "live"
                   PROVE  call'["reactor"].at \in {"bind", "set"}
        OBVIOUS
      <4>1. CASE Create("reactor")  BY <1>0, <4>1, Moves
      <4>2. CASE Bind("reactor")
        <5>1. r.then = "set"
          BY <1>1, <4>2 DEF Sane, Setting, Bind
        <5> QED BY <1>0, <4>2, <5>1, Moves
      <4>3. CASE StartSession("reactor")
        <5>1. UNCHANGED <<registered, events, ingest>> /\ r.at = "start"
          BY <4>3 DEF StartSession, Unshown
        <5> QED BY <1>1, <5>1 DEF Sane, LiveQueued, Is
      <4> QED BY <2>2, <4>1, <4>2, <4>3
    <3> QED BY <1>1, <2>1, <3>1, <3>2, <3>3 DEF Sane
  <2>3. ASSUME ShowSession("reactor") PROVE Sane'
    <3>1. /\ r.at = "set" /\ session'.status = "live" /\ session'.mode = r.wanted
          /\ call'["reactor"].at \in {"idle", "route"}
      BY <1>0, <2>3, Wanted DEF ShowSession
    <3>2. Setting /\ ~Setting'  BY <3>1 DEF Setting
    <3> QED BY <1>1, <2>1, <3>1, <3>2 DEF Sane
  <2>4. ASSUME Route("reactor") \/ Recover("reactor") \/ Send("reactor") \/ Record("reactor")
        PROVE  Sane'
    <3>1. UNCHANGED session /\ r.at \in {"route", "recover", "send", "record"}
      BY <2>4 DEF Route, Recover, Send, Record, Unshown, stored
    <3>2. ~Setting /\ session.status # "none"
      BY <1>1, <3>1 DEF Sane, Setting
    <3>3. ~Setting'
      <4>1. CASE Recover("reactor")
        <5>1. r.then = "send"
          BY <1>0, <4>1 DEF Ways, Recover
        <5> QED BY <1>0, <4>1, <5>1, Moves DEF Setting
      <4>2. CASE Route("reactor") \/ Send("reactor") \/ Record("reactor")
        <5>1. call'["reactor"].at \in {"idle", "send", "recover", "record", "route"}
          BY <1>0, <1>16, <4>2, OneMoves
        <5> QED BY <5>1 DEF Setting
      <4> QED BY <2>4, <4>1, <4>2
    <3> QED BY <1>1, <2>1, <3>1, <3>2, <3>3 DEF Sane
  <2> QED BY <1>16, <2>2, <2>3, <2>4 DEF ServiceStep
<1> QED BY <1>5, <1>6, <1>7, <1>8, <1>9, <1>10, <1>11, <1>12, <1>13, <1>14, <1>15, <1>16
        DEF Next, ReactorStep, Ingestion

(* ShownAsChosen: but for the ways a change is lost, a session that is shown *)
(* when all is done shows the mode chosen last.                              *)
THEOREM ShownAsChosenHolds == Spec => []ShownAsChosen
<1>1. Init => Kinded /\ ModeFollows
  BY DEF Init, Kinded, ModeFollows, NoEvent, Callers, Free, Nothing, At, Is, Setting, LiveQueued
<1>2. ModeFollows => ShownAsChosen
  BY DEF ModeFollows, ShownAsChosen, Live, Rest, Callers, Free, Setting, ModeQueued
<1>3. RowInv /\ Kinded /\ ModeFollows /\ [Next]_vars => Kinded' /\ ModeFollows'
  BY NextKinded, NextModeFollows DEF RowInv, ProcessInv
<1> QED BY <1>1, <1>2, <1>3, RowInvHolds, PTL DEF Spec

=============================================================================
