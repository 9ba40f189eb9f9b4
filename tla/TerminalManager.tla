--------------------------- MODULE TerminalManager ---------------------------
(* The terminals of the server: sessions with a shell each, whose output is  *)
(* kept as history, written to a file and published to listeners.            *)
(*                                                                           *)
(* open, restart, clear and close run one at a time for a thread and wait    *)
(* for files, spawns and listeners in between.  Meanwhile processes speak    *)
(* and exit: their events go through a queue of the session, which a fiber   *)
(* drains, waiting for the listeners after each event.  A worker writes the  *)
(* histories (KeyedCoalescingWorker: drainKey waits for all that was         *)
(* enqueued under the key).                                                  *)
EXTENDS Naturals, Sequences, FiniteSets

CONSTANTS
    None,
    Terminals, Threads, ThreadOf,
    Ids,          \* session objects there may be at one time
    Pids,         \* processes there may be at one time
    Fibers,       \* fibers that drain, at one time
    MaxRetained,  \* maxRetainedInactiveSessions
    Budgets       \* how often what may happen (see Kinds)

Kinds == {"opens", "restarts", "clears", "closes", "outputs", "exits", "failures"}

ASSUME TerminalAssumption ==
    /\ ThreadOf \in [Terminals -> Threads] /\ None \notin Terminals
    /\ Ids \subseteq Nat \ {0} /\ Pids \subseteq Nat \ {0}
    /\ MaxRetained \in Nat
    /\ Budgets \subseteq [Kinds -> Nat]

VARIABLES
    sessions,    \* the session object of a terminal, 0 for none
    session,     \* the objects, also those that are no longer in sessions
    updated,     \* the objects in sessions, in the order of updatedAt
    killFibers,  \* processes a fiber ends, by SIGTERM and then by SIGKILL
    unkilled,    \* processes whose fiber could not send them a signal
    alive,       \* processes that run
    drains,      \* fibers that wait for listeners while they drain
    waiting,     \* histories enqueued for the worker: {} or one
    writing,     \* the one being written, with its terminal: {} or one
    file,        \* the history files, <<>> when there is none
    call,        \* what is under way for a thread
    shown,       \* the text of a terminal, to a listener
    owed,        \* what the history of an object has to hold (history)
    left,        \* the history of a terminal when it left sessions (history)
    said,        \* pieces of output so far
    races,       \* what went wrong so far (history)
    budget       \* what is left of the chosen member of Budgets

table == <<sessions, session, updated, left, races>>
disk == <<waiting, writing, file>>
vars == <<table, killFibers, alive, unkilled, drains, disk, call, shown, owed, said, budget>>

(* A piece of output is a number; exit stands for the end of the process.    *)
exit == 0
New(t) == [of |-> t, status |-> "starting", pid |-> 0, history |-> <<>>, queue |-> <<>>,
           draining |-> FALSE]
Blank == New(None)
Free == [at |-> "idle", of |-> None, obj |-> 0, rest |-> {}, whole |-> FALSE, delete |-> FALSE]

Init ==
    /\ sessions = [t \in Terminals |-> 0]
    /\ session = [o \in Ids |-> Blank]
    /\ updated = <<>>
    /\ killFibers = {} /\ unkilled = {} /\ alive = {} /\ drains = {}
    /\ waiting = [t \in Terminals |-> {}] /\ writing = {}
    /\ file = [t \in Terminals |-> <<>>]
    /\ call = [h \in Threads |-> Free]
    /\ shown = [t \in Terminals |-> <<>>]
    /\ owed = [o \in Ids |-> <<>>]
    /\ left = [t \in Terminals |-> <<>>]
    /\ said = 0
    /\ races = {}
    /\ budget \in Budgets

Spend(what) == budget[what] > 0 /\ budget' = [budget EXCEPT ![what] = @ - 1]
Notes(condition, race) == IF condition THEN {race} ELSE {}

-----------------------------------------------------------------------------
(* The sessions.                                                             *)

Touched(o) == Append(SelectSeq(updated, LAMBDA q : q # o), o)
Listed(ses) == {ses[t] : t \in Terminals} \ {0}

Save(obj, order, notes) ==
    /\ session' = obj /\ updated' = order
    /\ races' = races \cup notes
    /\ UNCHANGED <<sessions, left>>

Inactive(ses, obj) == {o \in Listed(ses) : obj[o].status # "running"}

(* evictInactiveSessionsIfNeeded, after an update.  (An object that a call   *)
(* still works on stays what it is.)                                         *)
Retain(ses, obj, order) ==
    LET Newer(o) == {order[i] : i \in {j \in DOMAIN order : \E k \in 1..j : order[k] = o}}
        gone == {o \in Inactive(ses, obj) :
                    Cardinality(Newer(o) \cap Inactive(ses, obj)) > MaxRetained}
        used == {call'[h].obj : h \in Threads}
    IN /\ sessions' = [t \in Terminals |-> IF ses[t] \in gone THEN 0 ELSE ses[t]]
       /\ session' = [o \in Ids |-> IF o \in gone \ used THEN Blank ELSE obj[o]]
       /\ updated' = SelectSeq(order, LAMBDA o : o \notin gone)
       /\ left' = [t \in Terminals |-> IF ses[t] \in gone THEN obj[ses[t]].history ELSE left[t]]
       /\ races' = races \cup Notes(gone \cap used # {}, "evicted")

Unused(o) ==
    /\ o \notin Listed(sessions) /\ session[o].pid = 0
    /\ \A h \in Threads : call[h].obj # o
    /\ \A d \in drains : d.obj # o

Emptied(x) == [x EXCEPT !.history = <<>>, !.queue = <<>>, !.draining = FALSE]

Ended(x) == [x EXCEPT !.pid = 0, !.status = "exited", !.queue = <<>>, !.draining = FALSE]

\* Mutant of StopThen: the process is dropped and not killed.
StopSparing(o, next) ==
    /\ UNCHANGED killFibers
    /\ IF session[o].pid = 0 THEN Save([session EXCEPT ![o] = next], updated, {})
       ELSE Retain(sessions, [session EXCEPT ![o] = next], Touched(o))

(* stopProcess on a session, with what the caller makes of it next.          *)
StopThen(o, next) ==
    IF session[o].pid = 0
    THEN Save([session EXCEPT ![o] = next], updated, {}) /\ UNCHANGED killFibers
    ELSE /\ Retain(sessions, [session EXCEPT ![o] = next], Touched(o))
         /\ killFibers' = killFibers \cup {session[o].pid}

(* drainKey returns.                                                         *)
Drained(t) == waiting[t] = {} /\ \A w \in writing : w.of # t
Enqueue(t, history) == waiting' = [waiting EXCEPT ![t] = {history}]

Enters(t, c) ==
    /\ call[ThreadOf[t]] = Free
    /\ call' = [call EXCEPT ![ThreadOf[t]] = c]
At(t, o, at) == [Free EXCEPT !.at = at, !.of = t, !.obj = o]

-----------------------------------------------------------------------------
(* Calls.                                                                    *)

Forgets(o) == owed' = [owed EXCEPT ![o] = <<>>]
Elsewhere == <<alive, unkilled, drains, writing, file, shown, said>>

\* Mutant of OpenNew: the file is read without flushPersist.
OpenUnflushed(t) ==
    /\ sessions[t] = 0 /\ Spend("opens")
    /\ \E o \in {i \in Ids : Unused(i)} :
          /\ \A i \in Ids : Unused(i) => o <= i
          /\ Enters(t, At(t, o, "spawn"))
          /\ Retain([sessions EXCEPT ![t] = o],
                    [session EXCEPT ![o] = [New(t) EXCEPT !.history = file[t]]], Touched(o))
          /\ owed' = [owed EXCEPT ![o] = file[t]]
    /\ UNCHANGED <<Elsewhere, waiting, killFibers>>

(* open, of a terminal that has no session: what was written is read.        *)
OpenNew(t) ==
    /\ sessions[t] = 0 /\ Drained(t) /\ Spend("opens")
    /\ \E o \in {i \in Ids : Unused(i)} :
          /\ \A i \in Ids : Unused(i) => o <= i
          /\ Enters(t, At(t, o, "spawn"))
          /\ Retain([sessions EXCEPT ![t] = o],
                    [session EXCEPT ![o] = [New(t) EXCEPT !.history = file[t]]], Touched(o))
          /\ owed' = [owed EXCEPT ![o] = file[t]]
    /\ UNCHANGED <<Elsewhere, waiting, killFibers>>

(* open, of a session that has ended, or with another directory or           *)
(* environment: it starts over, with an empty history.                       *)
Reopen(t) ==
    /\ sessions[t] # 0 /\ Spend("opens")
    /\ LET o == sessions[t]
       IN /\ Enters(t, At(t, o, "persist"))
          /\ StopThen(o, Emptied(IF session[o].pid = 0 THEN session[o] ELSE Ended(session[o])))
          /\ Forgets(o)
    /\ Enqueue(t, <<>>)
    /\ UNCHANGED Elsewhere

RestartNew(t) ==
    /\ sessions[t] = 0 /\ Spend("restarts")
    /\ \E o \in {i \in Ids : Unused(i)} :
          /\ \A i \in Ids : Unused(i) => o <= i
          /\ Enters(t, At(t, o, "persist"))
          /\ Retain([sessions EXCEPT ![t] = o], [session EXCEPT ![o] = New(t)], Touched(o))
          /\ Forgets(o)
    /\ Enqueue(t, <<>>)
    /\ UNCHANGED <<Elsewhere, killFibers>>

Restart(t) ==
    /\ sessions[t] # 0 /\ Spend("restarts")
    /\ LET o == sessions[t]
       IN /\ Enters(t, At(t, o, "persist"))
          /\ StopThen(o, Emptied(IF session[o].pid = 0 THEN session[o] ELSE Ended(session[o])))
          /\ Forgets(o)
    /\ Enqueue(t, <<>>)
    /\ UNCHANGED Elsewhere

(* startSession, once the empty history is written, until it spawns.         *)
StartSession(h) ==
    /\ call[h].at = "persist" /\ Drained(call[h].of)
    /\ LET o == call[h].obj
       IN Save([session EXCEPT ![o].status = "starting", ![o].queue = <<>>, ![o].draining = FALSE],
               Touched(o), {})
    /\ call' = [call EXCEPT ![h].at = "spawn"]
    /\ UNCHANGED <<killFibers, alive, unkilled, drains, disk, shown, owed, said, budget>>

(* Processes that no session holds any more.                                 *)
LetGo == killFibers \cup unkilled

(* A process, or what still remembers it: the number is not given again.     *)
InUse(p) ==
    \/ p \in alive \cup LetGo
    \/ \E o \in Ids : session[o].pid = p
    \/ \E d \in drains : d.pid = p

\* Mutant of Spawned: the event "started" is not published.
SpawnedSilently(h) ==
    /\ call[h].at = "spawn"
    /\ \E p \in Pids :
          /\ ~InUse(p)
          /\ alive' = alive \cup {p}
          /\ LET o == call[h].obj
             IN Save([session EXCEPT ![o].status = "running", ![o].pid = p], Touched(o), {})
    /\ call' = [call EXCEPT ![h] = Free]
    /\ UNCHANGED <<killFibers, unkilled, drains, disk, shown, owed, said, budget>>

Spawned(h) ==
    /\ call[h].at = "spawn"
    /\ \E p \in Pids :
          /\ ~InUse(p)
          /\ \A q \in Pids : q < p => InUse(q)
          /\ alive' = alive \cup {p}
          /\ LET o == call[h].obj
             IN /\ Save([session EXCEPT ![o].status = "running", ![o].pid = p], Touched(o), {})
                /\ shown' = [shown EXCEPT ![call[h].of] = session[o].history]
    /\ call' = [call EXCEPT ![h] = Free]
    /\ UNCHANGED <<killFibers, unkilled, drains, disk, owed, said, budget>>

StartFails(h) ==
    /\ call[h].at = "spawn" /\ Spend("failures")
    /\ LET o == call[h].obj
       IN /\ call' = [call EXCEPT ![h] = Free]
          /\ Retain(sessions, [session EXCEPT ![o].status = "error"], Touched(o))
    /\ UNCHANGED <<killFibers, alive, unkilled, drains, disk, shown, owed, said>>

(* clear drops what is queued, the end of the process included.              *)
Clear(t) ==
    /\ sessions[t] # 0 /\ Spend("clears")
    /\ LET o == sessions[t]
       IN /\ Enters(t, At(t, o, "clear"))
          /\ Save([session EXCEPT ![o] = Emptied(session[o])], Touched(o),
                  Notes(\E i \in DOMAIN session[o].queue : session[o].queue[i] = exit,
                        "exit_cleared"))
          /\ Forgets(o)
    /\ Enqueue(t, <<>>)
    /\ UNCHANGED <<Elsewhere, killFibers>>

Cleared(h) ==
    /\ call[h].at = "clear" /\ Drained(call[h].of)
    /\ shown' = [shown EXCEPT ![call[h].of] = <<>>]
    /\ races' = races \cup Notes(session[call[h].obj].history # <<>>, "said_while_clearing")
    /\ call' = [call EXCEPT ![h] = Free]
    /\ UNCHANGED <<sessions, session, updated, left, killFibers, alive, unkilled, drains, disk,
                   owed, said, budget>>

(* closeSession, up to its first wait.                                       *)
Closing(t, next) ==
    LET o == sessions[t]
    IN /\ call' = [call EXCEPT ![ThreadOf[t]] = [next EXCEPT !.at = "close", !.of = t, !.obj = o]]
       /\ IF o = 0
          THEN UNCHANGED <<table, killFibers, waiting, owed>>
          ELSE /\ StopThen(o, IF session[o].pid = 0 THEN session[o] ELSE Ended(session[o]))
               /\ Enqueue(t, session[o].history)
               /\ owed' = [owed EXCEPT ![o] = session[o].history]

Close(t) ==
    /\ call[ThreadOf[t]] = Free /\ Spend("closes")
    /\ \E delete \in BOOLEAN : Closing(t, [Free EXCEPT !.delete = delete])
    /\ UNCHANGED Elsewhere

(* close, of a whole thread: one session after the other.                    *)
CloseThread(h) ==
    /\ call[h] = Free /\ Spend("closes")
    /\ \E delete \in BOOLEAN :
          call' = [call EXCEPT ![h] = [Free EXCEPT !.at = "next", !.whole = TRUE, !.delete = delete,
                      !.rest = {t \in Terminals : ThreadOf[t] = h /\ sessions[t] # 0}]]
    /\ UNCHANGED <<table, killFibers, alive, unkilled, drains, disk, shown, owed, said>>

CloseNext(h) ==
    /\ call[h].at = "next"
    /\ \E t \in call[h].rest : Closing(t, [call[h] EXCEPT !.rest = @ \ {t}])
    /\ UNCHANGED <<Elsewhere, budget>>

(* The history is written: the session goes, and its file when asked for.    *)
Closed(h) ==
    /\ call[h].at = "close" /\ Drained(call[h].of)
    /\ LET t == call[h].of
           o == sessions[t]
           deletes == call[h].delete /\ ~call[h].whole
       IN /\ sessions' = [sessions EXCEPT ![t] = 0]
          /\ session' = IF o = 0 THEN session ELSE [session EXCEPT ![o] = Blank]
          /\ updated' = SelectSeq(updated, LAMBDA q : q # o)
          /\ left' = [left EXCEPT ![t] = CASE deletes -> <<>>
                                           [] ~deletes /\ o # 0 -> session[o].history
                                           [] OTHER -> @]
          /\ file' = IF deletes THEN [file EXCEPT ![t] = <<>>] ELSE file
          /\ call' = [call EXCEPT ![h] = IF call[h].whole
                                         THEN [@ EXCEPT !.at = "next", !.of = None, !.obj = 0]
                                         ELSE Free]
    /\ UNCHANGED <<races, killFibers, alive, unkilled, drains, waiting, writing, shown, owed, said,
                   budget>>

(* deleteAllHistoryForThread waits for no write.                             *)
ThreadClosed(h) ==
    /\ call[h].at = "next" /\ call[h].rest = {}
    /\ LET gone == {t \in Terminals : call[h].delete /\ ThreadOf[t] = h}
       IN /\ file' = [t \in Terminals |-> IF t \in gone THEN <<>> ELSE file[t]]
          /\ left' = [t \in Terminals |-> IF t \in gone THEN <<>> ELSE left[t]]
          /\ races' = races \cup Notes(\E t \in gone : ~Drained(t), "undeleted")
    /\ call' = [call EXCEPT ![h] = Free]
    /\ UNCHANGED <<sessions, session, updated, killFibers, alive, unkilled, drains, waiting,
                   writing, shown, owed, said, budget>>

-----------------------------------------------------------------------------
(* Processes and their events.                                               *)

\* Mutant of DrainStep: the queue is emptied when its last event is reached,
\* counted one too early.
DrainStepEarly(x, p) ==
    LET none == [object |-> [x EXCEPT !.queue = <<>>, !.draining = FALSE], event |-> "none"]
    IN CASE x.pid # p \/ x.status # "running" \/ x.queue = <<>> -> none
         [] x.pid = p /\ x.status = "running" /\ x.queue # <<>> /\ Head(x.queue) = exit ->
              [object |-> Ended(x), event |-> "exit"]
         [] OTHER ->
              [object |-> [x EXCEPT !.history = Append(@, Head(x.queue)),
                                    !.queue = IF Len(@) <= 2 THEN <<>> ELSE Tail(@)],
               event |-> "output"]

\* Mutant of DrainStep: a fiber that is done leaves processEventDrainRunning.
DrainStepMarked(x, p) ==
    CASE x.pid # p \/ x.status # "running" \/ x.queue = <<>> ->
           [object |-> [x EXCEPT !.queue = <<>>], event |-> "none"]
      [] x.pid = p /\ x.status = "running" /\ x.queue # <<>> /\ Head(x.queue) = exit ->
           [object |-> Ended(x), event |-> "exit"]
      [] OTHER ->
           [object |-> [x EXCEPT !.history = Append(@, Head(x.queue)), !.queue = Tail(@)],
            event |-> "output"]

(* One turn of drainProcessEvents for the process p of an object x: what     *)
(* becomes of the object, and what the fiber waits to hand on ("output",     *)
(* "exit", or "none" when it is done).                                       *)
DrainStep(x, p) ==
    LET none == [object |-> [x EXCEPT !.queue = <<>>, !.draining = FALSE], event |-> "none"]
    IN CASE x.pid # p \/ x.status # "running" \/ x.queue = <<>> -> none
         [] x.pid = p /\ x.status = "running" /\ x.queue # <<>> /\ Head(x.queue) = exit ->
              [object |-> Ended(x), event |-> "exit"]
         [] OTHER ->
              [object |-> [x EXCEPT !.history = Append(@, Head(x.queue)), !.queue = Tail(@)],
               event |-> "output"]

(* The fiber d takes a turn on the object x.                                 *)
Turn(x, d, notes) ==
    LET step == DrainStep(x, d.pid)
    IN /\ Save([session EXCEPT ![d.obj] = step.object],
               IF step.event # "none" /\ d.obj \in Listed(sessions) THEN Touched(d.obj)
               ELSE updated,
               notes)
       /\ drains' = (drains \ {d}) \cup (IF step.event = "none" THEN {}
                                         ELSE {[d EXCEPT !.after = step.event]})
       /\ IF step.event = "output"
          THEN /\ Enqueue(x.of, step.object.history)
               /\ shown' = [shown EXCEPT ![x.of] = Append(@, Head(x.queue))]
          ELSE UNCHANGED <<waiting, shown>>

(* enqueueProcessEvent, and the fiber the callback forks.                    *)
Callback(o, event) ==
    LET x == [session[o] EXCEPT !.queue = Append(@, event)]
    IN IF x.draining
       THEN /\ Save([session EXCEPT ![o] = x], updated, {})
            /\ UNCHANGED <<drains, waiting, shown>>
       ELSE \E n \in Fibers :
              /\ \A m \in Fibers : m < n => \E d \in drains : d.n = m
              /\ \A d \in drains : d.n # n
              /\ Turn([x EXCEPT !.draining = TRUE],
                      [obj |-> o, pid |-> x.pid, after |-> "output", n |-> n], {})

Output(o) ==
    /\ session[o].pid \in alive /\ Spend("outputs")
    /\ said' = said + 1
    /\ owed' = [owed EXCEPT ![o] = Append(@, said')]
    /\ Callback(o, said')
    /\ UNCHANGED <<killFibers, alive, unkilled, writing, file, call>>

Exit(o) ==
    /\ session[o].pid \in alive /\ Spend("exits")
    /\ alive' = alive \ {session[o].pid}
    /\ Callback(o, exit)
    /\ UNCHANGED <<killFibers, unkilled, writing, file, call, owed, said>>

(* The listeners have taken the event of a fiber.                            *)
Delivered(d) ==
    /\ d.after = "output"
    /\ Turn(session[d.obj], d,
            Notes(session[d.obj].pid # d.pid /\ session[d.obj].queue # <<>>, "stale_drain"))
    /\ UNCHANGED <<killFibers, alive, unkilled, writing, file, call, owed, said, budget>>

ExitDelivered(d) ==
    /\ d.after = "exit"
    /\ drains' = drains \ {d}
    /\ UNCHANGED call
    /\ Retain(sessions, session, updated)
    /\ UNCHANGED <<killFibers, alive, unkilled, disk, shown, owed, said, budget>>

(* A process that was let go ends by SIGTERM, or by itself.                  *)
Terminates(p) ==
    /\ p \in LetGo \cap alive
    /\ alive' = alive \ {p} /\ unkilled' = unkilled \ {p}
    /\ UNCHANGED <<table, killFibers, drains, disk, call, shown, owed, said, budget>>

Kill(p) ==
    /\ p \in killFibers
    /\ killFibers' = killFibers \ {p} /\ alive' = alive \ {p}
    /\ UNCHANGED <<table, unkilled, drains, disk, call, shown, owed, said, budget>>

(* SIGTERM or SIGKILL cannot be sent: that is logged, and the fiber is done. *)
KillFails(p) ==
    /\ p \in killFibers /\ Spend("failures")
    /\ killFibers' = killFibers \ {p}
    /\ unkilled' = unkilled \cup ({p} \cap alive)
    /\ UNCHANGED <<table, alive, drains, disk, call, shown, owed, said>>

-----------------------------------------------------------------------------
(* The worker that writes histories.                                         *)

TakeHistory(t) ==
    /\ writing = {} /\ waiting[t] # {}
    /\ writing' = {[of |-> t, text |-> text] : text \in waiting[t]}
    /\ waiting' = [waiting EXCEPT ![t] = {}]
    /\ UNCHANGED <<table, killFibers, alive, unkilled, drains, file, call, shown, owed, said,
                   budget>>

WriteHistory ==
    \E w \in writing :
       /\ writing' = {}
       /\ \/ file' = [file EXCEPT ![w.of] = w.text] /\ UNCHANGED <<races, budget>>
          \/ Spend("failures") /\ races' = races \cup {"unwritten"} /\ UNCHANGED file
       /\ UNCHANGED <<sessions, session, updated, left, killFibers, alive, unkilled, drains,
                      waiting, call, shown, owed, said>>

Next ==
    \/ \E t \in Terminals : \/ OpenNew(t) \/ Reopen(t) \/ RestartNew(t) \/ Restart(t)
                            \/ Clear(t) \/ Close(t) \/ TakeHistory(t)
    \/ \E h \in Threads : \/ StartSession(h) \/ Spawned(h) \/ StartFails(h) \/ Cleared(h)
                          \/ CloseThread(h) \/ CloseNext(h) \/ Closed(h) \/ ThreadClosed(h)
    \/ \E o \in Ids : Output(o) \/ Exit(o)
    \/ \E d \in drains : Delivered(d) \/ ExitDelivered(d)
    \/ \E p \in Pids : Terminates(p) \/ Kill(p) \/ KillFails(p)
    \/ WriteHistory

Spec == Init /\ [][Next]_vars

-----------------------------------------------------------------------------
Without(excuses) == races \cap excuses = {}
Holds(t, p) == sessions[t] # 0 /\ session[sessions[t]].pid = p

(* What a queue holds of output: all but the exit, which is its last event.  *)
Pieces(queue) ==
    IF queue # <<>> /\ queue[Len(queue)] = exit THEN SubSeq(queue, 1, Len(queue) - 1) ELSE queue

(* A fiber will take what is queued.                                         *)
Attended(o) ==
    session[o].queue # <<>> =>
        \E d \in drains : d.obj = o /\ d.pid = session[o].pid /\ d.after = "output"

Objects == [of : Terminals \cup {None}, status : {"starting", "running", "exited", "error"},
            pid : Pids \cup {0}, history : Seq(Nat), queue : Seq(Nat), draining : BOOLEAN]
Calls == [at : {"idle", "persist", "spawn", "clear", "close", "next"}, of : Terminals \cup {None},
          obj : Ids \cup {0}, rest : SUBSET Terminals, whole : BOOLEAN, delete : BOOLEAN]

TypeOK ==
    /\ sessions \in [Terminals -> Ids \cup {0}]
    /\ session \in [Ids -> Objects]
    /\ LetGo \subseteq Pids /\ alive \subseteq Pids
    /\ drains \subseteq [obj : Ids, pid : Pids, after : {"output", "exit"}, n : Fibers]
    /\ waiting \in [Terminals -> SUBSET Seq(Nat)]
    /\ writing \subseteq [of : Terminals, text : Seq(Nat)]
    /\ file \in [Terminals -> Seq(Nat)]
    /\ call \in [Threads -> Calls]
    /\ shown \in [Terminals -> Seq(Nat)]
    /\ owed \in [Ids -> Seq(Nat)]
    /\ left \in [Terminals -> Seq(Nat)]
    /\ said \in Nat
    /\ races \subseteq {"evicted", "stale_drain", "exit_cleared", "said_while_clearing",
                        "undeleted", "unwritten"}
    /\ budget \in [Kinds -> Nat]

(* No process outlives the session that held it: each belongs to the session *)
(* of one terminal or to a fiber that ends it, whatever stops, spawns and    *)
(* evictions of sessions overlap - except a process that could not be sent   *)
(* a signal, which nobody holds, and when the session of a call under way is *)
(* evicted: its process runs on, and open starts another one.                *)
NoProcessIsForgotten ==
    Without({"evicted"}) =>
        \A p \in alive : \/ p \in LetGo /\ \A t \in Terminals : ~Holds(t, p)
                         \/ p \notin LetGo /\ \E t \in Terminals : Holds(t, p)

(* A session is shown as running as long as its process does, or until a     *)
(* fiber takes its end from the queue: it is not forgotten there, except by  *)
(* clear, and by a fiber of an earlier process that wakes up late.           *)
EndIsNoticed ==
    Without({"exit_cleared", "stale_drain"}) =>
        \A o \in Ids : session[o].pid # 0 =>
            \/ session[o].pid \in alive
            \/ /\ \E i \in DOMAIN session[o].queue : session[o].queue[i] = exit
               /\ Attended(o)

(* What a process says since the last clear is in the history, in order and  *)
(* once, or queued for it, however many fibers drain the queue.              *)
HistoryIsComplete ==
    Without({"stale_drain"}) =>
        \A o \in Ids : session[o].pid # 0 =>
            /\ session[o].history \o Pieces(session[o].queue) = owed[o]
            /\ Attended(o)

(* A listener sees the history of a running terminal, unless the process     *)
(* speaks while clear waits for the write: that is erased before its eyes.   *)
ShownAsHeld ==
    Without({"said_while_clearing", "evicted"}) =>
        \A t \in Terminals :
            (sessions[t] # 0 /\ session[sessions[t]].pid # 0 /\ call[ThreadOf[t]] = Free) =>
                shown[t] = session[sessions[t]].history

(* When all is written, the file of a terminal holds its history, also of    *)
(* one that is no longer in sessions, so that open finds it again, or not    *)
(* when it was deleted (except for a write the deletion does not wait for).  *)
FileIsCurrent ==
    Without({"evicted", "undeleted", "unwritten"}) =>
        \A t \in Terminals :
            (Drained(t) /\ call[ThreadOf[t]] = Free) =>
                file[t] = IF sessions[t] = 0 THEN left[t] ELSE session[sessions[t]].history

-----------------------------------------------------------------------------
(* The inductive invariants, of sessions ses, objects s, calls cs, processes  *)
(* a that run and k that are let go, fibers ds.                              *)

(* An object with a process is shown as running.  Its queue ends with the    *)
(* exit, when the process has ended, and a fiber will take what is in it.    *)
ObjectInv(x, o, a, k, ds) ==
    /\ x.pid # 0 => x.status = "running" /\ x.pid \notin k
    /\ x.pid = 0 => ~x.draining
    /\ ~x.draining => x.queue = <<>>
    /\ \A i \in 1..Len(x.queue) : x.queue[i] = exit => i = Len(x.queue) /\ x.pid \notin a
    /\ x.draining => \E d \in ds : d.obj = o /\ d.pid = x.pid /\ d.after = "output"

(* No two objects have one process, and each process has one or is let go.   *)
Sound(s, a, k, ds) ==
    /\ \A o \in Ids : ObjectInv(s[o], o, a, k, ds)
    /\ \A o, q \in Ids : o # q /\ s[o].pid # 0 => s[o].pid # s[q].pid
    /\ \A p \in a : p \in k \/ \E o \in Ids : s[o].pid = p

Starting == {"persist", "spawn"}

(* What the call c of thread h has in hand: an object of a terminal of h,    *)
(* without a process while it is closed or started.                          *)
CallInv(ses, s, h, c) ==
    /\ c.at \in Starting \cup {"clear"} => c.obj # 0
    /\ c.at \in {"idle", "next"} => c.obj = 0
    /\ c.obj # 0 => /\ c.of # None /\ s[c.obj].of = c.of
                    /\ c.at # "clear" => s[c.obj].pid = 0
                    /\ \A t \in Terminals : ses[t] = c.obj => t = c.of
    /\ c.of # None => ThreadOf[c.of] = h
    /\ c.at = "close" => c.of # None /\ ses[c.of] \in {0, c.obj}
    /\ c.at = "next" => c.whole
    /\ c.at \notin {"close", "next"} => ~c.whole
    /\ \A t \in c.rest : ThreadOf[t] = h
    /\ c.whole => \A t \in Terminals : ThreadOf[t] = h /\ ses[t] # 0 =>
                     t \in c.rest \/ (c.at = "close" /\ t = c.of)

(* Sessions, objects and calls belong together; with keeps, no object is     *)
(* evicted that a call works on, and all that run are sessions.              *)
Table(ses, s, cs, keeps) ==
    /\ \A t \in Terminals : ses[t] # 0 => s[ses[t]].of = t
    /\ \A h \in Threads : CallInv(ses, s, h, cs[h])
    /\ \A h, g \in Threads : cs[h].obj # 0 /\ cs[h].obj = cs[g].obj => h = g
    /\ keeps => /\ \A o \in Ids : s[o].pid # 0 => \E t \in Terminals : ses[t] = o
                /\ \A h \in Threads : cs[h].obj # 0 => ses[cs[h].of] = cs[h].obj

(* The end of a process that is still held is queued.                        *)
Ends(s, a) ==
    \A o \in Ids : s[o].pid # 0 /\ s[o].pid \notin a =>
        \E i \in 1..Len(s[o].queue) : s[o].queue[i] = exit

Works(o, s, cs) == s[o].pid # 0 \/ \E h \in Threads : cs[h].obj = o /\ cs[h].at \in Starting

Complete(s, cs, owes) ==
    \A o \in Ids : Works(o, s, cs) => s[o].history \o Pieces(s[o].queue) = owes[o]

Clearing(cs, t) == cs[ThreadOf[t]].at = "clear" /\ cs[ThreadOf[t]].of = t

Showing(ses, s, cs, shows) ==
    \A t \in Terminals :
        ses[t] # 0 /\ s[ses[t]].pid # 0 /\ ~Clearing(cs, t) => shows[t] = s[ses[t]].history

(* What the file of a terminal will hold when all is written.                *)
Held(ses, s, lf, t) == IF ses[t] = 0 THEN lf[t] ELSE s[ses[t]].history

Filed(ses, s, lf, wait, writes, files) ==
    \A t \in Terminals :
        /\ \A text \in wait[t] : text = Held(ses, s, lf, t)
        /\ wait[t] = {} =>
              /\ \A w \in writes : w.of = t => w.text = Held(ses, s, lf, t)
              /\ (\A w \in writes : w.of # t) => files[t] = Held(ses, s, lf, t)

(* The worker has one history of a terminal to write, and writes one.        *)
Single(wait, writes) ==
    /\ \A t \in Terminals : \A u, v \in wait[t] : u = v
    /\ \A v, w \in writes : v = w

Keeps == Without({"evicted"})

AllInv ==
    /\ TypeOK /\ Single(waiting, writing)
    /\ Sound(session, alive, LetGo, drains)
    /\ Table(sessions, session, call, Keeps)
    /\ Without({"exit_cleared", "stale_drain"}) => Ends(session, alive)
    /\ Without({"stale_drain"}) => Complete(session, call, owed)
    /\ Without({"said_while_clearing", "evicted"}) => Showing(sessions, session, call, shown)
    /\ Without({"evicted", "undeleted", "unwritten"}) =>
          Filed(sessions, session, left, waiting, writing, file)
=============================================================================
