------------------------------ MODULE PiTurns ------------------------------
(* The turns of one thread as PiCodexAdapter keeps them over a pi process.   *)
(*                                                                           *)
(* The adapter writes commands to the process, which answers them in order   *)
(* and speaks of its own accord in between: stdin and stdout are two FIFO     *)
(* pipes.  A turn is not over when the process says so: the adapter waits for *)
(* a quiet period, asks for the state of the process (a "look") and ends the  *)
(* turn only when nothing is going on; anything said later reopens the turn.  *)
(*                                                                           *)
(* A step is what runs between two waits for an answer of the process.  The   *)
(* events are published to an unbounded PubSub, which completes at once, so a *)
(* publication is no step of its own.                                         *)
EXTENDS Naturals, Sequences, FiniteSets, Functions

CONSTANTS
    MaxTurns,  \* turns that are started
    MaxLooks,  \* looks waiting for an answer at one time
    Budgets    \* how often the rest may happen, by name of the kind (see Kinds)

(* Lines said while working, the end of a run aside, and without a run;      *)
(* messages into a running turn; sends with a model; stops; exits, timeouts  *)
(* and refusals.                                                             *)
Kinds == {"lines", "late", "steers", "models", "stops", "faults"}

ASSUME PiAssumption ==
    /\ {MaxTurns, MaxLooks} \subseteq Nat \ {0}
    /\ Budgets \subseteq [Kinds -> Nat]

VARIABLES
    session,  \* the entry of the thread in sessions: "none", "live" or "closing"
    turn,     \* session.activeTurn
    last,     \* session.lastCompletedTurn
    tools,    \* session.toolStates is not empty
    queued,   \* session.latestQueueState counts a message
    call,     \* call[c]: which answer caller c waits for
    pi,       \* the process: its state, the turn it works for, its own queue, an open tool
    stdin,    \* commands the process has not taken
    stdout,   \* lines the adapter has not read
    told,     \* told[t]: how often t was published as running and as ended, and as what
    worked,   \* turns the process has finished a run for (history)
    filed,    \* <<run, turn, late>>: output of the run of one turn published under another,
              \* and whether the process said it after it had finished that run (history)
    races,    \* what went wrong so far (history)
    budget    \* what is left of the chosen member of Budgets

vars == <<session, turn, last, tools, queued, call, pi, stdin, stdout, told, worked, filed, races,
          budget>>

Turns == 1 .. MaxTurns
None == 0
Callers == {"reactor", "stream"}
States == {"completed", "failed", "interrupted"}

(* TurnState, with the pending completion and whether its timer is running.  *)
Fresh(t) == [id |-> t, aborted |-> FALSE, failed |-> FALSE, pending |-> "none", armed |-> FALSE]
Idle == Fresh(None)

Command(kind, t, state, by) == [kind |-> kind, turn |-> t, state |-> state, by |-> by]
NoCommand == Command("none", None, "none", "none")
Answer(command, ok) ==
    [kind |-> "answer", turn |-> None, to |-> command, ok |-> ok, late |-> FALSE]
(* Late is what the process says of a turn it has finished a run for.        *)
Line(kind, t) ==
    [kind |-> kind, turn |-> t, to |-> NoCommand, ok |-> TRUE, late |-> t \in worked]

(* What the process says of a run; a notice may come without one.  An end    *)
(* ("terminal") and a change of its queue do not count as activity.          *)
Output == {"activity", "failure", "tool", "toolEnd", "notice"}
StaysOpen(line) == line.kind \in Output

Init ==
    /\ session = "none"
    /\ turn = Idle
    /\ last = None
    /\ tools = FALSE
    /\ queued = FALSE
    /\ call = [c \in Callers |-> "none"]
    /\ pi = [state |-> "none", run |-> None, backlog |-> 0, tool |-> FALSE]
    /\ stdin = <<>>
    /\ stdout = <<>>
    /\ told = [t \in Turns |-> [opened |-> 0, ended |-> 0, as |-> "none"]]
    /\ worked = {}
    /\ filed = {}
    /\ races = {}
    /\ budget \in Budgets

Spend(what) == budget[what] > 0 /\ budget' = [budget EXCEPT ![what] = @ - 1]
Unspent == UNCHANGED budget

-----------------------------------------------------------------------------
(* Pieces of the adapter's handlers.                                         *)

(* A write after stdin was ended reaches nobody.                             *)
Write(command) == stdin' = IF call["reactor"] = "close" THEN stdin ELSE Append(stdin, command)

Opened(t) == [told EXCEPT ![t].opened = @ + 1]
Ended(t, state) == [told EXCEPT ![t].ended = @ + 1, ![t].as = state]

ScheduleOnce(tn, state) ==
    IF tn.id = None \/ tn.pending # "none" THEN tn
    ELSE [tn EXCEPT !.pending = state, !.armed = TRUE]

Schedule(tn, state) ==
    IF tn.id = None THEN tn ELSE [tn EXCEPT !.pending = state, !.armed = TRUE]

Waits(c, for) == call' = [call EXCEPT ![c] = for]

(* The turn the adapter would start now, and whether the bound leaves one.   *)
NextTurn == Cardinality({t \in Turns : told[t].opened > 0}) + 1
MayStart == NextTurn + (IF call["reactor"] = "model" THEN 1 ELSE 0) \in Turns

(* sendTurn from the point where it has settled for a new turn: it does not  *)
(* look again whether one has been started meanwhile.                        *)
BeginTurn(c) ==
    /\ last' = None
    /\ turn' = Fresh(NextTurn)
    /\ tools' = FALSE
    /\ told' = Opened(NextTurn)
    /\ Write(Command("prompt", NextTurn, "none", c))
    /\ Waits(c, "prompt")
    /\ races' = races \cup (IF turn.id = None THEN {} ELSE {"overtaken"})

(* The tapError of sendTurn: whichever turn is active is failed.             *)
FailActiveKept ==
    IF session = "none" \/ turn.id = None
    THEN UNCHANGED <<turn, tools, told, races>>
    ELSE /\ told' = Ended(turn.id, "failed")
         /\ turn' = [turn EXCEPT !.failed = TRUE, !.pending = "none", !.armed = FALSE]
         /\ tools' = FALSE
         /\ races' = races \cup {"given_up"}

FailActive ==
    IF session = "none" \/ turn.id = None
    THEN UNCHANGED <<turn, tools, told, races>>
    ELSE /\ told' = Ended(turn.id, "failed")
         /\ turn' = Idle
         /\ tools' = FALSE
         /\ races' = races \cup {"given_up"}

-----------------------------------------------------------------------------
(* startSession: an existing session is returned, else a process is started. *)
StartSession ==
    /\ session = "none"
    /\ pi.state = "none"
    /\ session' = "live"
    /\ pi' = [pi EXCEPT !.state = "idle", !.run = None]
    /\ turn' = Idle /\ last' = None /\ tools' = FALSE /\ queued' = FALSE
    /\ UNCHANGED <<call, stdin, stdout, told, worked, filed, races>> /\ Unspent

(* sendTurn of a message that starts a turn (no streamingBehavior).  While a *)
(* turn is active it is refused, and the refusal fails the running turn.     *)
Send(c) ==
    /\ session # "none" /\ call[c] = "none"
    /\ turn.id = None => MayStart
    /\ c = "stream" => turn.id = None
    /\ IF turn.id # None
       THEN FailActive /\ UNCHANGED <<last, call, stdin>>
       ELSE BeginTurn(c)
    /\ UNCHANGED <<session, queued, pi, stdout, worked, filed>> /\ Unspent

(* The same with a model selection: the model is set first (the two commands *)
(* for it are one here).                                                     *)
SendWithModel ==
    /\ session # "none" /\ call["reactor"] = "none" /\ turn.id = None /\ MayStart
    /\ Write(Command("model", None, "none", "reactor"))
    /\ Waits("reactor", "model")
    /\ Spend("models")
    /\ UNCHANGED <<session, turn, last, tools, queued, pi, stdout, told, worked, filed, races>>

(* sendTurn with a streamingBehavior into the running turn.                  *)
Steer ==
    /\ session # "none" /\ call["stream"] = "none" /\ turn.id # None
    /\ Spend("steers")
    /\ Write(Command("steer", turn.id, "none", "stream"))
    /\ Waits("stream", "steer")
    /\ UNCHANGED <<session, turn, last, tools, queued, pi, stdout, told, worked, filed, races>>

(* interruptTurn.                                                            *)
Interrupt ==
    /\ session # "none" /\ call["reactor"] = "none" /\ turn.id # None /\ ~turn.aborted
    /\ turn' = [turn EXCEPT !.aborted = TRUE]
    /\ Write(Command("abort", turn.id, "none", "reactor"))
    /\ Waits("reactor", "abort")
    /\ UNCHANGED <<session, last, tools, queued, pi, stdout, told, worked, filed, races>> /\ Unspent

(* stopSession: a running turn is aborted before the process is closed.      *)
StopSession ==
    /\ session = "live" /\ call["reactor"] = "none"
    /\ session' = "closing"
    /\ IF turn.id = None
       THEN Waits("reactor", "close") /\ UNCHANGED <<turn, stdin>>
       ELSE /\ turn' = [turn EXCEPT !.aborted = TRUE, !.pending = "none", !.armed = FALSE]
            /\ Write(Command("abort", turn.id, "none", "reactor"))
            /\ Waits("reactor", "stop")
    /\ Spend("stops")
    /\ UNCHANGED <<last, tools, queued, pi, stdout, told, worked, filed, races>>

-----------------------------------------------------------------------------
(* The quiet period of the pending completion has passed: finalizeTurn-      *)
(* Completion asks the process for its state, keeping the turn and the       *)
(* pending state it found.                                                   *)
QuietPeriodOver ==
    /\ turn.armed
    /\ Cardinality({i \in 1 .. Len(stdin) : stdin[i].kind = "look"})
         + Cardinality({i \in 1 .. Len(stdout) : stdout[i].to.kind = "look"}) < MaxLooks
    /\ turn' = [turn EXCEPT !.armed = FALSE]
    /\ Write(Command("look", turn.id, turn.pending, "timer"))
    /\ UNCHANGED <<session, last, tools, queued, call, pi, stdout, told, worked, filed, races>>
    /\ Unspent

(* The look is answered: if anything is going on the quiet period begins     *)
(* anew, for whichever turn is active now; else the turn is ended, and       *)
(* whichever turn is active is dropped.                                      *)
EndByLook(look, idle) ==
    /\ told' = Ended(look.turn, look.state)
    /\ last' = look.turn
    /\ turn' = Idle
    /\ tools' = FALSE
    /\ races' = races \cup (IF turn.id = look.turn THEN {} ELSE {"stale_look"})

LookAnswered(look, idle) ==
    IF idle /\ ~queued /\ ~tools
    THEN EndByLook(look, idle)
    ELSE /\ turn' = Schedule(turn, look.state)
         /\ UNCHANGED <<told, last, tools, races>>

(* An answer fails, or none comes in time.  A look that fails is published   *)
(* as an error and not repeated.                                             *)
Fails(command) ==
    /\ UNCHANGED last
    /\ CASE command.kind = "look" ->
              /\ races' = races \cup {"look_failed"}
              /\ UNCHANGED <<turn, tools, told, call>>
         [] command.kind = "abort" ->
              /\ Waits("reactor", IF call["reactor"] = "stop" THEN "close" ELSE "none")
              /\ UNCHANGED <<turn, tools, told, races>>
         [] OTHER -> FailActive /\ Waits(command.by, "none")

(* handleResponse; the answer to a command that was given up is ignored.     *)
ReadAnswer ==
    /\ stdout # <<>> /\ Head(stdout).kind = "answer"
    /\ stdout' = Tail(stdout)
    /\ LET command == Head(stdout).to
           ok == Head(stdout).ok
           begins == command.kind = "model" /\ ok
           accepted == command.kind \in {"prompt", "steer"} /\ ok
       IN \/ command.by = "none" /\ UNCHANGED <<stdin, turn, last, tools, told, races, call>>
          \/ command.by = "timer" /\ LookAnswered(command, ok) /\ UNCHANGED <<call, stdin>>
          \/ command.by \in Callers /\ begins /\ BeginTurn(command.by)
          \/ /\ command.by \in Callers /\ accepted
             /\ Waits(command.by, "none")
             /\ UNCHANGED <<stdin, turn, last, tools, told, races>>
          \/ command.by \in Callers /\ ~begins /\ ~accepted /\ Fails(command) /\ UNCHANGED stdin
    /\ UNCHANGED <<session, queued, pi, worked, filed>> /\ Unspent

(* A command the process has not taken times out.                            *)
TimeOut ==
    /\ Spend("faults")
    /\ \E i \in 1 .. Len(stdin) :
          /\ stdin[i].by # "none"
          /\ stdin' = [stdin EXCEPT ![i].by = "none"]
          /\ Fails(stdin[i])
    /\ UNCHANGED <<session, queued, pi, stdout, worked, filed>>

(* What a turn_end or agent_end makes of the active turn.                    *)
Outcome(tn) ==
    IF tn.aborted THEN "interrupted" ELSE IF tn.failed THEN "failed" ELSE "completed"

(* handleProcessEvent: output reopens the turn that was ended last when none *)
(* is active, and renews the quiet period of a pending completion.           *)
ReadLine ==
    /\ stdout # <<>> /\ Head(stdout).kind # "answer"
    /\ stdout' = Tail(stdout)
    /\ LET line == Head(stdout)
           reopens == StaysOpen(line) /\ turn.id = None /\ last # None
           found == IF reopens THEN Fresh(last) ELSE turn
           kept == IF StaysOpen(line) /\ found.pending # "none"
                   THEN Schedule(found, found.pending) ELSE found
       IN /\ turn' = CASE line.kind = "failure" /\ kept.id # None -> [kept EXCEPT !.failed = TRUE]
                       [] line.kind = "terminal" -> Schedule(kept, Outcome(kept))
                       [] OTHER -> kept
          /\ told' = IF reopens THEN Opened(last) ELSE told
          /\ tools' = CASE line.kind = "tool" -> TRUE
                        [] line.kind = "toolEnd" -> FALSE
                        [] OTHER -> tools
          /\ queued' = IF line.kind \in {"queued", "drained"} THEN line.kind = "queued" ELSE queued
          /\ filed' = IF line.kind \in Output /\ kept.id # line.turn
                      THEN filed \cup {<<line.turn, kept.id, line.late>>} ELSE filed
          /\ races' = IF reopens /\ line.kind = "notice"
                      THEN races \cup {"reopened_by_notice"} ELSE races
    /\ UNCHANGED <<session, last, call, pi, stdin, worked>> /\ Unspent

(* onExit: every wait is rejected, a turn that is still active is ended.     *)
ProcessExits ==
    /\ pi.state # "none"
    /\ IF call["reactor"] = "close" THEN Unspent ELSE Spend("faults")
    /\ pi' = [state |-> "none", run |-> None, backlog |-> 0, tool |-> FALSE]
    /\ session' = "none"
    /\ stdin' = <<>> /\ stdout' = <<>>
    /\ call' = [c \in Callers |-> "none"]
    /\ turn' = Idle
    /\ told' = IF turn.id = None THEN told
               ELSE Ended(turn.id, IF turn.aborted THEN "interrupted" ELSE "failed")
    /\ tools' = FALSE
    /\ UNCHANGED <<last, queued, worked, filed, races>>

-----------------------------------------------------------------------------
(* The process, as far as the adapter relies on it.                          *)

Says(lines) == stdout' = stdout \o lines
ProcessOnly == UNCHANGED <<session, turn, last, tools, queued, call, told, filed, races>>

(* It takes a command: a prompt is refused while a run is going on, a steer  *)
(* is then queued, an abort ends the run, a look tells whether it is idle.   *)
TakeCommand ==
    /\ stdin # <<>> /\ stdin' = Tail(stdin)
    /\ LET command == Head(stdin)
           busy == pi.state = "busy"
       IN CASE command.kind \in {"prompt", "steer"} /\ ~busy ->
                 /\ pi' = [pi EXCEPT !.state = "busy", !.run = command.turn]
                 /\ Says(<<Answer(command, TRUE)>>) /\ UNCHANGED worked
            [] command.kind = "prompt" /\ busy ->
                 Says(<<Answer(command, FALSE)>>) /\ UNCHANGED <<pi, worked>>
            [] command.kind = "steer" /\ busy ->
                 /\ pi' = [pi EXCEPT !.backlog = @ + 1]
                 /\ Says(<<Line("queued", pi.run), Answer(command, TRUE)>>) /\ UNCHANGED worked
            [] command.kind = "abort" /\ busy ->
                 /\ pi' = [pi EXCEPT !.state = "idle", !.backlog = 0, !.tool = FALSE]
                 /\ Says((IF pi.tool THEN <<Line("toolEnd", pi.run)>> ELSE <<>>)
                          \o (IF pi.backlog > 0 THEN <<Line("drained", pi.run)>> ELSE <<>>)
                          \o <<Line("terminal", pi.run), Answer(command, TRUE)>>)
                 /\ worked' = worked \cup {pi.run}
            [] OTHER ->
                 /\ Says(<<Answer(command, command.kind = "look" => ~busy)>>)
                 /\ UNCHANGED <<pi, worked>>
    /\ ProcessOnly /\ Unspent

(* Setting the model fails.                                                  *)
RefuseModel ==
    /\ stdin # <<>> /\ Head(stdin).kind = "model" /\ stdin' = Tail(stdin)
    /\ Spend("faults")
    /\ Says(<<Answer(Head(stdin), FALSE)>>)
    /\ UNCHANGED <<pi, worked>> /\ ProcessOnly

(* It works: "terminal" is a turn_end, after which the run may go on.        *)
Work ==
    /\ pi.state = "busy"
    /\ Spend("lines")
    /\ \E kind \in {"activity", "failure", "terminal"} \cup (IF pi.tool THEN {} ELSE {"tool"}) :
          /\ Says(<<Line(kind, pi.run)>>)
          /\ pi' = [pi EXCEPT !.tool = @ \/ kind = "tool"]
    /\ UNCHANGED <<stdin, worked>> /\ ProcessOnly

EndTool ==
    /\ pi.tool
    /\ pi' = [pi EXCEPT !.tool = FALSE]
    /\ Says(<<Line("toolEnd", pi.run)>>)
    /\ UNCHANGED <<stdin, worked>> /\ ProcessOnly /\ Unspent

(* A run ends, or goes on with the next queued message.                      *)
FinishRun ==
    /\ pi.state = "busy" /\ ~pi.tool
    /\ IF pi.backlog > 0
       THEN /\ pi' = [pi EXCEPT !.backlog = @ - 1]
            /\ Says(<<Line(IF pi.backlog = 1 THEN "drained" ELSE "queued", pi.run)>>)
            /\ UNCHANGED worked
       ELSE /\ pi' = [pi EXCEPT !.state = "idle"]
            /\ Says(<<Line("terminal", pi.run)>>)
            /\ worked' = worked \cup {pi.run}
    /\ UNCHANGED stdin /\ ProcessOnly /\ Unspent

(* It goes on by itself after a run, or only says something.                 *)
SpeakLate ==
    /\ pi.state = "idle" /\ pi.run # None
    /\ Spend("late")
    /\ \/ pi' = [pi EXCEPT !.state = "busy"] /\ Says(<<Line("activity", pi.run)>>)
       \/ UNCHANGED pi /\ Says(<<Line("notice", pi.run)>>)
    /\ UNCHANGED <<stdin, worked>> /\ ProcessOnly

-----------------------------------------------------------------------------
Process == TakeCommand \/ RefuseModel \/ Work \/ EndTool \/ FinishRun \/ SpeakLate

Next ==
    \/ StartSession \/ SendWithModel \/ Steer \/ Interrupt \/ StopSession
    \/ \E c \in Callers : Send(c)
    \/ QuietPeriodOver \/ ReadAnswer \/ ReadLine \/ TimeOut \/ ProcessExits
    \/ Process

(* Timers run out and lines are read; a process that is alive takes its      *)
(* commands and comes to the end of what it does; a closed one exits.        *)
Fairness ==
    /\ WF_vars(QuietPeriodOver) /\ WF_vars(ReadAnswer) /\ WF_vars(ReadLine)
    /\ WF_vars(TakeCommand) /\ WF_vars(EndTool) /\ WF_vars(FinishRun)
    /\ WF_vars(call["reactor"] = "close" /\ ProcessExits)

Spec == Init /\ [][Next]_vars /\ Fairness

-----------------------------------------------------------------------------
TurnStates == [id : Turns \cup {None}, aborted : BOOLEAN, failed : BOOLEAN,
               pending : States \cup {"none"}, armed : BOOLEAN]
Answers == {"none", "model", "prompt", "steer", "abort", "stop", "close"}
Commands == [kind : {"none", "model", "prompt", "steer", "abort", "look"}, turn : Turns \cup {None},
             state : States \cup {"none"}, by : Callers \cup {"timer", "none"}]
Lines == [kind : Output \cup {"answer", "terminal", "queued", "drained"}, turn : Turns \cup {None},
          to : Commands, ok : BOOLEAN, late : BOOLEAN]
Accounts == [opened : Nat, ended : Nat, as : States \cup {"none"}]

TypeOK ==
    /\ session \in {"none", "live", "closing"}
    /\ turn \in TurnStates /\ last \in Turns \cup {None}
    /\ tools \in BOOLEAN /\ queued \in BOOLEAN
    /\ call \in [Callers -> Answers]
    /\ pi \in [state : {"none", "idle", "busy"}, run : Turns \cup {None}, backlog : Nat,
               tool : BOOLEAN]
    /\ stdin \in Seq(Commands) /\ stdout \in Seq(Lines)
    /\ told \in [Turns -> Accounts]
    /\ worked \subseteq Turns
    /\ filed \subseteq (Turns \X (Turns \cup {None}) \X BOOLEAN)
    /\ races \subseteq {"overtaken", "given_up", "stale_look", "look_failed", "reopened_by_notice"}
    /\ budget \in [Kinds -> Nat]

Without(some) == races \cap some = {}
Running(t) == told[t].opened > told[t].ended

(* Whoever listens sees a turn run exactly while the adapter holds it: it is *)
(* not ended twice, nor left running when another one takes its place -      *)
(* unless a look outlives its turn (finalizeTurnCompletion does not look     *)
(* again at session.activeTurn after its await) or a turn is started while   *)
(* sendTurn waits for the model to be set.                                   *)
ShownAsHeld ==
    Without({"stale_look", "overtaken"}) =>
        \A t \in Turns : /\ told[t].opened - told[t].ended \in {0, 1}
                         /\ Running(t) <=> turn.id = t

(* A turn that is shown as completed was worked on to an end by the process, *)
(* whatever it said in between (turn_end comes several times in a run, and   *)
(* the end of an earlier run may be read when the next turn has begun).      *)
CompletedWasWorked ==
    [][\A t \in Turns :
        (told'[t].ended > told[t].ended /\ told'[t].as = "completed" /\ Without({"stale_look"})')
            => t \in worked]_vars

(* What the process says while it works for a turn is published under that   *)
(* turn, however late it is read.  Only what it says after it has finished   *)
(* the run, on its own or for a message steered into the turn at its very    *)
(* end, falls to another turn: to a later one, never to an earlier one or to *)
(* none.  (A refused send fails the turn and leaves the process working for  *)
(* nobody.)                                                                  *)
OutputIsFiled ==
    Without({"stale_look", "overtaken", "given_up"}) =>
        \A p \in filed : p[2] > p[1] /\ p[3]

(* Every turn that is shown as running is ended.                             *)
EveryTurnEnds ==
    \A t \in Turns :
        Running(t) ~> (~Running(t) \/ ~Without({"stale_look", "overtaken", "look_failed",
                                               "reopened_by_notice"}))

-----------------------------------------------------------------------------
(* The inductive invariants.                                                 *)

(* Nothing is left of a process that has exited.                             *)
NoProcess ==
    /\ session = "none" <=> pi.state = "none"
    /\ session = "none" => /\ stdin = <<>> /\ stdout = <<>> /\ turn.id = None
                           /\ pi.run = None /\ \A c \in Callers : call[c] = "none"

(* Turns are started in order, and only those are spoken of.                 *)
Started(n) == \A t \in Turns : told[t].opened > 0 <=> t <= n
Begun(t) == t # None => told[t].opened > 0

TurnsAreBegun ==
    /\ \E n \in 0 .. MaxTurns : Started(n)
    /\ Begun(turn.id) /\ Begun(last) /\ Begun(pi.run)
    /\ \A command \in Range(stdin) : Begun(command.turn)
    /\ \A line \in Range(stdout) : Begun(line.turn) /\ Begun(line.to.turn)
    /\ call["reactor"] = "model" => NextTurn \in Turns

(* A run is of a turn; a timer runs for one.                                 *)
RunsAreOfTurns ==
    /\ pi.state = "busy" => pi.run # None
    /\ pi.tool => pi.state = "busy"
    /\ turn.armed => turn.id # None /\ turn.pending # "none"
    /\ \A line \in Range(stdout) : line.kind # "answer" => line.turn # None /\ line.to = NoCommand

(* A caller waits for the answer to the one command of its that is under way.*)
Sound(command) ==
    /\ command.kind = "none" => command.by = "none"
    /\ command.kind \in {"prompt", "steer"} => command.turn # None
    /\ command.kind = "look" => /\ command.turn # None /\ command.state # "none"
                               /\ command.by \in {"timer", "none"}
    /\ command.by = "timer" => command.kind = "look"

Awaited(command, calls) ==
    command.by \in Callers => \/ calls[command.by] = command.kind
                              \/ calls[command.by] = "stop" /\ command.kind = "abort"

Asked(lines) == [i \in 1 .. Len(lines) |-> lines[i].to]

OneOfEach(commands) ==
    \A i, j \in 1 .. Len(commands) :
        commands[i].by \in Callers /\ commands[i].by = commands[j].by => i = j

Awaiting(commands, lines, calls) ==
    /\ \A command \in Range(commands) \cup Range(Asked(lines)) :
          Sound(command) /\ Awaited(command, calls)
    /\ OneOfEach(commands) /\ OneOfEach(Asked(lines))
    /\ \A command \in Range(commands), asked \in Range(Asked(lines)) :
          command.by \in Callers => command.by # asked.by
    /\ calls["stream"] \in {"none", "prompt", "steer"}

AnswersAreAwaited == Awaiting(stdin, stdout, call)

(* Who is shown as running.                                                  *)
Shown ==
    \A t \in Turns : /\ told[t].opened = told[t].ended \/ told[t].opened = told[t].ended + 1
                     /\ Running(t) <=> turn.id = t

(* The process works for no later turn than output is filed under.           *)
FiledUnder == IF turn.id # None THEN turn.id ELSE last

RunsAreFollowed ==
    /\ pi.run <= FiledUnder
    /\ \A command \in Range(stdin) :
          command.kind \in {"prompt", "steer"} => command.turn <= FiledUnder
    /\ \A line \in Range(stdout) : line.turn <= FiledUnder
    /\ \A p \in filed : p[2] > p[1]

(* The process has worked for the active turn, works for it, will or refused *)
(* it; a look follows the prompt, and finds the process idle after the work. *)
Works(t) == t \in worked \/ (pi.state = "busy" /\ pi.run = t)
Prompts(command, t) == command.kind = "prompt" /\ command.turn = t /\ command.by \in Callers
Refuses(line, t) == line.kind = "answer" /\ Prompts(line.to, t) /\ ~line.ok
Looks(command, t) == command.kind = "look" /\ command.turn = t

Refused(t) == \E line \in Range(stdout) : Refuses(line, t)
Pursued(t) == Works(t) \/ Refused(t) \/ \E command \in Range(stdin) : Prompts(command, t)

LooksWait(t) ==
    \A i \in 1 .. Len(stdin) : Looks(stdin[i], t) =>
        Works(t) \/ Refused(t) \/ \E j \in 1 .. (i - 1) : Prompts(stdin[j], t)

IdleIsDone(t) ==
    \A i \in 1 .. Len(stdout) : Looks(stdout[i].to, t) /\ stdout[i].ok =>
        t \in worked \/ \E j \in 1 .. (i - 1) : Refuses(stdout[j], t)

LooksFollowWork ==
    /\ last # None => last \in worked
    /\ turn.id # None =>
          /\ call["reactor"] = "close" \/ Pursued(turn.id)
          /\ LooksWait(turn.id) /\ IdleIsDone(turn.id)

(* What is said before the work is finished belongs to the active turn, and  *)
(* no look found the process idle before it was said, unless the turn was    *)
(* refused.                                                                  *)
Early(line) == line.kind \in Output /\ ~line.late

EarlyBeforeIdle(t) ==
    \A i, j \in 1 .. Len(stdout) :
        i < j /\ Looks(stdout[i].to, t) /\ stdout[i].ok /\ Early(stdout[j]) =>
            \E k \in 1 .. (i - 1) : Refuses(stdout[k], t)

EarlyIsActive ==
    /\ pi.run \in worked \cup {None, turn.id}
    /\ \A command \in Range(stdin) :
          command.kind \in {"prompt", "steer"} => command.turn \in worked \cup {turn.id}
    /\ \A line \in Range(stdout) : Early(line) => line.turn = turn.id
    /\ EarlyBeforeIdle(turn.id)
    /\ \A p \in filed : p[3]

PiInv ==
    /\ TypeOK /\ NoProcess /\ TurnsAreBegun /\ RunsAreOfTurns /\ AnswersAreAwaited
    /\ Without({"stale_look", "overtaken"}) => Shown
    /\ Without({"stale_look", "overtaken", "given_up"}) => RunsAreFollowed /\ EarlyIsActive
    /\ Without({"stale_look"}) => LooksFollowWork
=============================================================================
