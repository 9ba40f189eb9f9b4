------------------------------- MODULE Decider -------------------------------
(***************************************************************************)
(* The command decider (orchestration/decider.ts with the requirements of  *)
(* commandInvariants.ts): a pure function from a read model and a command  *)
(* to the events of the command, none of them when the command is refused. *)
(***************************************************************************)
EXTENDS ReadModel

CONSTANT Commands      \* the commands clients and reactors may dispatch

ProjectCommands == {"project.create", "project.meta.update", "project.delete"}

\* The commands that only need the thread to exist and have one event: those
\* that change the thread, those for its turns and its session, and those that
\* report what a turn brought.
ThreadPatches ==
  {"thread.delete", "thread.meta.update", "thread.runtime-mode.set",
   "thread.interaction-mode.set"}

TurnRequests ==
  {"thread.turn.interrupt", "thread.approval.respond", "thread.user-input.respond",
   "thread.checkpoint.revert", "thread.session.stop", "thread.session.set"}

TurnReports ==
  {"thread.message.assistant.delta", "thread.message.assistant.complete",
   "thread.proposed-plan.upsert", "thread.turn.diff.complete",
   "thread.revert.complete", "thread.activity.append"}

PlainThreadCommands == ThreadPatches \cup TurnRequests \cup TurnReports

CommandTypes == ProjectCommands \cup PlainThreadCommands \cup
  {"thread.create", "thread.archive", "thread.unarchive", "thread.turn.start"}

(***************************************************************************)
(* One record shape for every command; a field the type does not use is    *)
(* None (project, count and captured then hold any value).                 *)
(* source and plan of thread.turn.start name the plan being implemented;   *)
(* captured says that the status of a checkpoint is not "missing".         *)
(***************************************************************************)
CommandShape ==
  [id : STRING, type : CommandTypes, project : Projects,
   thread : Threads \cup {None}, source : Threads \cup {None},
   plan : Plans \cup {None}, turn : Turns \cup {None},
   count : TurnCounts, captured : BOOLEAN]

ASSUME DeciderAssumption ==
  /\ Commands \subseteq CommandShape
  /\ \A c \in Commands :
       /\ c.type \in ProjectCommands <=> c.thread = None
       /\ c.type \in {"thread.proposed-plan.upsert"} => c.plan # None
       /\ c.type = "thread.turn.diff.complete" => c.turn # None
       /\ c.type = "thread.turn.start" => (c.plan = None <=> c.source = None)
  /\ \A c, d \in Commands : c.id = d.id => c = d

CommandIds == {c.id : c \in Commands}

\* The type of the one event of a command (the first of thread.turn.start).
EventTypeOf(type) ==
  CASE type = "project.create"      -> "project.created"
    [] type = "project.meta.update" -> "project.meta-updated"
    [] type = "project.delete"      -> "project.deleted"
    [] type = "thread.create"       -> "thread.created"
    [] type = "thread.delete"       -> "thread.deleted"
    [] type = "thread.archive"      -> "thread.archived"
    [] type = "thread.unarchive"    -> "thread.unarchived"
    [] type = "thread.meta.update"  -> "thread.meta-updated"
    [] type = "thread.runtime-mode.set"     -> "thread.runtime-mode-set"
    [] type = "thread.interaction-mode.set" -> "thread.interaction-mode-set"
    [] type = "thread.turn.interrupt"       -> "thread.turn-interrupt-requested"
    [] type = "thread.approval.respond"     -> "thread.approval-response-requested"
    [] type = "thread.user-input.respond"   -> "thread.user-input-response-requested"
    [] type = "thread.checkpoint.revert"    -> "thread.checkpoint-revert-requested"
    [] type = "thread.session.stop"         -> "thread.session-stop-requested"
    [] type = "thread.session.set"          -> "thread.session-set"
    [] type = "thread.proposed-plan.upsert" -> "thread.proposed-plan-upserted"
    [] type = "thread.turn.diff.complete"   -> "thread.turn-diff-completed"
    [] type = "thread.revert.complete"      -> "thread.reverted"
    [] type = "thread.activity.append"      -> "thread.activity-appended"
    [] OTHER                                -> "thread.message-sent"

EventTypesOf(c) ==
  IF c.type = "thread.turn.start"
  THEN <<"thread.message-sent", "thread.turn-start-requested">>
  ELSE <<EventTypeOf(c.type)>>

\* Mutants of requirements: a rule that is not enforced.
AnyThread(model, t) == t # None
AnyPlan(model, c) == c.plan # None => model.threads[c.source] # {}

\* requireProject, requireThread, ...: deleted rows still count as existing.
RequireProject(model, p) == model.projects[p] # "absent"
RequireProjectAbsent(model, p) == model.projects[p] = "absent"
RequireThread(model, t) == model.threads[t] # {}
RequireThreadAbsent(model, t) == model.threads[t] = {}
RequireThreadArchived(model, t) == \E th \in model.threads[t] : th.archived
RequireThreadNotArchived(model, t) == \E th \in model.threads[t] : ~ th.archived

\* The plan a turn implements is on its source thread, in the same project.
SourcePlanUsable(model, c) ==
  c.plan # None =>
    \E source \in model.threads[c.source], target \in model.threads[c.thread] :
       /\ \E p \in source.plans : p.id = c.plan
       /\ source.project = target.project

Accepts(model, c) ==
  /\ c.type = "project.create" => RequireProjectAbsent(model, c.project)
  /\ c.type \in {"project.meta.update", "project.delete", "thread.create"} =>
       RequireProject(model, c.project)
  /\ c.type = "thread.create" => RequireThreadAbsent(model, c.thread)
  /\ c.type \in PlainThreadCommands \cup {"thread.turn.start"} =>
       RequireThread(model, c.thread)
  /\ c.type = "thread.archive" => RequireThreadNotArchived(model, c.thread)
  /\ c.type = "thread.unarchive" => RequireThreadArchived(model, c.thread)
  /\ c.type = "thread.turn.start" => SourcePlanUsable(model, c)

\* The events the decider returns, without the sequence the store assigns.
Decide(model, c) ==
  IF Accepts(model, c)
  THEN [i \in 1..Len(EventTypesOf(c)) |-> [type |-> EventTypesOf(c)[i], cmd |-> c]]
  ELSE <<>>

\* eventStore.append: the row of an event, with the sequence it is given.
Saved(e, n) == [sequence |-> n, type |-> e.type, cmd |-> e.cmd]
SavedAfter(events, n) == [i \in 1..Len(events) |-> Saved(events[i], n + i)]

\* The events a command adds to a log, decided on the state the log describes.
EventsAfter(log, c) == SavedAfter(Decide(ModelAfter(log), c), Len(log))

EventTypes == {EventTypeOf(type) : type \in CommandTypes}
                \cup {"thread.turn-start-requested"}
UnsavedEvent == {e \in [type : EventTypes, cmd : Commands] :
                   \/ e.type = EventTypesOf(e.cmd)[1]
                   \/ /\ e.cmd.type = "thread.turn.start"
                      /\ e.type = EventTypesOf(e.cmd)[2]}
Event == {e \in [sequence : Nat, type : EventTypes, cmd : Commands] :
            [type |-> e.type, cmd |-> e.cmd] \in UnsavedEvent}
=============================================================================
