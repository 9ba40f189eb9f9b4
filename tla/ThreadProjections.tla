--------------------------- MODULE ThreadProjections ---------------------------
(***************************************************************************)
(* The two projections of one thread's events: the read model in memory    *)
(* (projector.ts) and the tables (ProjectionPipeline.ts), from which       *)
(* getSnapshot makes the read model of the next start and of the clients.  *)
(* Each has its own account of turns: the read model keeps checkpoints,    *)
(* the tables keep a row per turn, with the user's message that started it.*)
(* A revert prunes messages and plans by these accounts.                   *)
(***************************************************************************)
EXTENDS ThreadCheckpoints, Sequences

\* id: of the message or plan, in the order they were created.
Event(type, id, turn, role, count, status) ==
  [type |-> type, id |-> id, turn |-> turn, role |-> role, count |-> count,
   status |-> status]
UserMessage(id)       == Event("thread.message-sent", id, None, "user", 0, None)
AssistantMessage(id, turn) ==
  Event("thread.message-sent", id, turn, "assistant", 0, None)
TurnStartRequested(id) == Event("thread.turn-start-requested", id, None, None, 0, None)
SessionSet(turn)      == Event("thread.session-set", 0, turn, None, 0, None)
PlanUpserted(id, turn) == Event("thread.proposed-plan-upserted", id, turn, None, 0, None)
DiffCompleted(turn, count, status) ==
  Event("thread.turn-diff-completed", 0, turn, None, count, status)
Reverted(count)       == Event("thread.reverted", 0, None, None, count, None)

MessageOf(e)    == [id |-> e.id, turn |-> e.turn, role |-> e.role]
PlanOf(e)       == [id |-> e.id, turn |-> e.turn]
CheckpointOf(e) == [turn |-> e.turn, count |-> e.count, status |-> e.status]

\* The oldest n of the messages.
Oldest(messages, n) ==
  {m \in messages : Cardinality({k \in messages : k.id <= m.id}) <= n}

\* As many messages of the role as there are turns, if need be without a turn.
FillUp(messages, kept, turns, role, n) ==
  LET missing == n - Cardinality({m \in kept : m.role = role})
  IN  kept \cup Oldest({m \in messages \ kept : m.role = role
                                               /\ m.turn \in turns \cup {None}}, missing)

\* What a revert to n turns leaves: messages of the turns, or that started them.
Retain(messages, turns, started, n) ==
  LET kept == {m \in messages : m.turn \in turns \/ m.id \in started}
  IN  FillUp(messages, FillUp(messages, kept, turns, "user", n),
             turns, "assistant", n)

RetainPlans(plans, turns) == {p \in plans : p.turn \in turns \cup {None}}

UpsertPlan(plans, plan) == {p \in plans : p.id # plan.id} \cup {plan}
-----------------------------------------------------------------------------
(* The read model. *)

EmptyThread == [messages |-> {}, plans |-> {}, checkpoints |-> {}]

RevertThread(thread, n) ==
  LET kept  == RevertTo(thread.checkpoints, n)
      turns == {c.turn : c \in kept}
  IN  [messages |-> Retain(thread.messages, turns, {}, n),
       plans |-> RetainPlans(thread.plans, turns),
       checkpoints |-> kept]

ProjectThread(thread, e) ==
  CASE e.type = "thread.message-sent" ->
         [thread EXCEPT !.messages = @ \cup {MessageOf(e)}]
    [] e.type = "thread.proposed-plan-upserted" ->
         [thread EXCEPT !.plans = UpsertPlan(@, PlanOf(e))]
    [] e.type = "thread.turn-diff-completed" ->
         [thread EXCEPT !.checkpoints = Complete(@, CheckpointOf(e))]
    [] e.type = "thread.reverted" -> RevertThread(thread, e.count)
    [] OTHER -> thread
-----------------------------------------------------------------------------
(* The tables.  pending is the row of a turn start whose turn is not known. *)

EmptyTables == [messages |-> {}, plans |-> {}, turns |-> {}, pending |-> None]

RowOf(rows, turn) ==
  IF \E r \in rows : r.turn = turn
  THEN CHOOSE r \in rows : r.turn = turn
  ELSE [turn |-> turn, message |-> None, count |-> None, status |-> None]

Upsert(rows, row) == {r \in rows : r.turn # row.turn} \cup {row}

\* Mutant of KeptRows: the turn reverted to goes as well.
RowsBefore(rows, n) == {r \in rows : r.count # None /\ r.count < n}

KeptRows(rows, n) == {r \in rows : r.count # None /\ r.count <= n}

ApplyThreadMessages(tables, e) ==
  LET kept == KeptRows(tables.turns, e.count)
  IN  CASE e.type = "thread.message-sent" ->
             [tables EXCEPT !.messages = @ \cup {MessageOf(e)}]
        [] e.type = "thread.reverted" ->
             [tables EXCEPT !.messages =
                Retain(@, {r.turn : r \in kept}, {r.message : r \in kept}, e.count)]
        [] OTHER -> tables

ApplyThreadProposedPlans(tables, e) ==
  CASE e.type = "thread.proposed-plan-upserted" ->
         [tables EXCEPT !.plans = UpsertPlan(@, PlanOf(e))]
    [] e.type = "thread.reverted" ->
         [tables EXCEPT !.plans =
            RetainPlans(@, {r.turn : r \in KeptRows(tables.turns, e.count)})]
    [] OTHER -> tables

\* The running turn takes over the pending start, if it has no message yet.
StartRow(rows, pending, turn) ==
  LET row == RowOf(rows, turn)
  IN  Upsert(rows, [row EXCEPT !.message = IF @ = None THEN pending ELSE @])

\* clearCheckpointTurnConflict, then the upsert, without a guard.
CompleteRow(rows, e) ==
  Upsert({IF r.turn # e.turn /\ r.count = e.count
          THEN [r EXCEPT !.count = None, !.status = None] ELSE r : r \in rows},
         [RowOf(rows, e.turn) EXCEPT !.count = e.count, !.status = e.status])

ApplyThreadTurns(tables, e) ==
  CASE e.type = "thread.turn-start-requested" -> [tables EXCEPT !.pending = e.id]
    [] e.type = "thread.session-set" ->
         [tables EXCEPT !.turns = StartRow(@, tables.pending, e.turn), !.pending = None]
    [] e.type = "thread.message-sent" /\ e.turn # None ->
         [tables EXCEPT !.turns = Upsert(@, RowOf(@, e.turn))]
    [] e.type = "thread.turn-diff-completed" ->
         [tables EXCEPT !.turns = CompleteRow(@, e)]
    [] e.type = "thread.reverted" ->
         [tables EXCEPT !.turns = KeptRows(@, e.count), !.pending = None]
    [] OTHER -> tables

\* The other projectors write tables that no revert and no projector here reads.
Apply(projector, tables, e) ==
  CASE projector = "threadMessages" -> ApplyThreadMessages(tables, e)
    [] projector = "threadProposedPlans" -> ApplyThreadProposedPlans(tables, e)
    [] projector = "threadTurns" -> ApplyThreadTurns(tables, e)
    [] OTHER -> tables

\* getSnapshot: the thread of the read model, from the rows.
Snapshot(tables) ==
  [messages |-> tables.messages, plans |-> tables.plans,
   checkpoints |-> {[turn |-> r.turn, count |-> r.count, status |-> r.status] :
                      r \in {x \in tables.turns : x.count # None}}]
=============================================================================
