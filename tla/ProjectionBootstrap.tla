-------------------------- MODULE ProjectionBootstrap --------------------------
(***************************************************************************)
(* How the projection tables follow the event log over restarts.  While    *)
(* the server runs, all projectors apply an event in the transaction that  *)
(* appends it.  At a start each projector catches up on its own, from the  *)
(* sequence in its row of projection_state, with at most Limit events; the *)
(* read model is then the snapshot of the tables.  A projector is behind   *)
(* only when an upgrade introduced it: it has no row and starts at 0.      *)
(*                                                                         *)
(* The log is about one thread, whose history clients, ingestion and       *)
(* checkpoint reactor make up command by command.                          *)
(***************************************************************************)
EXTENDS ThreadProjections

CONSTANTS Limit,       \* DEFAULT_READ_FROM_SEQUENCE_LIMIT
          Upgrades,    \* sets of projectors that an upgrade introduces
          MaxEvents,   \* bound on the log
          MaxReplayed, \* bound on the log of a server that crashes
          MaxCrashes   \* bound: crashes and restarts

\* Mutant of Order: the projector without a table before the one it stands for.
OrderOfNames ==
  <<"projects", "threads", "threadMessages", "threadProposedPlans", "threadActivities",
    "threadSessions", "checkpoints", "threadTurns", "pendingApprovals">>

\* projectors, in the order they run
Order ==
  <<"projects", "threadMessages", "threadProposedPlans", "threadActivities",
    "threadSessions", "threadTurns", "checkpoints", "pendingApprovals", "threads">>
Projectors == {"projects", "threads", "threadMessages", "threadProposedPlans",
               "threadActivities", "threadSessions", "checkpoints", "threadTurns",
               "pendingApprovals"}

\* REQUIRED_SNAPSHOT_PROJECTORS: checkpoints, which has no table, but not threadTurns
Required == Projectors \ {"threadTurns", "pendingApprovals"}

\* Migration 5 introduced the two projectors for turns together.
ASSUME BootstrapAssumption ==
  /\ Limit \in Nat /\ MaxEvents \in Nat /\ MaxReplayed \in Nat /\ MaxCrashes \in Nat
  /\ Upgrades \subseteq SUBSET Projectors
  /\ \A new \in Upgrades : "threadTurns" \in new => "checkpoints" \in new
  /\ None \notin Turns \cup Nat \cup [projectors : SUBSET Projectors, at : Nat]

\* Migration 5 introduced the projector of messages together with that of turns.
ASSUME MessagesComeWithTurns ==
  \A new \in Upgrades : "threadMessages" \in new => "threadTurns" \in new

VARIABLES
  log,        \* orchestration_events of the thread
  tables,     \* the projection tables
  applied,    \* projection_state: lastAppliedSequence, 0 without a row
  phase,      \* of the server process
  catching,   \* bootstrap: index of the projector that catches up
  until,      \* bootstrap: the last event its stream returns, None: not read yet
  thread,     \* in the read model
  crashes,    \* how many so far
  upgrade,    \* None, or the projectors an upgrade upgrade, and the log's length then
  skipped,    \* per projector, the events it never applied
  even,       \* every revert so far met Aligned tables
  live        \* the tables as they were before the upgrade, and kept up since

store  == <<log, tables, applied>>
memory == <<phase, catching, until, thread>>
ghosts == <<upgrade, skipped, even, live>>
vars == <<store, memory, crashes, ghosts>>

SetMin(S) == CHOOSE x \in S : \A y \in S : x <= y

Init ==
  /\ log = <<>> /\ tables = EmptyTables /\ applied = [p \in Projectors |-> 0]
  /\ phase = "down" /\ catching = 1 /\ until = None /\ thread = EmptyThread
  /\ crashes = 0 /\ upgrade = None /\ skipped = [p \in Projectors |-> {}]
  /\ even = TRUE /\ live = EmptyTables
-----------------------------------------------------------------------------
(* The running server: a command's events are appended and projected in one *)
(* transaction (OrchestrationEngine is about that).                         *)

\* One event, by every projector in turn.
ProjectEvent(all, event) ==
  LET after[i \in 0..Len(Order)] ==
        IF i = 0 THEN all ELSE Apply(Order[i], after[i - 1], event)
  IN  after[Len(Order)]

ProjectEvents(all, events) ==
  LET after[i \in 0..Len(events)] ==
        IF i = 0 THEN all ELSE ProjectEvent(after[i - 1], events[i])
  IN  after[Len(events)]

ProjectThreadEvents(first, events) ==
  LET after[i \in 0..Len(events)] ==
        IF i = 0 THEN first ELSE ProjectThread(after[i - 1], events[i])
  IN  after[Len(events)]

\* The nth message has started the turn with the nth checkpoint, as far as there are any.
Aligned ==
  LET users == {m \in tables.messages : m.role = "user"}
      rank(id) == Cardinality({m \in users : m.id <= id})
      rows == {r \in tables.turns : r.count # None}
  IN  /\ \A r \in rows : r.message # None /\ rank(r.message) = r.count
      /\ {[turn |-> r.turn, count |-> r.count] : r \in rows}
           = {[turn |-> c.turn, count |-> c.count] : c \in thread.checkpoints}

\* projectEvent moves every projector to the event, wherever it was.
Commit(events) ==
  /\ phase = "running" /\ Len(log) + Len(events) <= MaxEvents
  /\ log' = log \o events
  /\ tables' = ProjectEvents(tables, events)
  /\ live' = ProjectEvents(live, events)
  /\ thread' = ProjectThreadEvents(thread, events)
  /\ applied' = [p \in Projectors |-> Len(log) + Len(events)]
  /\ skipped' = [p \in Projectors |-> skipped[p] \cup ((applied[p] + 1)..Len(log))]
  /\ even' = (even /\ (events[1].type = "thread.reverted" => Aligned))
  /\ UNCHANGED <<phase, catching, until, crashes, upgrade>>

Requests == {i \in DOMAIN log : log[i].type = "thread.turn-start-requested"}
Begun == {log[i].turn : i \in {j \in DOMAIN log : log[j].type = "thread.session-set"}}
Current == CurrentTurnCount(thread.checkpoints)

\* thread.turn.start
SendMessage ==
  Commit(<<UserMessage(Len(log) + 1), TurnStartRequested(Len(log) + 1)>>)

\* The provider's turns are numbered; its last turn may be reported as running again.
RunTurn(turn) ==
  /\ turn \in {Cardinality(Begun), Cardinality(Begun) + 1}
  /\ turn \in 1..Cardinality(Requests)
  /\ Commit(<<SessionSet(turn)>>)

Answer(turn) ==
  /\ turn \in Begun
  /\ \A i \in DOMAIN log : ~(log[i].role = "assistant" /\ log[i].turn = turn)
  /\ Commit(<<AssistantMessage(Len(log) + 1, turn)>>)

ProposePlan(turn) ==
  /\ turn \in Begun
  /\ \A i \in DOMAIN log :
       ~(log[i].type = "thread.proposed-plan-upserted" /\ log[i].turn = turn)
  /\ Commit(<<PlanUpserted(Len(log) + 1, turn)>>)

Given == {log[i].count : i \in {j \in DOMAIN log : log[j].type = "thread.turn-diff-completed"}}

\* A placeholder or a capture.  Its worker has read the thread some time ago, before
\* diffs or reverts since: the count is the next after any count given so far.
CompleteDiff(turn, status) ==
  /\ turn \in Begun
  /\ \E n \in {0} \cup Given : Commit(<<DiffCompleted(turn, n + 1, status)>>)

CompleteRevert(n) == n <= Current /\ Commit(<<Reverted(n)>>)
-----------------------------------------------------------------------------
(* The process. *)

Crash ==
  /\ phase # "down" /\ crashes < MaxCrashes /\ Len(log) <= MaxReplayed
  /\ phase' = "down" /\ crashes' = crashes + 1
  /\ catching' = 1 /\ until' = None /\ thread' = EmptyThread
  /\ UNCHANGED <<store, ghosts>>

\* An upgrade's new projectors have no row yet, and their tables are empty.
Upgrade ==
  /\ phase = "down" /\ upgrade = None /\ log # <<>>
  /\ \E new \in Upgrades :
       /\ upgrade' = [projectors |-> new, at |-> Len(log)]
       /\ applied' = [p \in Projectors |-> IF p \in new THEN 0 ELSE applied[p]]
       /\ tables' = [messages |-> IF "threadMessages" \in new THEN {} ELSE tables.messages,
                     plans |-> IF "threadProposedPlans" \in new THEN {} ELSE tables.plans,
                     turns |-> IF "threadTurns" \in new THEN {} ELSE tables.turns,
                     pending |-> IF "threadTurns" \in new THEN None ELSE tables.pending]
  /\ UNCHANGED <<log, memory, crashes, skipped, even, live>>

Start ==
  /\ phase = "down"
  /\ phase' = "bootstrap"
  /\ UNCHANGED <<store, catching, until, thread, crashes, ghosts>>

\* Mutant of ReadState: a projector without a row has nothing to catch up with.
ReadStateOfRow ==
  /\ phase = "bootstrap" /\ catching <= Len(Order) /\ until = None
  /\ LET from == applied[Order[catching]]
     IN  until' = IF from = 0 THEN 0 ELSE SetMin({Len(log), from + Limit})
  /\ UNCHANGED <<store, phase, catching, thread, crashes, ghosts>>

\* bootstrapProjector: the row is read once, and the stream ends with the limit.
ReadState ==
  /\ phase = "bootstrap" /\ catching <= Len(Order) /\ until = None
  /\ until' = SetMin({Len(log), applied[Order[catching]] + Limit})
  /\ UNCHANGED <<store, phase, catching, thread, crashes, ghosts>>

\* Mutant of RunProjector: the row is written in a transaction of its own.
RunProjectorApart ==
  /\ phase = "bootstrap" /\ catching <= Len(Order) /\ until # None
  /\ LET p == Order[catching]
     IN  /\ applied[p] < until
         /\ applied' = [applied EXCEPT ![p] = @ + 1]
         /\ tables' \in {Apply(p, tables, log[applied[p] + 1]), tables}
  /\ UNCHANGED <<log, memory, crashes, ghosts>>

\* runProjectorForEvent: the tables and the row change in one transaction.
RunProjector ==
  /\ phase = "bootstrap" /\ catching <= Len(Order) /\ until # None
  /\ LET p == Order[catching]
     IN  /\ applied[p] < until
         /\ applied' = [applied EXCEPT ![p] = @ + 1]
         /\ tables' = Apply(p, tables, log[applied[p] + 1])
  /\ UNCHANGED <<log, memory, crashes, ghosts>>

NextProjector ==
  /\ phase = "bootstrap" /\ catching <= Len(Order) /\ until # None
  /\ applied[Order[catching]] = until
  /\ catching' = catching + 1
  /\ until' = None
  /\ UNCHANGED <<store, phase, thread, crashes, ghosts>>

\* The engine's read model is the snapshot; its worker starts.
Serve ==
  /\ phase = "bootstrap" /\ catching > Len(Order)
  /\ phase' = "running"
  /\ thread' = Snapshot(tables)
  /\ UNCHANGED <<store, catching, until, crashes, ghosts>>

Next ==
  \/ SendMessage
  \/ \E turn \in Turns :
       \/ RunTurn(turn) \/ Answer(turn) \/ ProposePlan(turn)
       \/ \E status \in {"ready", "missing"} : CompleteDiff(turn, status)
  \/ \E n \in 0..MaxEvents : CompleteRevert(n)
  \/ Crash \/ Upgrade
  \/ Start \/ ReadState \/ RunProjector \/ NextProjector \/ Serve

Spec == Init /\ [][Next]_vars
-----------------------------------------------------------------------------
(***************************************************************************)
(* The types: no projector is ahead of the log, and a stream of bootstrap  *)
(* ends within it, at or after what its projector has applied.             *)
(***************************************************************************)
TypeOK ==
  /\ applied \in [Projectors -> 0..Len(log)]
  /\ phase \in {"down", "bootstrap", "running"}
  /\ catching \in 1..(Len(Order) + 1)
  /\ until # None => /\ phase = "bootstrap" /\ catching <= Len(Order)
                     /\ until \in applied[Order[catching]]..Len(log)
  /\ crashes \in 0..MaxCrashes
  /\ upgrade # None => upgrade.projectors \in Upgrades /\ upgrade.at \in 0..Len(log)
  /\ skipped \in [Projectors -> SUBSET (1..Len(log))]
  /\ even \in BOOLEAN

\* More events than one stream returns were outstanding for the projector.
OverLimit(p) ==
  upgrade # None /\ p \in upgrade.projectors /\ upgrade.at > Limit

(***************************************************************************)
(* However often the server dies while it starts, a running server has     *)
(* applied every event with every projector; the only exception is a       *)
(* projector that an upgrade introduced to a log longer than the limit of  *)
(* readFromSequence: the next event projected takes it past the rest.      *)
(***************************************************************************)
EveryEventIsProjected ==
  phase = "running" =>
    \A p \in Projectors : (applied[p] = Len(log) /\ skipped[p] = {}) \/ OverLimit(p)

SnapshotSequence == SetMin({applied[p] : p \in Required})

(***************************************************************************)
(* The sequence of a snapshot never claims more than the rows of turns     *)
(* hold, of which its checkpoints and latest turns are made, although      *)
(* their projector is not among those computeSnapshotSequence asks: the    *)
(* checkpoints projector, which comes after it, stands for it.             *)
(***************************************************************************)
SnapshotIsCovered == SnapshotSequence <= applied["threadTurns"]

(***************************************************************************)
(* The projector and the tables, which find out the surviving turns of a   *)
(* revert in different ways, keep the same messages and plans, so that a   *)
(* restart shows the thread as it was; as long as turn n of every revert   *)
(* was the one that message n started (Aligned).                           *)
(***************************************************************************)
ProjectionsAgree ==
  (phase = "running" /\ even) =>
    /\ thread.messages = tables.messages
    /\ thread.plans = tables.plans

IsMessage(e) == e.type = "thread.message-sent"
IsPlan(e)    == e.type = "thread.proposed-plan-upserted"
IsDiff(e)    == e.type = "thread.turn-diff-completed"
IsRevert(e)  == e.type = "thread.reverted"

Diffs(l, k) == {d \in 1..k : IsDiff(l[d])}

\* No revert up to event k has dropped the count that event d gave to its turn.
InForce(l, d, k) == \A j \in (d + 1)..k : IsRevert(l[j]) => l[d].count <= l[j].count

\* A turn was given the count that another turn had.
CountShared(l, k) ==
  \E d, e \in Diffs(l, k) : /\ d < e /\ InForce(l, d, e)
                           /\ l[d].count = l[e].count /\ l[d].turn # l[e].turn

\* A turn with a count in force was given no other one.
TurnsKeepCounts(l, k) ==
  \A d, e \in Diffs(l, k) :
    (d < e /\ InForce(l, d, e) /\ l[d].turn = l[e].turn) => l[d].count = l[e].count

\* A revert to n turns met each of the counts up to n.
RevertsMeetCounts(l, k) ==
  \A j \in 1..k : IsRevert(l[j]) =>
    \A c \in 1..l[j].count : \E d \in Diffs(l, j) : l[d].count = c /\ InForce(l, d, j)

CountsAreSound(l, k) ==
  ~CountShared(l, k) /\ TurnsKeepCounts(l, k) /\ RevertsMeetCounts(l, k)

NoRevert(l, k) == \A j \in 1..k : ~IsRevert(l[j])

\* An upgrade replays reverts, to tables of turns that are empty, or in which a turn
\* may have lost its count since, or got a lower one, or one of a turn gone by then.
RevertsReplayedWrongly ==
  /\ upgrade # None /\ ~NoRevert(log, upgrade.at)
  /\ "threadTurns" \in upgrade.projectors \/ ~CountsAreSound(log, upgrade.at)

(***************************************************************************)
(* Tables that an upgrade rebuilds one projector after the other are those *)
(* the events made when all projectors saw each in turn, although reverts  *)
(* read the rows of turns as the last event left them; but for turns       *)
(* rebuilt themselves with a revert in the log, past the limit, and when   *)
(* in a log with a revert two turns shared a count, a turn's count was     *)
(* changed or a revert met a gap in the counts, as workers that read the   *)
(* thread too early can make them.                                         *)
(***************************************************************************)
RebuiltAsBefore ==
  (phase = "running" /\ ~RevertsReplayedWrongly /\ \A p \in Projectors : ~OverLimit(p)) =>
    tables = live

-----------------------------------------------------------------------------
(***************************************************************************)
(* The inductive invariant of the sequences in projection_state: who may   *)
(* be behind the log, and what bootstrap has made up for so far.           *)
(***************************************************************************)
LogIsASequence == log \in Seq({log[i] : i \in DOMAIN log})

SequencesAreTyped ==
  /\ applied \in [Projectors -> Nat]
  /\ \A p \in Projectors : applied[p] <= Len(log)
  /\ phase \in {"down", "bootstrap", "running"}
  /\ catching \in 1..(Len(Order) + 1)
  /\ upgrade \in {None} \cup [projectors : Upgrades, at : Nat]
  /\ phase = "down" => catching = 1 /\ until = None

\* Only what an upgrade introduced is behind: until the server runs, or for good.
Behind(p) ==
  /\ upgrade # None /\ p \in upgrade.projectors
  /\ upgrade.at <= Limit => Len(log) = upgrade.at /\ phase # "running"

OnlyNewAreBehind == \A p \in Projectors : applied[p] = Len(log) \/ Behind(p)

\* The stream of the projector that catches up ends with the log.
StreamReachesTheEnd ==
  until # None =>
    /\ phase = "bootstrap" /\ catching <= Len(Order)
    /\ until \in applied[Order[catching]]..Len(log)
    /\ until = Len(log) \/ OverLimit(Order[catching])

EarlierHaveCaughtUp ==
  phase = "bootstrap" =>
    \A i \in 1..(catching - 1) : applied[Order[i]] = Len(log) \/ OverLimit(Order[i])

\* The turns, sixth, get at least as far as one stream takes the checkpoints.
Covers(n) == n = Len(log) \/ applied["checkpoints"] + Limit <= n

CheckpointsFollowTurns ==
  /\ applied["checkpoints"] <= applied["threadTurns"]
  /\ (catching = 6 /\ until # None) => Covers(until)
  /\ (phase = "bootstrap" /\ catching = 7) =>
       IF until = None THEN Covers(applied["threadTurns"]) ELSE until <= applied["threadTurns"]

BootstrapInv ==
  /\ LogIsASequence
  /\ SequencesAreTyped
  /\ OnlyNewAreBehind
  /\ StreamReachesTheEnd
  /\ EarlierHaveCaughtUp
  /\ CheckpointsFollowTurns
  /\ \A p \in Projectors : skipped[p] = {} \/ OverLimit(p)

CountersAreTyped ==
  /\ crashes \in 0..MaxCrashes
  /\ skipped \in [Projectors -> SUBSET (1..Len(log))]
  /\ even \in BOOLEAN

-----------------------------------------------------------------------------
(***************************************************************************)
(* The inductive invariant of what is projected.  It follows the log: who  *)
(* is spoken of, which counts are in force and which plans have survived.  *)
(***************************************************************************)
RowStatuses == {"ready", "missing", None}
Messages == [id : Nat, turn : Turns \cup {None}, role : {"user", "assistant"}]
Plans    == [id : Nat, turn : Turns]
Rows     == [turn : Turns, message : Nat \cup {None}, count : Nat \cup {None},
             status : RowStatuses]
ReadCheckpoints == [turn : Turns, count : Nat, status : RowStatuses]
AllTables == [messages : SUBSET Messages, plans : SUBSET Plans, turns : SUBSET Rows,
              pending : Nat \cup {None}]
Threads == [messages : SUBSET Messages, plans : SUBSET Plans, checkpoints : SUBSET ReadCheckpoints]

\* The ith event of a log.
EventAt(l, i) ==
  \/ l[i] = UserMessage(i)
  \/ \E m \in 1..(i - 1) : l[m] = UserMessage(m) /\ l[i] = TurnStartRequested(m)
  \/ \E turn \in Turns :
       \/ l[i] \in {SessionSet(turn), AssistantMessage(i, turn), PlanUpserted(i, turn)}
       \/ \E status \in {"ready", "missing"} : l[i] = DiffCompleted(turn, l[i].count, status)
                                              /\ l[i].count \in 1..i
  \/ l[i] = Reverted(l[i].count) /\ l[i].count \in Nat

LogIsWellFormed == \A i \in 1..Len(log) : EventAt(log, i)

\* Messages are those of the log, a turn was started by a message of the user, and
\* there are no more counts than events.
OfLog(l, t) ==
  /\ \A m \in t.messages : m.id \in 1..Len(l) /\ IsMessage(l[m.id]) /\ m = MessageOf(l[m.id])
  /\ \A id \in {t.pending} \cup {r.message : r \in t.turns} :
       id # None => id \in 1..Len(l) /\ l[id] = UserMessage(id)
  /\ \A r \in t.turns : r.count # None => r.count \in 1..Len(l)

ShownFollows ==
  phase = "running" =>
    /\ \A m \in thread.messages : m.id \in 1..Len(log) /\ m = MessageOf(log[m.id])
    /\ \A c \in thread.checkpoints : c.count \in 1..Len(log)
    /\ even => thread.messages = tables.messages /\ thread.plans = tables.plans

AgreeInv ==
  /\ LogIsWellFormed
  /\ tables \in AllTables /\ live \in AllTables /\ thread \in Threads
  /\ OfLog(log, tables)
  /\ ShownFollows

\* Turns and counts: of the diffs in force, and of rows.
Counted(l, k) == {<<l[d].turn, l[d].count>> : d \in {x \in Diffs(l, k) : InForce(l, x, k)}}
Pairs(S) == {<<c.turn, c.count>> : c \in {x \in S : x.count # None}}

CountsFollow(l, k, rows) == CountsAreSound(l, k) => Pairs(rows) = Counted(l, k)

\* A plan has survived the reverts at each of which its turn had a count in force.
SurvivesAll(l, i, k) ==
  \A j \in (i + 1)..k : IsRevert(l[j]) =>
    \E d \in Diffs(l, j) : l[d].turn = l[i].turn /\ InForce(l, d, j)

PlansThat(l, k) == {PlanOf(l[i]) : i \in {x \in 1..k : IsPlan(l[x]) /\ SurvivesAll(l, x, k)}}

OneRow(rows) == \A r, s \in rows : r.turn = s.turn => r = s

PlansSurvive(l, k, plans) == NoRevert(l, k) \/ CountsAreSound(l, k) => plans = PlansThat(l, k)

MessagesUpTo(l, k) == {MessageOf(l[i]) : i \in {x \in 1..k : IsMessage(l[x])}}

\* The tables are those of the first k events.
LiveOn(l, k, t) ==
  /\ OneRow(t.turns) /\ CountsFollow(l, k, t.turns) /\ PlansSurvive(l, k, t.plans)
  /\ NoRevert(l, k) => t.messages = MessagesUpTo(l, k)

LiveFollows == upgrade = None \/ Len(log) = upgrade.at => LiveOn(log, Len(log), live)

\* Rows and pending start after each event.
TurnsAt(l) ==
  LET after[i \in 0..Len(l)] ==
        IF i = 0 THEN EmptyTables ELSE ApplyThreadTurns(after[i - 1], l[i])
  IN  after

SameTurns(t, u) == t.turns = u.turns /\ t.pending = u.pending

\* The first k events, of which every revert kept what has a row now.
ReplayedPlans(l, k, rows) ==
  {PlanOf(l[i]) : i \in {x \in 1..k :
     /\ IsPlan(l[x])
     /\ \A j \in (x + 1)..k : IsRevert(l[j]) =>
          \E r \in KeptRows(rows, l[j].count) : r.turn = l[x].turn}}

Rebuilding ==
  /\ SameTurns(live, TurnsAt(log)[Len(log)])
  /\ SameTurns(tables, TurnsAt(log)[applied["threadTurns"]])
  /\ tables.messages = IF applied["threadMessages"] = Len(log) THEN live.messages
                       ELSE MessagesUpTo(log, applied["threadMessages"])
  /\ tables.plans = IF applied["threadProposedPlans"] = Len(log) THEN live.plans
                    ELSE ReplayedPlans(log, applied["threadProposedPlans"], tables.turns)

RebuildInv ==
  /\ upgrade # None => upgrade.at <= Len(log)
  /\ LiveFollows
  /\ (~RevertsReplayedWrongly /\ \A p \in Projectors : ~OverLimit(p)) => Rebuilding
=============================================================================
