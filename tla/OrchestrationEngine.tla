-------------------------- MODULE OrchestrationEngine --------------------------
(***************************************************************************)
(* The orchestration engine of the server (Layers/OrchestrationEngine.ts): *)
(* callers put commands on an unbounded queue, one worker fiber takes them *)
(* in order, looks up the receipt of the command id, decides the command   *)
(* on the in-memory read model, appends and projects its events in one SQL *)
(* transaction with the receipt, installs the next read model, publishes   *)
(* the events and completes the caller's deferred.  A failure first reads  *)
(* back what the store kept of the command (the reconciliation), and a     *)
(* refused command leaves a receipt of its own.                            *)
(*                                                                         *)
(* Every step is one action, because readers of the read model, of the     *)
(* store and of the PubSub run between any two of them, and the process    *)
(* may stop between any two of them.  The SQLite file survives; the rest   *)
(* is rebuilt from it when the process starts again.                       *)
(***************************************************************************)
EXTENDS CommandHistory

CONSTANTS Calls,        \* one per dispatch a caller makes
          CommandOf,    \* the command each call dispatches
          Subscribers,  \* consumers of streamDomainEvents
          ReadLimit,    \* the default limit of readFromSequence (1000)
          Faults        \* the failures the store may produce

(***************************************************************************)
(* "lookup"      reading the receipt fails                                 *)
(* "transaction" a statement of the transaction, or its COMMIT, fails and  *)
(*               everything is rolled back                                 *)
(* "commitReply" the transaction is durable but reported as failed         *)
(* "readBack"    the read of the reconciliation fails                      *)
(* "receipt"     writing the receipt of a refused command fails            *)
(*                                                                         *)
(* Any of them may meet any other: a reconciliation that fails after a     *)
(* lost commit reply is the case that stale remembers.                     *)
(***************************************************************************)
FaultKinds == {"lookup", "transaction", "commitReply", "readBack", "receipt"}

ASSUME EngineAssumption ==
  /\ Faults \subseteq FaultKinds
  /\ ReadLimit \in Nat /\ ReadLimit >= 2
  /\ CommandOf \in [Calls -> Commands]

VARIABLES
  tables,     \* the projection tables, as the read model getSnapshot returns
  up,         \* the process runs
  readModel,  \* readModel of the engine
  queue,      \* commandQueue
  pc,         \* where the worker is in processEnvelope
  envelope,   \* the envelope it processes
  start,      \* dispatchStartSequence
  pending,    \* events still to append, to project again or to publish
  written,    \* events appended in the transaction or read back
  next,       \* nextReadModel
  draft,      \* the projection tables inside the transaction
  result,     \* what the deferred will be completed with
  published,  \* the last sequence published, or the one the process began at
  inbox,      \* per subscriber, its PubSub subscription (at most one)
  outcome,    \* per call, what its caller has seen
  stale       \* a reconciliation failed although there was something to read
              \* back, since the process started (a history variable)

store    == <<log, receipts, tables>>
workVars == <<pc, envelope, start, pending, written, next, draft, result>>
vars     == <<store, up, readModel, queue, workVars, published, inbox, outcome, stale>>

Receipts  == [status : {"none", "accepted", "rejected"}, sequence : Nat]
ErrorKinds == {"invariant", "previouslyRejected", "storage"}
Replies   == [kind : {"none", "ok"} \cup ErrorKinds, sequence : Nat]
Outcomes  == [kind : {"none", "waiting", "lost", "ok"} \cup ErrorKinds,
              sequence : Nat]
Subscriptions == [active : BOOLEAN, from : Nat, got : Seq(Nat)]
Steps == {"idle", "lookup", "decide", "transaction", "install", "reconcile",
          "reproject", "finish", "settle"}

Receipt(status, n) == [status |-> status, sequence |-> n]
NoReceipt  == Receipt("none", 0)
Reply(kind, n) == [kind |-> kind, sequence |-> n]
Fail(kind) == Reply(kind, 0)
NoReply    == Reply("none", 0)
Unsubscribed == [active |-> FALSE, from |-> 0, got |-> <<>>]

-----------------------------------------------------------------------------
Init ==
  /\ log = <<>>
  /\ receipts = [id \in CommandIds |-> NoReceipt]
  /\ tables = EmptyReadModel
  /\ up = TRUE
  /\ readModel = EmptyReadModel
  /\ queue = <<>>
  /\ pc = "idle"
  /\ envelope = None
  /\ start = 0
  /\ pending = <<>>
  /\ written = <<>>
  /\ next = EmptyReadModel
  /\ draft = EmptyReadModel
  /\ result = NoReply
  /\ published = 0
  /\ inbox = [s \in Subscribers |-> Unsubscribed]
  /\ outcome = [k \in Calls |-> NoReply]
  /\ stale = FALSE

-----------------------------------------------------------------------------
(***************************************************************************)
(* dispatch: any fiber offers a command; two calls of one command are a    *)
(* duplicate, or a retry after an error or a lost answer.                  *)
(***************************************************************************)
Dispatch(k) ==
  /\ up
  /\ outcome[k] = NoReply
  /\ outcome' = [outcome EXCEPT ![k] = Reply("waiting", 0)]
  /\ queue' = Append(queue, k)
  /\ UNCHANGED <<store, stale, up, readModel, workVars, published, inbox>>

\* Running the stream that streamDomainEvents returns subscribes to the PubSub.
Subscribe(s) ==
  /\ up
  /\ ~ inbox[s].active
  /\ inbox' = [inbox EXCEPT ![s] =
                 [active |-> TRUE, from |-> published, got |-> <<>>]]
  /\ UNCHANGED <<store, stale, up, readModel, queue, workVars, published, outcome>>

-----------------------------------------------------------------------------
(* The worker fiber. *)

\* The command of the envelope being processed.
Command == CommandOf[envelope]

\* processEnvelope has returned: none of its locals is left.
ResetWorker ==
  /\ pc' = "idle"
  /\ envelope' = None
  /\ start' = 0
  /\ pending' = <<>>
  /\ written' = <<>>
  /\ next' = EmptyReadModel
  /\ draft' = EmptyReadModel
  /\ result' = NoReply

Take ==
  /\ up /\ pc = "idle" /\ queue # <<>>
  /\ envelope' = Head(queue)
  /\ queue' = Tail(queue)
  /\ start' = readModel.snapshotSequence
  /\ pc' = "lookup"
  /\ UNCHANGED <<store, stale, up, readModel, pending, written, next, draft, result,
                 published, inbox, outcome>>

\* Mutant of LookupReceipt: only a refusal is remembered.
LookupRejections ==
  /\ pc = "lookup"
  /\ IF receipts[Command.id].status = "rejected"
     THEN pc' = "settle" /\ result' = Fail("previouslyRejected")
     ELSE pc' = "decide" /\ UNCHANGED result
  /\ UNCHANGED <<store, stale, up, readModel, queue, envelope, start, pending, written,
                 next, draft, published, inbox, outcome>>

\* getByCommandId: a command that was decided before is only answered again.
LookupReceipt ==
  /\ pc = "lookup"
  /\ LET receipt == receipts[Command.id]
     IN  \/ /\ receipt.status = "none"
            /\ pc' = "decide"
            /\ UNCHANGED result
         \/ /\ receipt.status = "accepted"
            /\ pc' = "settle"
            /\ result' = Reply("ok", receipt.sequence)
         \/ /\ receipt.status = "rejected"
            /\ pc' = "settle"
            /\ result' = Fail("previouslyRejected")
  /\ UNCHANGED <<store, stale, up, readModel, queue, envelope, start, pending, written,
                 next, draft, published, inbox, outcome>>

LookupFails ==
  /\ "lookup" \in Faults
  /\ pc = "lookup"
  /\ pc' = "reconcile"
  /\ result' = Fail("storage")
  /\ UNCHANGED <<store, stale, up, readModel, queue, envelope, start, pending, written,
                 next, draft, published, inbox, outcome>>

\* decideOrchestrationCommand, and BEGIN when it returned events.
DecideCommand ==
  /\ pc = "decide"
  /\ LET events == Decide(readModel, Command)
     IN  \/ /\ events = <<>>
            /\ pc' = "reconcile"
            /\ result' = Fail("invariant")
            /\ UNCHANGED <<pending, written, next, draft>>
         \/ /\ events # <<>>
            /\ pc' = "transaction"
            /\ pending' = events
            /\ written' = <<>>
            /\ next' = readModel
            /\ draft' = tables
            /\ UNCHANGED result
  /\ UNCHANGED <<store, stale, up, readModel, queue, envelope, start,
                 published, inbox, outcome>>

\* append, projectEvent and projectionPipeline.projectEvent of one event.
AppendEvent ==
  /\ pc = "transaction" /\ pending # <<>>
  /\ LET e == Saved(Head(pending), Len(log) + Len(written) + 1)
     IN  /\ written' = Append(written, e)
         /\ next' = ProjectEvent(next, e)
         /\ draft' = ProjectEvent(draft, e)
  /\ pending' = Tail(pending)
  /\ UNCHANGED <<store, stale, up, readModel, queue, pc, envelope, start, result,
                 published, inbox, outcome>>

\* A statement or the COMMIT fails: SQLite rolls all of it back.
TransactionFails ==
  /\ "transaction" \in Faults
  /\ pc = "transaction"
  /\ pc' = "reconcile"
  /\ result' = Fail("storage")
  /\ UNCHANGED <<store, stale, up, readModel, queue, envelope, start, pending, written,
                 next, draft, published, inbox, outcome>>

\* Mutant of MakeDurable: the receipt names the first event, not the last.
MakeDurableWithFirst ==
  /\ pc = "transaction" /\ pending = <<>>
  /\ log' = log \o written
  /\ tables' = draft
  /\ receipts' = [receipts EXCEPT ![Command.id] = Receipt("accepted", Len(log) + 1)]

\* The receipt is written last, and events, projections and receipt commit.
MakeDurable ==
  LET last == Len(log) + Len(written)
  IN  /\ pc = "transaction" /\ pending = <<>>
      /\ log' = log \o written
      /\ tables' = draft
      /\ receipts' = [receipts EXCEPT ![Command.id] = Receipt("accepted", last)]

Commit ==
  /\ MakeDurable
  /\ pc' = "install"
  /\ result' = Reply("ok", written[Len(written)].sequence)
  /\ UNCHANGED <<stale, up, readModel, queue, envelope, start, pending, written, next,
                 draft, published, inbox, outcome>>

CommitReplyLost ==
  /\ "commitReply" \in Faults
  /\ MakeDurable
  /\ pc' = "reconcile"
  /\ result' = Fail("storage")
  /\ UNCHANGED <<stale, up, readModel, queue, envelope, start, pending, written, next,
                 draft, published, inbox, outcome>>

\* Mutant of Install: the events are published, the read model is not replaced.
InstallNothing ==
  /\ pc = "install"
  /\ pending' = written
  /\ pc' = "finish"
  /\ UNCHANGED <<store, stale, up, readModel, queue, envelope, start, written, next,
                 draft, result, published, inbox, outcome>>

\* readModel = nextReadModel, before any of the events is published.
Install ==
  /\ pc = "install"
  /\ readModel' = next
  /\ pending' = written
  /\ pc' = "finish"
  /\ UNCHANGED <<store, stale, up, queue, envelope, start, written, next, draft, result,
                 published, inbox, outcome>>

Publish ==
  /\ pc = "finish" /\ pending # <<>>
  /\ LET n == Head(pending).sequence
     IN  /\ inbox' = [s \in Subscribers |->
                        IF inbox[s].active
                        THEN [inbox[s] EXCEPT !.got = Append(@, n)]
                        ELSE inbox[s]]
         /\ published' = n
  /\ pending' = Tail(pending)
  /\ UNCHANGED <<store, stale, up, readModel, queue, pc, envelope, start, written, next,
                 draft, result, outcome>>

\* reconcileReadModelAfterDispatchFailure: read back what the store kept.
ReadBack ==
  /\ pc = "reconcile"
  /\ LET last == IF start + ReadLimit < Len(log) THEN start + ReadLimit ELSE Len(log)
     IN  pending' = SubSeq(log, start + 1, last)
  /\ written' = <<>>
  /\ next' = readModel
  /\ pc' = "reproject"
  /\ UNCHANGED <<store, stale, up, readModel, queue, envelope, start, draft, result,
                 published, inbox, outcome>>

\* The failure of the reconciliation is logged and nothing else: the engine
\* goes on with the read model it has.
ReadBackFails ==
  /\ "readBack" \in Faults
  /\ pc = "reconcile"
  /\ pc' = "finish"
  /\ pending' = <<>>
  /\ stale' = (stale \/ Len(log) # start)
  /\ UNCHANGED <<store, up, readModel, queue, envelope, start, written, next,
                 draft, result, published, inbox, outcome>>

Reproject ==
  /\ pc = "reproject" /\ pending # <<>>
  /\ next' = ProjectEvent(next, Head(pending))
  /\ written' = Append(written, Head(pending))
  /\ pending' = Tail(pending)
  /\ UNCHANGED <<store, stale, up, readModel, queue, pc, envelope, start, draft, result,
                 published, inbox, outcome>>

\* Mutant of InstallReconciled: what was read back is not published.
InstallSilently ==
  /\ pc = "reproject" /\ pending = <<>>
  /\ readModel' = next
  /\ pc' = "finish"
  /\ UNCHANGED <<store, stale, up, queue, envelope, start, pending, written, next, draft,
                 result, published, inbox, outcome>>

InstallReconciled ==
  /\ pc = "reproject" /\ pending = <<>>
  /\ readModel' = next
  /\ pending' = written
  /\ pc' = "finish"
  /\ UNCHANGED <<store, stale, up, queue, envelope, start, written, next, draft, result,
                 published, inbox, outcome>>

\* Mutant of RecordRejection: every failure, not only a refusal, is recorded.
RecordFailure ==
  /\ pc = "finish" /\ pending = <<>>
  /\ result.kind \in ErrorKinds
  /\ pc' = "settle"
  /\ receipts' = [receipts EXCEPT ![Command.id] =
                    Receipt("rejected", readModel.snapshotSequence)]
  /\ UNCHANGED <<log, tables, stale, up, readModel, queue, envelope, start, pending,
                 written, next, draft, result, published, inbox, outcome>>

\* The receipt of a refused command; a failure to write it is ignored.
RecordRejection ==
  /\ pc = "finish" /\ pending = <<>>
  /\ result.kind = "invariant"
  /\ pc' = "settle"
  /\ \/ receipts' = [receipts EXCEPT ![Command.id] =
                       Receipt("rejected", readModel.snapshotSequence)]
     \/ "receipt" \in Faults /\ UNCHANGED receipts
  /\ UNCHANGED <<log, tables, stale, up, readModel, queue, envelope, start, pending,
                 written, next, draft, result, published, inbox, outcome>>

\* Mutant of Settle: the deferred of a failed command is not completed.
SettleSuccess ==
  /\ \/ pc = "settle"
     \/ pc = "finish" /\ pending = <<>> /\ result.kind # "invariant"
  /\ outcome' = IF result.kind = "ok"
                THEN [outcome EXCEPT ![envelope] = result] ELSE outcome
  /\ ResetWorker
  /\ UNCHANGED <<store, stale, up, readModel, queue, published, inbox>>

\* Deferred.succeed or Deferred.fail, and the worker takes the next envelope.
Settle ==
  /\ \/ pc = "settle"
     \/ pc = "finish" /\ pending = <<>> /\ result.kind # "invariant"
  /\ outcome' = [outcome EXCEPT ![envelope] = result]
  /\ ResetWorker
  /\ UNCHANGED <<store, stale, up, readModel, queue, published, inbox>>

WorkerStep ==
  \/ Take \/ LookupReceipt \/ LookupFails \/ DecideCommand
  \/ AppendEvent \/ TransactionFails \/ Commit \/ CommitReplyLost
  \/ Install \/ Publish
  \/ ReadBack \/ ReadBackFails \/ Reproject \/ InstallReconciled
  \/ RecordRejection \/ Settle

-----------------------------------------------------------------------------
\* The process stops: an open transaction is lost, and so is all of memory.
Crash ==
  /\ up
  /\ up' = FALSE
  /\ readModel' = EmptyReadModel
  /\ queue' = <<>>
  /\ ResetWorker
  /\ published' = 0
  /\ stale' = FALSE
  /\ inbox' = [s \in Subscribers |-> Unsubscribed]
  /\ outcome' = [k \in Calls |->
                   IF outcome[k].kind = "waiting" THEN Reply("lost", 0) ELSE outcome[k]]
  /\ UNCHANGED store

\* Mutant of Restart: the worker starts before the snapshot is loaded.
RestartEmpty ==
  /\ ~ up
  /\ up' = TRUE
  /\ published' = tables.snapshotSequence
  /\ UNCHANGED <<store, stale, readModel, queue, workVars, inbox, outcome>>

\* projectionPipeline.bootstrap, then readModel = getSnapshot().
Restart ==
  /\ ~ up
  /\ up' = TRUE
  /\ readModel' = tables
  /\ published' = tables.snapshotSequence
  /\ UNCHANGED <<store, stale, queue, workVars, inbox, outcome>>

Next ==
  \/ \E k \in Calls : Dispatch(k)
  \/ \E s \in Subscribers : Subscribe(s)
  \/ WorkerStep
  \/ Crash
  \/ Restart

Spec == Init /\ [][Next]_vars

(***************************************************************************)
(* The worker is one forked fiber under Effect.forever: it never stops     *)
(* while it can make a step.                                               *)
(***************************************************************************)
FairSpec == Spec /\ WF_vars(WorkerStep)
-----------------------------------------------------------------------------
TypeOK ==
  /\ log \in Seq(Event)
  /\ receipts \in [CommandIds -> Receipts]
  /\ tables \in ReadModels
  /\ up \in BOOLEAN
  /\ readModel \in ReadModels
  /\ queue \in Seq(Calls)
  /\ pc \in Steps
  /\ envelope \in Calls \cup {None}
  /\ start \in Nat
  /\ pending \in Seq(Event) \cup Seq(UnsavedEvent)
  /\ written \in Seq(Event)
  /\ next \in ReadModels
  /\ draft \in ReadModels
  /\ result \in Replies
  /\ published \in Nat
  /\ inbox \in [Subscribers -> Subscriptions]
  /\ outcome \in [Calls -> Outcomes]
  /\ stale \in BOOLEAN

(***************************************************************************)
(* While the process runs, the read model is the projection of a prefix of *)
(* the committed log, and of the whole log whenever the worker is between  *)
(* two commands: no failure, lost reply or restart leaves it behind, so no *)
(* command is decided on a stale state.  The exception: a commit whose     *)
(* reply was lost and whose events could not be read back either, until    *)
(* the process starts again.                                               *)
(***************************************************************************)
ReadModelFollowsLog ==
  (up /\ ~ stale) =>
    /\ readModel.snapshotSequence \in 0..Len(log)
    /\ readModel = ModelAt(log)[readModel.snapshotSequence]
    /\ pc = "idle" => readModel.snapshotSequence = Len(log)

(***************************************************************************)
(* The projection tables always describe exactly the committed events: a   *)
(* rolled back transaction leaves nothing in them, a restart reads from    *)
(* them what the log says.                                                 *)
(***************************************************************************)
TablesFollowLog == tables = ModelAfter(log)

(***************************************************************************)
(* A command has an accepted receipt exactly when its events are in the    *)
(* log, once, all of them, together, the last at the receipt's sequence: a *)
(* multi-event command is never half there, a retry never doubles it.      *)
(***************************************************************************)
PositionsOf(id) == {i \in 1..Len(log) : log[i].cmd.id = id}

ReceiptsMatchLog ==
  \A c \in Commands :
    LET r == receipts[c.id]
    IN  PositionsOf(c.id) = IF r.status = "accepted"
                            THEN (r.sequence - Len(EventTypesOf(c)) + 1)..r.sequence
                            ELSE {}

(***************************************************************************)
(* A subscription receives every event committed after it began, once and  *)
(* in log order, also those whose commit was reported as failed; nothing   *)
(* is outstanding when the worker is between two commands.  The exception: *)
(* the events of a lost commit reply that could not be read back either.   *)
(***************************************************************************)
SubscribersSeeEveryEvent ==
  \A s \in Subscribers :
    LET sub == inbox[s]
    IN  (sub.active /\ ~ stale) =>
          /\ sub.got = [i \in 1..Len(sub.got) |-> sub.from + i]
          /\ pc = "idle" => sub.from + Len(sub.got) = Len(log)

(***************************************************************************)
(* A consumer that reads the read model on receiving an event finds the    *)
(* event in it, and so does a caller that reads it after its answer.  The  *)
(* exception: after a lost commit reply that could not be read back a      *)
(* retry is answered with a sequence the read model does not have.         *)
(***************************************************************************)
ReadModelCoversWhatIsSeen ==
  (up /\ ~ stale) =>
    /\ \A s \in Subscribers : \A i \in 1..Len(inbox[s].got) :
          inbox[s].got[i] <= readModel.snapshotSequence
    /\ \A k \in Calls : outcome[k].kind = "ok" =>
          outcome[k].sequence <= readModel.snapshotSequence

(***************************************************************************)
(* What a caller was told stays true: a success is a durable command with  *)
(* that sequence, whichever call of the command is asked, and a refusal is *)
(* a command that will never be in the log (unless its receipt could not   *)
(* be written).                                                            *)
(***************************************************************************)
AnswersAreTrue ==
  \A k \in Calls :
    LET r == receipts[CommandOf[k].id]
    IN  /\ outcome[k].kind = "ok" => r = Receipt("accepted", outcome[k].sequence)
        /\ outcome[k].kind = "previouslyRejected" => r.status = "rejected"
        /\ outcome[k].kind = "invariant" =>
             r.status = "rejected" \/ "receipt" \in Faults

(***************************************************************************)
(* Every dispatched command is answered, or its caller loses the process.  *)
(***************************************************************************)
EveryCallIsAnswered ==
  \A k \in Calls : outcome[k].kind = "waiting" ~> outcome[k].kind # "waiting"

(***************************************************************************)
(* The engine implements the command log: queue, transaction, failures,    *)
(* reconciliation, crash and restart are all invisible in it.  The         *)
(* exception: what is decided after a lost commit reply that could not be  *)
(* read back, until the process starts again, is decided on a stale state. *)
(***************************************************************************)
ImplementsCommandLog == Log!Init /\ [][~ stale => Log!Next]_(Log!logVars)

-----------------------------------------------------------------------------
(***************************************************************************)
(* The inductive invariant behind the read model, the tables and the       *)
(* refinement: what each local of processEnvelope holds at each step.      *)
(***************************************************************************)
LogIsNumbered == \A i \in 1..Len(log) : log[i].sequence = i

PendingIsTyped ==
  /\ pc = "transaction" => pending \in Seq(UnsavedEvent)
  /\ pc \in {"reproject", "finish"} => pending \in Seq(Event)

WorkerIsBusyOnACall ==
  /\ ~ up => pc = "idle"
  /\ pc # "idle" => envelope \in Calls

\* The read model is current except between a COMMIT and what installs it.
ReadModelIsAPrefix ==
  (up /\ ~ stale) =>
    /\ readModel.snapshotSequence \in 0..Len(log)
    /\ readModel = ModelAt(log)[readModel.snapshotSequence]
    /\ pc \notin {"install", "reconcile", "reproject"} =>
         readModel.snapshotSequence = Len(log)

StartIsTheReadModel ==
  pc \in {"lookup", "decide", "transaction", "reconcile", "reproject"} =>
    start = readModel.snapshotSequence

\* A receipt can only appear after the lookup that did not find it.
CommandIsUndecided ==
  /\ pc \in {"decide", "transaction"} => receipts[Command.id].status = "none"
  /\ (pc \in {"reconcile", "reproject", "finish"} /\ result.kind = "invariant") =>
       /\ receipts[Command.id].status = "none"
       /\ ~ stale => Decide(ModelAfter(log), Command) = <<>>

TransactionFollowsDecision ==
  pc = "transaction" =>
    LET events == Decide(readModel, Command)
    IN  /\ events # <<>>
        /\ Len(written) + Len(pending) = Len(events)
        /\ \A i \in 1..Len(written) : written[i] = Saved(events[i], Len(log) + i)
        /\ \A i \in 1..Len(pending) : pending[i] = events[Len(written) + i]
        /\ ~ stale => next = ModelAfter(log \o written)
        /\ draft = ModelAfter(log \o written)

InstalledIsCommitted ==
  pc = "install" => result.kind = "ok" /\ (~ stale => next = ModelAfter(log))

\* What one lost reply leaves behind fits in one read of the reconciliation.
LagIsOneCommand ==
  (pc \in {"reconcile", "reproject"} /\ ~ stale) => Len(log) - start \in 0..2

ReprojectionFollowsLog ==
  (pc = "reproject" /\ ~ stale) =>
    /\ next.snapshotSequence \in 0..Len(log)
    /\ next = ModelAt(log)[next.snapshotSequence]
    /\ next.snapshotSequence + Len(pending) = Len(log)
    /\ \A i \in 1..Len(pending) : pending[i] = log[next.snapshotSequence + i]

EngineInv ==
  /\ TypeOK
  /\ LogIsNumbered
  /\ PendingIsTyped
  /\ WorkerIsBusyOnACall
  /\ TablesFollowLog
  /\ ReadModelIsAPrefix
  /\ StartIsTheReadModel
  /\ CommandIsUndecided
  /\ TransactionFollowsDecision
  /\ InstalledIsCommitted
  /\ LagIsOneCommand
  /\ ReprojectionFollowsLog

(***************************************************************************)
(* What the receipts, the answers and the subscriptions rest on: what the  *)
(* worker is about to answer is already true of the receipts, and what it  *)
(* is about to publish follows on from what it has published.              *)
(***************************************************************************)
ResultIsTrue ==
  /\ pc = "idle" => result = NoReply
  /\ pc # "idle" =>
       LET r == receipts[Command.id]
       IN  /\ result.kind = "ok" => r = Receipt("accepted", result.sequence)
           /\ result.kind = "previouslyRejected" => r.status = "rejected"
           /\ (result.kind = "invariant" /\ pc = "settle") =>
                r.status = "rejected" \/ "receipt" \in Faults

SubscriptionsEndWithTheProcess ==
  \A s \in Subscribers :
    /\ inbox[s].active => up
    /\ ~ inbox[s].active => inbox[s].got = <<>>

SubscriptionsFollowPublished ==
  (up /\ ~ stale) =>
    \A s \in Subscribers :
      LET sub == inbox[s]
      IN  sub.active =>
            /\ sub.from + Len(sub.got) = published
            /\ \A i \in 1..Len(sub.got) : sub.got[i] = sub.from + i

\* The worker publishes what it wrote, or read back, after what was published.
PublishedFollowsLog ==
  (up /\ ~ stale) =>
    /\ published <= readModel.snapshotSequence
    /\ pc \notin {"install", "reconcile", "reproject", "finish"} =>
         published = Len(log)
    /\ pc = "install" => published + Len(written) = Len(log)
    /\ pc = "reconcile" => published = start
    /\ pc = "reproject" => published + Len(written) = next.snapshotSequence
    /\ pc \in {"install", "reproject"} =>
         \A i \in 1..Len(written) : written[i].sequence = published + i
    /\ pc = "finish" =>
         /\ published + Len(pending) = Len(log)
         /\ \A i \in 1..Len(pending) : pending[i].sequence = published + i

AnswersInv ==
  /\ ReceiptsMatchLog
  /\ AnswersAreTrue
  /\ ResultIsTrue
  /\ SubscriptionsEndWithTheProcess
  /\ SubscriptionsFollowPublished
  /\ PublishedFollowsLog
  /\ ReadModelCoversWhatIsSeen
=============================================================================
