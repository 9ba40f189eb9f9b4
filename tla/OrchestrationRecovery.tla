------------------------- MODULE OrchestrationRecovery -------------------------
(***************************************************************************)
(* How a browser client keeps its store equal to the event log: the        *)
(* coordinator of orchestrationRecovery.ts and the handlers of             *)
(* routes/__root.tsx that drive it from live events, resubscriptions,      *)
(* welcomes, the answers of getSnapshot and replayEvents, and timers.      *)
(* The server and the connection are the environment: events are committed *)
(* and later published, a subscription begins after what was published,    *)
(* the connection drops, requests fail.  Handlers run one at a time; the   *)
(* flush of the pending events is a microtask and precedes every answer    *)
(* and every timer.                                                        *)
(***************************************************************************)
EXTENDS Integers, Sequences, FiniteSets, FiniteSetsExt

CONSTANTS MaxEvents,    \* bound: events committed
          MaxDrops,     \* bound: connections lost
          MaxWelcomes,  \* bound: welcomes after the first snapshot was requested
          MaxFailures,  \* bound: failed requests
          MaxRetries    \* MAX_NO_PROGRESS_REPLAY_RETRIES

ASSUME RecoveryAssumption ==
  /\ MaxEvents \in Nat /\ MaxDrops \in Nat /\ MaxWelcomes \in Nat
  /\ MaxFailures \in Nat /\ MaxRetries \in Nat \ {0}

VARIABLES
  committed,  \* the last event in the server's store
  published,  \* the last event in its read model, sent to the subscriptions
  channel,    \* the subscription: opening, live or down
  cursor,     \* the last event it delivered, or the one it began after
  heard,      \* hasReceivedValue
  drops, welcomes, failures,
  c,          \* the coordinator's state
  tracker,    \* replayRetryTracker; attempts = 0 is null
  timers,     \* runReplayRecovery calls that sleep before a retry
  answer,     \* of the request in flight: what the server read, or NoAnswer
  pending,    \* pendingDomainEvents
  store,      \* how often each event is in the client's store
  gaveUp      \* the last recovery was a snapshot that failed

server == <<committed, published>>
connection == <<channel, cursor, heard, drops>>
env == <<server, connection, welcomes, failures>>
client == <<c, tracker, timers, answer, pending, store, gaveUp>>
vars == <<env, client>>

Events == 1..MaxEvents
NoAnswer == -1
NoTracker == [attempts |-> 0, latest |-> 0, highest |-> 0]

\* The coordinator is created and the first snapshot requested.
Init ==
  /\ committed \in 0..MaxEvents /\ published = committed
  /\ channel = "opening" /\ cursor = 0 /\ heard = FALSE
  /\ drops = 0 /\ welcomes = 0 /\ failures = 0
  /\ c = [latest |-> 0, highest |-> 0, bootstrapped |-> FALSE,
          pendingReplay |-> FALSE, inFlight |-> "snapshot", replayStart |-> 0]
  /\ tracker = NoTracker /\ timers = 0 /\ answer = NoAnswer
  /\ pending = <<>>
  /\ store = [n \in Events |-> 0]
  /\ gaveUp = FALSE

-----------------------------------------------------------------------------
(* The coordinator: operators from its state to its state. *)

Observe(s, n) == [s EXCEPT !.highest = Max({@, n})]

\* Mutant of Classify: live events are applied while a recovery is in flight.
ClassifyInFlight(s, n) ==
  IF n <= s.latest THEN "ignore"
  ELSE IF ~ s.bootstrapped THEN "defer"
  ELSE IF n # s.latest + 1 THEN "recover" ELSE "apply"

Classify(s, n) ==
  IF n <= s.latest THEN "ignore"
  ELSE IF ~ s.bootstrapped \/ s.inFlight # "none" THEN "defer"
  ELSE IF n # s.latest + 1 THEN "recover" ELSE "apply"

\* markEventBatchApplied: only what is newer counts, however it is ordered.
Fresh(s, batch) == {n \in {batch[i] : i \in DOMAIN batch} : n > s.latest}

MarkApplied(s, batch) ==
  IF Fresh(s, batch) = {} THEN s
  ELSE [s EXCEPT !.latest = Max(Fresh(s, batch)),
                 !.highest = Max({@, Max(Fresh(s, batch))})]

ApplyBatch(s, batch) ==
  [n \in Events |->
     IF n \in Fresh(s, batch)
     THEN store[n] + Cardinality({i \in DOMAIN batch : batch[i] = n})
     ELSE store[n]]

Begin(s, kind) ==
  IF s.inFlight # "none" \/ (kind = "replay" /\ ~ s.bootstrapped)
  THEN [s EXCEPT !.pendingReplay = TRUE]
  ELSE IF kind = "snapshot"
       THEN [s EXCEPT !.inFlight = "snapshot"]
       ELSE [s EXCEPT !.pendingReplay = FALSE, !.inFlight = "replay",
                      !.replayStart = s.latest]

\* Mutant of NeedsReplay: the events deferred meanwhile are forgotten.
ForgetsDeferred(s) == FALSE

NeedsReplay(s) == s.pendingReplay \/ s.highest > s.latest

\* resolveReplayNeedAfterRecovery: the caller replays if there was need.
Completed(s) == [s EXCEPT !.inFlight = "none", !.pendingReplay = FALSE]

\* Mutant of InstallSnapshot: the client is not bootstrapped by it.
InstallUnready(s, n) ==
  LET latest == Max({s.latest, n})
  IN  [s EXCEPT !.latest = latest, !.highest = Max({@, latest})]

InstallSnapshot(s, n) ==
  LET latest == Max({s.latest, n})
  IN  [s EXCEPT !.latest = latest, !.highest = Max({@, latest}),
                !.bootstrapped = TRUE]

FailReplay(s) == [s EXCEPT !.bootstrapped = FALSE, !.inFlight = "none"]

\* A recovery that begins sends its request; the next begins when it ends.
Leave(s) == c' = s /\ gaveUp' = (gaveUp /\ s.inFlight = "none")

-----------------------------------------------------------------------------
(* The server and the connection. *)

Commit ==
  /\ committed < MaxEvents
  /\ committed' = committed + 1
  /\ UNCHANGED <<published, connection, welcomes, failures, client>>

Publish ==
  /\ published < committed
  /\ published' = published + 1
  /\ UNCHANGED <<committed, connection, welcomes, failures, client>>

Subscribed ==
  /\ channel = "opening"
  /\ channel' = "live" /\ cursor' = published
  /\ UNCHANGED <<server, heard, drops, welcomes, failures, client>>

Drop ==
  /\ channel # "down" /\ drops < MaxDrops
  /\ channel' = "down" /\ drops' = drops + 1
  /\ UNCHANGED <<server, cursor, heard, welcomes, failures, client>>

\* getSnapshot, or replayEvents, reads the store.
Answer ==
  /\ c.inFlight # "none" /\ answer = NoAnswer
  /\ answer' = committed
  /\ UNCHANGED <<env, c, tracker, timers, pending, store, gaveUp>>

-----------------------------------------------------------------------------
(* The handlers of routes/__root.tsx. *)

\* flushPendingDomainEvents, alone or before another recovery begins.
Flushed == MarkApplied(c, pending)

Flush ==
  /\ pending # <<>>
  /\ Leave(Flushed)
  /\ store' = ApplyBatch(c, pending) /\ pending' = <<>>
  /\ UNCHANGED <<env, tracker, timers, answer>>

OnDomainEvent ==
  /\ channel = "live" /\ cursor < published
  /\ cursor' = cursor + 1 /\ heard' = TRUE
  /\ LET n      == cursor + 1
         action == Classify(c, n)
         seen   == Observe(c, n)
     IN  \/ action = "ignore" /\ Leave(seen) /\ UNCHANGED <<store, pending>>
         \/ /\ action = "defer"
            /\ Leave([seen EXCEPT !.pendingReplay = TRUE])
            /\ UNCHANGED <<store, pending>>
         \/ /\ action = "apply"
            /\ Leave(seen)
            /\ pending' = Append(pending, n)
            /\ UNCHANGED store
         \/ /\ action = "recover"
            /\ Leave(Begin(MarkApplied([seen EXCEPT !.pendingReplay = TRUE], pending), "replay"))
            /\ store' = ApplyBatch(c, pending) /\ pending' = <<>>
  /\ UNCHANGED <<server, channel, drops, welcomes, failures, tracker, timers, answer>>

\* The subscription is opened again; onResubscribe comes first.
Resubscribe ==
  /\ channel = "down"
  /\ channel' = "opening"
  /\ IF heard
     THEN /\ Leave(Begin(Flushed, "replay"))
          /\ store' = ApplyBatch(c, pending) /\ pending' = <<>>
     ELSE UNCHANGED <<c, gaveUp, store, pending>>
  /\ UNCHANGED <<server, cursor, heard, drops, welcomes, failures, tracker,
                 timers, answer>>

OnWelcome ==
  /\ welcomes < MaxWelcomes
  /\ welcomes' = welcomes + 1
  /\ Leave(Begin(c, "snapshot"))
  /\ UNCHANGED <<server, connection, failures, tracker, timers, answer, pending, store>>

\* syncServerReadModel and completeSnapshotRecovery.
SnapshotArrives ==
  /\ c.inFlight = "snapshot" /\ answer # NoAnswer /\ pending = <<>>
  /\ LET s == InstallSnapshot(c, answer)
     IN  Leave(IF NeedsReplay(s) THEN Begin(Completed(s), "replay") ELSE Completed(s))
  /\ store' = [n \in Events |-> IF n <= answer THEN 1 ELSE 0]
  /\ answer' = NoAnswer
  /\ UNCHANGED <<env, tracker, timers, pending>>

SnapshotFails ==
  /\ c.inFlight = "snapshot" /\ failures < MaxFailures /\ pending = <<>>
  /\ failures' = failures + 1
  /\ c' = [c EXCEPT !.inFlight = "none"] /\ gaveUp' = TRUE
  /\ answer' = NoAnswer
  /\ UNCHANGED <<server, connection, welcomes, tracker, timers, pending, store>>

\* deriveReplayRetryDecision: the attempts made at this frontier.
Attempts(s) ==
  IF tracker.attempts > 0 /\ tracker.latest = s.latest /\ tracker.highest = s.highest
  THEN tracker.attempts + 1 ELSE 1

ReplayArrives ==
  /\ c.inFlight = "replay" /\ answer # NoAnswer /\ pending = <<>>
  /\ LET batch == [i \in 1..(answer - c.replayStart) |-> c.replayStart + i]
         s     == MarkApplied(c, batch)
     IN  /\ store' = ApplyBatch(c, batch)
         /\ \/ /\ ~ NeedsReplay(s)
               /\ Leave(Completed(s))
               /\ tracker' = NoTracker /\ UNCHANGED timers
            \/ /\ NeedsReplay(s) /\ s.latest > s.replayStart
               /\ Leave(Begin(Completed(s), "replay"))
               /\ tracker' = NoTracker /\ UNCHANGED timers
            \/ /\ NeedsReplay(s) /\ s.latest <= s.replayStart
               /\ Leave(Completed(s))
               /\ IF Attempts(s) > MaxRetries
                  THEN tracker' = NoTracker /\ UNCHANGED timers
                  ELSE /\ tracker' = [attempts |-> Attempts(s), latest |-> s.latest,
                                      highest |-> s.highest]
                       /\ timers' = timers + 1
  /\ answer' = NoAnswer
  /\ UNCHANGED <<env, pending>>

\* failReplayRecovery, then fallbackToSnapshotRecovery.
ReplayFails ==
  /\ c.inFlight = "replay" /\ failures < MaxFailures /\ pending = <<>>
  /\ failures' = failures + 1
  /\ Leave(Begin(FailReplay(c), "snapshot"))
  /\ tracker' = NoTracker /\ answer' = NoAnswer
  /\ UNCHANGED <<server, connection, welcomes, timers, pending, store>>

RetryTimer ==
  /\ timers > 0 /\ pending = <<>>
  /\ timers' = timers - 1
  /\ Leave(Begin(c, "replay"))
  /\ UNCHANGED <<env, tracker, answer, pending, store>>

Arrives ==
  SnapshotArrives \/ SnapshotFails \/ ReplayArrives \/ ReplayFails

Next ==
  \/ Commit \/ Publish \/ Subscribed \/ Drop \/ Answer
  \/ Flush \/ OnDomainEvent \/ Resubscribe \/ OnWelcome
  \/ Arrives \/ RetryTimer

Spec == Init /\ [][Next]_vars

\* Microtasks and timers run; a request is answered and the answer arrives, or
\* it fails.  Nothing is assumed of the live events, nor of the connection.
FairSpec ==
  /\ Spec
  /\ WF_vars(Flush) /\ WF_vars(Answer) /\ WF_vars(Arrives) /\ WF_vars(RetryTimer)
-----------------------------------------------------------------------------
Coordinators(k) ==
  [latest : 0..k, highest : 0..k, bootstrapped : BOOLEAN, pendingReplay : BOOLEAN,
   inFlight : {"none", "snapshot", "replay"}, replayStart : 0..k]

TypeOK ==
  /\ committed \in 0..MaxEvents /\ published \in 0..committed
  /\ channel \in {"opening", "live", "down"} /\ heard \in BOOLEAN
  /\ cursor \in 0..published
  /\ drops \in Nat /\ welcomes \in Nat /\ failures \in Nat
  /\ c \in Coordinators(committed)
  /\ tracker \in [attempts : Nat, latest : 0..committed, highest : 0..committed]
  /\ timers \in Nat
  /\ answer \in {NoAnswer} \cup 0..committed
  /\ pending \in {<<>>, <<c.latest + 1>>}
  /\ store \in [Events -> Nat]
  /\ gaveUp \in BOOLEAN

(***************************************************************************)
(* The client's store holds every event up to latestSequence once, and     *)
(* none after it: live events, replays and snapshots that overlap, arrive  *)
(* late or are retried leave no hole, apply no event a second time (a      *)
(* message's text would be appended twice) and take none back.             *)
(***************************************************************************)
StoreMatchesLatest ==
  store = [n \in Events |-> IF n <= c.latest THEN 1 ELSE 0]

(***************************************************************************)
(* When the client waits for nothing (no request, no timer, no pending     *)
(* event) it has applied everything it was ever told of, unless the last   *)
(* recovery was a snapshot that failed: what was deferred during any other *)
(* recovery is not forgotten when it ends.                                 *)
(***************************************************************************)
RestsInSync ==
  c.inFlight = "none" /\ timers = 0 /\ pending = <<>> /\ ~ gaveUp
    => c.bootstrapped /\ c.highest <= c.latest

(***************************************************************************)
(* What the two above rest on: at most the next event is pending, and the  *)
(* subscription will not deliver it again before it is applied; an answer  *)
(* in flight covers all that was applied since it was asked for, and all   *)
(* that was known at the last retry; a client that is not bootstrapped has *)
(* a snapshot on its way or has given up.                                  *)
(***************************************************************************)
RecoveryInv ==
  /\ TypeOK
  /\ pending # <<>> => heard /\ channel # "opening" /\ c.latest < cursor
  /\ c.inFlight = "none" => answer = NoAnswer
  /\ answer # NoAnswer => c.latest + Len(pending) <= answer /\ tracker.highest <= answer
  /\ c.inFlight = "replay" => c.bootstrapped /\ c.replayStart <= c.latest
  /\ c.bootstrapped \/ c.inFlight = "snapshot" \/ gaveUp
  /\ StoreMatchesLatest
  /\ c.inFlight = "none" /\ timers = 0 /\ ~ gaveUp => c.highest <= c.latest + Len(pending)

(***************************************************************************)
(* Every event the client was told of is applied in the end, or a snapshot *)
(* has failed: the retries of the replay neither go on for ever nor stop   *)
(* too early, and two recoveries do not wait for one another.              *)
(***************************************************************************)
ObservedIsApplied ==
  \A n \in 1..MaxEvents : [](n <= c.highest => <>(n <= c.latest \/ gaveUp))
=============================================================================
