------------------------ MODULE DomainEventSubscription ------------------------
(***************************************************************************)
(* The subscription of one client to the domain events (ws.ts): it reads   *)
(* where the read model is, replays what the store has after that, merges  *)
(* the replay with the live events of the engine's PubSub, and puts the    *)
(* merged events in order.  The engine commits, installs its read model    *)
(* and publishes between any two of these steps; an event that is          *)
(* published before the PubSub subscription begins is not received.  The   *)
(* engine is the one of OrchestrationEngine, seen through the sequence     *)
(* numbers of its events.                                                  *)
(***************************************************************************)
EXTENDS Integers, Sequences, FiniteSets, FiniteSetsExt

CONSTANTS MaxEvents,    \* bound: events committed
          ReplayMayFail

ASSUME SubscriptionAssumption ==
  MaxEvents \in Nat /\ ReplayMayFail \in BOOLEAN

VARIABLES
  appended,   \* the last event in the store
  projected,  \* snapshotSequence of the read model
  published,  \* the last event published
  phase,      \* of the subscription
  from,       \* fromSequenceExclusive
  replay,     \* events of replayStream still to come
  live,       \* events of streamDomainEvents still to come
  next,       \* nextSequence
  held,       \* pendingBySequence
  delivered,  \* what the client was sent
  window      \* the events published too early to be live and not in the replay

engine == <<appended, projected, published>>
subscriptionVars == <<engine, phase, from, replay, live, next, held, delivered, window>>

SubscriptionInit ==
  /\ appended = 0 /\ projected = 0 /\ published = 0
  /\ phase = "none"
  /\ from = 0
  /\ replay = <<>> /\ live = <<>>
  /\ next = 1 /\ held = {} /\ delivered = <<>>
  /\ window = {}

-----------------------------------------------------------------------------
(* The engine: a command's events are committed, installed, published. *)

Commit(n) ==
  /\ published = appended /\ appended + n <= MaxEvents
  /\ appended' = appended + n
  /\ UNCHANGED <<projected, published, phase, from, replay, live, next, held,
                 delivered, window>>

Install ==
  /\ projected < appended
  /\ projected' = appended
  /\ UNCHANGED <<appended, published, phase, from, replay, live, next, held,
                 delivered, window>>

Publish ==
  /\ published < projected
  /\ published' = published + 1
  /\ live' = IF phase = "live" THEN Append(live, published + 1) ELSE live
  /\ window' = IF phase \in {"snapshot", "replay"} THEN window \cup {published + 1} ELSE window
  /\ UNCHANGED <<appended, projected, phase, from, replay, next, held, delivered>>

-----------------------------------------------------------------------------
(* The subscription. *)

ReadModelSequence ==
  /\ phase = "none"
  /\ from' = projected
  /\ next' = projected + 1
  /\ phase' = "snapshot"
  /\ UNCHANGED <<engine, replay, live, held, delivered, window>>

\* A failure of the store is taken for an empty replay.
ReadReplay ==
  /\ phase = "snapshot"
  /\ \/ /\ replay' = [i \in 1..(appended - from) |-> from + i]
        /\ window' = {}
     \/ ReplayMayFail /\ UNCHANGED <<replay, window>>
  /\ phase' = "replay"
  /\ UNCHANGED <<engine, from, live, next, held, delivered>>

\* The merged stream runs: streamDomainEvents subscribes to the PubSub.
SubscribeLive ==
  /\ phase = "replay"
  /\ phase' = "live"
  /\ UNCHANGED <<engine, from, replay, live, next, held, delivered, window>>

\* Mutant of Resequence: what was delivered already is sent again.
ResequenceAgain(e) ==
  IF e > next
  THEN held' = held \cup {e} /\ UNCHANGED <<next, delivered>>
  ELSE /\ next' = e + 1
       /\ held' = held \ {e}
       /\ delivered' = Append(delivered, e)

\* Mutant of Resequence: an event does not bring those held for it.
ResequenceOne(e) ==
  IF e = next
  THEN /\ next' = next + 1
       /\ delivered' = Append(delivered, e)
       /\ UNCHANGED held
  ELSE /\ held' = IF e < next THEN held ELSE held \cup {e}
       /\ UNCHANGED <<next, delivered>>

\* Ref.modify: an event is dropped, held, or sent with all that follow it.
Resequence(e) ==
  IF e < next \/ e \in held
  THEN UNCHANGED <<next, held, delivered>>
  ELSE LET known == held \cup {e}
           gap   == Min({n \in next..(MaxEvents + 1) : n \notin known})
       IN  /\ next' = gap
           /\ held' = {n \in known : n > gap}
           /\ delivered' = delivered \o [i \in 1..(gap - next) |-> next + i - 1]

TakeReplay ==
  /\ phase \in {"replay", "live"} /\ replay # <<>>
  /\ replay' = Tail(replay)
  /\ Resequence(Head(replay))
  /\ UNCHANGED <<engine, phase, from, live, window>>

TakeLive ==
  /\ live # <<>>
  /\ live' = Tail(live)
  /\ Resequence(Head(live))
  /\ UNCHANGED <<engine, phase, from, replay, window>>

EngineStep == Install \/ Publish \/ \E n \in 1..2 : Commit(n)

SubscriptionStep ==
  ReadModelSequence \/ ReadReplay \/ SubscribeLive \/ TakeReplay \/ TakeLive

SubscriptionNext == EngineStep \/ SubscriptionStep

SubscriptionSpec == SubscriptionInit /\ [][SubscriptionNext]_subscriptionVars

\* The engine's worker and the fibers of the merged stream never stop.
FairSpec ==
  /\ SubscriptionSpec
  /\ WF_subscriptionVars(Install \/ Publish)
  /\ WF_subscriptionVars(SubscriptionStep)
-----------------------------------------------------------------------------
SubscriptionTypeOK ==
  /\ appended \in Nat /\ projected \in 0..appended /\ published \in 0..projected
  /\ phase \in {"none", "snapshot", "replay", "live"}
  /\ from \in 0..projected
  /\ replay \in Seq(Nat) /\ live \in Seq(Nat)
  /\ next \in Nat /\ held \subseteq Nat
  /\ delivered \in Seq(Nat)

(***************************************************************************)
(* The client is sent the events after the one its subscription began at,  *)
(* in order, each once, however replay and live events interleave, and     *)
(* never one that is not yet in the read model or in the store.            *)
(***************************************************************************)
DeliveredInOrder ==
  /\ delivered = [i \in 1..Len(delivered) |-> from + i]
  /\ from + Len(delivered) <= appended

(***************************************************************************)
(* Every event published after the subscription began is sent in the end,  *)
(* unless one before it was published between the read of the replay (or   *)
(* of the read model, when the replay fails) and the start of the live     *)
(* events: that one never arrives, and all that follow are held for it.    *)
(***************************************************************************)
DeliveredUnlessLost ==
  \A n \in 1..MaxEvents :
    [](phase # "none" /\ from < n /\ n <= published => <>(n < next \/ next \in window))

(***************************************************************************)
(* server.test.ts expects every event after the snapshot to be delivered,  *)
(* from the replay or live.                                                *)
(***************************************************************************)
EveryEventIsDelivered ==
  \A n \in 1..MaxEvents :
    [](phase # "none" /\ from < n /\ n <= published => <>(n < next))

-----------------------------------------------------------------------------
(***************************************************************************)
(* The inductive invariant of the order: nextSequence follows what was     *)
(* sent, and only events of the store are held or to come.                 *)
(***************************************************************************)
Stored(events) == \A i \in 1..Len(events) : events[i] \in 1..appended

SubscriptionInv ==
  /\ SubscriptionTypeOK
  /\ appended <= MaxEvents
  /\ phase = "none" => delivered = <<>> /\ held = {} /\ live = <<>> /\ replay = <<>>
  /\ next = from + Len(delivered) + 1 /\ next <= appended + 1
  /\ \A i \in 1..Len(delivered) : delivered[i] = from + i
  /\ held \subseteq 1..appended /\ Stored(replay) /\ Stored(live)
=============================================================================
