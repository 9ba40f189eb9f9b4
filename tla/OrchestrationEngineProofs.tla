----------------------- MODULE OrchestrationEngineProofs -----------------------
(***************************************************************************)
(* Proofs about the orchestration engine, for every set of commands, calls *)
(* and subscribers and every admissible set of faults: its inductive       *)
(* invariant, and that it implements the command log.  First come facts    *)
(* about the read models a log passes through, about the events the        *)
(* decider returns, and about the histories these events make.  ModelAt is *)
(* a recursive function; what it computes is established by induction,     *)
(* which needs a principle stated on sets.                                 *)
(***************************************************************************)
EXTENDS OrchestrationEngine, ThreadHistories, FiniteSetTheorems, SequenceTheorems, TLAPS

\* A set of naturals with 0 that is closed under successor is all of Nat: were
\* n missing, the missing numbers up to n would inject into those below n.
LEMMA SetNatInduction ==
  ASSUME NEW T \in SUBSET Nat, 0 \in T, \A n \in T : n + 1 \in T
  PROVE  T = Nat
<1> SUFFICES ASSUME NEW n \in Nat, n \notin T PROVE FALSE
  OBVIOUS
<1> DEFINE U == (0..n) \ T
           f == [x \in U |-> x - 1]
<1>1. \A x \in U : x # 0 /\ x \in Nat /\ x - 1 \in U \ {n}
  OBVIOUS
<1>2. IsFiniteSet(U) /\ IsFiniteSet(0..n)
  <2>1. IsFiniteSet(0..n)  BY FS_Interval
  <2>2. U \in SUBSET (0..n)  OBVIOUS
  <2> QED BY <2>1, <2>2, FS_Subset
<1>3. IsFiniteSet(U \ {n}) /\ Cardinality(U \ {n}) < Cardinality(U)
  <2>1. n \in U  OBVIOUS
  <2>2. Cardinality(U) \in Nat  BY <1>2, FS_CardinalityType
  <2> HIDE DEF U
  <2>3. /\ IsFiniteSet(U \ {n})
        /\ Cardinality(U \ {n}) = IF n \in U THEN Cardinality(U) - 1 ELSE Cardinality(U)
    BY <1>2, FS_RemoveElement
  <2> QED BY <2>1, <2>2, <2>3
<1>4. f \in [U -> U \ {n}]
  BY <1>1
<1>5. \E x, y \in U : x # y /\ f[x] = f[y]
  <2> HIDE DEF U, f
  <2> QED BY <1>2, <1>3, <1>4, FS_PigeonHole
<1> QED BY <1>1, <1>5

-----------------------------------------------------------------------------
\* g is the sequence of models of the first n events of l.
IsRun(g, l, n) ==
  g = [i \in 0..n |-> IF i = 0 THEN EmptyReadModel ELSE ProjectEvent(g[i - 1], l[i])]

LEMMA RunExists ==
  ASSUME NEW l, NEW n \in Nat
  PROVE  \E g : IsRun(g, l, n)
<1> DEFINE T == {m \in Nat : \E g : IsRun(g, l, m)}
<1>1. 0 \in T
  <2>1. IsRun([i \in 0..0 |-> EmptyReadModel], l, 0)
    BY DEF IsRun
  <2> QED BY <2>1
<1>2. ASSUME NEW m \in T PROVE m + 1 \in T
  <2>1. PICK g : IsRun(g, l, m)  OBVIOUS
  <2> DEFINE h == [i \in 0..(m + 1) |->
                     IF i = m + 1 THEN ProjectEvent(g[m], l[m + 1]) ELSE g[i]]
  <2>2. \A i \in 0..(m + 1) :
          h[i] = IF i = 0 THEN EmptyReadModel ELSE ProjectEvent(h[i - 1], l[i])
    BY <2>1 DEF IsRun
  <2>3. IsRun(h, l, m + 1)
    <3> HIDE DEF h
    <3>1. h = [i \in 0..(m + 1) |-> h[i]]  BY DEF h
    <3> QED BY <2>2, <3>1 DEF IsRun
  <2> QED BY <2>3
<1>3. T = Nat
  <2> HIDE DEF T
  <2>1. T \in SUBSET Nat BY DEF T
  <2> QED BY <1>1, <1>2, <2>1, SetNatInduction
<1> QED BY <1>3

\* g passes through the models of the first n events of l, and may go on.
Follows(g, l, n) ==
  /\ g[0] = EmptyReadModel
  /\ \A i \in 1..n : g[i] = ProjectEvent(g[i - 1], l[i])

\* Two runs over one sequence agree as far as both follow it.
LEMMA RunUnique ==
  ASSUME NEW l, NEW n \in Nat, NEW g, NEW h, Follows(g, l, n), Follows(h, l, n)
  PROVE  \A i \in 0..n : g[i] = h[i]
<1> DEFINE T == {m \in Nat : m <= n => g[m] = h[m]}
<1>1. 0 \in T
  BY DEF Follows
<1>2. ASSUME NEW m \in T PROVE m + 1 \in T
  <2> SUFFICES ASSUME m + 1 <= n PROVE g[m + 1] = h[m + 1]
    OBVIOUS
  <2>1. g[m] = h[m]
    OBVIOUS
  <2>2. m + 1 \in 1..n /\ (m + 1) - 1 = m
    OBVIOUS
  <2> HIDE DEF T
  <2>3. g[m + 1] = ProjectEvent(g[m], l[m + 1])
    BY <2>2 DEF Follows
  <2>4. h[m + 1] = ProjectEvent(h[m], l[m + 1])
    BY <2>2 DEF Follows
  <2> QED BY <2>1, <2>3, <2>4
<1>3. T = Nat
  <2> HIDE DEF T
  <2>1. T \in SUBSET Nat BY DEF T
  <2> QED BY <1>1, <1>2, <2>1, SetNatInduction
<1> QED BY <1>3

\* ModelAt(l) is the run of the whole of l.
LEMMA ModelAtIsRun ==
  ASSUME NEW S, NEW l \in Seq(S)
  PROVE  IsRun(ModelAt(l), l, Len(l))
<1>1. Len(l) \in Nat
  OBVIOUS
<1>2. \E g : IsRun(g, l, Len(l))
  BY <1>1, RunExists
<1> QED BY <1>2 DEF ModelAt, IsRun

LEMMA ModelAtEmpty ==
  ASSUME NEW S, NEW l \in Seq(S)
  PROVE  ModelAt(l)[0] = EmptyReadModel
BY ModelAtIsRun DEF IsRun

LEMMA ModelAtStep ==
  ASSUME NEW S, NEW l \in Seq(S), NEW n \in 1..Len(l)
  PROVE  ModelAt(l)[n] = ProjectEvent(ModelAt(l)[n - 1], l[n])
BY ModelAtIsRun DEF IsRun

\* Appending to a log changes none of the models it has passed through.
LEMMA ModelAtExtends ==
  ASSUME NEW S, NEW l \in Seq(S), NEW w \in Seq(S), NEW n \in 0..Len(l)
  PROVE  ModelAt(l \o w)[n] = ModelAt(l)[n]
<1> DEFINE m == Len(l)
           g == ModelAt(l)
           h == ModelAt(l \o w)
<1>1. m \in Nat /\ l \o w \in Seq(S)
  OBVIOUS
<1>2. \A i \in 1..m : (l \o w)[i] = l[i] /\ i \in 1..Len(l \o w)
  OBVIOUS
<1>3. Follows(g, l, m)
  BY ModelAtEmpty, ModelAtStep DEF Follows
<1>4. Follows(h, l, m)
  <2>1. h[0] = EmptyReadModel
    BY <1>1, ModelAtEmpty
  <2>2. ASSUME NEW i \in 1..m PROVE h[i] = ProjectEvent(h[i - 1], l[i])
    BY <1>1, <1>2, ModelAtStep
  <2> QED BY <2>1, <2>2 DEF Follows
<1>5. \A i \in 0..m : g[i] = h[i]
  <2> HIDE DEF m, g, h
  <2> QED BY <1>1, <1>3, <1>4, RunUnique
<1> QED BY <1>5

LEMMA ModelAfterAppend ==
  ASSUME NEW S, NEW l \in Seq(S), NEW e \in S
  PROVE  ModelAfter(Append(l, e)) = ProjectEvent(ModelAfter(l), e)
<1>1. Append(l, e) = l \o <<e>> /\ <<e>> \in Seq(S) /\ Append(l, e) \in Seq(S)
  OBVIOUS
<1>2. Len(Append(l, e)) = Len(l) + 1 /\ Append(l, e)[Len(l) + 1] = e
  OBVIOUS
<1>3. ModelAt(Append(l, e))[Len(l)] = ModelAt(l)[Len(l)]
  <2>1. Len(l) \in 0..Len(l)  OBVIOUS
  <2>2. ModelAt(l \o <<e>>)[Len(l)] = ModelAt(l)[Len(l)]
    BY <1>1, <2>1, ModelAtExtends
  <2> QED BY <1>1, <2>2
<1>4. ModelAt(Append(l, e))[Len(l) + 1] = ProjectEvent(ModelAt(Append(l, e))[Len(l)], e)
  <2>1. Len(l) + 1 \in 1..Len(Append(l, e)) /\ (Len(l) + 1) - 1 = Len(l)
    BY <1>2
  <2> QED BY <1>1, <1>2, <2>1, ModelAtStep
<1> QED BY <1>2, <1>3, <1>4 DEF ModelAfter

\* The snapshot sequence of a model is the number of events projected into it.
LEMMA ModelAtSequence ==
  ASSUME NEW S, NEW l \in Seq(S), \A i \in 1..Len(l) : l[i].sequence = i,
         NEW n \in 0..Len(l)
  PROVE  ModelAt(l)[n].snapshotSequence = n
<1>1. CASE n = 0
  BY <1>1, ModelAtEmpty DEF EmptyReadModel
<1>2. CASE n # 0
  <2>1. ModelAt(l)[n] = ProjectEvent(ModelAt(l)[n - 1], l[n])
    BY <1>2, ModelAtStep
  <2> QED BY <1>2, <2>1 DEF ProjectEvent
<1> QED BY <1>1, <1>2

-----------------------------------------------------------------------------
LEMMA EmptyReadModelType == EmptyReadModel \in ReadModels
BY DEF EmptyReadModel, ReadModels, ProjectStates

\* The decider returns at most two events, all of its command.
LEMMA DecideType ==
  ASSUME NEW c \in Commands, NEW m
  PROVE  /\ Decide(m, c) \in Seq(UnsavedEvent)
         /\ Len(Decide(m, c)) \in 0..2
         /\ Decide(m, c) # <<>> => Len(Decide(m, c)) = Len(EventTypesOf(c))
         /\ \A i \in 1..Len(Decide(m, c)) : Decide(m, c)[i].cmd = c
<1>1. c.type \in CommandTypes
  BY DeciderAssumption DEF CommandShape
<1>2. EventTypeOf(c.type) \in EventTypes /\ "thread.message-sent" \in EventTypes
  <2>1. EventTypeOf("thread.message.assistant.delta") = "thread.message-sent"
    BY DEF EventTypeOf
  <2>2. "thread.message.assistant.delta" \in CommandTypes
    BY DEF CommandTypes, PlainThreadCommands, TurnReports
  <2> QED BY <1>1, <2>1, <2>2 DEF EventTypes
<1>3. "thread.turn-start-requested" \in EventTypes
  BY DEF EventTypes
<1> DEFINE types == EventTypesOf(c)
<1>4. types \in Seq(EventTypes) /\ Len(types) \in 1..2
  BY <1>2, <1>3 DEF EventTypesOf
<1>5. Len(types) = 2 => c.type = "thread.turn.start"
  BY DEF EventTypesOf
<1> DEFINE events == [i \in 1..Len(types) |-> [type |-> types[i], cmd |-> c]]
<1>6. \A i \in 1..Len(types) : [type |-> types[i], cmd |-> c] \in UnsavedEvent
  <2>1. \A i \in 1..Len(types) : types[i] \in EventTypes
    BY <1>4
  <2>2. \A i \in 1..Len(types) : i = 1 \/ (i = 2 /\ c.type = "thread.turn.start")
    <3> DEFINE n == Len(types)
               starts == c.type = "thread.turn.start"
    <3>1. n \in 1..2 /\ (n = 2 => starts)
      BY <1>4, <1>5
    <3> HIDE DEF n, starts
    <3>2. \A i \in 1..n : i = 1 \/ (i = 2 /\ n = 2)
      BY <3>1
    <3>3. \A i \in 1..n : i = 1 \/ (i = 2 /\ starts)
      BY <3>1, <3>2
    <3> QED BY <3>3 DEF n, starts
  <2> QED BY <2>1, <2>2 DEF UnsavedEvent
<1>7. events \in Seq(UnsavedEvent) /\ Len(events) = Len(types)
      /\ \A i \in 1..Len(types) : events[i].cmd = c
  <2> HIDE DEF types
  <2> QED BY <1>4, <1>6
<1>8. Decide(m, c) = IF Accepts(m, c) THEN events ELSE <<>>
  BY DEF Decide
<1> HIDE DEF types, events
<1>9. types = EventTypesOf(c)
  BY DEF types
<1>10. CASE Accepts(m, c)
  <2>1. Decide(m, c) = events
    BY <1>8, <1>10
  <2>2. Len(Decide(m, c)) = Len(types) /\ Decide(m, c) \in Seq(UnsavedEvent)
    BY <1>7, <2>1
  <2>3. Len(types) \in 0..2 /\ Len(types) = Len(EventTypesOf(c))
    BY <1>4, <1>9
  <2>4. \A i \in 1..Len(Decide(m, c)) : Decide(m, c)[i].cmd = c
    BY <1>7, <2>1, <2>2
  <2> QED BY <2>2, <2>3, <2>4
<1>11. CASE ~ Accepts(m, c)
  <2>1. Decide(m, c) = <<>>
    BY <1>8, <1>11
  <2> QED BY <2>1
<1> QED BY <1>10, <1>11

LEMMA SavedType ==
  ASSUME NEW e \in UnsavedEvent, NEW n \in Nat
  PROVE  /\ Saved(e, n) \in Event
         /\ Saved(e, n).sequence = n
         /\ Saved(e, n).cmd = e.cmd
BY DEF Saved, Event, UnsavedEvent

\* Only the command that carries a plan (a turn) has the event that stores it.
LEMMA PayloadType ==
  ASSUME NEW e \in Event
  PROVE  /\ e.cmd \in Commands
         /\ e.sequence \in Nat
         /\ e.type = "thread.created" => e.cmd.thread \in Threads
         /\ e.type = "thread.proposed-plan-upserted" => e.cmd.plan \in Plans
         /\ e.type = "thread.turn-diff-completed" => e.cmd.turn \in Turns
<1> DEFINE c == e.cmd
<1>1. c \in Commands /\ c \in CommandShape /\ e.sequence \in Nat
  BY DeciderAssumption DEF Event
<1>2. \/ e.type = EventTypesOf(c)[1]
      \/ e.type = EventTypesOf(c)[2] /\ c.type = "thread.turn.start"
  BY DEF Event, UnsavedEvent
<1>3. e.type = EventTypeOf(c.type) \/ e.type \in {"thread.message-sent", "thread.turn-start-requested"}
  BY <1>2 DEF EventTypesOf
<1>4. e.type = "thread.created" => c.type = "thread.create"
  BY <1>3 DEF EventTypeOf
<1>5. e.type = "thread.proposed-plan-upserted" => c.type = "thread.proposed-plan.upsert"
  BY <1>3 DEF EventTypeOf
<1>6. e.type = "thread.turn-diff-completed" => c.type = "thread.turn.diff.complete"
  BY <1>3 DEF EventTypeOf
<1>7. c.type = "thread.create" => c.thread # None
  BY <1>1, DeciderAssumption DEF ProjectCommands
<1>8. c.type = "thread.proposed-plan.upsert" => c.plan # None
  BY <1>1, DeciderAssumption
<1>9. c.type = "thread.turn.diff.complete" => c.turn # None
  BY <1>1, DeciderAssumption
<1> QED BY <1>1, <1>4, <1>5, <1>6, <1>7, <1>8, <1>9 DEF CommandShape

LEMMA PatchThreadType ==
  ASSUME NEW e \in Event, NEW th \in Thread
  PROVE  PatchThread(th, e) \in Thread
<1>1. e.cmd \in CommandShape
  BY PayloadType, DeciderAssumption
<1>2. CASE e.type = "thread.proposed-plan-upserted"
  <2>1. [id |-> e.cmd.plan, turn |-> e.cmd.turn] \in Plan
    BY <1>1, <1>2, PayloadType DEF Plan, CommandShape
  <2>2. UpsertPlan(th, e.cmd) \in Thread
    BY <2>1 DEF UpsertPlan, Thread
  <2> QED BY <1>2, <2>2 DEF PatchThread
<1>3. CASE e.type = "thread.turn-diff-completed"
  <2>1. [turn |-> e.cmd.turn, count |-> e.cmd.count, captured |-> e.cmd.captured] \in Checkpoint
    BY <1>1, <1>3, PayloadType DEF Checkpoint, CommandShape
  <2>2. CompleteTurnDiff(th, e.cmd) \in Thread
    BY <2>1 DEF CompleteTurnDiff, Thread
  <2> QED BY <1>3, <2>2 DEF PatchThread
<1>4. CASE e.type = "thread.reverted"
  <2>1. Revert(th, e.cmd.count) \in Thread
    BY DEF Revert, Thread
  <2> QED BY <1>4, <2>1 DEF PatchThread
<1>5. CASE e.type \in {"thread.deleted", "thread.archived", "thread.unarchived"}
  BY <1>5 DEF PatchThread, Thread
<1> QED BY <1>2, <1>3, <1>4, <1>5 DEF PatchThread

\* Projecting an event yields a read model.
LEMMA ProjectEventType ==
  ASSUME NEW m \in ReadModels, NEW e \in Event
  PROVE  ProjectEvent(m, e) \in ReadModels
<1>1. e.cmd \in CommandShape /\ e.sequence \in Nat
  BY PayloadType, DeciderAssumption
<1>2. ProjectsAfter(m, e) \in [Projects -> ProjectStates]
  BY <1>1 DEF ProjectsAfter, ReadModels, ProjectStates, CommandShape
<1>3. ThreadsAfter(m, e) \in [Threads -> SUBSET Thread]
  <2>1. CASE e.type = "thread.created"
    <3>1. NewThread(e.cmd.project) \in Thread
      BY <1>1 DEF NewThread, Thread, CommandShape
    <3> QED BY <2>1, <3>1, PayloadType DEF ThreadsAfter, ReadModels
  <2>2. CASE e.type # "thread.created"
    <3>1. \A S \in SUBSET Thread : {PatchThread(th, e) : th \in S} \in SUBSET Thread
      BY PatchThreadType
    <3> QED BY <1>1, <2>2, <3>1 DEF ThreadsAfter, ReadModels, CommandShape
  <2> QED BY <2>1, <2>2
<1> QED BY <1>1, <1>2, <1>3 DEF ProjectEvent, ReadModels

-----------------------------------------------------------------------------
(***************************************************************************)
(* The histories of events.  What a thread of the read model holds is what *)
(* survives the history of the thread; known are the projects and threads  *)
(* with an event that founded or created them, of which there is one.      *)
(***************************************************************************)
PlanOf(e) == [id |-> e.cmd.plan, turn |-> e.cmd.turn]
CheckpointOf(e) == [turn |-> e.cmd.turn, count |-> e.cmd.count, captured |-> e.cmd.captured]

CurrentPlans(l, t) ==
  {PlanOf(l[u]) : u \in {v \in Upserts(l, t) : PlanSurvives(l, t, v, Len(l))}}
CurrentCheckpoints(l, t) ==
  {CheckpointOf(l[d]) : d \in {c \in Captures(l, t) : CheckpointSurvives(l, t, c, Len(l))}}

ProjectsFollow(l) ==
  \A p \in Projects :
    IF ModelAfter(l).projects[p] = "absent" THEN Foundations(l, p) = {}
    ELSE \E i \in 1..Len(l) : Foundations(l, p) = {i}

ThreadFollows(l, t) ==
  \/ ModelAfter(l).threads[t] = {} /\ \A i \in 1..Len(l) : l[i].cmd.thread # t
  \/ /\ \E i \in 1..Len(l) : Creations(l, t) = {i}
     /\ \E th \in Thread : /\ ModelAfter(l).threads[t] = {th}
                           /\ th.plans = CurrentPlans(l, t)
                           /\ th.checkpoints = CurrentCheckpoints(l, t)

CreatedFirst(l) ==
  \A i \in 1..Len(l) : l[i].cmd.thread # None =>
    \E n \in 1..i : \E p \in 1..(n - 1) :
       Creations(l, l[i].cmd.thread) = {n} /\ Foundations(l, l[n].cmd.project) = {p}

StartedFromSurvivors(l) ==
  \A i \in 1..Len(l) :
    (l[i].type = "thread.turn-start-requested" /\ l[i].cmd.plan # None) =>
       l[i].cmd.plan \in SurvivingPlans(l, l[i].cmd.source, i)

HistoryInv(l) ==
  /\ l \in Seq(Event)
  /\ ModelAfter(l) \in ReadModels
  /\ ProjectsFollow(l)
  /\ \A t \in Threads : ThreadFollows(l, t)
  /\ CreatedFirst(l)
  /\ StartedFromSurvivors(l)

(***************************************************************************)
(* What the decider has made sure of when an event is appended.            *)
(***************************************************************************)
Fits(m, e) ==
  /\ e.type = "project.created" => RequireProjectAbsent(m, e.cmd.project)
  /\ e.type = "thread.created" =>
       RequireThreadAbsent(m, e.cmd.thread) /\ RequireProject(m, e.cmd.project)
  /\ e.cmd.thread # None /\ e.type # "thread.created" => RequireThread(m, e.cmd.thread)
  /\ e.type = "thread.turn-start-requested" => SourcePlanUsable(m, e.cmd)

\* The events that matter to a history, and the commands they are of.
LEMMA EventOrigin ==
  ASSUME NEW e \in Event
  PROVE  /\ e.cmd \in Commands /\ e.cmd \in CommandShape
         /\ e.type = "project.created" => e.cmd.type = "project.create" /\ e.cmd.thread = None
         /\ e.type = "thread.created" => e.cmd.type = "thread.create" /\ e.cmd.thread \in Threads
         /\ e.type = "thread.proposed-plan-upserted" =>
              e.cmd.type = "thread.proposed-plan.upsert" /\ e.cmd.thread \in Threads
         /\ e.type = "thread.turn-diff-completed" =>
              e.cmd.type = "thread.turn.diff.complete" /\ e.cmd.thread \in Threads
         /\ e.type = "thread.reverted" => e.cmd.thread \in Threads
         /\ e.type = "thread.turn-start-requested" =>
              e.cmd.type = "thread.turn.start" /\ e.cmd.thread \in Threads
              /\ (e.cmd.plan # None => e.cmd.source \in Threads)
         /\ e.type \in {"project.meta-updated", "project.deleted"} => e.cmd.thread = None
<1> DEFINE c == e.cmd
<1>1. c \in Commands /\ c \in CommandShape /\ c.type \in CommandTypes
  BY DeciderAssumption DEF Event, CommandShape
<1>2. \/ e.type = EventTypesOf(c)[1]
      \/ e.type = EventTypesOf(c)[2] /\ c.type = "thread.turn.start"
  BY DEF Event, UnsavedEvent
<1>3. \/ e.type = EventTypeOf(c.type)
      \/ e.type = "thread.message-sent"
      \/ e.type = "thread.turn-start-requested" /\ c.type = "thread.turn.start"
  BY <1>2 DEF EventTypesOf
<1>4. EventTypeOf(c.type) # "thread.turn-start-requested"
  BY DEF EventTypeOf
<1>5. e.type = "thread.turn-start-requested" => c.type = "thread.turn.start"
  BY <1>3, <1>4
<1>6. /\ e.type = "project.created" => c.type = "project.create"
      /\ e.type = "thread.created" => c.type = "thread.create"
      /\ e.type = "thread.proposed-plan-upserted" => c.type = "thread.proposed-plan.upsert"
      /\ e.type = "thread.turn-diff-completed" => c.type = "thread.turn.diff.complete"
  BY <1>3 DEF EventTypeOf
<1>7. /\ e.type = "thread.reverted" => c.type = "thread.revert.complete"
      /\ e.type = "project.meta-updated" => c.type = "project.meta.update"
      /\ e.type = "project.deleted" => c.type = "project.delete"
  BY <1>3 DEF EventTypeOf
<1>8. /\ c.type \in ProjectCommands <=> c.thread = None
      /\ c.type = "thread.turn.start" => (c.plan = None <=> c.source = None)
      /\ c.thread \in Threads \cup {None} /\ c.source \in Threads \cup {None}
  BY <1>1, DeciderAssumption DEF CommandShape
<1> QED BY <1>1, <1>5, <1>6, <1>7, <1>8 DEF ProjectCommands

\* Where the events of a longer log are.
LEMMA OnAppend ==
  ASSUME NEW l \in Seq(Event), NEW e \in Event, NEW t, NEW type
  PROVE  On(Append(l, e), t, type) =
           On(l, t, type) \cup (IF e.cmd.thread = t /\ e.type = type THEN {Len(l) + 1} ELSE {})
<1>1. /\ Len(l) \in Nat /\ Len(Append(l, e)) = Len(l) + 1 /\ Append(l, e)[Len(l) + 1] = e
      /\ \A i \in 1..Len(l) : Append(l, e)[i] = l[i]
  OBVIOUS
<1>2. 1..Len(Append(l, e)) = 1..Len(l) \cup {Len(l) + 1}
  BY <1>1
<1> QED BY <1>1, <1>2 DEF On

LEMMA FoundationsAppend ==
  ASSUME NEW l \in Seq(Event), NEW e \in Event, NEW p
  PROVE  Foundations(Append(l, e), p) =
           Foundations(l, p) \cup (IF e.type = "project.created" /\ e.cmd.project = p
                                   THEN {Len(l) + 1} ELSE {})
<1>1. /\ Len(l) \in Nat /\ Len(Append(l, e)) = Len(l) + 1 /\ Append(l, e)[Len(l) + 1] = e
      /\ \A i \in 1..Len(l) : Append(l, e)[i] = l[i]
  OBVIOUS
<1>2. 1..Len(Append(l, e)) = 1..Len(l) \cup {Len(l) + 1}
  BY <1>1
<1> QED BY <1>1, <1>2 DEF Foundations

\* An event of thread t ends what the event d of a checkpoint stands for.
Undoes(t, e, d) == e.cmd.thread = t /\ e.type = "thread.reverted" /\ d.cmd.count > e.cmd.count
Replaces(t, e, d) == /\ e.cmd.thread = t /\ e.type = "thread.turn-diff-completed"
                     /\ e.cmd.turn = d.cmd.turn /\ (e.cmd.captured \/ ~ d.cmd.captured)

\* A checkpoint of a longer log is in force as before, unless the new event ends it.
LEMMA InForceAppend ==
  ASSUME NEW l \in Seq(Event), NEW e \in Event, NEW t, NEW d \in 1..Len(l)
  PROVE  /\ \A k \in 1..Len(l) : InForce(Append(l, e), t, d, k) <=> InForce(l, t, d, k)
         /\ InForce(Append(l, e), t, d, Len(l) + 1) <=>
              InForce(l, t, d, Len(l)) /\ ~ Undoes(t, e, l[d]) /\ ~ Replaces(t, e, l[d])
<1> DEFINE n == Len(l)
           w == Append(l, e)
<1>1. /\ n \in Nat /\ w[n + 1] = e /\ \A i \in 1..n : w[i] = l[i]
  OBVIOUS
<1>2. /\ Reverts(l, t) \subseteq 1..n /\ Captures(l, t) \subseteq 1..n
      /\ Reverts(w, t) = Reverts(l, t) \cup (IF e.cmd.thread = t /\ e.type = "thread.reverted"
                                             THEN {n + 1} ELSE {})
      /\ Captures(w, t) = Captures(l, t) \cup
            (IF e.cmd.thread = t /\ e.type = "thread.turn-diff-completed" THEN {n + 1} ELSE {})
  BY OnAppend DEF Reverts, Captures, On
<1> HIDE DEF n, w
<1>3. d \in 1..n  BY DEF n
<1>4. \A r \in Reverts(l, t) : r <= n /\ r <= n + 1 /\ w[r] = l[r]
  BY <1>1, <1>2
<1>5. \A v \in Captures(l, t) : v <= n /\ v <= n + 1 /\ w[v] = l[v]
  BY <1>1, <1>2
<1>6. w[d] = l[d] /\ d < n + 1 /\ n + 1 <= n + 1
  BY <1>1, <1>3
<1>7. ASSUME NEW k \in 1..n
      PROVE  InForce(w, t, d, k) <=> InForce(l, t, d, k)
  <2>1. ~ (n + 1 <= k)  BY <1>1
  <2>2. Reverted(w, t, d, k) <=> Reverted(l, t, d, k)
    BY <1>2, <1>4, <1>6, <2>1 DEF Reverted
  <2>3. Replaced(w, t, d, k) <=> Replaced(l, t, d, k)
    BY <1>2, <1>5, <1>6, <2>1 DEF Replaced
  <2> QED BY <2>2, <2>3 DEF InForce
<1>8. InForce(w, t, d, n + 1) <=>
        InForce(l, t, d, n) /\ ~ Undoes(t, e, l[d]) /\ ~ Replaces(t, e, l[d])
  <2>1. Reverted(w, t, d, n + 1) <=> Reverted(l, t, d, n) \/ Undoes(t, e, l[d])
    BY <1>1, <1>2, <1>4, <1>6 DEF Reverted, Undoes
  <2>2. Replaced(w, t, d, n + 1) <=> Replaced(l, t, d, n) \/ Replaces(t, e, l[d])
    BY <1>1, <1>2, <1>5, <1>6 DEF Replaced, Replaces
  <2> QED BY <2>1, <2>2 DEF InForce
<1> QED BY <1>7, <1>8 DEF n, w

LEMMA TooLateAppend ==
  ASSUME NEW l \in Seq(Event), NEW e \in Event, NEW t
  PROVE  /\ \A d \in 1..Len(l) : TooLate(Append(l, e), t, d) <=> TooLate(l, t, d)
         /\ e.cmd.thread = t /\ e.type = "thread.turn-diff-completed" =>
              (TooLate(Append(l, e), t, Len(l) + 1) <=>
                 /\ ~ e.cmd.captured
                 /\ \E c \in Captures(l, t) : /\ l[c].cmd.turn = e.cmd.turn /\ l[c].cmd.captured
                                              /\ InForce(l, t, c, Len(l)))
<1> DEFINE n == Len(l)
           w == Append(l, e)
<1>1. /\ n \in Nat /\ w[n + 1] = e /\ \A i \in 1..n : w[i] = l[i]
  OBVIOUS
<1>2. /\ Captures(l, t) \subseteq 1..n
      /\ Captures(w, t) = Captures(l, t) \cup
            (IF e.cmd.thread = t /\ e.type = "thread.turn-diff-completed" THEN {n + 1} ELSE {})
  BY OnAppend DEF Captures, On
<1>3. \A c \in 1..n : /\ \A k \in 1..n : InForce(w, t, c, k) <=> InForce(l, t, c, k)
                      /\ InForce(w, t, c, n + 1) <=>
                           InForce(l, t, c, n) /\ ~ Undoes(t, e, l[c]) /\ ~ Replaces(t, e, l[c])
  BY InForceAppend
<1> HIDE DEF n, w
<1>4. ASSUME NEW d \in 1..n PROVE TooLate(w, t, d) <=> TooLate(l, t, d)
  <2>1. w[d] = l[d] /\ ~ (n + 1 < d)  BY <1>1
  <2>2. \A c \in Captures(l, t) : /\ w[c] = l[c] /\ c \in Captures(w, t)
                                  /\ InForce(w, t, c, d) <=> InForce(l, t, c, d)
    BY <1>1, <1>2, <1>3
  <2>3. \A c \in Captures(w, t) : c < d => c \in Captures(l, t)
    BY <1>2, <2>1
  <2> QED BY <2>1, <2>2, <2>3 DEF TooLate
<1>5. ASSUME e.cmd.thread = t, e.type = "thread.turn-diff-completed"
      PROVE  TooLate(w, t, n + 1) <=>
               /\ ~ e.cmd.captured
               /\ \E c \in Captures(l, t) : /\ l[c].cmd.turn = e.cmd.turn /\ l[c].cmd.captured
                                            /\ InForce(l, t, c, n)
  <2>1. \A c \in Captures(l, t) : /\ w[c] = l[c] /\ c \in Captures(w, t) /\ c < n + 1
    BY <1>1, <1>2
  <2>2. \A c \in Captures(w, t) : c < n + 1 => c \in Captures(l, t)
    BY <1>1, <1>2
  <2>3. \A c \in Captures(l, t) : l[c].cmd.captured /\ ~ e.cmd.captured =>
           (InForce(w, t, c, n + 1) <=> InForce(l, t, c, n))
    <3>1. ~ \E c \in Captures(l, t) : Undoes(t, e, l[c])
      BY <1>5 DEF Undoes
    <3>2. \A c \in Captures(l, t) : l[c].cmd.captured /\ ~ e.cmd.captured => ~ Replaces(t, e, l[c])
      BY DEF Replaces
    <3> QED BY <1>2, <1>3, <3>1, <3>2
  <2> QED BY <1>1, <2>1, <2>2, <2>3 DEF TooLate
<1> QED BY <1>4, <1>5 DEF n, w

LEMMA CheckpointSurvivesAppend ==
  ASSUME NEW l \in Seq(Event), NEW e \in Event, NEW t, NEW d \in 1..Len(l)
  PROVE  /\ \A k \in 1..Len(l) :
              CheckpointSurvives(Append(l, e), t, d, k) <=> CheckpointSurvives(l, t, d, k)
         /\ CheckpointSurvives(Append(l, e), t, d, Len(l) + 1) <=>
              CheckpointSurvives(l, t, d, Len(l)) /\ ~ Undoes(t, e, l[d]) /\ ~ Replaces(t, e, l[d])
<1>1. /\ \A k \in 1..Len(l) : InForce(Append(l, e), t, d, k) <=> InForce(l, t, d, k)
      /\ InForce(Append(l, e), t, d, Len(l) + 1) <=>
           InForce(l, t, d, Len(l)) /\ ~ Undoes(t, e, l[d]) /\ ~ Replaces(t, e, l[d])
  BY InForceAppend
<1>2. TooLate(Append(l, e), t, d) <=> TooLate(l, t, d)
  BY TooLateAppend
<1> QED BY <1>1, <1>2 DEF CheckpointSurvives

LEMMA NewestInForce ==
  ASSUME NEW l \in Seq(Event), NEW t
  PROVE  InForce(l, t, Len(l), Len(l))
BY DEF InForce, Reverted, Replaced, Reverts, Captures, On

\* Of the checkpoints of a turn, a capture in force leaves no placeholder beside it.
LEMMA NoPlaceholderBeside ==
  ASSUME NEW l \in Seq(Event), NEW t, NEW c \in Captures(l, t), NEW d \in Captures(l, t),
         l[c].cmd.turn = l[d].cmd.turn, l[c].cmd.captured, InForce(l, t, c, Len(l)),
         CheckpointSurvives(l, t, d, Len(l))
  PROVE  l[d].cmd.captured
<1> SUFFICES ASSUME ~ l[d].cmd.captured PROVE FALSE
  OBVIOUS
<1>1. c \in 1..Len(l) /\ d \in 1..Len(l) /\ c # d /\ Len(l) \in Nat
  BY DEF Captures, On
<1>2. CASE c > d
  <2>1. Replaced(l, t, d, Len(l))
    BY <1>1, <1>2 DEF Replaced
  <2> QED BY <2>1 DEF CheckpointSurvives, InForce
<1>3. CASE c < d
  <2>1. InForce(l, t, c, d)
    <3>1. \A k : k <= d /\ k \in 1..Len(l) => k <= Len(l)
      BY <1>1
    <3>2. Reverts(l, t) \subseteq 1..Len(l) /\ Captures(l, t) \subseteq 1..Len(l)
      BY DEF Reverts, Captures, On
    <3> QED BY <3>1, <3>2 DEF InForce, Reverted, Replaced
  <2>2. TooLate(l, t, d)
    BY <1>3, <2>1 DEF TooLate
  <2> QED BY <2>2 DEF CheckpointSurvives
<1> QED BY <1>1, <1>2, <1>3

\* A plan of a longer log.
LEMMA PlanSurvivesAppend ==
  ASSUME NEW l \in Seq(Event), NEW e \in Event, NEW t, NEW u \in 1..Len(l)
  PROVE  /\ \A k \in 1..Len(l) : PlanSurvives(Append(l, e), t, u, k) <=> PlanSurvives(l, t, u, k)
         /\ PlanSurvives(Append(l, e), t, u, Len(l) + 1) <=>
              /\ PlanSurvives(l, t, u, Len(l))
              /\ e.cmd.thread = t /\ e.type = "thread.proposed-plan-upserted" =>
                   e.cmd.plan # l[u].cmd.plan
              /\ e.cmd.thread = t /\ e.type = "thread.reverted" =>
                   \/ l[u].cmd.turn = None
                   \/ \E d \in Captures(l, t) :
                        /\ l[d].cmd.turn = l[u].cmd.turn
                        /\ CheckpointSurvives(Append(l, e), t, d, Len(l) + 1)
<1> DEFINE n == Len(l)
           w == Append(l, e)
           Kept(x, r) == \/ x[u].cmd.turn = None
                         \/ \E d \in Captures(x, t) :
                              /\ d < r /\ x[d].cmd.turn = x[u].cmd.turn
                              /\ CheckpointSurvives(x, t, d, r)
<1>1. /\ n \in Nat /\ w[n + 1] = e /\ \A i \in 1..n : w[i] = l[i]
  OBVIOUS
<1>2. /\ Reverts(l, t) \subseteq 1..n /\ Upserts(l, t) \subseteq 1..n /\ Captures(l, t) \subseteq 1..n
      /\ Reverts(w, t) = Reverts(l, t) \cup (IF e.cmd.thread = t /\ e.type = "thread.reverted"
                                             THEN {n + 1} ELSE {})
      /\ Upserts(w, t) = Upserts(l, t) \cup
            (IF e.cmd.thread = t /\ e.type = "thread.proposed-plan-upserted" THEN {n + 1} ELSE {})
      /\ Captures(w, t) = Captures(l, t) \cup
            (IF e.cmd.thread = t /\ e.type = "thread.turn-diff-completed" THEN {n + 1} ELSE {})
  BY OnAppend DEF Reverts, Upserts, Captures, On
<1>3. \A d \in 1..n, k \in 1..n : CheckpointSurvives(w, t, d, k) <=> CheckpointSurvives(l, t, d, k)
  BY CheckpointSurvivesAppend
<1>4. u \in 1..n
  OBVIOUS
<1> HIDE DEF n, w
<1>5. ASSUME NEW r \in 1..n PROVE Kept(w, r) <=> Kept(l, r)
  <2>1. \A d \in Captures(w, t) : d < r => d \in Captures(l, t)
    BY <1>1, <1>2
  <2>2. \A d \in Captures(l, t) : d \in 1..n /\ w[d] = l[d] /\ d \in Captures(w, t)
    BY <1>1, <1>2
  <2>3. w[u] = l[u]
    BY <1>1, <1>4
  <2> QED BY <1>3, <2>1, <2>2, <2>3
<1>6. Kept(w, n + 1) <=> \/ l[u].cmd.turn = None
                         \/ \E d \in Captures(l, t) : /\ l[d].cmd.turn = l[u].cmd.turn
                                                      /\ CheckpointSurvives(w, t, d, n + 1)
  <2>1. \A d \in Captures(w, t) : d < n + 1 => d \in Captures(l, t)
    BY <1>1, <1>2
  <2>2. \A d \in Captures(l, t) : d < n + 1 /\ w[d] = l[d] /\ d \in Captures(w, t)
    BY <1>1, <1>2
  <2>3. w[u] = l[u]
    BY <1>1, <1>4
  <2> QED BY <2>1, <2>2, <2>3
<1>7. \A x, k : PlanSurvives(x, t, u, k) <=>
                  /\ \A v \in Upserts(x, t) : u < v /\ v <= k => x[v].cmd.plan # x[u].cmd.plan
                  /\ \A r \in Reverts(x, t) : u < r /\ r <= k => Kept(x, r)
  BY DEF PlanSurvives
<1> HIDE DEF Kept
<1>8. ASSUME NEW k \in 1..n PROVE PlanSurvives(w, t, u, k) <=> PlanSurvives(l, t, u, k)
  <2>1. \A r \in Reverts(w, t) : r <= k => r \in Reverts(l, t)
    BY <1>1, <1>2
  <2>2. \A r \in Reverts(l, t) : r \in 1..n /\ r \in Reverts(w, t)
    BY <1>2
  <2>3. \A v \in Upserts(w, t) : v <= k => v \in Upserts(l, t)
    BY <1>1, <1>2
  <2>4. \A v \in Upserts(l, t) : v \in Upserts(w, t) /\ w[v] = l[v]
    BY <1>1, <1>2
  <2>5. w[u] = l[u]
    BY <1>1, <1>4
  <2> QED BY <1>5, <1>7, <2>1, <2>2, <2>3, <2>4, <2>5
<1>9. PlanSurvives(w, t, u, n + 1) <=>
        /\ PlanSurvives(l, t, u, n)
        /\ e.cmd.thread = t /\ e.type = "thread.proposed-plan-upserted" => e.cmd.plan # l[u].cmd.plan
        /\ e.cmd.thread = t /\ e.type = "thread.reverted" => Kept(w, n + 1)
  <2>1. \A r \in Reverts(l, t) : r \in 1..n /\ r <= n /\ r <= n + 1
    BY <1>1, <1>2
  <2>2. \A v \in Upserts(l, t) : w[v] = l[v] /\ v <= n /\ v <= n + 1
    BY <1>1, <1>2
  <2>3. w[u] = l[u] /\ u < n + 1 /\ n + 1 <= n + 1
    BY <1>1, <1>4
  <2>4. (\A v \in Upserts(w, t) : u < v /\ v <= n + 1 => w[v].cmd.plan # w[u].cmd.plan) <=>
          /\ \A v \in Upserts(l, t) : u < v /\ v <= n => l[v].cmd.plan # l[u].cmd.plan
          /\ e.cmd.thread = t /\ e.type = "thread.proposed-plan-upserted" => e.cmd.plan # l[u].cmd.plan
    BY <1>1, <1>2, <2>2, <2>3
  <2>5. (\A r \in Reverts(w, t) : u < r /\ r <= n + 1 => Kept(w, r)) <=>
          /\ \A r \in Reverts(l, t) : u < r /\ r <= n => Kept(l, r)
          /\ e.cmd.thread = t /\ e.type = "thread.reverted" => Kept(w, n + 1)
    BY <1>2, <1>5, <2>1, <2>3
  <2> QED BY <1>7, <2>4, <2>5
<1> QED BY <1>6, <1>8, <1>9 DEF n, w

LEMMA NewPlanSurvives ==
  ASSUME NEW l \in Seq(Event), NEW t
  PROVE  PlanSurvives(l, t, Len(l), Len(l))
BY DEF PlanSurvives, Upserts, Reverts, On

\* The surviving plans up to a position do not depend on what comes after it.
LEMMA SurvivingPlansAppend ==
  ASSUME NEW l \in Seq(Event), NEW e \in Event, NEW t, NEW k \in 1..Len(l)
  PROVE  SurvivingPlans(Append(l, e), t, k) = SurvivingPlans(l, t, k)
<1> DEFINE n == Len(l)
           w == Append(l, e)
<1>1. /\ n \in Nat /\ \A i \in 1..n : w[i] = l[i]
  OBVIOUS
<1>2. /\ Upserts(l, t) \subseteq 1..n
      /\ Upserts(w, t) = Upserts(l, t) \cup
            (IF e.cmd.thread = t /\ e.type = "thread.proposed-plan-upserted" THEN {n + 1} ELSE {})
  BY OnAppend DEF Upserts, On
<1>3. \A u \in 1..n : PlanSurvives(w, t, u, k) <=> PlanSurvives(l, t, u, k)
  BY PlanSurvivesAppend
<1>4. k \in 1..n
  OBVIOUS
<1> HIDE DEF n, w
<1>5. \A v : v \in Upserts(w, t) /\ v <= k <=> v \in Upserts(l, t) /\ v <= k
  BY <1>1, <1>2, <1>4
<1>6. {v \in Upserts(w, t) : v <= k /\ PlanSurvives(w, t, v, k)}
        = {v \in Upserts(l, t) : v <= k /\ PlanSurvives(l, t, v, k)}
  BY <1>2, <1>3, <1>5
<1>7. \A v \in Upserts(l, t) : w[v] = l[v]
  BY <1>1, <1>2
<1> QED BY <1>6, <1>7 DEF SurvivingPlans, n, w

-----------------------------------------------------------------------------
\* The checkpoints and plans that survive a longer log.
LEMMA CurrentCheckpointsAppend ==
  ASSUME NEW l \in Seq(Event), NEW e \in Event, NEW t
  PROVE  LET old == CurrentCheckpoints(l, t)
             new == CurrentCheckpoints(Append(l, e), t)
             late == ~ e.cmd.captured /\ \E c \in old : c.turn = e.cmd.turn /\ c.captured
         IN /\ e.cmd.thread # t \/ e.type \notin {"thread.turn-diff-completed", "thread.reverted"}
                 => new = old
            /\ e.cmd.thread = t /\ e.type = "thread.turn-diff-completed" /\ late
                 => new = old
            /\ e.cmd.thread = t /\ e.type = "thread.turn-diff-completed" /\ ~ late
                 => \A x : x \in new <=> x = CheckpointOf(e) \/ (x \in old /\ x.turn # e.cmd.turn)
            /\ e.cmd.thread = t /\ e.type = "thread.reverted"
                 => \A x : x \in new <=> x \in old /\ x.count <= e.cmd.count
<1> DEFINE n == Len(l)
           w == Append(l, e)
           old == CurrentCheckpoints(l, t)
           new == CurrentCheckpoints(w, t)
           late == ~ e.cmd.captured /\ \E c \in old : c.turn = e.cmd.turn /\ c.captured
           OldOnes == {c \in Captures(l, t) : CheckpointSurvives(l, t, c, n)}
           NewOnes == {c \in Captures(w, t) : CheckpointSurvives(w, t, c, n + 1)}
<1>1. /\ n \in Nat /\ Len(w) = n + 1 /\ w[n + 1] = e /\ \A i \in 1..n : w[i] = l[i] /\ l[i] \in Event
      /\ w \in Seq(Event)
  OBVIOUS
<1>2. /\ Captures(l, t) \subseteq 1..n
      /\ Captures(w, t) = Captures(l, t) \cup
            (IF e.cmd.thread = t /\ e.type = "thread.turn-diff-completed" THEN {n + 1} ELSE {})
  BY OnAppend DEF Captures, On
<1>3. \A d \in 1..n :
        CheckpointSurvives(w, t, d, n + 1) <=>
          CheckpointSurvives(l, t, d, n) /\ ~ Undoes(t, e, l[d]) /\ ~ Replaces(t, e, l[d])
  BY CheckpointSurvivesAppend
<1>4. e.cmd.thread = t /\ e.type = "thread.turn-diff-completed" =>
        (CheckpointSurvives(w, t, n + 1, n + 1) <=>
           ~ (/\ ~ e.cmd.captured
              /\ \E c \in Captures(l, t) : /\ l[c].cmd.turn = e.cmd.turn /\ l[c].cmd.captured
                                           /\ InForce(l, t, c, n)))
  <2>1. InForce(w, t, n + 1, n + 1)
    BY <1>1, NewestInForce
  <2> QED BY <2>1, TooLateAppend DEF CheckpointSurvives
<1>5. /\ \A x : x \in old <=> \E d \in OldOnes : x = CheckpointOf(l[d])
      /\ \A x : x \in new <=> \E d \in NewOnes : x = CheckpointOf(w[d])
  BY <1>1 DEF CurrentCheckpoints
<1>p. \A c, d \in Captures(l, t) :
        /\ l[c].cmd.turn = l[d].cmd.turn /\ l[c].cmd.captured /\ InForce(l, t, c, n)
        /\ CheckpointSurvives(l, t, d, n)
        => l[d].cmd.captured
  BY NoPlaceholderBeside
<1>q. \A x : /\ CheckpointOf(x).turn = x.cmd.turn /\ CheckpointOf(x).count = x.cmd.count
             /\ CheckpointOf(x).captured = x.cmd.captured
  BY DEF CheckpointOf
<1>r. \A d \in Captures(l, t) : l[d].cmd.captured => ~ TooLate(l, t, d)
  BY DEF TooLate
<1>s. \A d \in 1..n : l[d].cmd.count \in Nat /\ e.cmd.count \in Nat
  BY <1>1, EventOrigin, ReadModelAssumption DEF CommandShape
<1> HIDE DEF n, w, old, new
<1>6. \A d \in OldOnes : d \in 1..n /\ d \in Captures(l, t) /\ w[d] = l[d] /\ CheckpointSurvives(l, t, d, n)
  BY <1>1, <1>2
<1>7. \A d : d \in NewOnes <=>
        \/ d \in OldOnes /\ ~ Undoes(t, e, l[d]) /\ ~ Replaces(t, e, l[d])
        \/ /\ d = n + 1 /\ e.cmd.thread = t /\ e.type = "thread.turn-diff-completed"
           /\ CheckpointSurvives(w, t, n + 1, n + 1)
  BY <1>1, <1>2, <1>3
\* A capture of the turn is current iff one of its events is in force.
<1>8. (\E c \in old : c.turn = e.cmd.turn /\ c.captured) <=>
        \E d \in Captures(l, t) : /\ l[d].cmd.turn = e.cmd.turn /\ l[d].cmd.captured
                                  /\ InForce(l, t, d, n)
  <2>1. ASSUME NEW c \in old, c.turn = e.cmd.turn, c.captured
        PROVE  \E d \in Captures(l, t) : /\ l[d].cmd.turn = e.cmd.turn /\ l[d].cmd.captured
                                         /\ InForce(l, t, d, n)
    <3>1. PICK d \in OldOnes : c = CheckpointOf(l[d])  BY <1>5
    <3>2. l[d].cmd.turn = e.cmd.turn /\ l[d].cmd.captured  BY <1>q, <2>1, <3>1
    <3> QED BY <1>6, <3>2 DEF CheckpointSurvives
  <2>2. ASSUME NEW d \in Captures(l, t), l[d].cmd.turn = e.cmd.turn, l[d].cmd.captured,
               InForce(l, t, d, n)
        PROVE  \E c \in old : c.turn = e.cmd.turn /\ c.captured
    <3>1. d \in OldOnes  BY <1>r, <2>2 DEF CheckpointSurvives
    <3>2. CheckpointOf(l[d]) \in old  BY <1>5, <3>1
    <3> QED BY <1>q, <2>2, <3>2
  <2> QED BY <2>1, <2>2
<1> HIDE DEF OldOnes, NewOnes
<1>9. CASE e.cmd.thread # t \/ e.type \notin {"thread.turn-diff-completed", "thread.reverted"}
  <2>1. \A d : d \in NewOnes <=> d \in OldOnes
    BY <1>7, <1>9 DEF Undoes, Replaces
  <2>2. \A x : x \in new <=> x \in old
    BY <1>5, <1>6, <2>1
  <2>3. new = old
    BY <2>2 DEF new, old, CurrentCheckpoints
  <2> QED BY <1>9, <2>3 DEF n, w, old, new
<1>10. CASE e.cmd.thread = t /\ e.type = "thread.turn-diff-completed"
  <2>1. CASE late
    <3>1. ~ CheckpointSurvives(w, t, n + 1, n + 1)
      BY <1>4, <1>8, <1>10, <2>1
    <3>2. \A d \in OldOnes : ~ Undoes(t, e, l[d]) /\ ~ Replaces(t, e, l[d])
      BY <1>6, <1>8, <1>10, <1>p, <2>1 DEF Undoes, Replaces
    <3>3. \A d : d \in NewOnes <=> d \in OldOnes
      BY <1>7, <3>1, <3>2
    <3>4. \A x : x \in new <=> x \in old
      BY <1>5, <1>6, <3>3
    <3>5. new = old
      BY <3>4 DEF new, old, CurrentCheckpoints
    <3> QED BY <1>10, <2>1, <3>5 DEF n, w, old, new
  <2>2. CASE ~ late
    <3>1. CheckpointSurvives(w, t, n + 1, n + 1)
      BY <1>4, <1>8, <1>10, <2>2
    <3>2. \A d \in OldOnes : ~ Undoes(t, e, l[d])
      BY <1>10 DEF Undoes
    <3>3. \A d \in OldOnes : Replaces(t, e, l[d]) <=> l[d].cmd.turn = e.cmd.turn
      <4>1. SUFFICES ASSUME NEW d \in OldOnes, l[d].cmd.turn = e.cmd.turn, ~ e.cmd.captured
                     PROVE  ~ l[d].cmd.captured
        BY <1>10 DEF Replaces
      <4>2. ~ \E c \in Captures(l, t) : /\ l[c].cmd.turn = e.cmd.turn /\ l[c].cmd.captured
                                        /\ InForce(l, t, c, n)
        BY <1>8, <2>2, <4>1
      <4> QED BY <1>6, <4>1, <4>2 DEF CheckpointSurvives
    <3>4. \A d : d \in NewOnes <=> d = n + 1 \/ (d \in OldOnes /\ l[d].cmd.turn # e.cmd.turn)
      BY <1>7, <1>10, <3>1, <3>2, <3>3
    <3>5. ASSUME NEW x \in new
          PROVE  x = CheckpointOf(e) \/ (x \in old /\ x.turn # e.cmd.turn)
      <4>1. PICK d \in NewOnes : x = CheckpointOf(w[d])  BY <1>5
      <4>2. CASE d = n + 1
        BY <1>1, <4>1, <4>2
      <4>3. CASE d \in OldOnes /\ l[d].cmd.turn # e.cmd.turn
        <5>1. x = CheckpointOf(l[d])  BY <1>6, <4>1, <4>3
        <5>2. x \in old  BY <1>5, <4>3, <5>1
        <5> QED BY <1>q, <4>3, <5>1, <5>2
      <4> QED BY <3>4, <4>1, <4>2, <4>3
    <3>6. CheckpointOf(e) \in new
      <4>1. n + 1 \in NewOnes /\ w[n + 1] = e  BY <1>1, <3>4
      <4> QED BY <1>5, <4>1
    <3>7. ASSUME NEW x \in old, x.turn # e.cmd.turn
          PROVE  x \in new
      <4>1. PICK d \in OldOnes : x = CheckpointOf(l[d])  BY <1>5
      <4>2. d \in NewOnes /\ w[d] = l[d]  BY <1>6, <1>q, <3>4, <3>7, <4>1
      <4> QED BY <1>5, <4>1, <4>2
    <3>8. \A x : x \in new <=> x = CheckpointOf(e) \/ (x \in old /\ x.turn # e.cmd.turn)
      BY ONLY <3>5, <3>6, <3>7
    <3> QED BY <1>10, <2>2, <3>8 DEF n, w, old, new
  <2> QED BY <2>1, <2>2
<1>11. CASE e.cmd.thread = t /\ e.type = "thread.reverted"
  <2>1. \A d \in OldOnes : (~ Undoes(t, e, l[d]) /\ ~ Replaces(t, e, l[d])) <=> l[d].cmd.count <= e.cmd.count
    BY <1>6, <1>11, <1>s DEF Undoes, Replaces
  <2>2. \A d : d \in NewOnes <=> d \in OldOnes /\ l[d].cmd.count <= e.cmd.count
    BY <1>7, <1>11, <2>1
  <2>3. ASSUME NEW x \in new PROVE x \in old /\ x.count <= e.cmd.count
    <3>1. PICK d \in NewOnes : x = CheckpointOf(w[d])  BY <1>5
    <3>2. d \in OldOnes /\ l[d].cmd.count <= e.cmd.count /\ w[d] = l[d]  BY <1>6, <2>2
    <3> QED BY <1>5, <1>q, <3>1, <3>2
  <2>4. ASSUME NEW x \in old, x.count <= e.cmd.count PROVE x \in new
    <3>1. PICK d \in OldOnes : x = CheckpointOf(l[d])  BY <1>5
    <3>2. d \in NewOnes /\ w[d] = l[d]  BY <1>6, <1>q, <2>2, <2>4, <3>1
    <3> QED BY <1>5, <3>1, <3>2
  <2>5. \A x : x \in new <=> x \in old /\ x.count <= e.cmd.count
    BY ONLY <2>3, <2>4
  <2> QED BY <1>11, <2>5 DEF n, w, old, new
<1> QED BY <1>9, <1>10, <1>11

LEMMA CurrentPlansAppend ==
  ASSUME NEW l \in Seq(Event), NEW e \in Event, NEW t
  PROVE  LET old == CurrentPlans(l, t)
             new == CurrentPlans(Append(l, e), t)
         IN /\ e.cmd.thread # t \/ e.type \notin {"thread.proposed-plan-upserted", "thread.reverted"}
                 => new = old
            /\ e.cmd.thread = t /\ e.type = "thread.proposed-plan-upserted"
                 => new = {p \in old : p.id # e.cmd.plan} \cup {PlanOf(e)}
            /\ e.cmd.thread = t /\ e.type = "thread.reverted"
                 => \A p : p \in new <=>
                             /\ p \in old
                             /\ \/ p.turn = None
                                \/ \E c \in CurrentCheckpoints(Append(l, e), t) : c.turn = p.turn
<1> DEFINE n == Len(l)
           w == Append(l, e)
           turns == {c.turn : c \in CurrentCheckpoints(w, t)}
           OldOnes == {u \in Upserts(l, t) : PlanSurvives(l, t, u, n)}
           NewOnes == {u \in Upserts(w, t) : PlanSurvives(w, t, u, n + 1)}
<1>1. /\ n \in Nat /\ Len(w) = n + 1 /\ w[n + 1] = e /\ \A i \in 1..n : w[i] = l[i]
      /\ w \in Seq(Event)
  OBVIOUS
<1>2. /\ Upserts(l, t) \subseteq 1..n /\ Captures(l, t) \subseteq 1..n
      /\ Upserts(w, t) = Upserts(l, t) \cup
            (IF e.cmd.thread = t /\ e.type = "thread.proposed-plan-upserted" THEN {n + 1} ELSE {})
      /\ Captures(w, t) = Captures(l, t) \cup
            (IF e.cmd.thread = t /\ e.type = "thread.turn-diff-completed" THEN {n + 1} ELSE {})
  BY OnAppend DEF Upserts, Captures, On
<1>3. \A u \in 1..n :
        PlanSurvives(w, t, u, n + 1) <=>
          /\ PlanSurvives(l, t, u, n)
          /\ e.cmd.thread = t /\ e.type = "thread.proposed-plan-upserted" => e.cmd.plan # l[u].cmd.plan
          /\ e.cmd.thread = t /\ e.type = "thread.reverted" =>
               \/ l[u].cmd.turn = None
               \/ \E d \in Captures(l, t) : /\ l[d].cmd.turn = l[u].cmd.turn
                                            /\ CheckpointSurvives(w, t, d, n + 1)
  BY PlanSurvivesAppend
<1>4. PlanSurvives(w, t, n + 1, n + 1)
  BY <1>1, NewPlanSurvives
<1>5. /\ CurrentPlans(l, t) = {PlanOf(l[u]) : u \in OldOnes}
      /\ CurrentPlans(w, t) = {PlanOf(w[u]) : u \in NewOnes}
  BY <1>1 DEF CurrentPlans
<1>6. turns = {w[d].cmd.turn : d \in {c \in Captures(w, t) : CheckpointSurvives(w, t, c, n + 1)}}
  <2>1. \A c : c \in CurrentCheckpoints(w, t) <=>
                  \E d \in Captures(w, t) : CheckpointSurvives(w, t, d, n + 1) /\ c = CheckpointOf(w[d])
    BY <1>1 DEF CurrentCheckpoints
  <2>2. \A x : CheckpointOf(x).turn = x.cmd.turn
    BY DEF CheckpointOf
  <2>3. \A x : x \in turns <=> \E c \in CurrentCheckpoints(w, t) : x = c.turn
    OBVIOUS
  <2> HIDE DEF turns
  <2>4. ASSUME NEW x \in turns
        PROVE  \E d \in Captures(w, t) : CheckpointSurvives(w, t, d, n + 1) /\ x = w[d].cmd.turn
    <3>1. PICK c \in CurrentCheckpoints(w, t) : x = c.turn  BY <2>3, <2>4
    <3>2. PICK d \in Captures(w, t) : CheckpointSurvives(w, t, d, n + 1) /\ c = CheckpointOf(w[d])
      BY <2>1, <3>1
    <3>3. x = w[d].cmd.turn  BY <2>2, <3>1, <3>2
    <3> QED BY <3>2, <3>3
  <2>5. ASSUME NEW d \in Captures(w, t), CheckpointSurvives(w, t, d, n + 1)
        PROVE  w[d].cmd.turn \in turns
    <3>1. CheckpointOf(w[d]) \in CurrentCheckpoints(w, t)  BY <2>1, <2>5
    <3>2. CheckpointOf(w[d]).turn = w[d].cmd.turn  BY <2>2
    <3> QED BY <2>3, <3>1, <3>2
  <2> QED BY <2>4, <2>5
<1> HIDE DEF n, w, turns
<1>7. \A u \in OldOnes : u \in 1..n /\ w[u] = l[u]
  BY <1>1, <1>2
<1>8. \A x : PlanOf(x).id = x.cmd.plan /\ PlanOf(x).turn = x.cmd.turn
  BY DEF PlanOf
<1>9. CASE e.cmd.thread # t \/ e.type \notin {"thread.proposed-plan-upserted", "thread.reverted"}
  <2>1. NewOnes = OldOnes  BY <1>2, <1>3, <1>9
  <2> HIDE DEF OldOnes, NewOnes
  <2> QED BY <1>5, <1>7, <1>9, <2>1 DEF n, w
<1>10. CASE e.cmd.thread = t /\ e.type = "thread.proposed-plan-upserted"
  <2>1. NewOnes = {u \in OldOnes : e.cmd.plan # l[u].cmd.plan} \cup {n + 1}
    BY <1>2, <1>3, <1>4, <1>10
  <2> HIDE DEF OldOnes, NewOnes
  <2>2. CurrentPlans(w, t) = {p \in CurrentPlans(l, t) : p.id # e.cmd.plan} \cup {PlanOf(e)}
    <3>1. \A p : p \in CurrentPlans(w, t) <=> \E u \in NewOnes : p = PlanOf(w[u])
      BY <1>5
    <3>2. \A p : p \in CurrentPlans(l, t) <=> \E u \in OldOnes : p = PlanOf(l[u])
      BY <1>5
    <3>3. \A u : u \in NewOnes <=> u = n + 1 \/ (u \in OldOnes /\ e.cmd.plan # l[u].cmd.plan)
      BY <2>1
    <3>4. w[n + 1] = e /\ \A u \in OldOnes : w[u] = l[u]  BY <1>1, <1>7
    <3>5. \A p : p \in CurrentPlans(w, t) =>
                   p = PlanOf(e) \/ (p \in CurrentPlans(l, t) /\ p.id # e.cmd.plan)
      BY ONLY <1>8, <3>1, <3>2, <3>3, <3>4
    <3>6. ASSUME NEW p, p = PlanOf(e) \/ (p \in CurrentPlans(l, t) /\ p.id # e.cmd.plan)
          PROVE  p \in CurrentPlans(w, t)
      <4>1. CASE p = PlanOf(e)
        <5>1. n + 1 \in NewOnes /\ p = PlanOf(w[n + 1])  BY <3>3, <3>4, <4>1
        <5> QED BY <3>1, <5>1
      <4>2. CASE p \in CurrentPlans(l, t) /\ p.id # e.cmd.plan
        <5>1. PICK u \in OldOnes : p = PlanOf(l[u])  BY <3>2, <4>2
        <5>2. u \in NewOnes /\ p = PlanOf(w[u])
          BY <1>8, <3>3, <3>4, <4>2, <5>1
        <5> QED BY <3>1, <5>2
      <4> QED BY <3>6, <4>1, <4>2
    <3> QED BY ONLY <3>5, <3>6
  <2> QED BY <1>10, <2>2 DEF n, w
<1>11. CASE e.cmd.thread = t /\ e.type = "thread.reverted"
  <2>1. \A u \in 1..n : l[u].cmd.turn \in turns <=>
           \E d \in Captures(l, t) : /\ l[d].cmd.turn = l[u].cmd.turn
                                     /\ CheckpointSurvives(w, t, d, n + 1)
    BY <1>1, <1>2, <1>6, <1>11
  <2>2. NewOnes = {u \in OldOnes : l[u].cmd.turn \in turns \cup {None}}
    BY <1>2, <1>3, <1>11, <2>1
  <2> HIDE DEF OldOnes, NewOnes
  <2>3. CurrentPlans(w, t) = {p \in CurrentPlans(l, t) : p.turn \in turns \cup {None}}
    BY <1>5, <1>7, <1>8, <2>2
  <2>4. \A x : x \in turns \cup {None} <=> x = None \/ \E c \in CurrentCheckpoints(w, t) : c.turn = x
    BY DEF turns
  <2>5. \A p : p \in CurrentPlans(w, t) <=>
                  /\ p \in CurrentPlans(l, t)
                  /\ p.turn = None \/ \E c \in CurrentCheckpoints(w, t) : c.turn = p.turn
    BY <2>3, <2>4
  <2> QED BY <1>11, <2>5 DEF n, w
<1> QED BY <1>9, <1>10, <1>11 DEF n, w

-----------------------------------------------------------------------------
\* The projects that are known.
LEMMA ProjectsFollowStep ==
  ASSUME NEW l \in Seq(Event), NEW e \in Event, ModelAfter(l) \in ReadModels,
         ProjectsFollow(l), Fits(ModelAfter(l), e)
  PROVE  ProjectsFollow(Append(l, e))
<1> DEFINE n == Len(l)
           w == Append(l, e)
           m == ModelAfter(l)
<1>1. ModelAfter(w) = ProjectEvent(m, e)
  BY ModelAfterAppend
<1>2. n \in Nat /\ Len(w) = n + 1
  OBVIOUS
<1>3. ASSUME NEW p \in Projects
      PROVE  IF ModelAfter(w).projects[p] = "absent" THEN Foundations(w, p) = {}
             ELSE \E i \in 1..Len(w) : Foundations(w, p) = {i}
  <2>1. ModelAfter(w).projects = ProjectsAfter(m, e)
    BY <1>1 DEF ProjectEvent
  <2>2. /\ m.projects \in [Projects -> ProjectStates] /\ e.cmd.project \in Projects
    BY EventOrigin DEF ReadModels, CommandShape
  <2>3. Foundations(w, p) = Foundations(l, p) \cup
           (IF e.type = "project.created" /\ e.cmd.project = p THEN {n + 1} ELSE {})
    BY FoundationsAppend
  <2>4. IF m.projects[p] = "absent" THEN Foundations(l, p) = {}
        ELSE \E i \in 1..Len(l) : Foundations(l, p) = {i}
    BY DEF ProjectsFollow
  <2> HIDE DEF n, w, m
  <2>5. \A i \in 1..Len(l) : i \in 1..Len(w)
    BY <1>2 DEF n
  <2>6. CASE e.type = "project.created" /\ e.cmd.project = p
    <3>1. ModelAfter(w).projects[p] = "live"
      BY <2>1, <2>2, <2>6 DEF ProjectsAfter
    <3>2. Foundations(l, p) = {}
      BY <2>4, <2>6 DEF Fits, RequireProjectAbsent, m
    <3> QED BY <1>2, <2>3, <2>6, <3>1, <3>2
  <2>7. CASE ~(e.type = "project.created" /\ e.cmd.project = p)
    <3>1. ModelAfter(w).projects[p] = "absent" <=> m.projects[p] = "absent"
      BY <2>1, <2>2, <2>7 DEF ProjectsAfter
    <3> QED BY <2>3, <2>4, <2>5, <2>7, <3>1
  <2> QED BY <2>6, <2>7
<1> QED BY <1>3 DEF ProjectsFollow

\* What a thread holds.
LEMMA ThreadFollowsStep ==
  ASSUME NEW l \in Seq(Event), NEW e \in Event, ModelAfter(l) \in ReadModels,
         NEW t \in Threads, ThreadFollows(l, t), Fits(ModelAfter(l), e)
  PROVE  ThreadFollows(Append(l, e), t)
<1> DEFINE n == Len(l)
           w == Append(l, e)
           m == ModelAfter(l)
<1>1. /\ n \in Nat /\ Len(w) = n + 1 /\ w[n + 1] = e /\ \A i \in 1..n : w[i] = l[i]
      /\ 1..Len(w) = 1..n \cup {n + 1} /\ w \in Seq(Event)
  OBVIOUS
<1>2. ModelAfter(w).threads = ThreadsAfter(m, e)
  <2>1. ModelAfter(w) = ProjectEvent(m, e)  BY ModelAfterAppend
  <2> QED BY <2>1 DEF ProjectEvent
<1>3. m.threads \in [Threads -> SUBSET Thread] /\ t \in Threads
  BY DEF ReadModels
<1>4. /\ Creations(w, t) = Creations(l, t) \cup
            (IF e.cmd.thread = t /\ e.type = "thread.created" THEN {n + 1} ELSE {})
      /\ Upserts(w, t) = Upserts(l, t) \cup
            (IF e.cmd.thread = t /\ e.type = "thread.proposed-plan-upserted" THEN {n + 1} ELSE {})
      /\ Captures(w, t) = Captures(l, t) \cup
            (IF e.cmd.thread = t /\ e.type = "thread.turn-diff-completed" THEN {n + 1} ELSE {})
  BY OnAppend DEF Creations, Upserts, Captures
<1>5. /\ e.type = "thread.created" => e.cmd.thread \in Threads
      /\ e.cmd.thread \in Threads \cup {None} /\ None \notin Threads
  BY EventOrigin, ReadModelAssumption DEF CommandShape
<1>6. \/ m.threads[t] = {} /\ \A i \in 1..n : l[i].cmd.thread # t
      \/ /\ \E i \in 1..n : Creations(l, t) = {i}
         /\ \E th \in Thread : /\ m.threads[t] = {th}
                               /\ th.plans = CurrentPlans(l, t)
                               /\ th.checkpoints = CurrentCheckpoints(l, t)
  BY DEF ThreadFollows
<1>7. LET old == CurrentCheckpoints(l, t)
          new == CurrentCheckpoints(w, t)
          late == ~ e.cmd.captured /\ \E c \in old : c.turn = e.cmd.turn /\ c.captured
      IN /\ e.cmd.thread # t \/ e.type \notin {"thread.turn-diff-completed", "thread.reverted"}
              => new = old
         /\ e.cmd.thread = t /\ e.type = "thread.turn-diff-completed" /\ late
              => new = old
         /\ e.cmd.thread = t /\ e.type = "thread.turn-diff-completed" /\ ~ late
              => \A x : x \in new <=> x = CheckpointOf(e) \/ (x \in old /\ x.turn # e.cmd.turn)
         /\ e.cmd.thread = t /\ e.type = "thread.reverted"
              => \A x : x \in new <=> x \in old /\ x.count <= e.cmd.count
  BY CurrentCheckpointsAppend
<1>8. /\ e.cmd.thread # t \/ e.type \notin {"thread.proposed-plan-upserted", "thread.reverted"}
           => CurrentPlans(w, t) = CurrentPlans(l, t)
      /\ e.cmd.thread = t /\ e.type = "thread.proposed-plan-upserted"
           => CurrentPlans(w, t) = {p \in CurrentPlans(l, t) : p.id # e.cmd.plan} \cup {PlanOf(e)}
      /\ e.cmd.thread = t /\ e.type = "thread.reverted"
           => \A p : p \in CurrentPlans(w, t) <=>
                       /\ p \in CurrentPlans(l, t)
                       /\ p.turn = None \/ \E c \in CurrentCheckpoints(w, t) : c.turn = p.turn
  BY CurrentPlansAppend
<1>c. \A c \in CurrentCheckpoints(l, t) : \E d \in Captures(l, t) : c = CheckpointOf(l[d])
  BY DEF CurrentCheckpoints
<1>f. Fits(m, e)
  OBVIOUS
<1> HIDE DEF n, w, m
<1>9. CASE e.type = "thread.created" /\ e.cmd.thread = t
  <2>1. m.threads[t] = {} /\ \A i \in 1..n : l[i].cmd.thread # t
    BY <1>6, <1>9, <1>f DEF Fits, RequireThreadAbsent
  <2>2. Creations(l, t) = {} /\ Upserts(l, t) = {} /\ Captures(l, t) = {}
    BY <2>1 DEF Creations, Upserts, Captures, On, n
  <2>3. CurrentPlans(w, t) = {} /\ CurrentCheckpoints(w, t) = {}
    BY <1>7, <1>8, <1>9, <2>2 DEF CurrentPlans, CurrentCheckpoints
  <2>4. ModelAfter(w).threads[t] = {NewThread(e.cmd.project)}
    BY <1>2, <1>3, <1>9 DEF ThreadsAfter
  <2>5. NewThread(e.cmd.project) \in Thread
    BY EventOrigin DEF NewThread, Thread, CommandShape
  <2>6. NewThread(e.cmd.project).plans = {} /\ NewThread(e.cmd.project).checkpoints = {}
    BY DEF NewThread
  <2>7. Creations(w, t) = {n + 1} /\ n + 1 \in 1..Len(w)
    BY <1>1, <1>4, <1>9, <2>2
  <2> QED BY <2>3, <2>4, <2>5, <2>6, <2>7 DEF ThreadFollows, w
<1>10. CASE e.cmd.thread # t
  <2>1. ModelAfter(w).threads[t] = m.threads[t]
    BY <1>2, <1>3, <1>5, <1>10 DEF ThreadsAfter
  <2>2. CurrentPlans(w, t) = CurrentPlans(l, t) /\ CurrentCheckpoints(w, t) = CurrentCheckpoints(l, t)
    BY <1>7, <1>8, <1>10
  <2>3. Creations(w, t) = Creations(l, t)
    BY <1>4, <1>10
  <2>4. (\A i \in 1..n : l[i].cmd.thread # t) => \A i \in 1..Len(w) : w[i].cmd.thread # t
    BY <1>1, <1>10
  <2>5. \A i \in 1..n : i \in 1..Len(w)
    BY <1>1
  <2> QED BY <1>6, <2>1, <2>2, <2>3, <2>4, <2>5 DEF ThreadFollows, n, w
<1>11. CASE e.cmd.thread = t /\ e.type # "thread.created"
  <2>1. m.threads[t] # {}
    BY <1>3, <1>5, <1>11, <1>f DEF Fits, RequireThread
  <2>2. PICK th \in Thread : /\ m.threads[t] = {th}
                             /\ th.plans = CurrentPlans(l, t)
                             /\ th.checkpoints = CurrentCheckpoints(l, t)
    BY <1>6, <2>1
  <2>3. \E i \in 1..Len(w) : Creations(w, t) = {i}
    BY <1>1, <1>4, <1>6, <1>11, <2>1
  <2>4. ModelAfter(w).threads[t] = {PatchThread(th, e)}
    BY <1>2, <1>3, <1>5, <1>11, <2>2 DEF ThreadsAfter
  <2>5. PatchThread(th, e) \in Thread
    BY PatchThreadType
  <2>6. /\ PatchThread(th, e).plans = CurrentPlans(w, t)
        /\ PatchThread(th, e).checkpoints = CurrentCheckpoints(w, t)
    <3>1. CASE e.type = "thread.proposed-plan-upserted"
      <4>1. PatchThread(th, e) = UpsertPlan(th, e.cmd)  BY <3>1 DEF PatchThread
      <4>2. UpsertPlan(th, e.cmd).checkpoints = th.checkpoints
        BY DEF UpsertPlan, Thread
      <4>3. UpsertPlan(th, e.cmd).plans = {p \in th.plans : p.id # e.cmd.plan} \cup {PlanOf(e)}
        BY DEF UpsertPlan, Thread, PlanOf
      <4> QED BY <1>7, <1>8, <1>11, <2>2, <3>1, <4>1, <4>2, <4>3
    <3>2. CASE e.type = "thread.turn-diff-completed"
      <4>1. PatchThread(th, e) = CompleteTurnDiff(th, e.cmd)  BY <3>2 DEF PatchThread
      <4>2. CompleteTurnDiff(th, e.cmd).plans = th.plans
        BY DEF CompleteTurnDiff, Thread
      <4>3. CompleteTurnDiff(th, e.cmd).checkpoints =
               IF ~ e.cmd.captured /\ \E c \in th.checkpoints : c.turn = e.cmd.turn /\ c.captured
               THEN th.checkpoints
               ELSE {c \in th.checkpoints : c.turn # e.cmd.turn} \cup {CheckpointOf(e)}
        BY DEF CompleteTurnDiff, Thread, CheckpointOf
      <4>4. CompleteTurnDiff(th, e.cmd).checkpoints = CurrentCheckpoints(w, t)
        BY <1>7, <1>11, <2>2, <3>2, <4>3
      <4> QED BY <1>8, <1>11, <2>2, <3>2, <4>1, <4>2, <4>4
    <3>3. CASE e.type = "thread.reverted"
      <4>1. PatchThread(th, e) = Revert(th, e.cmd.count)  BY <3>3 DEF PatchThread
      <4>2. Revert(th, e.cmd.count).checkpoints = {c \in th.checkpoints : c.count <= e.cmd.count}
        BY DEF Revert, Thread
      <4>3. Revert(th, e.cmd.count).plans =
              {p \in th.plans :
                 p.turn \in {c.turn : c \in {x \in th.checkpoints : x.count <= e.cmd.count}} \cup {None}}
        BY DEF Revert, Thread
      <4>4. CurrentCheckpoints(w, t) = {c \in th.checkpoints : c.count <= e.cmd.count}
        BY <1>7, <1>11, <2>2, <3>3
      <4>5. \A p : p \in CurrentPlans(w, t) <=>
                      /\ p \in th.plans
                      /\ p.turn = None \/ \E c \in CurrentCheckpoints(w, t) : c.turn = p.turn
        BY <1>8, <1>11, <2>2, <3>3
      <4>6. \A x : x \in {c.turn : c \in CurrentCheckpoints(w, t)} \cup {None}
                     <=> x = None \/ \E c \in CurrentCheckpoints(w, t) : c.turn = x
        OBVIOUS
      <4> QED BY <4>1, <4>2, <4>3, <4>4, <4>5, <4>6
    <3>4. CASE e.type \notin {"thread.proposed-plan-upserted", "thread.turn-diff-completed",
                              "thread.reverted"}
      <4>1. PatchThread(th, e).plans = th.plans /\ PatchThread(th, e).checkpoints = th.checkpoints
        BY <3>4 DEF PatchThread, Thread
      <4> QED BY <1>7, <1>8, <2>2, <3>4, <4>1
    <3> QED BY <3>1, <3>2, <3>3, <3>4
  <2> QED BY <2>3, <2>4, <2>5, <2>6 DEF ThreadFollows, w
<1> QED BY <1>5, <1>9, <1>10, <1>11 DEF w

-----------------------------------------------------------------------------
LEMMA CreatedFirstStep ==
  ASSUME NEW l \in Seq(Event), NEW e \in Event, ModelAfter(l) \in ReadModels,
         ProjectsFollow(l), \A t \in Threads : ThreadFollows(l, t), CreatedFirst(l),
         Fits(ModelAfter(l), e)
  PROVE  CreatedFirst(Append(l, e))
<1> DEFINE n == Len(l)
           w == Append(l, e)
           m == ModelAfter(l)
<1>1. /\ n \in Nat /\ Len(w) = n + 1 /\ w[n + 1] = e /\ \A i \in 1..n : w[i] = l[i] /\ l[i] \in Event
  OBVIOUS
<1>2. \A t : Creations(w, t) = Creations(l, t) \cup
            (IF e.cmd.thread = t /\ e.type = "thread.created" THEN {n + 1} ELSE {})
  BY OnAppend DEF Creations
<1>3. \A p : Foundations(w, p) = Foundations(l, p) \cup
            (IF e.type = "project.created" /\ e.cmd.project = p THEN {n + 1} ELSE {})
  BY FoundationsAppend
<1>4. \A p \in Projects :
        IF m.projects[p] = "absent" THEN Foundations(l, p) = {}
        ELSE \E i \in 1..n : Foundations(l, p) = {i}
  BY DEF ProjectsFollow
<1>5. \A t \in Threads :
        \/ m.threads[t] = {} /\ \A i \in 1..n : l[i].cmd.thread # t
        \/ m.threads[t] # {} /\ \E i \in 1..n : Creations(l, t) = {i}
  <2>1. ASSUME NEW t \in Threads, NEW th, m.threads[t] = {th} PROVE m.threads[t] # {}
    BY <2>1
  <2> QED BY <2>1 DEF ThreadFollows
<1>6. \A i \in 1..n : l[i].cmd.thread # None =>
         \E k \in 1..i : \E p \in 1..(k - 1) :
            Creations(l, l[i].cmd.thread) = {k} /\ Foundations(l, l[k].cmd.project) = {p}
  BY DEF CreatedFirst
<1>7. \A x \in Event : /\ x.cmd.thread \in Threads \cup {None} /\ x.cmd.project \in Projects
                       /\ x.type = "thread.created" => x.cmd.thread \in Threads
                       /\ x.type = "project.created" => x.cmd.thread = None
  BY EventOrigin DEF CommandShape
<1>f. Fits(m, e)
  OBVIOUS
<1>u. \A k : \A t : k \in Creations(l, t) => k \in 1..n /\ l[k].cmd.thread = t
  BY DEF Creations, On
<1>v. \A k : \A p : k \in Foundations(l, p) => k \in 1..n
  BY DEF Foundations
<1> HIDE DEF n, w, m
<1>8. ASSUME NEW i \in 1..n, w[i].cmd.thread # None
      PROVE  \E k \in 1..i : \E p \in 1..(k - 1) :
                Creations(w, w[i].cmd.thread) = {k} /\ Foundations(w, w[k].cmd.project) = {p}
  <2> DEFINE t == l[i].cmd.thread
  <2>1. w[i] = l[i] /\ t \in Threads
    BY <1>1, <1>7, <1>8
  <2>a. PICK k \in 1..i : \E p \in 1..(k - 1) :
           Creations(l, t) = {k} /\ Foundations(l, l[k].cmd.project) = {p}
    BY <1>6, <1>8, <2>1
  <2>2. PICK p \in 1..(k - 1) : Creations(l, t) = {k} /\ Foundations(l, l[k].cmd.project) = {p}
    BY <2>a
  <2>3. w[k] = l[k] /\ k \in 1..n /\ l[k] \in Event
    BY <1>1, <1>u, <2>2
  <2>4. m.threads[t] # {}
    BY <1>5, <2>1
  <2>5. ~(e.type = "thread.created" /\ e.cmd.thread = t)
    BY <1>f, <2>4 DEF Fits, RequireThreadAbsent
  <2>6. ~(e.type = "project.created" /\ e.cmd.project = l[k].cmd.project)
    <3>1. l[k].cmd.project \in Projects  BY <1>7, <2>3
    <3>2. m.projects[l[k].cmd.project] # "absent"  BY <1>4, <2>2, <3>1
    <3> QED BY <1>f, <3>2 DEF Fits, RequireProjectAbsent
  <2>7. Creations(w, t) = {k} /\ Foundations(w, w[k].cmd.project) = {p}
    BY <1>2, <1>3, <2>2, <2>3, <2>5, <2>6
  <2> QED BY <2>1, <2>7
<1>9. ASSUME e.cmd.thread # None
      PROVE  \E k \in 1..(n + 1) : \E p \in 1..(k - 1) :
                Creations(w, e.cmd.thread) = {k} /\ Foundations(w, w[k].cmd.project) = {p}
  <2>1. e.cmd.thread \in Threads /\ e.type # "project.created"
    BY <1>7, <1>9
  <2>2. CASE e.type = "thread.created"
    <3>1. Creations(l, e.cmd.thread) = {}
      <4>1. m.threads[e.cmd.thread] = {}
        BY <1>f, <2>2 DEF Fits, RequireThreadAbsent
      <4>2. \A i \in 1..n : l[i].cmd.thread # e.cmd.thread
        BY <1>5, <2>1, <4>1
      <4> QED BY <1>u, <4>2
    <3>2. PICK p \in 1..n : Foundations(l, e.cmd.project) = {p}
      BY <1>4, <1>7, <1>f, <2>2 DEF Fits, RequireProject
    <3>3. Creations(w, e.cmd.thread) = {n + 1} /\ Foundations(w, w[n + 1].cmd.project) = {p}
      BY <1>1, <1>2, <1>3, <2>1, <2>2, <3>1, <3>2
    <3>4. n + 1 \in 1..(n + 1) /\ p \in 1..((n + 1) - 1)
      BY <1>1
    <3> QED BY <3>3, <3>4
  <2>3. CASE e.type # "thread.created"
    <3>1. m.threads[e.cmd.thread] # {}
      BY <1>9, <1>f, <2>3 DEF Fits, RequireThread
    <3>2. PICK i \in 1..n : Creations(l, e.cmd.thread) = {i}
      BY <1>5, <2>1, <3>1
    <3>3. l[i].cmd.thread = e.cmd.thread /\ w[i] = l[i]
      BY <1>1, <1>u, <3>2
    <3>4. \E k \in 1..i : \E p \in 1..(k - 1) :
             Creations(w, e.cmd.thread) = {k} /\ Foundations(w, w[k].cmd.project) = {p}
      BY <1>8, <1>9, <3>3
    <3>5. \A k \in 1..i : k \in 1..(n + 1)
      BY <1>1
    <3> QED BY <3>4, <3>5
  <2> QED BY <2>2, <2>3
<1>10. \A i \in 1..Len(w) : i \in 1..n \/ (i = n + 1 /\ w[i] = e)
  BY <1>1
<1> QED BY <1>8, <1>9, <1>10 DEF CreatedFirst, w

\* The plans of a thread are those that survive.
LEMMA PlansSurvive ==
  ASSUME NEW l \in Seq(Event), NEW t \in Threads
  PROVE  {p.id : p \in CurrentPlans(l, t)} = SurvivingPlans(l, t, Len(l))
<1> DEFINE n == Len(l)
           ids == {p.id : p \in CurrentPlans(l, t)}
<1>1. \A x : PlanOf(x).id = x.cmd.plan
  BY DEF PlanOf
<1>2. \A u \in Upserts(l, t) : u <= n
  BY DEF Upserts, On
<1>3. \A p : p \in CurrentPlans(l, t) <=>
               \E u \in Upserts(l, t) : PlanSurvives(l, t, u, n) /\ p = PlanOf(l[u])
  BY DEF CurrentPlans
<1>4. \A x : x \in SurvivingPlans(l, t, n) <=>
               \E u \in Upserts(l, t) : u <= n /\ PlanSurvives(l, t, u, n) /\ x = l[u].cmd.plan
  BY DEF SurvivingPlans
<1>5. \A x : x \in ids <=> \E p \in CurrentPlans(l, t) : x = p.id
  OBVIOUS
<1> HIDE DEF n, ids
<1>6. ASSUME NEW x \in ids PROVE x \in SurvivingPlans(l, t, n)
  <2>1. PICK p \in CurrentPlans(l, t) : x = p.id  BY <1>5, <1>6
  <2>2. PICK u \in Upserts(l, t) : PlanSurvives(l, t, u, n) /\ p = PlanOf(l[u])  BY <1>3, <2>1
  <2> QED BY <1>1, <1>2, <1>4, <2>1, <2>2
<1>7. ASSUME NEW x \in SurvivingPlans(l, t, n) PROVE x \in ids
  <2>1. PICK u \in Upserts(l, t) : PlanSurvives(l, t, u, n) /\ x = l[u].cmd.plan  BY <1>4, <1>7
  <2>2. PlanOf(l[u]) \in CurrentPlans(l, t) /\ PlanOf(l[u]).id = x  BY <1>1, <1>3, <2>1
  <2> QED BY <1>5, <2>2
<1> QED BY <1>6, <1>7 DEF n, ids

LEMMA StartedStep ==
  ASSUME NEW l \in Seq(Event), NEW e \in Event, ModelAfter(l) \in ReadModels,
         \A t \in Threads : ThreadFollows(l, t), StartedFromSurvivors(l), Fits(ModelAfter(l), e)
  PROVE  StartedFromSurvivors(Append(l, e))
<1> DEFINE n == Len(l)
           w == Append(l, e)
           m == ModelAfter(l)
<1>1. /\ n \in Nat /\ Len(w) = n + 1 /\ w[n + 1] = e /\ \A i \in 1..n : w[i] = l[i]
      /\ w \in Seq(Event)
  OBVIOUS
<1>2. \A k \in 1..n : \A t : SurvivingPlans(w, t, k) = SurvivingPlans(l, t, k)
  BY SurvivingPlansAppend
<1>3. ASSUME e.type = "thread.turn-start-requested", e.cmd.plan # None
      PROVE  e.cmd.plan \in SurvivingPlans(w, e.cmd.source, n + 1)
  <2> DEFINE t == e.cmd.source
  <2>1. t \in Threads
    BY <1>3, EventOrigin
  <2>2. PICK source \in m.threads[t] : \E p \in source.plans : p.id = e.cmd.plan
    BY <1>3 DEF Fits, SourcePlanUsable
  <2>3. source.plans = CurrentPlans(l, t)
    BY <2>1, <2>2 DEF ThreadFollows
  <2>4. CurrentPlans(w, t) = CurrentPlans(l, t)
    BY <1>3, CurrentPlansAppend
  <2>5. e.cmd.plan \in {p.id : p \in CurrentPlans(w, t)}
    BY <2>2, <2>3, <2>4
  <2> QED BY <1>1, <2>1, <2>5, PlansSurvive
<1> HIDE DEF n, w, m
<1>4. \A i \in 1..Len(w) : (i \in 1..n /\ w[i] = l[i]) \/ (i = n + 1 /\ w[i] = e)
  BY <1>1
<1>5. \A i \in 1..n : l[i].type = "thread.turn-start-requested" /\ l[i].cmd.plan # None =>
                        l[i].cmd.plan \in SurvivingPlans(l, l[i].cmd.source, i)
  BY DEF StartedFromSurvivors, n
<1> QED BY <1>2, <1>3, <1>4, <1>5 DEF StartedFromSurvivors, w

\* An event that fits is appended.
LEMMA HistoryAppend ==
  ASSUME NEW l, HistoryInv(l), NEW e \in Event, Fits(ModelAfter(l), e)
  PROVE  HistoryInv(Append(l, e))
<1>1. l \in Seq(Event) /\ Append(l, e) \in Seq(Event)
  BY DEF HistoryInv
<1>2. ModelAfter(Append(l, e)) \in ReadModels
  BY <1>1, ModelAfterAppend, ProjectEventType DEF HistoryInv
<1> QED BY <1>1, <1>2, ProjectsFollowStep, ThreadFollowsStep, CreatedFirstStep, StartedStep
        DEF HistoryInv

LEMMA EmptyHistory == HistoryInv(<<>>)
<1>1. <<>> \in Seq(Event) /\ Len(<<>>) = 0 /\ 1..0 = {}
  OBVIOUS
<1>2. ModelAfter(<<>>) = EmptyReadModel
  BY <1>1, ModelAtEmpty DEF ModelAfter
<1>3. /\ \A p \in Projects : EmptyReadModel.projects[p] = "absent"
      /\ \A t \in Threads : EmptyReadModel.threads[t] = {}
  BY DEF EmptyReadModel
<1>4. \A p : Foundations(<<>>, p) = {}
  BY <1>1 DEF Foundations
<1> QED BY <1>1, <1>2, <1>3, <1>4, EmptyReadModelType
        DEF HistoryInv, ProjectsFollow, ThreadFollows, CreatedFirst, StartedFromSurvivors

LEMMA AppendTwo ==
  ASSUME NEW l \in Seq(Event), NEW x \in Event, NEW y \in Event
  PROVE  l \o <<x, y>> = Append(Append(l, x), y)
OBVIOUS

(***************************************************************************)
(* A command that is accepted on the state of the log leaves a history of  *)
(* the same kind: each of its events fits when its turn comes.             *)
(***************************************************************************)
LEMMA HistoryStep ==
  ASSUME NEW l, HistoryInv(l), NEW c \in Commands, EventsAfter(l, c) # <<>>
  PROVE  HistoryInv(l \o EventsAfter(l, c))
<1> DEFINE m == ModelAfter(l)
           n == Len(l)
           events == Decide(m, c)
           types == EventTypesOf(c)
<1>1. l \in Seq(Event) /\ n \in Nat /\ m \in ReadModels
  BY DEF HistoryInv
<1>2. /\ events \in Seq(UnsavedEvent) /\ Len(events) \in 0..2
      /\ events # <<>> => Len(events) = Len(types)
  BY DecideType
<1>3. EventsAfter(l, c) = [i \in 1..Len(events) |-> Saved(events[i], n + i)]
  BY DEF EventsAfter, SavedAfter
<1>4. events # <<>>
  BY <1>3 DEF SavedAfter
<1>5. Accepts(m, c) /\ events = [i \in 1..Len(types) |-> [type |-> types[i], cmd |-> c]]
  BY <1>4 DEF Decide
<1>6. c \in CommandShape /\ c.type \in CommandTypes
  BY DeciderAssumption DEF CommandShape
<1> DEFINE E(i) == Saved([type |-> types[i], cmd |-> c], n + i)
<1>7. ASSUME NEW i \in 1..Len(types)
      PROVE  /\ E(i) \in Event /\ E(i).type = types[i] /\ E(i).cmd = c
             /\ EventsAfter(l, c)[i] = E(i)
  <2>1. Len(types) = Len(events) /\ events[i] \in UnsavedEvent /\ events[i] = [type |-> types[i], cmd |-> c]
    BY <1>2, <1>4, <1>5
  <2>2. n + i \in Nat  BY <1>1
  <2>3. E(i) = Saved(events[i], n + i)  BY <2>1
  <2> QED BY <1>3, <2>1, <2>2, <2>3, SavedType DEF Saved
<1>8. Len(EventsAfter(l, c)) = Len(types)
  BY <1>2, <1>3, <1>4
<1>9. CASE c.type # "thread.turn.start"
  <2>1. types = <<EventTypeOf(c.type)>> /\ Len(types) = 1 /\ types[1] = EventTypeOf(c.type)
    BY <1>9 DEF EventTypesOf
  <2>2. l \o EventsAfter(l, c) = Append(l, E(1))
    BY <1>1, <1>3, <1>7, <1>8, <2>1
  <2>3. /\ E(1) \in Event /\ E(1).type = EventTypeOf(c.type) /\ E(1).cmd = c
    BY <1>7, <2>1
  <2> HIDE DEF E, types, events
  <2>4. Fits(m, E(1))
    <3>1. c.type = "thread.create" => E(1).type = "thread.created"
      BY <2>3 DEF EventTypeOf
    <3>2. c.type \in ProjectCommands <=> c.thread = None
      BY DeciderAssumption
    <3>3. c.thread # None /\ E(1).type # "thread.created" => RequireThread(m, c.thread)
      BY <1>5, <1>6, <1>9, <3>1, <3>2
         DEF Accepts, CommandTypes, RequireThread, RequireThreadArchived, RequireThreadNotArchived
    <3>4. E(1).type = "thread.turn-start-requested" => FALSE
      BY <1>9, <2>3, EventOrigin
    <3>5. E(1).type = "project.created" => RequireProjectAbsent(m, c.project)
      BY <1>5, <2>3, EventOrigin DEF Accepts
    <3>6. E(1).type = "thread.created" =>
             RequireThreadAbsent(m, c.thread) /\ RequireProject(m, c.project)
      BY <1>5, <2>3, EventOrigin DEF Accepts
    <3> QED BY <2>3, <3>3, <3>4, <3>5, <3>6 DEF Fits
  <2> QED BY <2>2, <2>3, <2>4, HistoryAppend
<1>10. CASE c.type = "thread.turn.start"
  <2>1. /\ types = <<"thread.message-sent", "thread.turn-start-requested">> /\ Len(types) = 2
        /\ types[1] = "thread.message-sent" /\ types[2] = "thread.turn-start-requested"
    BY <1>10 DEF EventTypesOf
  <2>3. /\ E(1) \in Event /\ E(1).type = "thread.message-sent" /\ E(1).cmd = c
        /\ E(2) \in Event /\ E(2).type = "thread.turn-start-requested" /\ E(2).cmd = c
    BY <1>7, <2>1
  <2>a. Len(EventsAfter(l, c)) = 2 /\ EventsAfter(l, c)[1] = E(1) /\ EventsAfter(l, c)[2] = E(2)
    BY <1>7, <1>8, <2>1
  <2>b. EventsAfter(l, c) \in Seq(Event)
    BY <1>2, <1>3, <1>1, SavedType
  <2> HIDE DEF E, types, events
  <2>c. EventsAfter(l, c) = <<E(1), E(2)>>
    BY <2>3, <2>a, <2>b
  <2>2. l \o EventsAfter(l, c) = Append(Append(l, E(1)), E(2))
    BY <1>1, <2>3, <2>c, AppendTwo
  <2>4. RequireThread(m, c.thread) /\ SourcePlanUsable(m, c)
    BY <1>5, <1>10 DEF Accepts
  <2>5. Fits(m, E(1))
    BY <2>3, <2>4 DEF Fits
  <2>6. HistoryInv(Append(l, E(1)))
    BY <2>3, <2>5, HistoryAppend
  <2>7. ModelAfter(Append(l, E(1))).threads = m.threads
    <3>1. ModelAfter(Append(l, E(1))) = ProjectEvent(m, E(1))
      BY <1>1, <2>3, ModelAfterAppend
    <3>2. m.threads \in [Threads -> SUBSET Thread]
      BY <1>1 DEF ReadModels
    <3>3. \A th : PatchThread(th, E(1)) = th
      BY <2>3 DEF PatchThread
    <3>4. \A S : {PatchThread(th, E(1)) : th \in S} = S
      BY <3>3
    <3>5. ThreadsAfter(m, E(1)) = m.threads
      BY <2>3, <3>2, <3>4 DEF ThreadsAfter
    <3> QED BY <3>1, <3>5 DEF ProjectEvent
  <2>8. Fits(ModelAfter(Append(l, E(1))), E(2))
    BY <2>3, <2>4, <2>7 DEF Fits, RequireThread, SourcePlanUsable
  <2> QED BY <2>2, <2>3, <2>6, <2>8, HistoryAppend
<1> QED BY <1>9, <1>10

-----------------------------------------------------------------------------
(* The engine.                                                               *)

\* The part of a sequence after a position.
LEMMA SuffixOfSequence ==
  ASSUME NEW S, NEW s \in Seq(S), NEW n \in 0..Len(s)
  PROVE  /\ Len(SubSeq(s, n + 1, Len(s))) = Len(s) - n
         /\ n + Len(SubSeq(s, n + 1, Len(s))) = Len(s)
         /\ \A i \in 1..(Len(s) - n) : SubSeq(s, n + 1, Len(s))[i] = s[n + i]
<1> DEFINE sub == SubSeq(s, n + 1, Len(s))
           l == Len(s)
<1>1. l \in Nat /\ n \in 0..l
  BY LenProperties
<1>2. \A i \in (n + 1)..l : i \in 1..l
  <2> HIDE DEF l
  <2> QED BY <1>1
<1>3. \A i \in (n + 1)..l : s[i] \in S
  BY <1>2, ElementOfSeq
<1>4. n + 1 \in Int /\ l \in Int
  <2> HIDE DEF l
  <2> QED BY <1>1
<1>5. /\ Len(sub) = IF n + 1 <= l THEN l - (n + 1) + 1 ELSE 0
      /\ \A i \in 1..(l - (n + 1) + 1) : sub[i] = s[n + 1 + i - 1]
  <2> HIDE DEF l
  <2>1. /\ Len(SubSeq(s, n + 1, l)) = IF n + 1 <= l THEN l - (n + 1) + 1 ELSE 0
        /\ \A i \in 1..(l - (n + 1) + 1) :
             SubSeq(s, n + 1, l)[i] = s[n + 1 + i - 1]
    BY <1>3, <1>4, SubSeqProperties
  <2> QED BY <2>1 DEF l
<1>6. /\ (IF n + 1 <= l THEN l - (n + 1) + 1 ELSE 0) = l - n
      /\ l - (n + 1) + 1 = l - n
      /\ n + (l - n) = l
      /\ \A i \in 1..(l - n) : n + 1 + i - 1 = n + i
  <2> HIDE DEF l
  <2> QED BY <1>1
<1>7. \A i \in 1..(l - n) : sub[i] = s[n + i]
  BY <1>5, <1>6
<1>8. Len(sub) = l - n
  BY <1>5, <1>6
<1>9. n + Len(sub) = l
  BY <1>6, <1>8
<1> QED BY <1>7, <1>8, <1>9

\* The last element of a sequence that is not empty.
LEMMA LastOfSequence ==
  ASSUME NEW S, NEW s \in Seq(S), Len(s) \in 1..2
  PROVE  s[Len(s)] \in S
<1> DEFINE n == Len(s)
<1>1. n \in 1..n
  <2>1. n \in 1..2
    OBVIOUS
  <2> HIDE DEF n
  <2> QED BY <2>1
<1> QED BY <1>1, ElementOfSeq

\* The events of a transaction that commits: one or two, numbered on from the log.
LEMMA CommittedEvents ==
  ASSUME EngineInv, MakeDurable
  PROVE  /\ Command \in Commands
         /\ Len(written) \in 1..2
         /\ written = SavedAfter(Decide(readModel, Command), Len(log))
         /\ \A i \in 1..Len(written) : written[i].sequence = Len(log) + i
<1> DEFINE events == Decide(readModel, Command)
<1>1. /\ pc = "transaction" /\ pending = <<>>
      /\ written \in Seq(Event) /\ log \in Seq(Event)
  BY DEF EngineInv, TypeOK, MakeDurable
<1>2. Command \in Commands
  BY <1>1, EngineAssumption DEF EngineInv, WorkerIsBusyOnACall, Command
<1>3. /\ events # <<>>
      /\ Len(written) + Len(pending) = Len(events)
      /\ \A i \in 1..Len(written) : written[i] = Saved(events[i], Len(log) + i)
  BY <1>1 DEF EngineInv, TransactionFollowsDecision
<1>4. events \in Seq(UnsavedEvent) /\ Len(events) \in 0..2
  BY <1>2, DecideType
<1> HIDE DEF events
<1>5. Len(written) = Len(events) /\ Len(written) \in 1..2
  <2> DEFINE todo == Len(pending)
             done == Len(written)
             all  == Len(events)
  <2>1. todo = 0
    BY <1>1
  <2>2. all # 0
    BY <1>3, <1>4
  <2>3. all \in 1..2 /\ done \in Nat
    BY <1>1, <1>4, <2>2
  <2>4. done + todo = all
    BY <1>3
  <2> HIDE DEF todo, done, all
  <2>5. done = all /\ done \in 1..2
    BY <2>1, <2>3, <2>4
  <2> QED BY <2>5 DEF done, all
<1>6. written = SavedAfter(events, Len(log))
  BY <1>1, <1>3, <1>5 DEF SavedAfter
<1>7. \A i \in 1..Len(written) : written[i].sequence = Len(log) + i
  <2>1. \A e, n : Saved(e, n).sequence = n
    BY DEF Saved
  <2> QED BY <1>3, <2>1
<1> QED BY <1>2, <1>5, <1>6, <1>7 DEF events

-----------------------------------------------------------------------------
(* Every step preserves the inductive invariant. *)

LEMMA DispatchStep ==
  ASSUME EngineInv, NEW k \in Calls, Dispatch(k)
  PROVE  EngineInv'
<1> USE DEF EngineInv, Dispatch, store, workVars, Command
<1>1. TypeOK'
  BY DEF TypeOK, Outcomes, Reply, NoReply
<1>2. LogIsNumbered'
  BY DEF LogIsNumbered, WorkerIsBusyOnACall, TypeOK
<1>3. PendingIsTyped'
  BY DEF PendingIsTyped, WorkerIsBusyOnACall, TypeOK
<1>4. WorkerIsBusyOnACall'
  BY DEF WorkerIsBusyOnACall, TypeOK
<1>5. TablesFollowLog'
  BY DEF TablesFollowLog
<1>6. ReadModelIsAPrefix'
  BY DEF ReadModelIsAPrefix, WorkerIsBusyOnACall, TypeOK
<1>7. StartIsTheReadModel'
  BY DEF StartIsTheReadModel, WorkerIsBusyOnACall, TypeOK
<1>8. CommandIsUndecided'
  BY DEF CommandIsUndecided, WorkerIsBusyOnACall, TypeOK, Receipt, Reply, Fail, NoReply
<1>9. TransactionFollowsDecision'
  BY DEF TransactionFollowsDecision, WorkerIsBusyOnACall, TypeOK
<1>10. InstalledIsCommitted'
  BY DEF InstalledIsCommitted, WorkerIsBusyOnACall, TypeOK
<1>11. LagIsOneCommand'
  BY DEF LagIsOneCommand, WorkerIsBusyOnACall, TypeOK
<1>12. ReprojectionFollowsLog'
  BY DEF ReprojectionFollowsLog, WorkerIsBusyOnACall, TypeOK
<1> QED BY <1>1, <1>2, <1>3, <1>4, <1>5, <1>6, <1>7, <1>8, <1>9, <1>10, <1>11, <1>12

LEMMA SubscribeStep ==
  ASSUME EngineInv, NEW s \in Subscribers, Subscribe(s)
  PROVE  EngineInv'
<1> USE DEF EngineInv, Subscribe, store, workVars, Command
<1>1. TypeOK'
  BY DEF TypeOK, Subscriptions
<1>2. LogIsNumbered'
  BY DEF LogIsNumbered, WorkerIsBusyOnACall, TypeOK
<1>3. PendingIsTyped'
  BY DEF PendingIsTyped, WorkerIsBusyOnACall, TypeOK
<1>4. WorkerIsBusyOnACall'
  BY DEF WorkerIsBusyOnACall, TypeOK
<1>5. TablesFollowLog'
  BY DEF TablesFollowLog
<1>6. ReadModelIsAPrefix'
  BY DEF ReadModelIsAPrefix, WorkerIsBusyOnACall, TypeOK
<1>7. StartIsTheReadModel'
  BY DEF StartIsTheReadModel, WorkerIsBusyOnACall, TypeOK
<1>8. CommandIsUndecided'
  BY DEF CommandIsUndecided, WorkerIsBusyOnACall, TypeOK, Receipt, Reply, Fail, NoReply
<1>9. TransactionFollowsDecision'
  BY DEF TransactionFollowsDecision, WorkerIsBusyOnACall, TypeOK
<1>10. InstalledIsCommitted'
  BY DEF InstalledIsCommitted, WorkerIsBusyOnACall, TypeOK
<1>11. LagIsOneCommand'
  BY DEF LagIsOneCommand, WorkerIsBusyOnACall, TypeOK
<1>12. ReprojectionFollowsLog'
  BY DEF ReprojectionFollowsLog, WorkerIsBusyOnACall, TypeOK
<1> QED BY <1>1, <1>2, <1>3, <1>4, <1>5, <1>6, <1>7, <1>8, <1>9, <1>10, <1>11, <1>12

LEMMA TakeStep ==
  ASSUME EngineInv, Take
  PROVE  EngineInv'
<1> USE DEF EngineInv, Take, store, workVars, Command
<1>1. TypeOK'
  <2>1. queue \in Seq(Calls) /\ queue # <<>>
    BY DEF TypeOK
  <2>2. Head(queue) \in Calls /\ Tail(queue) \in Seq(Calls)
    BY <2>1
  <2>3. start' \in Nat
    BY DEF TypeOK, ReadModels
  <2> QED BY <2>2, <2>3 DEF TypeOK, Steps
<1>2. LogIsNumbered'
  BY DEF LogIsNumbered, WorkerIsBusyOnACall, TypeOK
<1>3. PendingIsTyped'
  BY DEF PendingIsTyped, WorkerIsBusyOnACall, TypeOK
<1>4. WorkerIsBusyOnACall'
  BY DEF WorkerIsBusyOnACall, TypeOK
<1>5. TablesFollowLog'
  BY DEF TablesFollowLog
<1>6. ReadModelIsAPrefix'
  BY DEF ReadModelIsAPrefix, WorkerIsBusyOnACall, TypeOK
<1>7. StartIsTheReadModel'
  BY DEF StartIsTheReadModel, WorkerIsBusyOnACall, TypeOK
<1>8. CommandIsUndecided'
  BY DEF CommandIsUndecided, WorkerIsBusyOnACall, TypeOK, Receipt, Reply, Fail, NoReply
<1>9. TransactionFollowsDecision'
  BY DEF TransactionFollowsDecision, WorkerIsBusyOnACall, TypeOK
<1>10. InstalledIsCommitted'
  BY DEF InstalledIsCommitted, WorkerIsBusyOnACall, TypeOK
<1>11. LagIsOneCommand'
  BY DEF LagIsOneCommand, WorkerIsBusyOnACall, TypeOK
<1>12. ReprojectionFollowsLog'
  BY DEF ReprojectionFollowsLog, WorkerIsBusyOnACall, TypeOK
<1> QED BY <1>1, <1>2, <1>3, <1>4, <1>5, <1>6, <1>7, <1>8, <1>9, <1>10, <1>11, <1>12

LEMMA LookupReceiptStep ==
  ASSUME EngineInv, LookupReceipt
  PROVE  EngineInv'
<1> USE DEF EngineInv, LookupReceipt, store, workVars, Command
<1>1. TypeOK'
  <2>1. Command \in Commands /\ Command.id \in CommandIds
    BY EngineAssumption DEF WorkerIsBusyOnACall, CommandIds
  <2>2. receipts[Command.id].sequence \in Nat
    BY <2>1 DEF TypeOK, Receipts
  <2>3. result' \in Replies /\ pc' \in Steps
    BY <2>2 DEF TypeOK, Replies, Reply, Fail, ErrorKinds, Steps
  <2> QED BY <2>3 DEF TypeOK
<1>2. LogIsNumbered'
  BY DEF LogIsNumbered, WorkerIsBusyOnACall, TypeOK
<1>3. PendingIsTyped'
  BY DEF PendingIsTyped, WorkerIsBusyOnACall, TypeOK
<1>4. WorkerIsBusyOnACall'
  BY DEF WorkerIsBusyOnACall, TypeOK
<1>5. TablesFollowLog'
  BY DEF TablesFollowLog
<1>6. ReadModelIsAPrefix'
  BY DEF ReadModelIsAPrefix, WorkerIsBusyOnACall, TypeOK
<1>7. StartIsTheReadModel'
  BY DEF StartIsTheReadModel, WorkerIsBusyOnACall, TypeOK
<1>8. CommandIsUndecided'
  BY DEF TypeOK, Reply, Fail, CommandIsUndecided
<1>9. TransactionFollowsDecision'
  BY DEF TransactionFollowsDecision, WorkerIsBusyOnACall, TypeOK
<1>10. InstalledIsCommitted'
  BY DEF InstalledIsCommitted, WorkerIsBusyOnACall, TypeOK
<1>11. LagIsOneCommand'
  BY DEF LagIsOneCommand, WorkerIsBusyOnACall, TypeOK
<1>12. ReprojectionFollowsLog'
  BY DEF ReprojectionFollowsLog, WorkerIsBusyOnACall, TypeOK
<1> QED BY <1>1, <1>2, <1>3, <1>4, <1>5, <1>6, <1>7, <1>8, <1>9, <1>10, <1>11, <1>12

LEMMA LookupFailsStep ==
  ASSUME EngineInv, LookupFails
  PROVE  EngineInv'
<1> USE DEF EngineInv, LookupFails, store, workVars, Command
<1>1. TypeOK'
  BY DEF TypeOK, Steps, Replies, ErrorKinds, Fail, Reply
<1>2. LogIsNumbered'
  BY DEF LogIsNumbered, WorkerIsBusyOnACall, TypeOK
<1>3. PendingIsTyped'
  BY DEF PendingIsTyped, WorkerIsBusyOnACall, TypeOK
<1>4. WorkerIsBusyOnACall'
  BY DEF WorkerIsBusyOnACall, TypeOK
<1>5. TablesFollowLog'
  BY DEF TablesFollowLog
<1>6. ReadModelIsAPrefix'
  BY DEF ReadModelIsAPrefix, WorkerIsBusyOnACall, TypeOK
<1>7. StartIsTheReadModel'
  BY DEF StartIsTheReadModel, WorkerIsBusyOnACall, TypeOK
<1>8. CommandIsUndecided'
  BY DEF CommandIsUndecided, WorkerIsBusyOnACall, TypeOK, Receipt, Reply, Fail, NoReply
<1>9. TransactionFollowsDecision'
  BY DEF TransactionFollowsDecision, WorkerIsBusyOnACall, TypeOK
<1>10. InstalledIsCommitted'
  BY DEF InstalledIsCommitted, WorkerIsBusyOnACall, TypeOK
<1>11. LagIsOneCommand'
  <2>1. ~ stale => up /\ start = Len(log)
    BY DEF WorkerIsBusyOnACall, StartIsTheReadModel, ReadModelIsAPrefix
  <2> QED BY <2>1 DEF TypeOK, LagIsOneCommand
<1>12. ReprojectionFollowsLog'
  BY DEF ReprojectionFollowsLog, WorkerIsBusyOnACall, TypeOK
<1> QED BY <1>1, <1>2, <1>3, <1>4, <1>5, <1>6, <1>7, <1>8, <1>9, <1>10, <1>11, <1>12

LEMMA DecideCommandStep ==
  ASSUME EngineInv, DecideCommand
  PROVE  EngineInv'
<1> USE DEF EngineInv, DecideCommand, store, workVars, Command
<1>1. TypeOK'
  <2>1. Command \in Commands
    BY EngineAssumption DEF WorkerIsBusyOnACall
  <2>2. Decide(readModel, Command) \in Seq(UnsavedEvent)
    BY <2>1, DecideType
  <2>3. next' \in ReadModels /\ draft' \in ReadModels /\ pc' \in Steps /\ result' \in Replies
    BY DEF TypeOK, Steps, Replies, Reply, Fail, ErrorKinds
  <2>4. pending' \in Seq(Event) \cup Seq(UnsavedEvent)
    BY <2>2 DEF TypeOK
  <2>5. written' \in Seq(Event)
    <3>1. <<>> \in Seq(Event)
      OBVIOUS
    <3>2. written' = <<>> \/ written' = written
      OBVIOUS
    <3> QED BY <3>1, <3>2 DEF TypeOK
  <2> QED BY <2>3, <2>4, <2>5 DEF TypeOK
<1>2. LogIsNumbered'
  BY DEF LogIsNumbered, WorkerIsBusyOnACall, TypeOK
<1>3. PendingIsTyped'
  <2>1. Command \in Commands
    BY EngineAssumption DEF WorkerIsBusyOnACall
  <2>2. Decide(readModel, Command) \in Seq(UnsavedEvent)
    BY <2>1, DecideType
  <2> QED BY <2>2 DEF PendingIsTyped
<1>4. WorkerIsBusyOnACall'
  BY DEF WorkerIsBusyOnACall, TypeOK
<1>5. TablesFollowLog'
  BY DEF TablesFollowLog
<1>6. ReadModelIsAPrefix'
  BY DEF ReadModelIsAPrefix, WorkerIsBusyOnACall, TypeOK
<1>7. StartIsTheReadModel'
  BY DEF StartIsTheReadModel, WorkerIsBusyOnACall, TypeOK
<1>8. CommandIsUndecided'
  <2>1. ~ stale => up /\ readModel = ModelAfter(log)
    BY DEF WorkerIsBusyOnACall, ReadModelIsAPrefix, ModelAfter
  <2> QED BY <2>1 DEF CommandIsUndecided, Reply, Fail
<1>9. TransactionFollowsDecision'
  <2>1. ~ stale => up /\ readModel = ModelAfter(log)
    BY DEF WorkerIsBusyOnACall, ReadModelIsAPrefix, ModelAfter
  <2>2. tables = ModelAfter(log) /\ log \in Seq(Event)
    BY DEF TablesFollowLog, TypeOK
  <2>3. log \o <<>> = log
    BY <2>2
  <2>4. Command \in Commands
    BY EngineAssumption DEF WorkerIsBusyOnACall
  <2>5. Decide(readModel, Command) \in Seq(UnsavedEvent)
    BY <2>4, DecideType
  <2> QED BY <2>1, <2>2, <2>3, <2>5 DEF TransactionFollowsDecision
<1>10. InstalledIsCommitted'
  BY DEF InstalledIsCommitted, WorkerIsBusyOnACall, TypeOK
<1>11. LagIsOneCommand'
  <2>1. ~ stale => up /\ start = Len(log)
    BY DEF WorkerIsBusyOnACall, StartIsTheReadModel, ReadModelIsAPrefix
  <2> QED BY <2>1 DEF TypeOK, LagIsOneCommand
<1>12. ReprojectionFollowsLog'
  BY DEF ReprojectionFollowsLog, WorkerIsBusyOnACall, TypeOK
<1> QED BY <1>1, <1>2, <1>3, <1>4, <1>5, <1>6, <1>7, <1>8, <1>9, <1>10, <1>11, <1>12

LEMMA AppendEventStep ==
  ASSUME EngineInv, AppendEvent
  PROVE  EngineInv'
<1> USE DEF EngineInv, AppendEvent, store, workVars, Command
<1>1. TypeOK'
  <2> DEFINE e == Saved(Head(pending), Len(log) + Len(written) + 1)
  <2>1. pending \in Seq(UnsavedEvent) /\ pending # <<>>
    BY DEF PendingIsTyped
  <2>2. Head(pending) \in UnsavedEvent /\ Tail(pending) \in Seq(UnsavedEvent)
    BY <2>1
  <2>3. Len(log) + Len(written) + 1 \in Nat
    BY DEF TypeOK
  <2>4. e \in Event
    BY <2>2, <2>3, SavedType
  <2>5. written' \in Seq(Event) /\ next' \in ReadModels /\ draft' \in ReadModels
    BY <2>4, ProjectEventType DEF TypeOK
  <2> QED BY <2>2, <2>5 DEF TypeOK
<1>2. LogIsNumbered'
  BY DEF LogIsNumbered, WorkerIsBusyOnACall, TypeOK
<1>3. PendingIsTyped'
  <2>1. pending \in Seq(UnsavedEvent) /\ pending # <<>>
    BY DEF PendingIsTyped
  <2>2. Tail(pending) \in Seq(UnsavedEvent)
    BY <2>1
  <2> QED BY <2>2 DEF PendingIsTyped
<1>4. WorkerIsBusyOnACall'
  BY DEF WorkerIsBusyOnACall, TypeOK
<1>5. TablesFollowLog'
  BY DEF TablesFollowLog
<1>6. ReadModelIsAPrefix'
  BY DEF ReadModelIsAPrefix, WorkerIsBusyOnACall, TypeOK
<1>7. StartIsTheReadModel'
  BY DEF StartIsTheReadModel, WorkerIsBusyOnACall, TypeOK
<1>8. CommandIsUndecided'
  BY DEF CommandIsUndecided, WorkerIsBusyOnACall, TypeOK, Receipt, Reply, Fail, NoReply
<1>9. TransactionFollowsDecision'
  <2> DEFINE events == Decide(readModel, Command)
             e == Saved(Head(pending), Len(log) + Len(written) + 1)
  <2>1. /\ pending \in Seq(UnsavedEvent) /\ pending # <<>>
        /\ written \in Seq(Event) /\ log \in Seq(Event)
    BY DEF PendingIsTyped, TypeOK
  <2>2. /\ events # <<>>
        /\ Len(written) + Len(pending) = Len(events)
        /\ \A i \in 1..Len(written) : written[i] = Saved(events[i], Len(log) + i)
        /\ \A i \in 1..Len(pending) : pending[i] = events[Len(written) + i]
        /\ ~ stale => next = ModelAfter(log \o written)
        /\ draft = ModelAfter(log \o written)
    BY DEF TransactionFollowsDecision
  <2>3. Head(pending) \in UnsavedEvent /\ Head(pending) = events[Len(written) + 1]
    <3>1. Head(pending) = pending[1] /\ 1 \in 1..Len(pending) /\ pending[1] \in UnsavedEvent
      BY <2>1
    <3> QED BY <2>2, <3>1
  <2>4. e \in Event /\ e = Saved(events[Len(written) + 1], Len(log) + (Len(written) + 1))
    BY <2>1, <2>3, SavedType
  <2>5. written' = Append(written, e) /\ pending' = Tail(pending)
        /\ next' = ProjectEvent(next, e) /\ draft' = ProjectEvent(draft, e)
    OBVIOUS
  <2> HIDE DEF e, events
  <2>6. \A i \in 1..Len(written') : written'[i] = Saved(events[i], Len(log) + i)
    <3>1. Len(written') = Len(written) + 1 /\ Len(written) \in Nat
      BY <2>1, <2>4, <2>5
    <3>2. \A i \in 1..Len(written) : written'[i] = written[i]
      BY <2>1, <2>4, <2>5
    <3>3. written'[Len(written) + 1] = e
      BY <2>1, <2>4, <2>5
    <3>4. \A i \in 1..Len(written') : i \in 1..Len(written) \/ i = Len(written) + 1
      BY <3>1
    <3> QED BY <2>2, <2>4, <3>2, <3>3, <3>4
  <2>7. /\ Len(written') + Len(pending') = Len(events)
        /\ \A i \in 1..Len(pending') : pending'[i] = events[Len(written') + i]
    <3>1. Len(written') = Len(written) + 1 /\ Len(written) \in Nat
      BY <2>1, <2>4, <2>5
    <3>2. Len(pending') = Len(pending) - 1 /\ Len(pending) \in Nat
      BY <2>1, <2>5
    <3>3. \A i \in 1..Len(pending') : pending'[i] = pending[i + 1]
      BY <2>1, <2>5
    <3>4. \A i \in 1..Len(pending') : i + 1 \in 1..Len(pending)
      BY <3>2
    <3>5. \A i \in 1..Len(pending') : Len(written) + (i + 1) = Len(written') + i
      BY <3>1, <3>2
    <3> QED BY <2>2, <3>1, <3>2, <3>3, <3>4, <3>5
  <2>8. log \o written' = Append(log \o written, e) /\ log \o written \in Seq(Event)
    BY <2>1, <2>4, <2>5
  <2>9. /\ ~ stale => next' = ModelAfter(log \o written')
        /\ draft' = ModelAfter(log \o written')
    BY <2>2, <2>4, <2>5, <2>8, ModelAfterAppend
  <2>10. events = Decide(readModel, Command)' /\ log' = log /\ stale' = stale
    BY DEF events
  <2> QED BY <2>2, <2>6, <2>7, <2>9, <2>10 DEF TransactionFollowsDecision
<1>10. InstalledIsCommitted'
  BY DEF InstalledIsCommitted, WorkerIsBusyOnACall, TypeOK
<1>11. LagIsOneCommand'
  BY DEF LagIsOneCommand, WorkerIsBusyOnACall, TypeOK
<1>12. ReprojectionFollowsLog'
  BY DEF ReprojectionFollowsLog, WorkerIsBusyOnACall, TypeOK
<1> QED BY <1>1, <1>2, <1>3, <1>4, <1>5, <1>6, <1>7, <1>8, <1>9, <1>10, <1>11, <1>12

LEMMA TransactionFailsStep ==
  ASSUME EngineInv, TransactionFails
  PROVE  EngineInv'
<1> USE DEF EngineInv, TransactionFails, store, workVars, Command
<1>1. TypeOK'
  BY DEF TypeOK, Steps, Replies, ErrorKinds, Fail, Reply
<1>2. LogIsNumbered'
  BY DEF LogIsNumbered, WorkerIsBusyOnACall, TypeOK
<1>3. PendingIsTyped'
  BY DEF PendingIsTyped, WorkerIsBusyOnACall, TypeOK
<1>4. WorkerIsBusyOnACall'
  BY DEF WorkerIsBusyOnACall, TypeOK
<1>5. TablesFollowLog'
  BY DEF TablesFollowLog
<1>6. ReadModelIsAPrefix'
  BY DEF ReadModelIsAPrefix, WorkerIsBusyOnACall, TypeOK
<1>7. StartIsTheReadModel'
  BY DEF StartIsTheReadModel, WorkerIsBusyOnACall, TypeOK
<1>8. CommandIsUndecided'
  BY DEF CommandIsUndecided, WorkerIsBusyOnACall, TypeOK, Receipt, Reply, Fail, NoReply
<1>9. TransactionFollowsDecision'
  BY DEF TransactionFollowsDecision, WorkerIsBusyOnACall, TypeOK
<1>10. InstalledIsCommitted'
  BY DEF InstalledIsCommitted, WorkerIsBusyOnACall, TypeOK
<1>11. LagIsOneCommand'
  <2>1. ~ stale => up /\ start = Len(log)
    BY DEF WorkerIsBusyOnACall, StartIsTheReadModel, ReadModelIsAPrefix
  <2> QED BY <2>1 DEF TypeOK, LagIsOneCommand
<1>12. ReprojectionFollowsLog'
  BY DEF ReprojectionFollowsLog, WorkerIsBusyOnACall, TypeOK
<1> QED BY <1>1, <1>2, <1>3, <1>4, <1>5, <1>6, <1>7, <1>8, <1>9, <1>10, <1>11, <1>12

LEMMA CommitStep ==
  ASSUME EngineInv, Commit
  PROVE  EngineInv'
<1> USE DEF EngineInv, Commit, store, workVars, Command, MakeDurable
<1>1. TypeOK'
  <2>1. /\ written \in Seq(Event) /\ log \in Seq(Event)
        /\ Len(written) \in 1..2
    BY CommittedEvents DEF TypeOK
  <2>2. log' \in Seq(Event) /\ Len(log) + Len(written) \in Nat
    <3>1. log \o written \in Seq(Event)
      BY <2>1
    <3>2. log' = log \o written
      OBVIOUS
    <3>3. Len(log) \in Nat /\ Len(written) \in Nat
      BY <2>1
    <3>4. Len(log) + Len(written) \in Nat
      BY <3>3
    <3> QED BY <3>1, <3>2, <3>4
  <2>3. receipts' \in [CommandIds -> Receipts]
    BY <2>2 DEF TypeOK, Receipts, Receipt
  <2>4. written[Len(written)] \in Event
    BY <2>1, LastOfSequence
  <2>5. written[Len(written)].sequence \in Nat
    BY <2>4 DEF Event
  <2>6. result' \in Replies /\ pc' \in Steps
    BY <2>5 DEF TypeOK, Replies, Reply, Fail, ErrorKinds, Steps
  <2> QED BY <2>2, <2>3, <2>6 DEF TypeOK
<1>2. LogIsNumbered'
  <2>1. /\ written \in Seq(Event) /\ log \in Seq(Event)
        /\ \A i \in 1..Len(written) : written[i].sequence = Len(log) + i
    BY CommittedEvents DEF TypeOK
  <2>2. \A i \in 1..Len(log) : (log \o written)[i] = log[i]
    BY <2>1
  <2>3. \A i \in 1..Len(log \o written) : i \notin 1..Len(log) =>
          /\ i - Len(log) \in 1..Len(written)
          /\ (log \o written)[i] = written[i - Len(log)]
    BY <2>1
  <2>4. \A i \in 1..Len(log \o written) : (log \o written)[i].sequence = i
    <3> SUFFICES ASSUME NEW i \in 1..Len(log \o written)
                 PROVE  (log \o written)[i].sequence = i
      OBVIOUS
    <3>1. CASE i \in 1..Len(log)
      BY <2>2, <3>1 DEF LogIsNumbered
    <3>2. CASE i \notin 1..Len(log)
      <4>1. written[i - Len(log)].sequence = Len(log) + (i - Len(log))
        BY <2>1, <2>3, <3>2
      <4>2. Len(log) + (i - Len(log)) = i
        BY <2>1
      <4> QED BY <2>3, <3>2, <4>1, <4>2
    <3> QED BY <3>1, <3>2
  <2>5. log' = log \o written
    OBVIOUS
  <2> QED BY <2>4, <2>5 DEF LogIsNumbered
<1>3. PendingIsTyped'
  BY DEF PendingIsTyped, WorkerIsBusyOnACall, TypeOK
<1>4. WorkerIsBusyOnACall'
  BY DEF WorkerIsBusyOnACall, TypeOK
<1>5. TablesFollowLog'
  <2>1. tables' = ModelAfter(log \o written)
    BY DEF TransactionFollowsDecision
  <2> QED BY <2>1 DEF TablesFollowLog
<1>6. ReadModelIsAPrefix'
  <2> SUFFICES ASSUME ~ stale PROVE ReadModelIsAPrefix'
    BY DEF ReadModelIsAPrefix
  <2>1. written \in Seq(Event) /\ log \in Seq(Event) /\ readModel.snapshotSequence = Len(log)
        /\ readModel = ModelAt(log)[Len(log)] /\ up
    BY DEF TypeOK, ReadModelIsAPrefix, WorkerIsBusyOnACall
  <2>2. Len(log) \in 0..Len(log) /\ Len(log) \in 0..Len(log \o written)
    BY <2>1
  <2>3. ModelAt(log \o written)[Len(log)] = ModelAt(log)[Len(log)]
    BY <2>1, <2>2, ModelAtExtends
  <2>4. pc' \in {"install", "reconcile"} /\ log' = log \o written /\ readModel' = readModel
    OBVIOUS
  <2> QED BY <2>1, <2>2, <2>3, <2>4 DEF ReadModelIsAPrefix
<1>7. StartIsTheReadModel'
  BY DEF StartIsTheReadModel, WorkerIsBusyOnACall, TypeOK
<1>8. CommandIsUndecided'
  BY DEF CommandIsUndecided, WorkerIsBusyOnACall, TypeOK, Receipt, Reply, Fail, NoReply
<1>9. TransactionFollowsDecision'
  BY DEF TransactionFollowsDecision, WorkerIsBusyOnACall, TypeOK
<1>10. InstalledIsCommitted'
  <2>1. ~ stale => next = ModelAfter(log \o written)
    BY DEF TransactionFollowsDecision
  <2> QED BY <2>1 DEF InstalledIsCommitted, Reply
<1>11. LagIsOneCommand'
  BY DEF LagIsOneCommand, WorkerIsBusyOnACall, TypeOK
<1>12. ReprojectionFollowsLog'
  BY DEF ReprojectionFollowsLog, WorkerIsBusyOnACall, TypeOK
<1> QED BY <1>1, <1>2, <1>3, <1>4, <1>5, <1>6, <1>7, <1>8, <1>9, <1>10, <1>11, <1>12

LEMMA CommitReplyLostStep ==
  ASSUME EngineInv, CommitReplyLost
  PROVE  EngineInv'
<1> USE DEF EngineInv, CommitReplyLost, store, workVars, Command, MakeDurable
<1>1. TypeOK'
  <2>1. /\ written \in Seq(Event) /\ log \in Seq(Event)
        /\ Len(written) \in 1..2
    BY CommittedEvents DEF TypeOK
  <2>2. log' \in Seq(Event) /\ Len(log) + Len(written) \in Nat
    <3>1. log \o written \in Seq(Event)
      BY <2>1
    <3>2. log' = log \o written
      OBVIOUS
    <3>3. Len(log) \in Nat /\ Len(written) \in Nat
      BY <2>1
    <3>4. Len(log) + Len(written) \in Nat
      BY <3>3
    <3> QED BY <3>1, <3>2, <3>4
  <2>3. receipts' \in [CommandIds -> Receipts]
    BY <2>2 DEF TypeOK, Receipts, Receipt
  <2>4. result' \in Replies /\ pc' \in Steps
    BY DEF TypeOK, Replies, Reply, Fail, ErrorKinds, Steps
  <2> QED BY <2>2, <2>3, <2>4 DEF TypeOK
<1>2. LogIsNumbered'
  <2>1. /\ written \in Seq(Event) /\ log \in Seq(Event)
        /\ \A i \in 1..Len(written) : written[i].sequence = Len(log) + i
    BY CommittedEvents DEF TypeOK
  <2>2. \A i \in 1..Len(log) : (log \o written)[i] = log[i]
    BY <2>1
  <2>3. \A i \in 1..Len(log \o written) : i \notin 1..Len(log) =>
          /\ i - Len(log) \in 1..Len(written)
          /\ (log \o written)[i] = written[i - Len(log)]
    BY <2>1
  <2>4. \A i \in 1..Len(log \o written) : (log \o written)[i].sequence = i
    <3> SUFFICES ASSUME NEW i \in 1..Len(log \o written)
                 PROVE  (log \o written)[i].sequence = i
      OBVIOUS
    <3>1. CASE i \in 1..Len(log)
      BY <2>2, <3>1 DEF LogIsNumbered
    <3>2. CASE i \notin 1..Len(log)
      <4>1. written[i - Len(log)].sequence = Len(log) + (i - Len(log))
        BY <2>1, <2>3, <3>2
      <4>2. Len(log) + (i - Len(log)) = i
        BY <2>1
      <4> QED BY <2>3, <3>2, <4>1, <4>2
    <3> QED BY <3>1, <3>2
  <2>5. log' = log \o written
    OBVIOUS
  <2> QED BY <2>4, <2>5 DEF LogIsNumbered
<1>3. PendingIsTyped'
  BY DEF PendingIsTyped, WorkerIsBusyOnACall, TypeOK
<1>4. WorkerIsBusyOnACall'
  BY DEF WorkerIsBusyOnACall, TypeOK
<1>5. TablesFollowLog'
  <2>1. tables' = ModelAfter(log \o written)
    BY DEF TransactionFollowsDecision
  <2> QED BY <2>1 DEF TablesFollowLog
<1>6. ReadModelIsAPrefix'
  <2> SUFFICES ASSUME ~ stale PROVE ReadModelIsAPrefix'
    BY DEF ReadModelIsAPrefix
  <2>1. written \in Seq(Event) /\ log \in Seq(Event) /\ readModel.snapshotSequence = Len(log)
        /\ readModel = ModelAt(log)[Len(log)] /\ up
    BY DEF TypeOK, ReadModelIsAPrefix, WorkerIsBusyOnACall
  <2>2. Len(log) \in 0..Len(log) /\ Len(log) \in 0..Len(log \o written)
    BY <2>1
  <2>3. ModelAt(log \o written)[Len(log)] = ModelAt(log)[Len(log)]
    BY <2>1, <2>2, ModelAtExtends
  <2>4. pc' \in {"install", "reconcile"} /\ log' = log \o written /\ readModel' = readModel
    OBVIOUS
  <2> QED BY <2>1, <2>2, <2>3, <2>4 DEF ReadModelIsAPrefix
<1>7. StartIsTheReadModel'
  BY DEF StartIsTheReadModel, WorkerIsBusyOnACall, TypeOK
<1>8. CommandIsUndecided'
  BY DEF CommandIsUndecided, WorkerIsBusyOnACall, TypeOK, Receipt, Reply, Fail, NoReply
<1>9. TransactionFollowsDecision'
  BY DEF TransactionFollowsDecision, WorkerIsBusyOnACall, TypeOK
<1>10. InstalledIsCommitted'
  BY DEF InstalledIsCommitted, WorkerIsBusyOnACall, TypeOK
<1>11. LagIsOneCommand'
  <2>1. written \in Seq(Event) /\ log \in Seq(Event) /\ Len(written) \in 1..2
    BY CommittedEvents DEF TypeOK
  <2>2. ~ stale => start = Len(log)
    BY DEF StartIsTheReadModel, ReadModelIsAPrefix, WorkerIsBusyOnACall
  <2>3. ~ stale => Len(log \o written) - start \in 0..2
    BY <2>1, <2>2
  <2> QED BY <2>3 DEF LagIsOneCommand
<1>12. ReprojectionFollowsLog'
  BY DEF ReprojectionFollowsLog, WorkerIsBusyOnACall, TypeOK
<1> QED BY <1>1, <1>2, <1>3, <1>4, <1>5, <1>6, <1>7, <1>8, <1>9, <1>10, <1>11, <1>12

LEMMA InstallStep ==
  ASSUME EngineInv, Install
  PROVE  EngineInv'
<1> USE DEF EngineInv, Install, store, workVars, Command
<1>1. TypeOK'
  BY DEF TypeOK, Steps
<1>2. LogIsNumbered'
  BY DEF LogIsNumbered, WorkerIsBusyOnACall, TypeOK
<1>3. PendingIsTyped'
  BY DEF PendingIsTyped, WorkerIsBusyOnACall, TypeOK
<1>4. WorkerIsBusyOnACall'
  BY DEF WorkerIsBusyOnACall, TypeOK
<1>5. TablesFollowLog'
  BY DEF TablesFollowLog
<1>6. ReadModelIsAPrefix'
  <2> SUFFICES ASSUME ~ stale' PROVE ReadModelIsAPrefix'
    BY DEF ReadModelIsAPrefix
  <2>1. next = ModelAt(log)[Len(log)] /\ log \in Seq(Event)
    BY DEF InstalledIsCommitted, ModelAfter, TypeOK
  <2>2. Len(log) \in 0..Len(log)
    BY <2>1
  <2>3. next.snapshotSequence = Len(log)
    BY <2>1, <2>2, ModelAtSequence DEF LogIsNumbered
  <2> QED BY <2>1, <2>2, <2>3 DEF ReadModelIsAPrefix
<1>7. StartIsTheReadModel'
  BY DEF StartIsTheReadModel, WorkerIsBusyOnACall, TypeOK
<1>8. CommandIsUndecided'
  <2>1. result.kind # "invariant"
    BY DEF InstalledIsCommitted
  <2> QED BY <2>1 DEF CommandIsUndecided
<1>9. TransactionFollowsDecision'
  BY DEF TransactionFollowsDecision, WorkerIsBusyOnACall, TypeOK
<1>10. InstalledIsCommitted'
  BY DEF InstalledIsCommitted, WorkerIsBusyOnACall, TypeOK
<1>11. LagIsOneCommand'
  BY DEF LagIsOneCommand, WorkerIsBusyOnACall, TypeOK
<1>12. ReprojectionFollowsLog'
  BY DEF ReprojectionFollowsLog, WorkerIsBusyOnACall, TypeOK
<1> QED BY <1>1, <1>2, <1>3, <1>4, <1>5, <1>6, <1>7, <1>8, <1>9, <1>10, <1>11, <1>12

LEMMA PublishStep ==
  ASSUME EngineInv, Publish
  PROVE  EngineInv'
<1> USE DEF EngineInv, Publish, store, workVars, Command
<1>1. TypeOK'
  <2> DEFINE n == Head(pending).sequence
  <2>1. pending \in Seq(Event) /\ pending # <<>>
    BY DEF PendingIsTyped
  <2>2. Head(pending) \in Event /\ Tail(pending) \in Seq(Event)
    BY <2>1
  <2>3. n \in Nat
    BY <2>2 DEF Event
  <2>4. \A s \in Subscribers :
          [inbox[s] EXCEPT !.got = Append(@, n)] \in Subscriptions
    <3> SUFFICES ASSUME NEW s \in Subscribers
                 PROVE  [inbox[s] EXCEPT !.got = Append(@, n)] \in Subscriptions
      OBVIOUS
    <3> HIDE DEF n
    <3>1. inbox[s] \in Subscriptions /\ inbox[s].got \in Seq(Nat)
      BY DEF TypeOK, Subscriptions
    <3>2. Append(inbox[s].got, n) \in Seq(Nat)
      BY <2>3, <3>1
    <3> QED BY <3>1, <3>2 DEF Subscriptions
  <2>5. inbox' \in [Subscribers -> Subscriptions]
    BY <2>4 DEF TypeOK
  <2> QED BY <2>2, <2>3, <2>5 DEF TypeOK
<1>2. LogIsNumbered'
  BY DEF LogIsNumbered, WorkerIsBusyOnACall, TypeOK
<1>3. PendingIsTyped'
  <2>1. pending \in Seq(Event) /\ pending # <<>>
    BY DEF PendingIsTyped
  <2>2. Tail(pending) \in Seq(Event)
    BY <2>1
  <2> QED BY <2>2 DEF PendingIsTyped
<1>4. WorkerIsBusyOnACall'
  BY DEF WorkerIsBusyOnACall, TypeOK
<1>5. TablesFollowLog'
  BY DEF TablesFollowLog
<1>6. ReadModelIsAPrefix'
  BY DEF ReadModelIsAPrefix, WorkerIsBusyOnACall, TypeOK
<1>7. StartIsTheReadModel'
  BY DEF StartIsTheReadModel, WorkerIsBusyOnACall, TypeOK
<1>8. CommandIsUndecided'
  BY DEF CommandIsUndecided, WorkerIsBusyOnACall, TypeOK, Receipt, Reply, Fail, NoReply
<1>9. TransactionFollowsDecision'
  BY DEF TransactionFollowsDecision, WorkerIsBusyOnACall, TypeOK
<1>10. InstalledIsCommitted'
  BY DEF InstalledIsCommitted, WorkerIsBusyOnACall, TypeOK
<1>11. LagIsOneCommand'
  BY DEF LagIsOneCommand, WorkerIsBusyOnACall, TypeOK
<1>12. ReprojectionFollowsLog'
  BY DEF ReprojectionFollowsLog, WorkerIsBusyOnACall, TypeOK
<1> QED BY <1>1, <1>2, <1>3, <1>4, <1>5, <1>6, <1>7, <1>8, <1>9, <1>10, <1>11, <1>12

LEMMA ReadBackStep ==
  ASSUME EngineInv, ReadBack
  PROVE  EngineInv'
<1> USE DEF EngineInv, ReadBack, store, workVars, Command
<1>1. TypeOK'
  <2> DEFINE last == IF start + ReadLimit < Len(log) THEN start + ReadLimit ELSE Len(log)
  <2>1. log \in Seq(Event) /\ start \in Nat /\ last \in 0..Len(log)
    BY EngineAssumption DEF TypeOK
  <2>2. pending' = SubSeq(log, start + 1, last)
    OBVIOUS
  <2>3. SubSeq(log, start + 1, last) \in Seq(Event)
    <3> HIDE DEF last
    <3> QED BY <2>1
  <2>4. pending' \in Seq(Event)
    BY <2>2, <2>3
  <2>5. written' \in Seq(Event) /\ next' \in ReadModels /\ pc' \in Steps
    BY DEF TypeOK, Steps
  <2> QED BY <2>4, <2>5 DEF TypeOK
<1>2. LogIsNumbered'
  BY DEF LogIsNumbered, WorkerIsBusyOnACall, TypeOK
<1>3. PendingIsTyped'
  <2> DEFINE last == IF start + ReadLimit < Len(log) THEN start + ReadLimit ELSE Len(log)
  <2>1. log \in Seq(Event) /\ start \in Nat /\ last \in 0..Len(log)
    BY EngineAssumption DEF TypeOK
  <2>2. pending' = SubSeq(log, start + 1, last)
    OBVIOUS
  <2>3. SubSeq(log, start + 1, last) \in Seq(Event)
    <3> HIDE DEF last
    <3> QED BY <2>1
  <2> QED BY <2>2, <2>3 DEF PendingIsTyped
<1>4. WorkerIsBusyOnACall'
  BY DEF WorkerIsBusyOnACall, TypeOK
<1>5. TablesFollowLog'
  BY DEF TablesFollowLog
<1>6. ReadModelIsAPrefix'
  BY DEF ReadModelIsAPrefix, WorkerIsBusyOnACall, TypeOK
<1>7. StartIsTheReadModel'
  BY DEF StartIsTheReadModel, WorkerIsBusyOnACall, TypeOK
<1>8. CommandIsUndecided'
  BY DEF CommandIsUndecided, WorkerIsBusyOnACall, TypeOK, Receipt, Reply, Fail, NoReply
<1>9. TransactionFollowsDecision'
  BY DEF TransactionFollowsDecision, WorkerIsBusyOnACall, TypeOK
<1>10. InstalledIsCommitted'
  BY DEF InstalledIsCommitted, WorkerIsBusyOnACall, TypeOK
<1>11. LagIsOneCommand'
  BY DEF LagIsOneCommand, WorkerIsBusyOnACall, TypeOK
<1>12. ReprojectionFollowsLog'
  <2> SUFFICES ASSUME ~ stale PROVE ReprojectionFollowsLog'
    BY DEF ReprojectionFollowsLog
  <2>1. log \in Seq(Event) /\ start \in Nat /\ Len(log) - start \in 0..2
    BY DEF TypeOK, LagIsOneCommand
  <2>2. pending' = SubSeq(log, start + 1, Len(log))
    BY <2>1, EngineAssumption
  <2>3. /\ start = readModel.snapshotSequence
        /\ start \in 0..Len(log)
        /\ readModel = ModelAt(log)[start]
    BY DEF StartIsTheReadModel, ReadModelIsAPrefix, WorkerIsBusyOnACall
  <2>4. /\ Len(pending') = Len(log) - start
        /\ start + Len(pending') = Len(log)
        /\ \A i \in 1..Len(pending') : pending'[i] = log[start + i]
    <3>1. /\ Len(SubSeq(log, start + 1, Len(log))) = Len(log) - start
          /\ start + Len(SubSeq(log, start + 1, Len(log))) = Len(log)
          /\ \A i \in 1..(Len(log) - start) :
               SubSeq(log, start + 1, Len(log))[i] = log[start + i]
      <4> HIDE DEF EngineInv, ReadBack, store, workVars, Command
      <4> QED BY <2>1, <2>3, SuffixOfSequence
    <3> HIDE DEF EngineInv, ReadBack, store, workVars, Command
    <3>2. \A s : /\ Len(s) = Len(log) - start
                 /\ start + Len(s) = Len(log)
                 /\ \A i \in 1..(Len(log) - start) : s[i] = log[start + i]
                 => /\ Len(s) = Len(log) - start
                    /\ start + Len(s) = Len(log)
                    /\ \A i \in 1..Len(s) : s[i] = log[start + i]
      OBVIOUS
    <3> QED BY <2>2, <3>1, <3>2
  <2>5. next' = readModel /\ log' = log
    OBVIOUS
  <2> HIDE DEF ReadBack
  <2> QED BY <2>3, <2>4, <2>5 DEF ReprojectionFollowsLog
<1> QED BY <1>1, <1>2, <1>3, <1>4, <1>5, <1>6, <1>7, <1>8, <1>9, <1>10, <1>11, <1>12

LEMMA ReadBackFailsStep ==
  ASSUME EngineInv, ReadBackFails
  PROVE  EngineInv'
<1> USE DEF EngineInv, ReadBackFails, store, workVars, Command
<1>1. TypeOK'
  BY DEF TypeOK, Steps
<1>2. LogIsNumbered'
  BY DEF LogIsNumbered, WorkerIsBusyOnACall, TypeOK
<1>3. PendingIsTyped'
  BY DEF PendingIsTyped, WorkerIsBusyOnACall, TypeOK
<1>4. WorkerIsBusyOnACall'
  BY DEF WorkerIsBusyOnACall, TypeOK
<1>5. TablesFollowLog'
  BY DEF TablesFollowLog
<1>6. ReadModelIsAPrefix'
  <2> SUFFICES ASSUME ~ stale' PROVE ReadModelIsAPrefix'
    BY DEF ReadModelIsAPrefix
  <2>1. Len(log) = start /\ ~ stale
    OBVIOUS
  <2> QED BY <2>1 DEF ReadModelIsAPrefix, StartIsTheReadModel
<1>7. StartIsTheReadModel'
  BY DEF StartIsTheReadModel, WorkerIsBusyOnACall, TypeOK
<1>8. CommandIsUndecided'
  BY DEF CommandIsUndecided, WorkerIsBusyOnACall, TypeOK, Receipt, Reply, Fail, NoReply
<1>9. TransactionFollowsDecision'
  BY DEF TransactionFollowsDecision, WorkerIsBusyOnACall, TypeOK
<1>10. InstalledIsCommitted'
  BY DEF InstalledIsCommitted, WorkerIsBusyOnACall, TypeOK
<1>11. LagIsOneCommand'
  BY DEF LagIsOneCommand, WorkerIsBusyOnACall, TypeOK
<1>12. ReprojectionFollowsLog'
  BY DEF ReprojectionFollowsLog, WorkerIsBusyOnACall, TypeOK
<1> QED BY <1>1, <1>2, <1>3, <1>4, <1>5, <1>6, <1>7, <1>8, <1>9, <1>10, <1>11, <1>12

LEMMA ReprojectStep ==
  ASSUME EngineInv, Reproject
  PROVE  EngineInv'
<1> USE DEF EngineInv, Reproject, store, workVars, Command
<1>1. TypeOK'
  <2>1. pending \in Seq(Event) /\ pending # <<>>
    BY DEF PendingIsTyped
  <2>2. Head(pending) \in Event /\ Tail(pending) \in Seq(Event)
    BY <2>1
  <2>3. next' \in ReadModels /\ written' \in Seq(Event)
    BY <2>2, ProjectEventType DEF TypeOK
  <2> QED BY <2>2, <2>3 DEF TypeOK
<1>2. LogIsNumbered'
  BY DEF LogIsNumbered, WorkerIsBusyOnACall, TypeOK
<1>3. PendingIsTyped'
  <2>1. pending \in Seq(Event) /\ pending # <<>>
    BY DEF PendingIsTyped
  <2>2. Tail(pending) \in Seq(Event)
    BY <2>1
  <2> QED BY <2>2 DEF PendingIsTyped
<1>4. WorkerIsBusyOnACall'
  BY DEF WorkerIsBusyOnACall, TypeOK
<1>5. TablesFollowLog'
  BY DEF TablesFollowLog
<1>6. ReadModelIsAPrefix'
  BY DEF ReadModelIsAPrefix, WorkerIsBusyOnACall, TypeOK
<1>7. StartIsTheReadModel'
  BY DEF StartIsTheReadModel, WorkerIsBusyOnACall, TypeOK
<1>8. CommandIsUndecided'
  BY DEF CommandIsUndecided, WorkerIsBusyOnACall, TypeOK, Receipt, Reply, Fail, NoReply
<1>9. TransactionFollowsDecision'
  BY DEF TransactionFollowsDecision, WorkerIsBusyOnACall, TypeOK
<1>10. InstalledIsCommitted'
  BY DEF InstalledIsCommitted, WorkerIsBusyOnACall, TypeOK
<1>11. LagIsOneCommand'
  BY DEF LagIsOneCommand, WorkerIsBusyOnACall, TypeOK
<1>12. ReprojectionFollowsLog'
  <2> SUFFICES ASSUME ~ stale PROVE ReprojectionFollowsLog'
    BY DEF ReprojectionFollowsLog
  <2> DEFINE n == next.snapshotSequence
  <2>1. /\ pending \in Seq(Event) /\ pending # <<>>
        /\ log \in Seq(Event)
    BY DEF PendingIsTyped, TypeOK
  <2>2. /\ n \in 0..Len(log)
        /\ next = ModelAt(log)[n]
        /\ n + Len(pending) = Len(log)
        /\ \A i \in 1..Len(pending) : pending[i] = log[n + i]
    BY DEF ReprojectionFollowsLog
  <2> HIDE DEF n
  <2>3. n + 1 \in 1..Len(log) /\ (n + 1) - 1 = n /\ Head(pending) = log[n + 1]
    BY <2>1, <2>2
  <2>4. next' = ModelAt(log)[n + 1]
    BY <2>1, <2>2, <2>3, ModelAtStep
  <2>5. next'.snapshotSequence = n + 1
    <3>1. n + 1 \in 0..Len(log)
      BY <2>3
    <3> QED BY <2>1, <2>4, <3>1, ModelAtSequence DEF LogIsNumbered
  <2>6. /\ n + 1 \in 0..Len(log)
        /\ n + 1 + Len(Tail(pending)) = Len(log)
        /\ \A i \in 1..Len(Tail(pending)) : Tail(pending)[i] = log[n + 1 + i]
    BY <2>1, <2>2, <2>3
  <2> QED BY <2>4, <2>5, <2>6 DEF ReprojectionFollowsLog
<1> QED BY <1>1, <1>2, <1>3, <1>4, <1>5, <1>6, <1>7, <1>8, <1>9, <1>10, <1>11, <1>12

LEMMA InstallReconciledStep ==
  ASSUME EngineInv, InstallReconciled
  PROVE  EngineInv'
<1> USE DEF EngineInv, InstallReconciled, store, workVars, Command
<1>1. TypeOK'
  BY DEF TypeOK, Steps
<1>2. LogIsNumbered'
  BY DEF LogIsNumbered, WorkerIsBusyOnACall, TypeOK
<1>3. PendingIsTyped'
  BY DEF PendingIsTyped, WorkerIsBusyOnACall, TypeOK
<1>4. WorkerIsBusyOnACall'
  BY DEF WorkerIsBusyOnACall, TypeOK
<1>5. TablesFollowLog'
  BY DEF TablesFollowLog
<1>6. ReadModelIsAPrefix'
  <2> SUFFICES ASSUME ~ stale' PROVE ReadModelIsAPrefix'
    BY DEF ReadModelIsAPrefix
  <2>1. next.snapshotSequence + Len(pending) = Len(log) /\ pending = <<>>
    BY DEF ReprojectionFollowsLog
  <2>2. next.snapshotSequence = Len(log)
    BY <2>1 DEF ReprojectionFollowsLog, TypeOK
  <2> QED BY <2>2 DEF ReprojectionFollowsLog, ReadModelIsAPrefix
<1>7. StartIsTheReadModel'
  BY DEF StartIsTheReadModel, WorkerIsBusyOnACall, TypeOK
<1>8. CommandIsUndecided'
  BY DEF CommandIsUndecided, WorkerIsBusyOnACall, TypeOK, Receipt, Reply, Fail, NoReply
<1>9. TransactionFollowsDecision'
  BY DEF TransactionFollowsDecision, WorkerIsBusyOnACall, TypeOK
<1>10. InstalledIsCommitted'
  BY DEF InstalledIsCommitted, WorkerIsBusyOnACall, TypeOK
<1>11. LagIsOneCommand'
  BY DEF LagIsOneCommand, WorkerIsBusyOnACall, TypeOK
<1>12. ReprojectionFollowsLog'
  BY DEF ReprojectionFollowsLog, WorkerIsBusyOnACall, TypeOK
<1> QED BY <1>1, <1>2, <1>3, <1>4, <1>5, <1>6, <1>7, <1>8, <1>9, <1>10, <1>11, <1>12

LEMMA RecordRejectionStep ==
  ASSUME EngineInv, RecordRejection
  PROVE  EngineInv'
<1> USE DEF EngineInv, RecordRejection, store, workVars, Command
<1>1. TypeOK'
  <2>1. readModel.snapshotSequence \in Nat
    BY DEF TypeOK, ReadModels
  <2>2. receipts' \in [CommandIds -> Receipts]
    BY <2>1 DEF TypeOK, Receipts, Receipt
  <2> QED BY <2>2 DEF TypeOK, Steps
<1>2. LogIsNumbered'
  BY DEF LogIsNumbered, WorkerIsBusyOnACall, TypeOK
<1>3. PendingIsTyped'
  BY DEF PendingIsTyped, WorkerIsBusyOnACall, TypeOK
<1>4. WorkerIsBusyOnACall'
  BY DEF WorkerIsBusyOnACall, TypeOK
<1>5. TablesFollowLog'
  BY DEF TablesFollowLog
<1>6. ReadModelIsAPrefix'
  BY DEF ReadModelIsAPrefix, WorkerIsBusyOnACall, TypeOK
<1>7. StartIsTheReadModel'
  BY DEF StartIsTheReadModel, WorkerIsBusyOnACall, TypeOK
<1>8. CommandIsUndecided'
  BY DEF CommandIsUndecided, WorkerIsBusyOnACall, TypeOK, Receipt, Reply, Fail, NoReply
<1>9. TransactionFollowsDecision'
  BY DEF TransactionFollowsDecision, WorkerIsBusyOnACall, TypeOK
<1>10. InstalledIsCommitted'
  BY DEF InstalledIsCommitted, WorkerIsBusyOnACall, TypeOK
<1>11. LagIsOneCommand'
  BY DEF LagIsOneCommand, WorkerIsBusyOnACall, TypeOK
<1>12. ReprojectionFollowsLog'
  BY DEF ReprojectionFollowsLog, WorkerIsBusyOnACall, TypeOK
<1> QED BY <1>1, <1>2, <1>3, <1>4, <1>5, <1>6, <1>7, <1>8, <1>9, <1>10, <1>11, <1>12

LEMMA SettleStep ==
  ASSUME EngineInv, Settle
  PROVE  EngineInv'
<1> USE DEF EngineInv, Settle, store, workVars, Command, ResetWorker
<1>1. TypeOK'
  BY EmptyReadModelType DEF TypeOK, Outcomes, Replies, ErrorKinds, Steps, NoReply, Reply, WorkerIsBusyOnACall
<1>2. LogIsNumbered'
  BY DEF LogIsNumbered, WorkerIsBusyOnACall, TypeOK
<1>3. PendingIsTyped'
  BY DEF PendingIsTyped, WorkerIsBusyOnACall, TypeOK
<1>4. WorkerIsBusyOnACall'
  BY DEF WorkerIsBusyOnACall, TypeOK
<1>5. TablesFollowLog'
  BY DEF TablesFollowLog
<1>6. ReadModelIsAPrefix'
  BY DEF ReadModelIsAPrefix, WorkerIsBusyOnACall, TypeOK
<1>7. StartIsTheReadModel'
  BY DEF StartIsTheReadModel, WorkerIsBusyOnACall, TypeOK
<1>8. CommandIsUndecided'
  BY DEF CommandIsUndecided, WorkerIsBusyOnACall, TypeOK, Receipt, Reply, Fail, NoReply
<1>9. TransactionFollowsDecision'
  BY DEF TransactionFollowsDecision, WorkerIsBusyOnACall, TypeOK
<1>10. InstalledIsCommitted'
  BY DEF InstalledIsCommitted, WorkerIsBusyOnACall, TypeOK
<1>11. LagIsOneCommand'
  BY DEF LagIsOneCommand, WorkerIsBusyOnACall, TypeOK
<1>12. ReprojectionFollowsLog'
  BY DEF ReprojectionFollowsLog, WorkerIsBusyOnACall, TypeOK
<1> QED BY <1>1, <1>2, <1>3, <1>4, <1>5, <1>6, <1>7, <1>8, <1>9, <1>10, <1>11, <1>12

LEMMA CrashStep ==
  ASSUME EngineInv, Crash
  PROVE  EngineInv'
<1> USE DEF EngineInv, Crash, store, workVars, Command, ResetWorker
<1>1. TypeOK'
  <2>1. \A k \in Calls : outcome'[k] \in Outcomes
    BY DEF TypeOK, Outcomes, Reply
  <2>2. outcome' \in [Calls -> Outcomes]
    BY <2>1
  <2>3. inbox' \in [Subscribers -> Subscriptions]
    BY DEF Unsubscribed, Subscriptions
  <2>4. result' \in Replies /\ pc' \in Steps
    BY DEF NoReply, Reply, Replies, Steps
  <2>5. /\ queue' \in Seq(Calls) /\ pending' \in Seq(Event) /\ written' \in Seq(Event)
        /\ readModel' \in ReadModels /\ next' \in ReadModels /\ draft' \in ReadModels
        /\ start' \in Nat /\ published' \in Nat /\ up' \in BOOLEAN
        /\ envelope' \in Calls \cup {None}
    <3>1. <<>> \in Seq(Calls) /\ <<>> \in Seq(Event) /\ 0 \in Nat /\ FALSE \in BOOLEAN
      OBVIOUS
    <3> QED BY <3>1, EmptyReadModelType
  <2> QED BY <2>2, <2>3, <2>4, <2>5 DEF TypeOK
<1>2. LogIsNumbered'
  BY DEF LogIsNumbered, WorkerIsBusyOnACall, TypeOK
<1>3. PendingIsTyped'
  BY DEF PendingIsTyped, WorkerIsBusyOnACall, TypeOK
<1>4. WorkerIsBusyOnACall'
  BY DEF WorkerIsBusyOnACall, TypeOK
<1>5. TablesFollowLog'
  BY DEF TablesFollowLog
<1>6. ReadModelIsAPrefix'
  BY DEF ReadModelIsAPrefix, WorkerIsBusyOnACall, TypeOK
<1>7. StartIsTheReadModel'
  BY DEF StartIsTheReadModel, WorkerIsBusyOnACall, TypeOK
<1>8. CommandIsUndecided'
  BY DEF CommandIsUndecided, WorkerIsBusyOnACall, TypeOK, Receipt, Reply, Fail, NoReply
<1>9. TransactionFollowsDecision'
  BY DEF TransactionFollowsDecision, WorkerIsBusyOnACall, TypeOK
<1>10. InstalledIsCommitted'
  BY DEF InstalledIsCommitted, WorkerIsBusyOnACall, TypeOK
<1>11. LagIsOneCommand'
  BY DEF LagIsOneCommand, WorkerIsBusyOnACall, TypeOK
<1>12. ReprojectionFollowsLog'
  BY DEF ReprojectionFollowsLog, WorkerIsBusyOnACall, TypeOK
<1> QED BY <1>1, <1>2, <1>3, <1>4, <1>5, <1>6, <1>7, <1>8, <1>9, <1>10, <1>11, <1>12

LEMMA RestartStep ==
  ASSUME EngineInv, Restart
  PROVE  EngineInv'
<1> USE DEF EngineInv, Restart, store, workVars, Command
<1>1. TypeOK'
  <2>1. published' \in Nat
    BY DEF TypeOK, ReadModels
  <2> QED BY <2>1 DEF TypeOK
<1>2. LogIsNumbered'
  BY DEF LogIsNumbered, WorkerIsBusyOnACall, TypeOK
<1>3. PendingIsTyped'
  BY DEF PendingIsTyped, WorkerIsBusyOnACall, TypeOK
<1>4. WorkerIsBusyOnACall'
  BY DEF WorkerIsBusyOnACall, TypeOK
<1>5. TablesFollowLog'
  BY DEF TablesFollowLog
<1>6. ReadModelIsAPrefix'
  <2>1. tables = ModelAt(log)[Len(log)] /\ log \in Seq(Event)
    BY DEF TablesFollowLog, ModelAfter, TypeOK
  <2>2. Len(log) \in 0..Len(log)
    BY <2>1
  <2>3. tables.snapshotSequence = Len(log)
    BY <2>1, <2>2, ModelAtSequence DEF LogIsNumbered
  <2> QED BY <2>1, <2>2, <2>3 DEF ReadModelIsAPrefix
<1>7. StartIsTheReadModel'
  BY DEF StartIsTheReadModel, WorkerIsBusyOnACall, TypeOK
<1>8. CommandIsUndecided'
  BY DEF CommandIsUndecided, WorkerIsBusyOnACall, TypeOK, Receipt, Reply, Fail, NoReply
<1>9. TransactionFollowsDecision'
  BY DEF TransactionFollowsDecision, WorkerIsBusyOnACall, TypeOK
<1>10. InstalledIsCommitted'
  BY DEF InstalledIsCommitted, WorkerIsBusyOnACall, TypeOK
<1>11. LagIsOneCommand'
  BY DEF LagIsOneCommand, WorkerIsBusyOnACall, TypeOK
<1>12. ReprojectionFollowsLog'
  BY DEF ReprojectionFollowsLog, WorkerIsBusyOnACall, TypeOK
<1> QED BY <1>1, <1>2, <1>3, <1>4, <1>5, <1>6, <1>7, <1>8, <1>9, <1>10, <1>11, <1>12

-----------------------------------------------------------------------------
LEMMA InitInv == Init => EngineInv
<1> SUFFICES ASSUME Init PROVE EngineInv
  OBVIOUS
<1>1. TypeOK
  <2>1. /\ <<>> \in Seq(Event) /\ <<>> \in Seq(Calls) /\ 0 \in Nat
        /\ TRUE \in BOOLEAN /\ FALSE \in BOOLEAN /\ "idle" \in Steps
    BY DEF Steps
  <2>2. receipts \in [CommandIds -> Receipts] /\ inbox \in [Subscribers -> Subscriptions]
    BY DEF Init, Receipts, Receipt, NoReceipt, Subscriptions, Unsubscribed
  <2>3. result \in Replies /\ outcome \in [Calls -> Outcomes]
    BY DEF Init, Replies, Outcomes, NoReply, Reply
  <2> QED BY <2>1, <2>2, <2>3, EmptyReadModelType DEF Init, TypeOK
<1>2. ModelAt(log)[0] = EmptyReadModel /\ Len(log) = 0
  <2>1. log \in Seq(Event) /\ log = <<>>
    BY <1>1 DEF TypeOK, Init
  <2> QED BY <2>1, ModelAtEmpty
<1>3. TablesFollowLog /\ ReadModelIsAPrefix
  BY <1>2 DEF Init, TablesFollowLog, ReadModelIsAPrefix, ModelAfter, EmptyReadModel
<1> QED BY <1>1, <1>2, <1>3
  DEF Init, EngineInv, LogIsNumbered, PendingIsTyped, WorkerIsBusyOnACall,
      StartIsTheReadModel, CommandIsUndecided, TransactionFollowsDecision,
      InstalledIsCommitted, LagIsOneCommand, ReprojectionFollowsLog

LEMMA StutterStep ==
  ASSUME EngineInv, UNCHANGED vars
  PROVE  EngineInv'
BY DEF EngineInv, vars, store, workVars, TypeOK, LogIsNumbered, PendingIsTyped,
   WorkerIsBusyOnACall, TablesFollowLog, ReadModelIsAPrefix, StartIsTheReadModel,
   CommandIsUndecided, TransactionFollowsDecision, InstalledIsCommitted,
   LagIsOneCommand, ReprojectionFollowsLog, Command

LEMMA NextInv == EngineInv /\ [Next]_vars => EngineInv'
<1> SUFFICES ASSUME EngineInv, [Next]_vars PROVE EngineInv'
  OBVIOUS
<1>1. ASSUME NEW k \in Calls, Dispatch(k) PROVE EngineInv'
  BY <1>1, DispatchStep
<1>2. ASSUME NEW s \in Subscribers, Subscribe(s) PROVE EngineInv'
  BY <1>2, SubscribeStep
<1>3. CASE WorkerStep
  BY <1>3, TakeStep, LookupReceiptStep, LookupFailsStep, DecideCommandStep,
     AppendEventStep, TransactionFailsStep, CommitStep, CommitReplyLostStep,
     InstallStep, PublishStep, ReadBackStep, ReadBackFailsStep, ReprojectStep,
     InstallReconciledStep, RecordRejectionStep, SettleStep DEF WorkerStep
<1>4. CASE Crash
  BY <1>4, CrashStep
<1>5. CASE Restart
  BY <1>5, RestartStep
<1>6. CASE UNCHANGED vars
  BY <1>6, StutterStep
<1> QED BY <1>1, <1>2, <1>3, <1>4, <1>5, <1>6 DEF Next

\* In every state of every behaviour the inductive invariant holds.
THEOREM EngineInvariant == Spec => []EngineInv
<1>1. Init => EngineInv
  BY InitInv
<1>2. EngineInv /\ [Next]_vars => EngineInv'
  BY NextInv
<1> QED BY <1>1, <1>2, PTL DEF Spec

\* Every variable of the engine keeps its type.
THEOREM TypeCorrect == Spec => []TypeOK
<1>1. EngineInv => TypeOK
  BY DEF EngineInv
<1> QED BY <1>1, EngineInvariant, PTL

(***************************************************************************)
(* The read model of the running engine is the projection of a prefix of   *)
(* the committed log, and of all of it between two commands, until a       *)
(* reconciliation fails after a lost commit reply.                         *)
(***************************************************************************)
THEOREM ReadModelCorrect == Spec => []ReadModelFollowsLog
<1>1. EngineInv => ReadModelFollowsLog
  BY DEF EngineInv, ReadModelIsAPrefix, ReadModelFollowsLog
<1> QED BY <1>1, EngineInvariant, PTL

-----------------------------------------------------------------------------
(* The engine implements the command log. *)

LEMMA InitRefines == Init => Log!Init
BY DEF Init, Log!Init, NoReceipt, Receipt, Log!Verdict, CommandIds

\* A commit is the acceptance of the command on the state of the whole log.
LEMMA CommitRefines ==
  ASSUME EngineInv, ~ stale, MakeDurable
  PROVE  Log!Next
<1> DEFINE events == Decide(readModel, Command)
<1>1. /\ Command \in Commands
      /\ Len(written) \in 1..2
      /\ written = SavedAfter(events, Len(log))
  BY CommittedEvents
<1>2. readModel = ModelAfter(log)
  BY DEF EngineInv, MakeDurable, ReadModelIsAPrefix, WorkerIsBusyOnACall, ModelAfter
<1>3. receipts[Command.id].status = "none"
  BY DEF EngineInv, MakeDurable, CommandIsUndecided
<1>4. events # <<>> /\ Len(written) = Len(events)
  BY <1>1 DEF EngineInv, MakeDurable, TransactionFollowsDecision, SavedAfter
<1>5. log' = log \o SavedAfter(events, Len(log))
  BY <1>1 DEF MakeDurable
<1>6. receipts' = [receipts EXCEPT ![Command.id] =
                     Receipt("accepted", Len(log) + Len(events))]
  BY <1>4 DEF MakeDurable
<1>7. EventsAfter(log, Command) = written /\ written # <<>>
  BY <1>1, <1>2 DEF EventsAfter
<1>8. Log!Accept(Command)
  BY <1>1, <1>3, <1>4, <1>5, <1>6, <1>7 DEF Log!Accept, Receipt, Log!Verdict
<1> QED BY <1>1, <1>8 DEF Log!Next

\* A recorded refusal is a refusal on the state of the whole log.
LEMMA RejectionRefines ==
  ASSUME EngineInv, ~ stale, RecordRejection
  PROVE  Log!Next \/ UNCHANGED Log!logVars
<1>1. Command \in Commands
  BY EngineAssumption DEF EngineInv, RecordRejection, WorkerIsBusyOnACall, Command
<1>2. /\ receipts[Command.id].status = "none"
      /\ Decide(ModelAfter(log), Command) = <<>>
  BY DEF EngineInv, RecordRejection, CommandIsUndecided
<1>3. readModel.snapshotSequence = Len(log)
  BY DEF EngineInv, RecordRejection, WorkerIsBusyOnACall, ReadModelIsAPrefix
<1>4. CASE UNCHANGED receipts
  BY <1>4 DEF RecordRejection, Log!logVars
<1>5. CASE receipts' = [receipts EXCEPT ![Command.id] =
                          Receipt("rejected", readModel.snapshotSequence)]
  <2>1. EventsAfter(log, Command) = <<>>
    BY <1>2 DEF EventsAfter, SavedAfter
  <2>2. Log!Reject(Command)
    BY <1>2, <1>3, <1>5, <2>1 DEF Log!Reject, RecordRejection, Receipt, Log!Verdict
  <2> QED BY <1>1, <2>2 DEF Log!Next
<1> QED BY <1>4, <1>5 DEF RecordRejection

LEMMA NextRefines == EngineInv /\ [Next]_vars => [~ stale => Log!Next]_(Log!logVars)
<1> SUFFICES ASSUME EngineInv, ~ stale, [Next]_vars
             PROVE  Log!Next \/ UNCHANGED Log!logVars
  OBVIOUS
<1>1. CASE Commit \/ CommitReplyLost
  BY <1>1, CommitRefines DEF Commit, CommitReplyLost
<1>2. CASE RecordRejection
  BY <1>2, RejectionRefines
<1>3. ASSUME NEW k \in Calls, Dispatch(k) PROVE UNCHANGED Log!logVars
  BY <1>3 DEF Dispatch, store, Log!logVars
<1>4. ASSUME NEW s \in Subscribers, Subscribe(s) PROVE UNCHANGED Log!logVars
  BY <1>4 DEF Subscribe, store, Log!logVars
<1>5. CASE WorkerStep /\ ~ Commit /\ ~ CommitReplyLost /\ ~ RecordRejection
  BY <1>5 DEF WorkerStep, Take, LookupReceipt, LookupFails, DecideCommand, AppendEvent,
     TransactionFails, Install, Publish, ReadBack, ReadBackFails, Reproject,
     InstallReconciled, Settle, store, Log!logVars
<1>6. CASE Crash \/ Restart \/ UNCHANGED vars
  BY <1>6 DEF Crash, Restart, vars, store, Log!logVars
<1> QED BY <1>1, <1>2, <1>3, <1>4, <1>5, <1>6 DEF Next, WorkerStep

(***************************************************************************)
(* Whatever else fails, is lost or is dispatched again, the log and the    *)
(* receipts of the engine behave as the command log until a reconciliation *)
(* fails after a lost commit reply: each command id is decided at most     *)
(* once, on the state of the whole log, all of its events at a time.       *)
(***************************************************************************)
THEOREM EngineImplementsCommandLog == Spec => ImplementsCommandLog
<1>1. Init => Log!Init
  BY InitRefines
<1>2. EngineInv /\ [Next]_vars => [~ stale => Log!Next]_(Log!logVars)
  BY NextRefines
<1> QED BY <1>1, <1>2, EngineInvariant, PTL DEF Spec, ImplementsCommandLog
-----------------------------------------------------------------------------
(***************************************************************************)
(* What the engine tells the world: its receipts match the log, its        *)
(* answers stay true, every subscription receives every event, and the     *)
(* read model covers whatever was seen.  They rest on EngineInv and on     *)
(* what the worker is about to answer and to publish (AnswersInv).         *)
(***************************************************************************)

\* Where a command's own events are, and where the others are, after a commit.
LEMMA PositionsAfterCommit ==
  ASSUME EngineInv, MakeDurable, NEW c \in Commands
  PROVE  PositionsOf(c.id)' =
           PositionsOf(c.id) \cup
             (IF c = Command THEN (Len(log) + 1)..(Len(log) + Len(written)) ELSE {})
<1> DEFINE l == Len(log)
           w == Len(written)
<1>1. /\ log \in Seq(Event) /\ written \in Seq(Event) /\ log' = log \o written
      /\ pc = "transaction" /\ pending = <<>>
  BY DEF EngineInv, TypeOK, MakeDurable
<1>2. Command \in Commands /\ Len(written) \in 1..2
  BY CommittedEvents
<1>3. \A i \in 1..w : written[i].cmd = Command
  <2>1. \A i \in 1..w : written[i] = Saved(Decide(readModel, Command)[i], l + i)
    BY <1>1 DEF EngineInv, TransactionFollowsDecision
  <2>2. \A i \in 1..Len(Decide(readModel, Command)) :
          Decide(readModel, Command)[i].cmd = Command
    BY <1>2, DecideType
  <2>3. w = Len(Decide(readModel, Command))
    BY <1>2, CommittedEvents DEF SavedAfter
  <2>4. \A e, n : Saved(e, n).cmd = e.cmd
    BY DEF Saved
  <2> HIDE DEF l, w
  <2> QED BY <2>1, <2>2, <2>3, <2>4
<1>4. l \in Nat /\ w \in Nat /\ Len(log') = l + w
  BY <1>1
<1>5. \A i \in 1..l : log'[i] = log[i]
  BY <1>1
<1>6. \A i \in 1..(l + w) : i \notin 1..l =>
        i - l \in 1..w /\ log'[i] = written[i - l]
  BY <1>1
<1>7. c.id = Command.id <=> c = Command
  BY <1>2, DeciderAssumption
<1> HIDE DEF l, w
<1>8. \A i \in 1..(l + w) : i \notin 1..l => log'[i].cmd = Command
  BY <1>3, <1>6
<1>9. \A i : i \in 1..(l + w) <=> i \in 1..l \/ i \in (l + 1)..(l + w)
  BY <1>4
<1>10. \A i : i \in (l + 1)..(l + w) => i \notin 1..l
  BY <1>4
<1>11. PositionsOf(c.id)' = {i \in 1..(l + w) : log'[i].cmd.id = c.id}
  BY <1>4 DEF PositionsOf
<1>12. PositionsOf(c.id) = {i \in 1..l : log[i].cmd.id = c.id}
  BY DEF PositionsOf, l
<1>13. CASE c = Command
  BY <1>5, <1>8, <1>9, <1>10, <1>11, <1>12, <1>13 DEF l, w
<1>14. CASE c # Command
  BY <1>5, <1>7, <1>8, <1>9, <1>10, <1>11, <1>12, <1>14
<1> QED BY <1>13, <1>14

\* The number of events of a command, and of those a commit appends.
LEMMA EventCount ==
  ASSUME NEW c \in Commands
  PROVE  Len(EventTypesOf(c)) \in 1..2
<1>1. CASE c.type = "thread.turn.start"
  BY <1>1 DEF EventTypesOf
<1>2. CASE c.type # "thread.turn.start"
  BY <1>2 DEF EventTypesOf
<1> QED BY <1>1, <1>2

LEMMA CommittedCount ==
  ASSUME EngineInv, MakeDurable
  PROVE  Len(written) = Len(EventTypesOf(Command))
<1>1. Command \in Commands
  BY CommittedEvents
<1>2. /\ Decide(readModel, Command) # <<>>
      /\ Len(written) + Len(pending) = Len(Decide(readModel, Command))
      /\ Len(pending) = 0 /\ Len(written) \in Nat
  BY DEF EngineInv, TypeOK, MakeDurable, TransactionFollowsDecision
<1>3. Len(written) = Len(Decide(readModel, Command))
  BY <1>2
<1> QED BY <1>1, <1>2, <1>3, DecideType

-----------------------------------------------------------------------------
(* The receipts. *)

\* The receipts of the running command are the only ones a step may write.
LEMMA ReceiptsStep ==
  ASSUME EngineInv, ReceiptsMatchLog, [Next]_vars
  PROVE  ReceiptsMatchLog'
<1>1. CASE Commit \/ CommitReplyLost
  <2>1. MakeDurable
    BY <1>1 DEF Commit, CommitReplyLost
  <2>2. /\ Command \in Commands /\ Len(written) \in 1..2 /\ Len(log) \in Nat
        /\ Len(written) = Len(EventTypesOf(Command))
        /\ receipts \in [CommandIds -> Receipts]
    BY <2>1, CommittedEvents, CommittedCount DEF EngineInv, TypeOK
  <2>3. receipts[Command.id].status = "none"
    BY <2>1 DEF EngineInv, CommandIsUndecided, MakeDurable
  <2>4. receipts' = [receipts EXCEPT ![Command.id] =
                       Receipt("accepted", Len(log) + Len(written))]
    BY <2>1 DEF MakeDurable
  <2> SUFFICES ASSUME NEW c \in Commands
               PROVE  PositionsOf(c.id)' =
                        IF receipts'[c.id].status = "accepted"
                        THEN (receipts'[c.id].sequence - Len(EventTypesOf(c)) + 1)
                               ..receipts'[c.id].sequence
                        ELSE {}
    BY DEF ReceiptsMatchLog
  <2>5. c.id \in CommandIds /\ Command.id \in CommandIds
    BY <2>2 DEF CommandIds
  <2>6. CASE c = Command
    <3>1. PositionsOf(c.id) = {}
      BY <2>3, <2>6 DEF ReceiptsMatchLog
    <3>2. /\ receipts'[c.id].status = "accepted"
          /\ receipts'[c.id].sequence = Len(log) + Len(written)
      BY <2>2, <2>4, <2>5, <2>6 DEF Receipt
    <3>3. Len(log) + Len(written) - Len(EventTypesOf(c)) + 1 = Len(log) + 1
      BY <2>2, <2>6
    <3>4. PositionsOf(c.id)' = (Len(log) + 1)..(Len(log) + Len(written))
      BY <2>1, <2>6, <3>1, PositionsAfterCommit
    <3> QED BY <3>2, <3>3, <3>4
  <2>7. CASE c # Command
    <3>1. c.id # Command.id
      BY <2>2, <2>7, DeciderAssumption
    <3>2. receipts'[c.id] = receipts[c.id]
      BY <2>2, <2>4, <2>5, <3>1
    <3>3. PositionsOf(c.id)' = PositionsOf(c.id)
      BY <2>1, <2>7, PositionsAfterCommit
    <3> QED BY <3>2, <3>3 DEF ReceiptsMatchLog
  <2> QED BY <2>6, <2>7
<1>2. CASE RecordRejection
  <2>1. /\ Command \in Commands
        /\ receipts \in [CommandIds -> Receipts]
        /\ receipts[Command.id].status = "none"
    BY <1>2, EngineAssumption
    DEF EngineInv, TypeOK, RecordRejection, WorkerIsBusyOnACall, Command, CommandIsUndecided
  <2>2. log' = log
    BY <1>2 DEF RecordRejection
  <2>3. receipts' = receipts \/ receipts' = [receipts EXCEPT ![Command.id] =
                               Receipt("rejected", readModel.snapshotSequence)]
    BY <1>2 DEF RecordRejection
  <2>4. ASSUME NEW c \in Commands
        PROVE  /\ PositionsOf(c.id)' = PositionsOf(c.id)
               /\ \/ receipts'[c.id] = receipts[c.id]
                  \/ receipts[c.id].status = "none" /\ receipts'[c.id].status = "rejected"
    <3>1. c.id \in CommandIds
      BY DEF CommandIds
    <3>2. PositionsOf(c.id)' = PositionsOf(c.id)
      BY <2>2 DEF PositionsOf
    <3> QED BY <2>1, <2>3, <3>1, <3>2 DEF Receipt
  <2> QED BY <2>4 DEF ReceiptsMatchLog
<1>3. CASE ~ Commit /\ ~ CommitReplyLost /\ ~ RecordRejection
  <2>1. log' = log /\ receipts' = receipts
    BY <1>3 DEF Next, WorkerStep, Dispatch, Subscribe, Take, LookupReceipt, LookupFails,
       DecideCommand, AppendEvent, TransactionFails, Install, Publish, ReadBack,
       ReadBackFails, Reproject, InstallReconciled, Settle, Crash, Restart, vars, store
  <2> QED BY <2>1 DEF ReceiptsMatchLog, PositionsOf
<1> QED BY <1>1, <1>2, <1>3

-----------------------------------------------------------------------------
(* The answers. *)

\* Once a receipt is written it stays as it is.
LEMMA ReceiptsStay ==
  ASSUME EngineInv, [Next]_vars, NEW id \in CommandIds, receipts[id].status # "none"
  PROVE  receipts'[id] = receipts[id]
<1>1. CASE Commit \/ CommitReplyLost
  <2>1. MakeDurable
    BY <1>1 DEF Commit, CommitReplyLost
  <2>2. receipts[Command.id].status = "none" /\ receipts \in [CommandIds -> Receipts]
    BY <2>1 DEF EngineInv, TypeOK, CommandIsUndecided, MakeDurable
  <2> QED BY <2>1, <2>2 DEF MakeDurable
<1>2. CASE RecordRejection
  <2>1. receipts[Command.id].status = "none" /\ receipts \in [CommandIds -> Receipts]
    BY <1>2 DEF EngineInv, TypeOK, CommandIsUndecided, RecordRejection
  <2> QED BY <1>2, <2>1 DEF RecordRejection
<1>3. CASE ~ Commit /\ ~ CommitReplyLost /\ ~ RecordRejection
  BY <1>3 DEF Next, WorkerStep, Dispatch, Subscribe, Take, LookupReceipt, LookupFails,
     DecideCommand, AppendEvent, TransactionFails, Install, Publish, ReadBack,
     ReadBackFails, Reproject, InstallReconciled, Settle, Crash, Restart, vars, store
<1> QED BY <1>1, <1>2, <1>3

\* What an answer says of the receipt of its command.
Supports(r, answer) ==
  /\ answer.kind = "ok" => r = Receipt("accepted", answer.sequence)
  /\ answer.kind = "previouslyRejected" => r.status = "rejected"
  /\ answer.kind = "invariant" => r.status = "rejected" \/ "receipt" \in Faults

LEMMA AnswersStep ==
  ASSUME EngineInv, AnswersAreTrue, ResultIsTrue, [Next]_vars
  PROVE  AnswersAreTrue'
<1> SUFFICES ASSUME NEW k \in Calls
             PROVE  Supports(receipts'[CommandOf[k].id], outcome'[k])
  BY DEF AnswersAreTrue, Supports
<1>1. CommandOf[k].id \in CommandIds
  BY EngineAssumption DEF CommandIds
<1>2. Supports(receipts[CommandOf[k].id], outcome[k])
  BY DEF AnswersAreTrue, Supports
<1>3. Supports(receipts'[CommandOf[k].id], outcome[k])
  <2>1. CASE receipts[CommandOf[k].id].status = "none"
    BY <1>2, <2>1 DEF Supports, Receipt
  <2>2. CASE receipts[CommandOf[k].id].status # "none"
    BY <1>1, <1>2, <2>2, ReceiptsStay
  <2> QED BY <2>1, <2>2
<1>4. CASE Settle /\ k = envelope
  <2>1. receipts' = receipts /\ outcome'[k] = result /\ pc # "idle"
    BY <1>4 DEF Settle, store, EngineInv, TypeOK
  <2>2. pc = "settle" \/ result.kind # "invariant"
    BY <1>4 DEF Settle
  <2>3. Supports(receipts[CommandOf[k].id], result)
    BY <1>4, <2>1, <2>2 DEF ResultIsTrue, Command, Supports
  <2> QED BY <2>1, <2>3
<1>5. CASE outcome'[k] = outcome[k]
  BY <1>3, <1>5
<1>6. CASE outcome'[k].kind \notin {"ok", "previouslyRejected", "invariant"}
  BY <1>6 DEF Supports
<1>7. (Settle /\ k = envelope) \/ outcome'[k] = outcome[k]
        \/ outcome'[k].kind \notin {"ok", "previouslyRejected", "invariant"}
  <2>1. ASSUME NEW j \in Calls, Dispatch(j)
        PROVE  outcome'[k] = outcome[k]
                 \/ outcome'[k].kind \notin {"ok", "previouslyRejected", "invariant"}
    BY <2>1 DEF Dispatch, Reply, EngineInv, TypeOK
  <2>2. CASE Settle
    BY <2>2 DEF Settle, EngineInv, TypeOK
  <2>3. CASE Crash
    BY <2>3 DEF Crash, Reply, EngineInv, TypeOK
  <2>4. CASE outcome' = outcome
    BY <2>4
  <2>5. outcome' = outcome \/ Settle \/ Crash \/ \E j \in Calls : Dispatch(j)
    BY DEF Next, WorkerStep, Subscribe, Take, LookupReceipt, LookupFails, DecideCommand,
       AppendEvent, TransactionFails, Commit, CommitReplyLost, Install, Publish, ReadBack,
       ReadBackFails, Reproject, InstallReconciled, RecordRejection, Restart, vars
  <2> QED BY <2>1, <2>2, <2>3, <2>4, <2>5
<1> QED BY <1>4, <1>5, <1>6, <1>7

LEMMA ResultStep ==
  ASSUME EngineInv, EngineInv', ResultIsTrue, [Next]_vars
  PROVE  ResultIsTrue'
<1>1. CASE Commit
  <2>1. MakeDurable /\ result' = Reply("ok", written[Len(written)].sequence)
        /\ envelope' = envelope
    BY <1>1 DEF Commit
  <2>2. /\ Len(written) \in 1..2 /\ Command \in Commands
        /\ \A i \in 1..Len(written) : written[i].sequence = Len(log) + i
    BY <2>1, CommittedEvents
  <2>3. written[Len(written)].sequence = Len(log) + Len(written)
    <3>1. Len(written) \in 1..Len(written)
      <4> DEFINE n == Len(written)
      <4>1. n \in 1..2
        BY <2>2
      <4> HIDE DEF n
      <4>2. n \in 1..n
        BY <4>1
      <4> QED BY <4>2 DEF n
    <3> QED BY <2>2, <3>1
  <2>4. receipts'[Command.id] = Receipt("accepted", Len(log) + Len(written))
    BY <2>1, <2>2 DEF MakeDurable, CommandIds, EngineInv, TypeOK
  <2>5. result'.kind = "ok" /\ result'.sequence = Len(log) + Len(written)
    BY <2>1, <2>3 DEF Reply
  <2>6. Command' = Command
    BY <2>1 DEF Command
  <2>7. pc' = "install"
    BY <1>1 DEF Commit
  <2> QED BY <2>4, <2>5, <2>6, <2>7 DEF ResultIsTrue
<1>2. CASE CommitReplyLost \/ LookupFails \/ TransactionFails
  BY <1>2 DEF CommitReplyLost, LookupFails, TransactionFails, ResultIsTrue, Fail, Reply
<1>3. CASE RecordRejection
  <2>1. /\ result' = result /\ envelope' = envelope /\ pc # "idle"
        /\ result.kind = "invariant"
        /\ Command' = Command /\ Command \in Commands
    BY <1>3, EngineAssumption
    DEF RecordRejection, Command, EngineInv, WorkerIsBusyOnACall
  <2>2. receipts'[Command.id].status = "rejected" \/ "receipt" \in Faults
    BY <1>3, <2>1 DEF RecordRejection, CommandIds, Receipt, EngineInv, TypeOK
  <2>3. pc' = "settle"
    BY <1>3 DEF RecordRejection
  <2> QED BY <2>1, <2>2, <2>3 DEF ResultIsTrue
<1>4. CASE LookupReceipt
  <2>1. /\ Command \in Commands /\ receipts[Command.id] \in Receipts
        /\ Command' = Command /\ receipts' = receipts /\ pc = "lookup"
        /\ pc' \in {"settle", "decide"}
    BY <1>4, EngineAssumption
    DEF LookupReceipt, Command, EngineInv, WorkerIsBusyOnACall, TypeOK, CommandIds, store
  <2>2. CASE receipts[Command.id].status = "none"
    BY <1>4, <2>1, <2>2 DEF LookupReceipt, ResultIsTrue
  <2>3. CASE receipts[Command.id].status = "accepted"
    <3>1. result' = Reply("ok", receipts[Command.id].sequence)
      BY <1>4, <2>3 DEF LookupReceipt
    <3>2. receipts[Command.id] = Receipt("accepted", receipts[Command.id].sequence)
      BY <2>1, <2>3 DEF Receipts, Receipt
    <3> QED BY <2>1, <3>1, <3>2 DEF ResultIsTrue, Reply
  <2>4. CASE receipts[Command.id].status = "rejected"
    <3>1. result' = Fail("previouslyRejected")
      BY <1>4, <2>4 DEF LookupReceipt
    <3> QED BY <2>1, <2>4, <3>1 DEF ResultIsTrue, Reply, Fail
  <2> QED BY <2>1, <2>2, <2>3, <2>4 DEF Receipts
<1>5. CASE DecideCommand
  <2>1. CASE pc' = "reconcile" /\ result' = Fail("invariant")
    BY <2>1 DEF ResultIsTrue, Fail, Reply
  <2>2. CASE pc' = "transaction" /\ UNCHANGED result
    BY <1>5, <2>2 DEF DecideCommand, ResultIsTrue, store, Command
  <2> QED BY <1>5, <2>1, <2>2 DEF DecideCommand
<1>6. CASE Take
  BY <1>6 DEF Take, ResultIsTrue, NoReply, Reply
<1>7. CASE Settle \/ Crash
  BY <1>7 DEF Settle, Crash, ResetWorker, ResultIsTrue, NoReply, Reply
<1>8. CASE /\ UNCHANGED <<receipts, envelope, result>>
           /\ (pc' = pc) \/ (pc' # "settle" /\ pc' # "idle" /\ pc # "idle")
  BY <1>8 DEF ResultIsTrue, Command
<1>9. \/ /\ UNCHANGED <<receipts, envelope, result>>
         /\ (pc' = pc) \/ (pc' # "settle" /\ pc' # "idle" /\ pc # "idle")
      \/ Commit \/ CommitReplyLost \/ LookupFails \/ TransactionFails \/ RecordRejection
      \/ LookupReceipt \/ DecideCommand \/ Take \/ Settle \/ Crash
  <2>1. ASSUME NEW k \in Calls, Dispatch(k)
        PROVE  UNCHANGED <<receipts, envelope, result>> /\ pc' = pc
    BY <2>1 DEF Dispatch, store, workVars
  <2>2. ASSUME NEW s \in Subscribers, Subscribe(s)
        PROVE  UNCHANGED <<receipts, envelope, result>> /\ pc' = pc
    BY <2>2 DEF Subscribe, store, workVars
  <2>3. CASE AppendEvent \/ Publish \/ Reproject \/ Restart \/ UNCHANGED vars
    <3>1. UNCHANGED <<receipts, envelope, result>> /\ pc' = pc
      BY <2>3 DEF AppendEvent, Publish, Reproject, Restart, vars, store, workVars
    <3> QED BY <3>1
  <2>4. CASE Install \/ ReadBack \/ ReadBackFails \/ InstallReconciled
    BY <2>4 DEF Install, ReadBack, ReadBackFails, InstallReconciled, store
  <2> QED BY <2>1, <2>2, <2>3, <2>4 DEF Next, WorkerStep
<1> QED BY <1>1, <1>2, <1>3, <1>4, <1>5, <1>6, <1>7, <1>8, <1>9

-----------------------------------------------------------------------------
(* The subscriptions. *)

\* Within the life of a process stale is never taken back.
LEMMA StaleStays ==
  ASSUME EngineInv, [Next]_vars, up', ~ stale'
  PROVE  ~ stale
BY DEF Next, WorkerStep, Dispatch, Subscribe, Take, LookupReceipt, LookupFails,
   DecideCommand, AppendEvent, TransactionFails, Commit, CommitReplyLost, Install,
   Publish, ReadBack, ReadBackFails, Reproject, InstallReconciled, RecordRejection,
   Settle, Crash, Restart, vars

LEMMA SubscribedStep ==
  ASSUME EngineInv, SubscriptionsEndWithTheProcess, [Next]_vars
  PROVE  SubscriptionsEndWithTheProcess'
<1>1. CASE Publish
  BY <1>1 DEF Publish, EngineInv, TypeOK, Subscriptions, SubscriptionsEndWithTheProcess
<1>2. ASSUME NEW t \in Subscribers, Subscribe(t) PROVE SubscriptionsEndWithTheProcess'
  BY <1>2 DEF Subscribe, EngineInv, TypeOK, SubscriptionsEndWithTheProcess
<1>3. CASE Crash
  BY <1>3 DEF Crash, Unsubscribed, SubscriptionsEndWithTheProcess
<1>4. CASE Restart
  BY <1>4 DEF Restart, SubscriptionsEndWithTheProcess
<1>5. CASE UNCHANGED <<up, inbox>>
  BY <1>5 DEF SubscriptionsEndWithTheProcess
<1>6. \/ Publish \/ Crash \/ Restart \/ UNCHANGED <<up, inbox>>
      \/ \E t \in Subscribers : Subscribe(t)
  BY DEF Next, WorkerStep, Dispatch, Take, LookupReceipt, LookupFails, DecideCommand,
     AppendEvent, TransactionFails, Commit, CommitReplyLost, Install, ReadBack,
     ReadBackFails, Reproject, InstallReconciled, RecordRejection, Settle, vars, store
<1> QED BY <1>1, <1>2, <1>3, <1>4, <1>5, <1>6

LEMMA SubscriptionsStep ==
  ASSUME EngineInv, EngineInv', PublishedFollowsLog, SubscriptionsEndWithTheProcess,
         SubscriptionsFollowPublished, [Next]_vars
  PROVE  SubscriptionsFollowPublished'
<1> SUFFICES ASSUME up', ~ stale', ~ stale
             PROVE  SubscriptionsFollowPublished'
  BY StaleStays DEF SubscriptionsFollowPublished
<1>1. CASE Publish
  <2> DEFINE n == Head(pending).sequence
  <2>1. /\ pc = "finish" /\ pending \in Seq(Event) /\ pending # <<>> /\ up /\ up' = up
        /\ published \in Nat
    BY <1>1 DEF Publish, EngineInv, TypeOK, PendingIsTyped, WorkerIsBusyOnACall
  <2>2. n = published + 1
    <3>1. Head(pending) = pending[1] /\ 1 \in 1..Len(pending)
      BY <2>1
    <3> QED BY <2>1, <3>1 DEF PublishedFollowsLog
  <2>3. /\ published' = n
        /\ inbox' = [s \in Subscribers |-> IF inbox[s].active
                                          THEN [inbox[s] EXCEPT !.got = Append(@, n)]
                                          ELSE inbox[s]]
    BY <1>1 DEF Publish
  <2> HIDE DEF n
  <2> SUFFICES ASSUME NEW s \in Subscribers
               PROVE  inbox'[s].active =>
                        /\ inbox'[s].from + Len(inbox'[s].got) = published'
                        /\ \A i \in 1..Len(inbox'[s].got) :
                             inbox'[s].got[i] = inbox'[s].from + i
    BY DEF SubscriptionsFollowPublished
  <2>4. inbox[s] \in Subscriptions /\ inbox[s].got \in Seq(Nat) /\ inbox[s].from \in Nat
    BY DEF EngineInv, TypeOK, Subscriptions
  <2>5. CASE ~ inbox[s].active
    BY <2>3, <2>5
  <2>6. CASE inbox[s].active
    <3> DEFINE got == inbox[s].got
               from == inbox[s].from
    <3>1. /\ inbox'[s].got = Append(got, n) /\ inbox'[s].from = from
          /\ inbox'[s].active
      BY <2>3, <2>4, <2>6 DEF Subscriptions
    <3>2. from + Len(got) = published /\ \A i \in 1..Len(got) : got[i] = from + i
      BY <2>1, <2>6 DEF SubscriptionsFollowPublished
    <3>3. n \in Nat
      BY <2>1, <2>2
    <3>4. /\ got \in Seq(Nat) /\ from \in Nat
      BY <2>4
    <3> HIDE DEF got, from
    <3>5. /\ Len(Append(got, n)) = Len(got) + 1 /\ Len(got) \in Nat
          /\ Append(got, n)[Len(got) + 1] = n
          /\ \A i \in 1..Len(got) : Append(got, n)[i] = got[i]
      <4>1. Len(Append(got, n)) = Len(got) + 1 /\ Len(got) \in Nat
        BY <3>3, <3>4
      <4>2. Append(got, n)[Len(got) + 1] = n
        BY <3>3, <3>4, <4>1
      <4>3. \A i \in 1..Len(got) : Append(got, n)[i] = got[i]
        BY <3>3, <3>4, <4>1
      <4> QED BY <4>1, <4>2, <4>3
    <3>6. from + (Len(got) + 1) = n
      <4> DEFINE m == Len(got)
      <4>1. m \in Nat /\ from \in Nat /\ published \in Nat /\ n = published + 1
            /\ from + m = published
        BY <2>1, <2>2, <3>2, <3>4, <3>5
      <4> HIDE DEF m
      <4>2. from + (m + 1) = n
        BY <4>1
      <4> QED BY <4>2 DEF m
    <3>7. \A i \in 1..(Len(got) + 1) : i \in 1..Len(got) \/ i = Len(got) + 1
      BY <3>5
    <3>8. \A i \in 1..Len(Append(got, n)) : Append(got, n)[i] = from + i
      BY <3>2, <3>5, <3>6, <3>7
    <3> QED BY <2>1, <2>3, <3>1, <3>5, <3>6, <3>8
  <2> QED BY <2>5, <2>6
<1>2. ASSUME NEW t \in Subscribers, Subscribe(t) PROVE SubscriptionsFollowPublished'
  <2> SUFFICES ASSUME NEW s \in Subscribers
               PROVE  inbox'[s].active =>
                        /\ inbox'[s].from + Len(inbox'[s].got) = published'
                        /\ \A i \in 1..Len(inbox'[s].got) :
                             inbox'[s].got[i] = inbox'[s].from + i
    BY DEF SubscriptionsFollowPublished
  <2>1. up' = up /\ up /\ published' = published /\ published \in Nat
    BY <1>2 DEF Subscribe, EngineInv, TypeOK
  <2>2. CASE s = t
    <3>1. inbox'[s] = [active |-> TRUE, from |-> published, got |-> <<>>]
      BY <1>2, <2>2 DEF Subscribe, EngineInv, TypeOK
    <3> QED BY <2>1, <3>1
  <2>3. CASE s # t
    <3>1. inbox'[s] = inbox[s]
      BY <1>2, <2>3 DEF Subscribe, EngineInv, TypeOK
    <3> QED BY <2>1, <3>1 DEF SubscriptionsFollowPublished
  <2> QED BY <2>2, <2>3
<1>3. CASE Crash
  BY <1>3 DEF Crash
<1>4. CASE Restart
  BY <1>4 DEF Restart, SubscriptionsEndWithTheProcess, SubscriptionsFollowPublished
<1>5. CASE UNCHANGED <<up, published, inbox>>
  BY <1>5 DEF SubscriptionsFollowPublished
<1>6. \/ Publish \/ Crash \/ Restart \/ UNCHANGED <<up, published, inbox>>
      \/ \E t \in Subscribers : Subscribe(t)
  BY DEF Next, WorkerStep, Dispatch, Take, LookupReceipt, LookupFails, DecideCommand,
     AppendEvent, TransactionFails, Commit, CommitReplyLost, Install, ReadBack,
     ReadBackFails, Reproject, InstallReconciled, RecordRejection, Settle, vars, store
<1> QED BY <1>1, <1>2, <1>3, <1>4, <1>5, <1>6

\* Taking the first of a numbered sequence leaves the rest numbered on.
LEMMA TailIsNumbered ==
  ASSUME NEW s \in Seq(Event), s # <<>>, NEW n \in Nat,
         \A i \in 1..Len(s) : s[i].sequence = n + i
  PROVE  /\ Head(s).sequence = n + 1
         /\ Len(s) = Len(Tail(s)) + 1
         /\ Tail(s) \in Seq(Event)
         /\ \A i \in 1..Len(Tail(s)) : Tail(s)[i].sequence = (n + 1) + i
<1>1. /\ Head(s) = s[1] /\ 1 \in 1..Len(s) /\ Tail(s) \in Seq(Event)
      /\ Len(Tail(s)) = Len(s) - 1 /\ Len(s) \in Nat
      /\ \A i \in 1..Len(Tail(s)) : Tail(s)[i] = s[i + 1]
  <2>1. Head(s) = s[1] /\ 1 \in 1..Len(s) /\ Len(s) \in Nat
    OBVIOUS
  <2>2. Tail(s) \in Seq(Event) /\ Len(Tail(s)) = Len(s) - 1
    OBVIOUS
  <2>3. \A i \in 1..Len(Tail(s)) : Tail(s)[i] = s[i + 1]
    OBVIOUS
  <2> QED BY <2>1, <2>2, <2>3
<1>2. \A i \in 1..Len(Tail(s)) : i + 1 \in 1..Len(s) /\ n + (i + 1) = (n + 1) + i
  <2> DEFINE m == Len(s)
             l == Len(Tail(s))
  <2>1. m \in Nat /\ l = m - 1
    BY <1>1
  <2> HIDE DEF m, l
  <2>2. \A i \in 1..l : i + 1 \in 1..m /\ n + (i + 1) = (n + 1) + i
    BY <2>1
  <2> QED BY <2>2 DEF m, l
<1>3. \A i \in 1..Len(Tail(s)) : Tail(s)[i].sequence = (n + 1) + i
  BY <1>1, <1>2
<1>4. Len(s) = Len(Tail(s)) + 1
  BY <1>1
<1>5. Head(s).sequence = n + 1
  BY <1>1
<1> QED BY <1>1, <1>3, <1>4, <1>5

LEMMA PublishedStep ==
  ASSUME EngineInv, EngineInv', PublishedFollowsLog, [Next]_vars
  PROVE  PublishedFollowsLog'
<1> SUFFICES ASSUME up', ~ stale', ~ stale
             PROVE  PublishedFollowsLog'
  BY StaleStays DEF PublishedFollowsLog
<1>1. CASE ~ up'
  BY <1>1
<1>2. CASE Restart
  <2>1. /\ readModel' = tables /\ published' = tables.snapshotSequence /\ log' = log
        /\ pc' = "idle" /\ up'
    BY <1>2 DEF Restart, store, workVars, EngineInv, WorkerIsBusyOnACall
  <2>2. readModel'.snapshotSequence = Len(log') /\ Len(log') \in Nat
    BY <2>1 DEF EngineInv, ReadModelIsAPrefix, TypeOK
  <2> QED BY <2>1, <2>2 DEF PublishedFollowsLog
<1>3. CASE Commit \/ CommitReplyLost
  <2>1. MakeDurable /\ UNCHANGED <<up, readModel, start, written, published>>
    BY <1>3 DEF Commit, CommitReplyLost
  <2>2. /\ pc = "transaction" /\ up /\ log' = log \o written
        /\ log \in Seq(Event) /\ written \in Seq(Event)
        /\ published = Len(log) /\ start = readModel.snapshotSequence
        /\ readModel.snapshotSequence = Len(log)
    BY <2>1 DEF MakeDurable, EngineInv, TypeOK, WorkerIsBusyOnACall, PublishedFollowsLog,
       StartIsTheReadModel, ReadModelIsAPrefix
  <2>3. \A i \in 1..Len(written) : written[i].sequence = Len(log) + i
    BY <2>1, CommittedEvents
  <2>4. Len(log') = Len(log) + Len(written) /\ Len(log) \in Nat
    BY <2>2
  <2>5. pc' \in {"install", "reconcile"}
    BY <1>3 DEF Commit, CommitReplyLost
  <2> QED BY <2>1, <2>2, <2>3, <2>4, <2>5 DEF PublishedFollowsLog
<1>4. CASE Install
  <2>1. /\ pc = "install" /\ pc' = "finish" /\ pending' = written
        /\ UNCHANGED <<log, up, published>>
    BY <1>4 DEF Install, store
  <2>2. /\ up /\ published \in Nat /\ written \in Seq(Event) /\ Len(log) \in Nat
        /\ readModel'.snapshotSequence = Len(log)
    BY <2>1 DEF EngineInv, TypeOK, WorkerIsBusyOnACall, ReadModelIsAPrefix
  <2>3. published + Len(written) = Len(log)
    BY <2>1, <2>2 DEF PublishedFollowsLog
  <2>4. published <= Len(log)
    BY <2>2, <2>3
  <2> QED BY <2>1, <2>2, <2>3, <2>4 DEF PublishedFollowsLog
<1>5. CASE Publish
  <2>1. /\ pc = "finish" /\ pc' = "finish" /\ pending' = Tail(pending) /\ pending # <<>>
        /\ published' = Head(pending).sequence /\ UNCHANGED <<log, up, readModel>>
    BY <1>5 DEF Publish, store
  <2>2. /\ up /\ published \in Nat /\ pending \in Seq(Event) /\ Len(log) \in Nat
        /\ readModel.snapshotSequence = Len(log)
    BY <2>1 DEF EngineInv, TypeOK, WorkerIsBusyOnACall, ReadModelIsAPrefix, PendingIsTyped
  <2>3. /\ published + Len(pending) = Len(log)
        /\ \A i \in 1..Len(pending) : pending[i].sequence = published + i
    BY <2>1, <2>2 DEF PublishedFollowsLog
  <2>4. /\ Head(pending).sequence = published + 1
        /\ Len(pending) = Len(Tail(pending)) + 1
        /\ Tail(pending) \in Seq(Event)
        /\ \A i \in 1..Len(Tail(pending)) : Tail(pending)[i].sequence = (published + 1) + i
    BY <2>1, <2>2, <2>3, TailIsNumbered
  <2>5. (published + 1) + Len(Tail(pending)) = Len(log) /\ published + 1 <= Len(log)
    <3>1. Len(Tail(pending)) \in Nat
      BY <2>4
    <3> QED BY <2>2, <2>3, <2>4, <3>1
  <2> QED BY <2>1, <2>2, <2>4, <2>5 DEF PublishedFollowsLog
<1>6. CASE ReadBack
  <2>1. /\ pc = "reconcile" /\ pc' = "reproject" /\ written' = <<>> /\ next' = readModel
        /\ UNCHANGED <<log, up, readModel, published>>
    BY <1>6 DEF ReadBack, store
  <2>2. /\ up /\ published = readModel.snapshotSequence /\ published \in Nat
    BY <2>1 DEF EngineInv, TypeOK, WorkerIsBusyOnACall, StartIsTheReadModel, PublishedFollowsLog
  <2> QED BY <2>1, <2>2 DEF PublishedFollowsLog
<1>7. CASE ReadBackFails
  <2>1. /\ pc = "reconcile" /\ pc' = "finish" /\ pending' = <<>> /\ Len(log) = start
        /\ UNCHANGED <<log, up, readModel, published>>
    BY <1>7 DEF ReadBackFails, store
  <2>2. /\ up /\ published = start /\ published \in Nat
        /\ published <= readModel.snapshotSequence
    BY <2>1 DEF EngineInv, TypeOK, WorkerIsBusyOnACall, PublishedFollowsLog
  <2> QED BY <2>1, <2>2 DEF PublishedFollowsLog
<1>8. CASE Reproject
  <2>1. /\ pc = "reproject" /\ pc' = "reproject" /\ pending # <<>>
        /\ next' = ProjectEvent(next, Head(pending))
        /\ written' = Append(written, Head(pending))
        /\ UNCHANGED <<log, up, readModel, published>>
    BY <1>8 DEF Reproject, store
  <2>2. /\ up /\ published \in Nat /\ written \in Seq(Event) /\ pending \in Seq(Event)
        /\ published <= readModel.snapshotSequence
        /\ published + Len(written) = next.snapshotSequence
        /\ \A i \in 1..Len(written) : written[i].sequence = published + i
    BY <2>1 DEF EngineInv, TypeOK, WorkerIsBusyOnACall, PublishedFollowsLog, PendingIsTyped
  <2>3. Head(pending) = pending[1] /\ 1 \in 1..Len(pending) /\ Head(pending) \in Event
    BY <2>1, <2>2
  <2>4. Head(pending).sequence = next.snapshotSequence + 1
    <3>1. Head(pending) = log[next.snapshotSequence + 1]
      BY <2>1, <2>3 DEF EngineInv, ReprojectionFollowsLog
    <3>2. /\ next.snapshotSequence \in 0..Len(log) /\ Len(log) \in Nat
          /\ next.snapshotSequence + Len(pending) = Len(log) /\ Len(pending) \in Nat
      BY <2>1, <2>2 DEF EngineInv, TypeOK, ReprojectionFollowsLog
    <3>3. next.snapshotSequence + 1 \in 1..Len(log)
      BY <2>3, <3>2
    <3> QED BY <3>1, <3>3 DEF EngineInv, LogIsNumbered
  <2>5. next'.snapshotSequence = Head(pending).sequence
    BY <2>1 DEF ProjectEvent
  <2> DEFINE e == Head(pending)
  <2> HIDE DEF e
  <2>6. /\ Len(Append(written, e)) = Len(written) + 1 /\ Len(written) \in Nat
        /\ Append(written, e)[Len(written) + 1] = e
        /\ \A i \in 1..Len(written) : Append(written, e)[i] = written[i]
    BY <2>2, <2>3 DEF e
  <2>7. \A i \in 1..(Len(written) + 1) : i \in 1..Len(written) \/ i = Len(written) + 1
    BY <2>6
  <2>8. published + (Len(written) + 1) = e.sequence
    BY <2>2, <2>4, <2>6 DEF e
  <2>9. \A i \in 1..Len(Append(written, e)) : Append(written, e)[i].sequence = published + i
    BY <2>2, <2>6, <2>7, <2>8
  <2> QED BY <2>1, <2>2, <2>5, <2>6, <2>8, <2>9 DEF PublishedFollowsLog, e
<1>9. CASE InstallReconciled
  <2>1. /\ pc = "reproject" /\ pending = <<>> /\ pc' = "finish" /\ pending' = written
        /\ readModel' = next /\ UNCHANGED <<log, up, published>>
    BY <1>9 DEF InstallReconciled, store
  <2>2. /\ up /\ published \in Nat /\ written \in Seq(Event) /\ Len(log) \in Nat
        /\ readModel'.snapshotSequence = Len(log)
    BY <2>1 DEF EngineInv, TypeOK, WorkerIsBusyOnACall, ReadModelIsAPrefix
  <2>3. /\ published + Len(written) = Len(log)
        /\ \A i \in 1..Len(written) : written[i].sequence = published + i
    BY <2>1, <2>2 DEF PublishedFollowsLog
  <2>4. published <= Len(log)
    BY <2>2, <2>3
  <2> QED BY <2>1, <2>2, <2>3, <2>4 DEF PublishedFollowsLog
<1>10. CASE Take \/ LookupReceipt \/ DecideCommand \/ AppendEvent
  <2>1. /\ pc \in {"idle", "lookup", "decide", "transaction"} /\ up
        /\ UNCHANGED <<log, up, readModel, published>>
    BY <1>10 DEF Take, LookupReceipt, DecideCommand, AppendEvent, store,
       EngineInv, WorkerIsBusyOnACall
  <2>2. published = Len(log) /\ published <= readModel.snapshotSequence
    BY <2>1 DEF PublishedFollowsLog
  <2>3. pc' \in {"lookup", "settle", "decide", "transaction", "reconcile"}
    BY <1>10 DEF Take, LookupReceipt, DecideCommand, AppendEvent
  <2>4. pc' = "reconcile" => published = start'
    BY <1>10, <2>1, <2>2 DEF Take, LookupReceipt, DecideCommand, AppendEvent,
       EngineInv, ReadModelIsAPrefix, StartIsTheReadModel
  <2> QED BY <2>1, <2>2, <2>3, <2>4 DEF PublishedFollowsLog
<1>11. CASE LookupFails \/ TransactionFails
  <2>1. /\ pc \in {"lookup", "transaction"} /\ pc' = "reconcile" /\ up
        /\ UNCHANGED <<log, up, readModel, published, start>>
    BY <1>11 DEF LookupFails, TransactionFails, store, EngineInv, WorkerIsBusyOnACall
  <2>2. published = start /\ published <= readModel.snapshotSequence
    BY <2>1 DEF PublishedFollowsLog, EngineInv, ReadModelIsAPrefix, StartIsTheReadModel
  <2> QED BY <2>1, <2>2 DEF PublishedFollowsLog
<1>12. CASE RecordRejection \/ Settle
  <2>1. /\ pc \in {"settle", "finish"} /\ pc' \in {"settle", "idle"} /\ up
        /\ (pc = "finish" => pending = <<>>)
        /\ UNCHANGED <<log, up, readModel, published>>
    BY <1>12 DEF RecordRejection, Settle, ResetWorker, store, EngineInv, WorkerIsBusyOnACall
  <2>2. published = Len(log) /\ published <= readModel.snapshotSequence
    BY <2>1 DEF PublishedFollowsLog, EngineInv, TypeOK
  <2> QED BY <2>1, <2>2 DEF PublishedFollowsLog
<1>13. CASE UNCHANGED <<log, up, readModel, workVars, published>>
  BY <1>13 DEF workVars, PublishedFollowsLog
<1>14. \/ ~ up' \/ Restart \/ Commit \/ CommitReplyLost \/ Install \/ Publish \/ ReadBack
       \/ ReadBackFails \/ Reproject \/ InstallReconciled \/ Take \/ LookupReceipt
       \/ DecideCommand \/ AppendEvent \/ LookupFails \/ TransactionFails
       \/ RecordRejection \/ Settle
       \/ UNCHANGED <<log, up, readModel, workVars, published>>
  BY DEF Next, WorkerStep, Dispatch, Subscribe, Crash, vars, store
<1> QED BY <1>1, <1>2, <1>3, <1>4, <1>5, <1>6, <1>7, <1>8, <1>9, <1>10, <1>11, <1>12,
           <1>13, <1>14

-----------------------------------------------------------------------------
(* What was seen. *)

\* The last of the sequences of a command's events is one of them.
LEMMA LastIsAPosition ==
  ASSUME NEW c \in Commands, NEW n \in Nat
  PROVE  n \in (n - Len(EventTypesOf(c)) + 1)..n
<1> DEFINE m == Len(EventTypesOf(c))
<1>1. m \in 1..2
  BY EventCount
<1> HIDE DEF m
<1>2. n \in (n - m + 1)..n
  BY <1>1
<1> QED BY <1>2 DEF m

LEMMA CoversStep ==
  ASSUME EngineInv, EngineInv', ReceiptsMatchLog', AnswersAreTrue',
         SubscriptionsEndWithTheProcess', SubscriptionsFollowPublished',
         PublishedFollowsLog', ReadModelCoversWhatIsSeen, [Next]_vars
  PROVE  ReadModelCoversWhatIsSeen'
<1> SUFFICES ASSUME up', ~ stale', ~ stale
             PROVE  ReadModelCoversWhatIsSeen'
  BY StaleStays DEF ReadModelCoversWhatIsSeen
<1>1. ASSUME NEW s \in Subscribers, NEW i \in 1..Len(inbox'[s].got)
      PROVE  inbox'[s].got[i] <= readModel'.snapshotSequence
  <2>1. /\ inbox'[s].got \in Seq(Nat) /\ inbox'[s].from \in Nat
        /\ published' \in Nat /\ readModel'.snapshotSequence \in Nat
    BY DEF EngineInv, TypeOK, Subscriptions, ReadModels
  <2>2. inbox'[s].active
    BY DEF SubscriptionsEndWithTheProcess
  <2>3. /\ inbox'[s].from + Len(inbox'[s].got) = published'
        /\ inbox'[s].got[i] = inbox'[s].from + i
    BY <2>2 DEF SubscriptionsFollowPublished
  <2>4. published' <= readModel'.snapshotSequence
    BY DEF PublishedFollowsLog
  <2> DEFINE got == inbox'[s].got
             from == inbox'[s].from
  <2>5. Len(got) \in Nat /\ i \in 1..Len(got) /\ got[i] = from + i /\ from \in Nat
        /\ from + Len(got) = published'
    BY <2>1, <2>3
  <2> HIDE DEF got, from
  <2>6. from + i <= from + Len(got)
    BY <2>5
  <2>7. got[i] <= published'
    BY <2>5, <2>6
  <2> QED BY <2>1, <2>4, <2>5, <2>7 DEF got
<1>2. ASSUME NEW k \in Calls, outcome'[k].kind = "ok"
      PROVE  outcome'[k].sequence <= readModel'.snapshotSequence
  <2>1. CASE pc' \notin {"install", "reconcile", "reproject"}
    <3>1. readModel'.snapshotSequence = Len(log')
      BY <2>1 DEF EngineInv, ReadModelIsAPrefix
    <3> DEFINE c == CommandOf[k]
               n == outcome'[k].sequence
    <3>2. c \in Commands /\ receipts'[c.id] = Receipt("accepted", n)
      BY <1>2, EngineAssumption DEF AnswersAreTrue
    <3>3. PositionsOf(c.id)' = (n - Len(EventTypesOf(c)) + 1)..n
      BY <3>2 DEF ReceiptsMatchLog, Receipt
    <3>4. n \in Nat
      BY DEF EngineInv, TypeOK, Outcomes
    <3>5. n \in PositionsOf(c.id)'
      BY <3>2, <3>3, <3>4, LastIsAPosition
    <3>6. n \in 1..Len(log')
      BY <3>5 DEF PositionsOf
    <3> QED BY <3>1, <3>6 DEF EngineInv, TypeOK
  <2>2. CASE pc' \in {"install", "reconcile", "reproject"}
    <3>1. ASSUME NEW j \in Calls, Dispatch(j)
          PROVE  outcome'[k] = outcome[k] /\ UNCHANGED <<up, readModel>>
      BY <1>2, <3>1 DEF Dispatch, Reply, EngineInv, TypeOK
    <3>2. ~ Crash /\ ~ Restart /\ ~ Settle /\ ~ Install /\ ~ InstallReconciled
      BY <2>2 DEF Crash, Restart, Settle, Install, InstallReconciled, ResetWorker, workVars,
         EngineInv, WorkerIsBusyOnACall
    <3>3. UNCHANGED <<up, readModel, outcome>> \/ \E j \in Calls : Dispatch(j)
      BY <3>2 DEF Next, WorkerStep, Subscribe, Take, LookupReceipt, LookupFails,
         DecideCommand, AppendEvent, TransactionFails, Commit, CommitReplyLost, Publish,
         ReadBack, ReadBackFails, Reproject, RecordRejection, vars
    <3>4. outcome'[k] = outcome[k] /\ UNCHANGED <<up, readModel>>
      BY <3>1, <3>3
    <3> QED BY <1>2, <3>4 DEF ReadModelCoversWhatIsSeen
  <2> QED BY <2>1, <2>2
<1> QED BY <1>1, <1>2 DEF ReadModelCoversWhatIsSeen

-----------------------------------------------------------------------------
LEMMA InitAnswers == Init => AnswersInv
<1> SUFFICES ASSUME Init PROVE AnswersInv
  OBVIOUS
<1>1. ReceiptsMatchLog
  <2>1. \A c \in Commands : c.id \in CommandIds
    BY DEF CommandIds
  <2>2. \A id : PositionsOf(id) = {}
    BY DEF Init, PositionsOf
  <2> QED BY <2>1, <2>2 DEF Init, ReceiptsMatchLog, NoReceipt, Receipt
<1>2. AnswersAreTrue /\ ResultIsTrue
  BY DEF Init, AnswersAreTrue, ResultIsTrue, NoReply, Reply
<1>3. SubscriptionsEndWithTheProcess /\ SubscriptionsFollowPublished
  BY DEF Init, SubscriptionsEndWithTheProcess, SubscriptionsFollowPublished, Unsubscribed
<1>4. PublishedFollowsLog
  BY DEF Init, PublishedFollowsLog, EmptyReadModel
<1>5. ReadModelCoversWhatIsSeen
  BY DEF Init, ReadModelCoversWhatIsSeen, Unsubscribed, NoReply, Reply
<1> QED BY <1>1, <1>2, <1>3, <1>4, <1>5 DEF AnswersInv

LEMMA NextAnswers ==
  EngineInv /\ EngineInv' /\ AnswersInv /\ [Next]_vars => AnswersInv'
<1> SUFFICES ASSUME EngineInv, EngineInv', AnswersInv, [Next]_vars
             PROVE  AnswersInv'
  OBVIOUS
<1>1. ReceiptsMatchLog'
  BY ReceiptsStep DEF AnswersInv
<1>2. AnswersAreTrue' /\ ResultIsTrue'
  BY AnswersStep, ResultStep DEF AnswersInv
<1>3. /\ SubscriptionsEndWithTheProcess' /\ SubscriptionsFollowPublished'
      /\ PublishedFollowsLog'
  BY SubscribedStep, SubscriptionsStep, PublishedStep DEF AnswersInv
<1>4. ReadModelCoversWhatIsSeen'
  BY <1>1, <1>2, <1>3, CoversStep DEF AnswersInv
<1> QED BY <1>1, <1>2, <1>3, <1>4 DEF AnswersInv

\* What the engine tells the world holds in every state of every behaviour.
THEOREM AnswersInvariant == Spec => []AnswersInv
<1>1. Init => AnswersInv
  BY InitAnswers
<1>2. EngineInv /\ EngineInv' /\ AnswersInv /\ [Next]_vars => AnswersInv'
  BY NextAnswers
<1> QED BY <1>1, <1>2, EngineInvariant, PTL DEF Spec

(***************************************************************************)
(* An accepted receipt and the events of its command are in the store      *)
(* together, each command's events once, the last at the receipt's         *)
(* sequence, whatever failed or was dispatched again.                      *)
(***************************************************************************)
THEOREM ReceiptsCorrect == Spec => []ReceiptsMatchLog
<1>1. AnswersInv => ReceiptsMatchLog
  BY DEF AnswersInv
<1> QED BY <1>1, AnswersInvariant, PTL

\* No answer a caller was given is ever made untrue, by a retry or a restart.
THEOREM AnswersCorrect == Spec => []AnswersAreTrue
<1>1. AnswersInv => AnswersAreTrue
  BY DEF AnswersInv
<1> QED BY <1>1, AnswersInvariant, PTL

\* A subscription receives every event after its start, once and in log order,
\* until a reconciliation fails after a lost commit reply.
THEOREM SubscribersCorrect == Spec => []SubscribersSeeEveryEvent
<1>1. EngineInv /\ AnswersInv => SubscribersSeeEveryEvent
  <2> SUFFICES ASSUME EngineInv, AnswersInv, NEW s \in Subscribers,
                      inbox[s].active, ~ stale
               PROVE  /\ inbox[s].got = [i \in 1..Len(inbox[s].got) |-> inbox[s].from + i]
                      /\ pc = "idle" => inbox[s].from + Len(inbox[s].got) = Len(log)
    BY DEF SubscribersSeeEveryEvent
  <2>1. /\ up /\ inbox[s].from + Len(inbox[s].got) = published
        /\ \A i \in 1..Len(inbox[s].got) : inbox[s].got[i] = inbox[s].from + i
    BY DEF AnswersInv, SubscriptionsEndWithTheProcess, SubscriptionsFollowPublished
  <2>2. inbox[s].got \in Seq(Nat)
    BY DEF EngineInv, TypeOK, Subscriptions
  <2>3. inbox[s].got = [i \in 1..Len(inbox[s].got) |-> inbox[s].from + i]
    <3> DEFINE got == inbox[s].got
    <3>1. got = [i \in 1..Len(got) |-> got[i]]
      BY <2>2
    <3> QED BY <2>1, <3>1
  <2>4. pc = "idle" => published = Len(log)
    BY <2>1 DEF AnswersInv, PublishedFollowsLog
  <2> QED BY <2>1, <2>3, <2>4
<1> QED BY <1>1, EngineInvariant, AnswersInvariant, PTL

\* The running read model holds every event a consumer or a caller has seen,
\* until a reconciliation fails after a lost commit reply.
THEOREM CoverageCorrect == Spec => []ReadModelCoversWhatIsSeen
<1>1. AnswersInv => ReadModelCoversWhatIsSeen
  BY DEF AnswersInv
<1> QED BY <1>1, AnswersInvariant, PTL

-----------------------------------------------------------------------------
(***************************************************************************)
(* The histories of the command log: its every step appends events that    *)
(* fit (HistoryStep).                                                      *)
(***************************************************************************)
LEMMA HistoriesHold == LogSpec => []HistoryInv(log)
<1>1. Log!Init => HistoryInv(log)
  BY EmptyHistory DEF Log!Init
<1>2. HistoryInv(log) /\ [Log!Next]_(Log!logVars) => HistoryInv(log)'
  <2> SUFFICES ASSUME HistoryInv(log), [Log!Next]_(Log!logVars) PROVE HistoryInv(log')
    OBVIOUS
  <2>1. CASE log' = log
    BY <2>1
  <2>2. ASSUME NEW c \in Commands, Log!Accept(c) PROVE HistoryInv(log')
    BY <2>2, HistoryStep DEF Log!Accept
  <2> QED BY <2>1, <2>2 DEF Log!Next, Log!Reject, Log!logVars
<1> QED BY <1>1, <1>2, PTL DEF LogSpec, Log!Spec

LEMMA HistoryProperties ==
  ASSUME HistoryInv(log)
  PROVE  PlansFollowHistory /\ TurnsStartFromSurvivingPlans /\ CreatedOnceAndFirst
<1>1. CreatedOnceAndFirst
  BY DEF HistoryInv, CreatedFirst, CreatedOnceAndFirst
<1>2. TurnsStartFromSurvivingPlans
  BY DEF HistoryInv, StartedFromSurvivors, TurnsStartFromSurvivingPlans
<1>3. ASSUME NEW t \in Threads, NEW th \in ModelAfter(log).threads[t]
      PROVE  {p.id : p \in th.plans} = SurvivingPlans(log, t, Len(log))
  <2>1. th.plans = CurrentPlans(log, t) /\ log \in Seq(Event)
    BY <1>3 DEF HistoryInv, ThreadFollows
  <2> QED BY <2>1, PlansSurvive
<1>4. PlansFollowHistory
  BY <1>3 DEF PlansFollowHistory
<1> QED BY <1>1, <1>2, <1>4

(***************************************************************************)
(* PlansFollowHistory: the plans of a thread are those that survive all    *)
(* the reverts of its history, for any commands in any order.              *)
(***************************************************************************)
THEOREM PlansSurviveReverts == LogSpec => []PlansFollowHistory
BY HistoriesHold, HistoryProperties, PTL

\* TurnsStartFromSurvivingPlans: no turn starts from a plan a revert has dropped.
THEOREM TurnsStartFromSurvivors == LogSpec => []TurnsStartFromSurvivingPlans
BY HistoriesHold, HistoryProperties, PTL

\* CreatedOnceAndFirst: a thread has one creation, before its other events and
\* after the one creation of its project.
THEOREM ThreadsAreCreatedOnce == LogSpec => []CreatedOnceAndFirst
BY HistoriesHold, HistoryProperties, PTL

(***************************************************************************)
(* The engine implements the command log, so that it is true of what it    *)
(* commits, with its failures, retries, crashes and restarts, as long as   *)
(* no reconciliation fails after a lost commit reply.                      *)
(***************************************************************************)
THEOREM EngineHistories ==
  Spec /\ []~ stale =>
    [](PlansFollowHistory /\ TurnsStartFromSurvivingPlans /\ CreatedOnceAndFirst)
<1>1. Spec /\ []~ stale => LogSpec
  BY EngineImplementsCommandLog, PTL DEF ImplementsCommandLog, LogSpec, Log!Spec
<1> QED BY <1>1, HistoriesHold, HistoryProperties, PTL
=============================================================================
