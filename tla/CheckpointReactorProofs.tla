------------------------ MODULE CheckpointReactorProofs ------------------------
(***************************************************************************)
(* Proofs about the checkpoints of a thread, for any turns, diffs, reverts *)
(* and faults: captures have refs, placeholders are replaced, and turns    *)
(* are captured.                                                           *)
(***************************************************************************)
EXTENDS CheckpointReactor, FiniteSetTheorems, WellFoundedInduction, SequenceTheorems, TLAPS

\* A finite set of naturals that is not empty has a greatest element: of the
\* sets of members from one on, one contains no smaller one.
LEMMA GreatestNatural ==
  ASSUME NEW S \in SUBSET Nat, S # {}, IsFiniteSet(S)
  PROVE  Max(S) \in S /\ \A n \in S : n <= Max(S)
<1> DEFINE R == StrictSubsetOrdering(S)
           F == FiniteSubsetsOf(S)
           From(x) == {y \in S : x <= y}
           T == {From(x) : x \in S}
<1>1. IsWellFoundedOn(R, F)
  BY FS_StrictSubsetOrderingWellFounded
<1>2. T \subseteq F /\ T # {}
  <2>1. \A x \in S : IsFiniteSet(From(x)) /\ From(x) \subseteq S
    <3> TAKE x \in S
    <3> DEFINE U == From(x)
    <3>1. U \in SUBSET S
      OBVIOUS
    <3> HIDE DEF U
    <3>2. IsFiniteSet(U)
      BY <3>1, FS_Subset
    <3> QED BY <3>1, <3>2 DEF U
  <2> HIDE DEF From
  <2> QED BY <2>1 DEF FiniteSubsetsOf
<1>3. \E u \in T : \A v \in T : ~ (<<v, u>> \in R)
  <2> HIDE DEF R, F, T
  <2> QED BY <1>1, <1>2, WFMin
<1>4. PICK m \in S : \A n \in S : ~ (<<From(n), From(m)>> \in R)
  BY <1>3
<1>5. ASSUME NEW n \in S, ~ (n <= m) PROVE FALSE
  <2>1. From(n) \subseteq From(m) /\ From(n) # From(m)
    <3>1. m \in From(m) /\ m \notin From(n)
      BY <1>5
    <3>2. From(n) \subseteq From(m)
      <4>1. m \in Nat /\ n \in Nat /\ m <= n
        BY <1>5
      <4> SUFFICES ASSUME NEW y \in S, n <= y PROVE m <= y
        OBVIOUS
      <4> y \in Nat
        OBVIOUS
      <4> QED BY <4>1
    <3> QED BY <3>1, <3>2
  <2>2. From(n) \in SUBSET S /\ From(m) \in SUBSET S
    OBVIOUS
  <2>3. <<From(n), From(m)>> \in R
    BY <2>1, <2>2 DEF StrictSubsetOrdering
  <2> QED BY <1>4, <2>3
<1>6. m \in S /\ \A y \in S : m >= y
  BY <1>5
<1>7. Max(S) \in S /\ \A y \in S : Max(S) >= y
  BY <1>6 DEF Max
<1> QED BY <1>7

\* The highest count of a projection is at least every count in it.
LEMMA HighestCount ==
  ASSUME NEW cs, Projection(cs)
  PROVE  /\ CurrentTurnCount(cs) \in Nat
         /\ \A c \in cs : c.count <= CurrentTurnCount(cs)
<1> DEFINE counts == {c.count : c \in cs}
           S == {0} \cup counts
<1>1. IsFiniteSet(counts)
  <2>1. [c \in cs |-> c.count] \in Surjection(cs, counts)
    BY DEF Surjection
  <2>2. IsFiniteSet(cs)
    BY DEF Projection
  <2> HIDE DEF counts
  <2> QED BY <2>1, <2>2, FS_Surjection
<1>2. S \in SUBSET Nat /\ S # {}
  BY DEF Projection, Checkpoint
<1>3. IsFiniteSet(S)
  <2> HIDE DEF counts
  <2> QED BY <1>1, FS_Singleton, FS_Union
<1>4. Max(S) \in S /\ \A n \in S : n <= Max(S)
  <2> HIDE DEF S
  <2> QED BY <1>2, <1>3, GreatestNatural
<1> QED BY <1>2, <1>4 DEF CurrentTurnCount

LEMMA CompleteIsProjection ==
  ASSUME NEW cs, Projection(cs), NEW new \in Checkpoint
  PROVE  Projection(Complete(cs, new))
<1> DEFINE others == {c \in cs : c.turn # new.turn}
<1>1. IsFiniteSet(others) /\ others \subseteq Checkpoint
  <2>1. others \in SUBSET cs
    OBVIOUS
  <2> HIDE DEF others
  <2> QED BY <2>1, FS_Subset DEF Projection
<1>2. IsFiniteSet(others \cup {new}) /\ others \cup {new} \subseteq Checkpoint
  <2> HIDE DEF others
  <2> QED BY <1>1, FS_AddElement
<1> QED BY <1>2 DEF Complete, Projection

LEMMA RevertIsProjection ==
  ASSUME NEW cs, Projection(cs), NEW n
  PROVE  Projection(RevertTo(cs, n)) /\ RevertTo(cs, n) \subseteq cs
<1>1. RevertTo(cs, n) \in SUBSET cs
  BY DEF RevertTo
<1> QED BY <1>1, FS_Subset DEF Projection

\* What a queue holds after an event is put in or taken out.
LEMMA Appended ==
  ASSUME NEW S, NEW q \in Seq(S), NEW e \in S
  PROVE  /\ Append(q, e) \in Seq(S) /\ Len(Append(q, e)) = Len(q) + 1
         /\ \A i \in 1..Len(q) : i \in 1..Len(Append(q, e)) /\ Append(q, e)[i] = q[i]
         /\ \A i \in 1..Len(Append(q, e)) : Append(q, e)[i] = e \/ (i \in 1..Len(q) /\ Append(q, e)[i] = q[i])
         /\ Append(q, e)[Len(q) + 1] = e /\ Len(q) + 1 \in 1..Len(Append(q, e))
OBVIOUS

LEMMA Taken ==
  ASSUME NEW S, NEW q \in Seq(S), q # <<>>
  PROVE  /\ Head(q) \in S /\ Tail(q) \in Seq(S) /\ 1 \in 1..Len(q) /\ q[1] = Head(q)
         /\ \A i \in 1..Len(Tail(q)) : i + 1 \in 1..Len(q) /\ Tail(q)[i] = q[i + 1]
         /\ \A i \in 1..Len(q) : q[i] = Head(q) \/ (i - 1 \in 1..Len(Tail(q)) /\ q[i] = Tail(q)[i - 1])
OBVIOUS

-----------------------------------------------------------------------------
(* Types, and that no revert is answered twice. *)

LEMMA ScenarioTypes ==
  ASSUME ReactorTypes
  PROVE  /\ TurnOrder \in Seq(Turns) /\ MaxDiffs \in Nat /\ None \notin Turns
         /\ Len(TurnOrder) \in Nat
BY ReactorAssumption DEF ReactorTypes, TypeOK, TurnOrder, MaxDiffs

LEMMA InitTypes == Init => ReactorTypes
<1> SUFFICES ASSUME Init PROVE ReactorTypes
  OBVIOUS
<1>1. scenario \in Scenarios /\ Len(TurnOrder) \in Nat
  BY ReactorAssumption DEF Init, TurnOrder
<1>2. TypeOK
  BY <1>1 DEF Init, TypeOK, Jobs, Idle
<1>3. Projection(checkpoints) /\ Projection(ingesting.seen)
  BY FS_EmptySet DEF Init, Projection, Nothing
<1>4. answered + RevertsOpen <= requested
  <2>1. RevertsQueued = {}
    BY DEF Init, RevertsQueued
  <2> QED BY <2>1, FS_EmptySet DEF Init, RevertsOpen, Idle
<1> QED BY <1>1, <1>2, <1>3, <1>4 DEF Init, ReactorTypes, Idle, Nothing, NoEvent

LEMMA QueuedIsFinite ==
  ASSUME domain \in Seq(DomainEvents)
  PROVE  IsFiniteSet(RevertsQueued) /\ Cardinality(RevertsQueued) \in Nat
<1>1. IsFiniteSet(1..Len(domain)) /\ RevertsQueued \in SUBSET (1..Len(domain))
  BY FS_Interval DEF RevertsQueued
<1>2. IsFiniteSet(RevertsQueued)
  BY <1>1, FS_Subset
<1> QED BY <1>2, FS_CardinalityType

\* Requests queued when an event is put in or taken out.
LEMMA QueuedAppend ==
  ASSUME domain \in Seq(DomainEvents), NEW e \in DomainEvents, domain' = Append(domain, e)
  PROVE  /\ domain' \in Seq(DomainEvents)
         /\ Cardinality(RevertsQueued') = Cardinality(RevertsQueued)
              + (IF e.type = "thread.checkpoint-revert-requested" THEN 1 ELSE 0)
<1> DEFINE n == Len(domain) + 1
<1>1. RevertsQueued' = RevertsQueued
        \cup (IF e.type = "thread.checkpoint-revert-requested" THEN {n} ELSE {})
  BY DEF RevertsQueued
<1>2. n \notin RevertsQueued
  BY DEF RevertsQueued
<1>3. IsFiniteSet(RevertsQueued) /\ Cardinality(RevertsQueued) \in Nat
  BY QueuedIsFinite
<1>4. Cardinality(RevertsQueued \cup {n}) = Cardinality(RevertsQueued) + 1
  <2> HIDE DEF n
  <2> QED BY <1>2, <1>3, FS_AddElement
<1>5. RevertsQueued \cup {} = RevertsQueued
  OBVIOUS
<1> HIDE DEF n
<1>6. CASE e.type = "thread.checkpoint-revert-requested"
  BY <1>1, <1>4, <1>6
<1>7. CASE e.type # "thread.checkpoint-revert-requested"
  BY <1>1, <1>3, <1>5, <1>7
<1> QED BY <1>6, <1>7

LEMMA QueuedTail ==
  ASSUME domain \in Seq(DomainEvents), domain # <<>>, domain' = Tail(domain)
  PROVE  /\ domain' \in Seq(DomainEvents)
         /\ Cardinality(RevertsQueued) = Cardinality(RevertsQueued')
              + (IF Head(domain).type = "thread.checkpoint-revert-requested" THEN 1 ELSE 0)
<1> DEFINE later == RevertsQueued \ {1}
<1>1. domain' \in Seq(DomainEvents) /\ Len(domain') = Len(domain) - 1 /\ Len(domain) \in Nat \ {0}
      /\ \A i \in 1..(Len(domain) - 1) : domain'[i] = domain[i + 1]
      /\ Head(domain) = domain[1]
  OBVIOUS
<1>2. [i \in RevertsQueued' |-> i + 1] \in Bijection(RevertsQueued', later)
  <2> DEFINE f == [i \in RevertsQueued' |-> i + 1]
  <2>1. f \in [RevertsQueued' -> later]
    BY <1>1 DEF RevertsQueued
  <2>2. \A i, j \in RevertsQueued' : f[i] = f[j] => i = j
    BY DEF RevertsQueued
  <2>3. \A k \in later : \E i \in RevertsQueued' : f[i] = k
    <3> TAKE k \in later
    <3>1. k \in 2..Len(domain) /\ domain[k].type = "thread.checkpoint-revert-requested"
      BY <1>1 DEF RevertsQueued
    <3>2. k - 1 \in 1..(Len(domain) - 1) /\ domain'[k - 1] = domain[k]
      BY <1>1, <3>1
    <3>3. k - 1 \in RevertsQueued'
      BY <1>1, <3>1, <3>2 DEF RevertsQueued
    <3> QED BY <3>1, <3>3
  <2> QED BY <2>1, <2>2, <2>3 DEF Bijection, Injection, Surjection, IsInjective
<1>3. IsFiniteSet(RevertsQueued') /\ IsFiniteSet(RevertsQueued) /\ Cardinality(RevertsQueued) \in Nat
  <2>1. IsFiniteSet(1..Len(domain')) /\ RevertsQueued' \in SUBSET (1..Len(domain'))
    BY <1>1, FS_Interval DEF RevertsQueued
  <2>2. IsFiniteSet(RevertsQueued')
    BY <2>1, FS_Subset
  <2> QED BY <2>2, QueuedIsFinite
<1>4. Cardinality(later) = Cardinality(RevertsQueued')
  <2> HIDE DEF later
  <2>1. ExistsBijection(RevertsQueued', later)
    BY <1>2 DEF ExistsBijection
  <2> QED BY <1>3, <2>1, FS_Bijection
<1>5. Cardinality(later) =
        IF 1 \in RevertsQueued THEN Cardinality(RevertsQueued) - 1 ELSE Cardinality(RevertsQueued)
  BY <1>3, FS_RemoveElement
<1>6. 1 \in RevertsQueued <=> Head(domain).type = "thread.checkpoint-revert-requested"
  BY <1>1 DEF RevertsQueued
<1> HIDE DEF later
<1> QED BY <1>1, <1>3, <1>4, <1>5, <1>6

\* A dispatched diff, and its event.
LEMMA DispatchTypes ==
  ASSUME ReactorTypes, NEW new \in Checkpoint, DispatchDiff(new)
  PROVE  /\ checkpoints' \subseteq Checkpoint /\ Projection(checkpoints')
         /\ domain' \in Seq(DomainEvents)
         /\ Cardinality(RevertsQueued') = Cardinality(RevertsQueued)
<1> DEFINE e == DomainEvent("thread.turn-diff-completed", new.turn, new.count, new.status)
<1>1. e \in DomainEvents /\ e.type # "thread.checkpoint-revert-requested"
  BY DEF DomainEvents, DomainEvent, Checkpoint
<1>2. domain' = Append(domain, e) /\ domain \in Seq(DomainEvents)
  BY DEF DispatchDiff, ReactorTypes
<1>3. /\ domain' \in Seq(DomainEvents)
      /\ Cardinality(RevertsQueued') = Cardinality(RevertsQueued) + 0
  <2> HIDE DEF e
  <2> QED BY <1>1, <1>2, QueuedAppend
<1>4. Cardinality(RevertsQueued) \in Nat
  BY <1>2, QueuedIsFinite
<1>5. Projection(checkpoints')
  BY CompleteIsProjection DEF DispatchDiff, ReactorTypes
<1> QED BY <1>3, <1>4, <1>5 DEF Projection

LEMMA EnvironmentTypes ==
  ASSUME ReactorTypes, UNCHANGED scenario,
         \/ SendTurn \/ StartTurn \/ UpdateDiff
         \/ \E status \in Statuses : CompleteTurn(status)
         \/ \E n \in 0..Len(TurnOrder) : RequestRevert(n)
  PROVE  ReactorTypes'
<1>1. /\ TurnOrder \in Seq(Turns) /\ MaxDiffs \in Nat /\ None \notin Turns
      /\ Len(TurnOrder) \in Nat /\ Len(TurnOrder') = Len(TurnOrder) /\ MaxDiffs' = MaxDiffs
      /\ Edits' = Edits
  BY ScenarioTypes DEF TurnOrder, MaxDiffs, Edits
<1>2. Cardinality(RevertsQueued) \in Nat
  BY QueuedIsFinite DEF ReactorTypes
<1>3. CASE SendTurn
  <2> DEFINE e == DomainEvent("thread.turn-start-requested", None, 0, None)
  <2>1. e \in DomainEvents /\ e.type # "thread.checkpoint-revert-requested"
    BY DEF DomainEvents, DomainEvent
  <2>2. domain' \in Seq(DomainEvents) /\ Cardinality(RevertsQueued') = Cardinality(RevertsQueued)
    <3>1. domain' = Append(domain, e) /\ domain \in Seq(DomainEvents)
      BY <1>3 DEF SendTurn, ReactorTypes
    <3> HIDE DEF e
    <3> QED BY <1>2, <2>1, <3>1, QueuedAppend
  <2> QED BY <1>1, <1>3, <2>2
       DEF SendTurn, ReactorTypes, TypeOK, Projection, RevertsOpen, model, git
<1>4. CASE StartTurn
  <2>1. TurnOrder[begun + 1] \in Turns /\ begun + 1 \in 0..sent
    BY <1>1, <1>4 DEF StartTurn, ReactorTypes
  <2>2. RuntimeEvent("turn.started", TurnOrder[begun + 1], None) \in RuntimeEvents
    BY <2>1 DEF RuntimeEvent, RuntimeEvents
  <2>3. workspace' \subseteq Edits
    BY <1>1, <1>4, <2>1 DEF StartTurn, ReactorTypes, TypeOK, Edits
  <2> QED BY <1>1, <1>4, <2>1, <2>2, <2>3
       DEF StartTurn, ReactorTypes, TypeOK, Projection, RevertsOpen, RevertsQueued, model
<1>5. CASE UpdateDiff
  <2>1. RuntimeEvent("turn.diff.updated", running, None) \in RuntimeEvents
    BY <1>5 DEF RuntimeEvent, RuntimeEvents, UpdateDiff, ReactorTypes
  <2>3. workspace' \subseteq Edits
    BY <1>1, <1>5 DEF UpdateDiff, ReactorTypes, TypeOK, Edits
  <2> QED BY <1>1, <1>5, <2>1, <2>3
       DEF UpdateDiff, ReactorTypes, TypeOK, Projection, RevertsOpen, RevertsQueued, model
<1>6. ASSUME NEW status \in Statuses, CompleteTurn(status) PROVE ReactorTypes'
  <2>1. RuntimeEvent("turn.completed", running, status) \in RuntimeEvents
    BY <1>6 DEF RuntimeEvent, RuntimeEvents, CompleteTurn, ReactorTypes
  <2> QED BY <1>1, <1>6, <2>1
       DEF CompleteTurn, ReactorTypes, TypeOK, Projection, RevertsOpen, RevertsQueued, model, git
<1>7. ASSUME NEW n \in 0..Len(TurnOrder), RequestRevert(n) PROVE ReactorTypes'
  <2> DEFINE e == DomainEvent("thread.checkpoint-revert-requested", None, n, None)
  <2>1. e \in DomainEvents /\ e.type = "thread.checkpoint-revert-requested"
    BY DEF DomainEvents, DomainEvent
  <2>2. domain' \in Seq(DomainEvents) /\ Cardinality(RevertsQueued') = Cardinality(RevertsQueued) + 1
    <3>1. domain' = Append(domain, e) /\ domain \in Seq(DomainEvents)
      BY <1>7 DEF RequestRevert, ReactorTypes
    <3> HIDE DEF e
    <3> QED BY <1>2, <2>1, <3>1, QueuedAppend
  <2> QED BY <1>1, <1>2, <1>7, <2>2
       DEF RequestRevert, ReactorTypes, TypeOK, Projection, RevertsOpen, model, git, provider
<1> QED BY <1>3, <1>4, <1>5, <1>6, <1>7

LEMMA IngestionTypes ==
  ASSUME ReactorTypes, UNCHANGED scenario, IngestionStep
  PROVE  ReactorTypes'
<1>1. Len(TurnOrder') = Len(TurnOrder) /\ Edits' = Edits
  BY DEF TurnOrder, MaxDiffs, Edits
<1>2. ingesting.seen \subseteq Checkpoint /\ CurrentTurnCount(ingesting.seen) \in Nat
  BY HighestCount DEF ReactorTypes, Projection
<1>3. CASE Ingest
  <2>1. Head(ingestion) \in RuntimeEvents /\ Tail(ingestion) \in Seq(RuntimeEvents)
    BY <1>3, Taken DEF Ingest, ReactorTypes
  <2> QED BY <1>1, <1>3, <2>1
       DEF Ingest, ReactorTypes, TypeOK, Projection, RevertsOpen, RevertsQueued, model, git, provider
<1>4. CASE IngestLifecycle
  <2>1. activeTurn' \in Turns \cup {None}
    BY <1>4 DEF IngestLifecycle, ReactorTypes, TypeOK, RuntimeEvents, NoEvent, RuntimeEvent
  <2>2. Projection({})
    BY FS_EmptySet DEF Projection
  <2> QED BY <1>1, <1>4, <2>1, <2>2
       DEF IngestLifecycle, Ingested, Nothing, ReactorTypes, TypeOK, Projection, RevertsOpen,
           RevertsQueued, git, provider
<1>5. CASE IngestDiff
  <2>1. activeTurn' \in Turns \cup {None}
    BY <1>5 DEF IngestDiff, ReactorTypes, TypeOK
  <2>2. Projection({})
    BY FS_EmptySet DEF Projection
  <2>3. Cardinality(RevertsQueued) \in Nat
    BY QueuedIsFinite DEF ReactorTypes
  <2>4. /\ checkpoints' \subseteq Checkpoint /\ Projection(checkpoints')
        /\ domain' \in Seq(DomainEvents)
        /\ Cardinality(RevertsQueued') = Cardinality(RevertsQueued)
    <3> DEFINE new == [turn |-> ingesting.event.turn, status |-> "missing",
                       count |-> CurrentTurnCount(ingesting.seen) + 1, captured |-> FALSE]
    <3>1. new \in Checkpoint
      BY <1>2, <1>5
         DEF IngestDiff, ReactorTypes, RuntimeEvents, NoEvent, RuntimeEvent, Checkpoint, Statuses
    <3>2. DispatchDiff(new) \/ UNCHANGED <<checkpoints, domain>>
      BY <1>5 DEF IngestDiff, model
    <3>3. CASE DispatchDiff(new)
      <4> HIDE DEF new
      <4> QED BY <3>1, <3>3, DispatchTypes
    <3>4. CASE UNCHANGED <<checkpoints, domain>>
      BY <3>4 DEF ReactorTypes, TypeOK, RevertsQueued, Projection
    <3> QED BY <3>2, <3>3, <3>4
  <2>5. RevertsOpen' = RevertsOpen
    BY <1>5, <2>4 DEF IngestDiff, Ingested, RevertsOpen
  <2> QED BY <1>1, <1>5, <2>1, <2>2, <2>4, <2>5
       DEF IngestDiff, Ingested, Nothing, ReactorTypes, TypeOK, git, provider
<1>6. CASE Heartbeat
  <2>1. activeTurn' \in Turns \cup {None}
    BY <1>6 DEF Heartbeat, ReactorTypes, TypeOK, RuntimeEvents, NoEvent, RuntimeEvent
  <2>2. Projection({})
    BY FS_EmptySet DEF Projection
  <2> DEFINE I == [event : RuntimeEvents \cup {NoEvent}, seen : SUBSET Checkpoint,
                  active : Turns \cup {None}, heard : BOOLEAN]
  <2>3. ingesting'.seen \in {ingesting.seen, {}} /\ ingesting' \in I
    <3>1. ingesting \in I
      BY DEF ReactorTypes
    <3>2. CASE ingesting' = [ingesting EXCEPT !.heard = TRUE]
      BY <3>1, <3>2
    <3>3. CASE ingesting' = Nothing
      BY <3>3 DEF Nothing
    <3> QED BY <1>6, <3>2, <3>3 DEF Heartbeat, Ingested
  <2> QED BY <1>1, <1>6, <2>1, <2>2, <2>3
       DEF Heartbeat, Ingested, ReactorTypes, TypeOK, Projection, RevertsOpen,
           RevertsQueued, git, provider
<1> QED BY <1>3, <1>4, <1>5, <1>6 DEF IngestionStep

\* The reactor takes an event of either queue.
LEMMA TakingTypes ==
  ASSUME ReactorTypes, NEW type, TakeRuntime(type) \/ TakeDomain(type)
  PROVE  /\ runtime' \in Seq(RuntimeEvents) /\ domain' \in Seq(DomainEvents)
         /\ UNCHANGED <<model, git, provider, ingestion, ingesting, requested>>
         /\ Cardinality(RevertsQueued') \in Nat
         /\ TakeDomain("thread.checkpoint-revert-requested") =>
              answered + Cardinality(RevertsQueued') + 1 <= requested
         /\ answered + Cardinality(RevertsQueued') <= requested
<1>1. Cardinality(RevertsQueued) \in Nat /\ answered + Cardinality(RevertsQueued) <= requested
      /\ job.step = "idle" /\ answered \in Nat /\ requested \in Nat
  BY QueuedIsFinite DEF ReactorTypes, TypeOK, RevertsOpen, TakeRuntime, TakeDomain
<1>2. CASE TakeRuntime(type)
  <2>1. RevertsQueued' = RevertsQueued /\ ~ TakeDomain("thread.checkpoint-revert-requested")
    BY <1>2, Taken DEF TakeRuntime, TakeDomain, RevertsQueued, ReactorTypes
  <2> QED BY <1>1, <1>2, <2>1, Taken DEF TakeRuntime, ReactorTypes
<1>3. CASE TakeDomain(type)
  <2>1. /\ domain' \in Seq(DomainEvents)
        /\ Cardinality(RevertsQueued) = Cardinality(RevertsQueued')
             + (IF Head(domain).type = "thread.checkpoint-revert-requested" THEN 1 ELSE 0)
    BY <1>3, QueuedTail DEF TakeDomain, ReactorTypes
  <2>2. Cardinality(RevertsQueued') \in Nat
    <3>1. IsFiniteSet(1..Len(domain')) /\ RevertsQueued' \in SUBSET (1..Len(domain'))
      BY <2>1, FS_Interval DEF RevertsQueued
    <3>2. IsFiniteSet(RevertsQueued')
      BY <3>1, FS_Subset
    <3> QED BY <3>2, FS_CardinalityType
  <2> QED BY <1>1, <1>3, <2>1, <2>2 DEF TakeDomain, ReactorTypes
<1> QED BY <1>2, <1>3

LEMMA CaptureTypes ==
  ASSUME ReactorTypes, UNCHANGED scenario,
         EnsureBaseline \/ CaptureBaseline \/ CaptureOnCompletion \/ CaptureOnPlaceholder
           \/ Capture \/ Record
  PROVE  ReactorTypes'
<1>1. Len(TurnOrder') = Len(TurnOrder) /\ Edits' = Edits
  BY DEF TurnOrder, MaxDiffs, Edits
<1>2. CurrentTurnCount(checkpoints) \in Nat /\ Cardinality(RevertsQueued) \in Nat
  BY HighestCount, QueuedIsFinite DEF ReactorTypes
<1>3. ASSUME NEW type, TakeRuntime(type) \/ TakeDomain(type), UNCHANGED <<answered, lost>>,
             job' \in Jobs, job'.step \in {"idle", "baseline", "capture"},
             job'.step = "capture" => job'.turn \in Turns /\ job'.status \in Statuses
      PROVE  ReactorTypes'
  <2>1. RevertsOpen' = Cardinality(RevertsQueued') + 0
    BY <1>3 DEF RevertsOpen
  <2>2. /\ runtime' \in Seq(RuntimeEvents) /\ domain' \in Seq(DomainEvents)
        /\ UNCHANGED <<model, git, provider, ingestion, ingesting, requested>>
        /\ Cardinality(RevertsQueued') \in Nat
        /\ answered + Cardinality(RevertsQueued') <= requested
    BY <1>3, TakingTypes
  <2>3. answered' + RevertsOpen' <= requested'
    BY <1>3, <2>1, <2>2
  <2>4. TypeOK'
    BY <1>1, <1>3, <2>2 DEF ReactorTypes, TypeOK, model, git, provider
  <2> QED BY <1>1, <1>3, <2>2, <2>3, <2>4 DEF ReactorTypes, Projection, model, git, provider
<1>4. CASE EnsureBaseline
  <2> DEFINE n == CurrentTurnCount(checkpoints)
  <2>1. Idle \in Jobs /\ Job("baseline", None, n, None) \in Jobs
        /\ Idle.step = "idle" /\ Job("baseline", None, n, None).step = "baseline"
    BY <1>2 DEF Idle, Job, Jobs
  <2>2. job' \in {Idle, Job("baseline", None, n, None)}
    BY <1>4 DEF EnsureBaseline
  <2> HIDE DEF n
  <2> QED BY <1>3, <1>4, <2>1, <2>2 DEF EnsureBaseline
<1>5. CASE CaptureOnCompletion
  <2>1. Head(runtime).turn \in Turns /\ Head(runtime).state \in Statuses
    BY <1>5, Taken DEF CaptureOnCompletion, TakeRuntime, ReactorTypes, RuntimeEvents
  <2>2. PICK count : job' \in {Idle, Job("capture", Head(runtime).turn, count, Head(runtime).state)}
                     /\ count \in Nat
    <3> DEFINE placeholders == {c \in checkpoints : c.turn = Head(runtime).turn /\ c.status = "missing"}
    <3>1. placeholders # {} => (CHOOSE c \in placeholders : TRUE) \in checkpoints
      OBVIOUS
    <3>2. placeholders # {} => (CHOOSE c \in placeholders : TRUE).count \in Nat
      <4> HIDE DEF placeholders
      <4> QED BY <3>1 DEF ReactorTypes, Projection, Checkpoint
    <3> DEFINE n == IF placeholders = {} THEN CurrentTurnCount(checkpoints) + 1
                    ELSE (CHOOSE c \in placeholders : TRUE).count
    <3>3. n \in Nat
      BY <1>2, <3>2
    <3>4. job' \in {Idle, Job("capture", Head(runtime).turn, n, Head(runtime).state)}
      BY <1>5 DEF CaptureOnCompletion
    <3> HIDE DEF n
    <3> QED BY <3>3, <3>4
  <2>3. /\ Idle \in Jobs /\ Job("capture", Head(runtime).turn, count, Head(runtime).state) \in Jobs
        /\ Idle.step = "idle"
        /\ \A t, s : LET j == Job("capture", t, count, s)
                     IN j.step = "capture" /\ j.turn = t /\ j.status = s
    BY <2>1, <2>2 DEF Idle, Job, Jobs
  <2> QED BY <1>3, <1>5, <2>1, <2>2, <2>3 DEF CaptureOnCompletion
<1>6. CASE CaptureOnPlaceholder
  <2>1. Head(domain).turn \in Turns /\ Head(domain).count \in Nat
    <3>1. domain \in Seq(DomainEvents)
      BY DEF ReactorTypes
    <3>2. domain # <<>> /\ Head(domain).type = "thread.turn-diff-completed"
      BY <1>6 DEF CaptureOnPlaceholder, TakeDomain
    <3>3. Head(domain) \in DomainEvents
      BY ONLY <3>1, <3>2, Taken
    <3> QED BY ONLY <3>2, <3>3 DEF DomainEvents
  <2>2. job' \in {Idle, Job("capture", Head(domain).turn, Head(domain).count, "ready")}
    BY <1>6 DEF CaptureOnPlaceholder
  <2>3. /\ Idle \in Jobs /\ Job("capture", Head(domain).turn, Head(domain).count, "ready") \in Jobs
        /\ Idle.step = "idle"
        /\ \A t, n, s : LET j == Job("capture", t, n, s)
                        IN j.step = "capture" /\ j.turn = t /\ j.status = s
    BY <2>1 DEF Idle, Job, Jobs, Statuses
  <2> QED BY <1>3, <1>6, <2>1, <2>2, <2>3 DEF CaptureOnPlaceholder, Statuses
<1>7. job.count \in Nat /\ workspace \subseteq Edits /\ DOMAIN refs \subseteq Nat
      /\ \A n \in DOMAIN refs : refs[n] \subseteq Edits
  BY DEF ReactorTypes, TypeOK, Jobs
<1>8. /\ DOMAIN WithRef(job.count) \subseteq Nat
      /\ \A n \in DOMAIN WithRef(job.count) : WithRef(job.count)[n] \subseteq Edits
  BY <1>7 DEF WithRef
<1>9. CASE CaptureBaseline
  <2>1. DOMAIN refs' \subseteq Nat /\ \A n \in DOMAIN refs' : refs'[n] \subseteq Edits
    BY <1>7, <1>8, <1>9 DEF CaptureBaseline
  <2>2. RevertsOpen' = RevertsOpen /\ job' \in Jobs /\ job'.step = "idle"
    BY <1>9 DEF CaptureBaseline, RevertsOpen, RevertsQueued, Idle, Jobs
  <2> QED BY <1>1, <1>9, <2>1, <2>2
       DEF CaptureBaseline, ReactorTypes, TypeOK, Projection, model, provider
<1>10. CASE Capture
  <2>1. DOMAIN refs' \subseteq Nat /\ \A n \in DOMAIN refs' : refs'[n] \subseteq Edits
    BY <1>7, <1>8, <1>10 DEF Capture
  <2>2. /\ RevertsOpen' = RevertsOpen /\ job' \in Jobs
        /\ job'.step = "idle" \/ job' = [job EXCEPT !.step = "record"]
    <3>1. job \in Jobs /\ [job EXCEPT !.step = "record"] \in Jobs /\ Idle \in Jobs
          /\ Idle.step = "idle" /\ [job EXCEPT !.step = "record"].step = "record"
      BY DEF ReactorTypes, TypeOK, Jobs, Idle
    <3>2. job' \in {Idle, [job EXCEPT !.step = "record"]} /\ job.step = "capture"
          /\ RevertsQueued' = RevertsQueued
      BY <1>10 DEF Capture, RevertsQueued
    <3> QED BY <3>1, <3>2 DEF RevertsOpen
  <2>3. job'.step \in {"capture", "record"} => job'.turn \in Turns /\ job'.status \in Statuses
    BY <1>10, <2>2 DEF Capture, ReactorTypes, TypeOK, Jobs
  <2> QED BY <1>1, <1>10, <2>1, <2>2, <2>3
       DEF Capture, ReactorTypes, TypeOK, Projection, model, provider
<1>11. CASE Record
  <2>1. /\ checkpoints' \subseteq Checkpoint /\ Projection(checkpoints')
        /\ domain' \in Seq(DomainEvents)
        /\ Cardinality(RevertsQueued') = Cardinality(RevertsQueued)
    <3> DEFINE new == [turn |-> job.turn, count |-> job.count,
                       status |-> job.status, captured |-> TRUE]
    <3>1. new \in Checkpoint
      BY <1>7, <1>11 DEF Record, ReactorTypes, Checkpoint
    <3>2. DispatchDiff(new) \/ UNCHANGED <<checkpoints, domain>>
      BY <1>11 DEF Record
    <3>3. CASE DispatchDiff(new)
      <4> HIDE DEF new
      <4> QED BY <3>1, <3>3, DispatchTypes
    <3>4. CASE UNCHANGED <<checkpoints, domain>>
      BY <3>4 DEF ReactorTypes, TypeOK, RevertsQueued, Projection
    <3> QED BY <3>2, <3>3, <3>4
  <2>2. RevertsOpen' = RevertsOpen /\ job' \in Jobs /\ job'.step = "idle"
    BY <1>11, <2>1 DEF Record, RevertsOpen, Idle, Jobs
  <2> QED BY <1>1, <1>11, <2>1, <2>2
       DEF Record, ReactorTypes, TypeOK, git, provider
<1> QED BY <1>4, <1>5, <1>6, <1>9, <1>10, <1>11

LEMMA RevertTypes ==
  ASSUME ReactorTypes, UNCHANGED scenario,
         Revert \/ Restore \/ Rollback \/ DeleteRefs \/ CompleteRevert
  PROVE  ReactorTypes'
<1> DEFINE steps == {"restore", "rollback", "delete", "reverted"}
<1>1. Len(TurnOrder') = Len(TurnOrder) /\ Edits' = Edits
  BY DEF TurnOrder, MaxDiffs, Edits
<1>2. /\ Cardinality(RevertsQueued) \in Nat /\ answered \in Nat /\ requested \in Nat
      /\ answered + RevertsOpen <= requested
  BY QueuedIsFinite DEF ReactorTypes, TypeOK
<1>3. Idle \in Jobs /\ Idle.step = "idle"
  BY DEF Idle, Jobs
<1>4. ASSUME NEW gone \in SUBSET Nat, RevertFails(gone)
      PROVE  /\ job' = Idle /\ answered' \in {answered, answered + 1}
             /\ lost' \in [report : BOOLEAN, refs : SUBSET Nat]
  BY <1>4 DEF RevertFails, ReactorTypes, TypeOK
<1>5. CASE Revert
  <2> DEFINE n == Head(domain).count
             stale == {c.count : c \in {d \in checkpoints : d.count > n /\ d.captured}}
             new == [Job("restore", None, n, None) EXCEPT
                        !.stale = stale, !.current = CurrentTurnCount(checkpoints)]
  <2>1. /\ runtime' \in Seq(RuntimeEvents) /\ domain' \in Seq(DomainEvents)
        /\ UNCHANGED <<model, git, provider, ingestion, ingesting, requested>>
        /\ Cardinality(RevertsQueued') \in Nat
        /\ answered + Cardinality(RevertsQueued') + 1 <= requested
    <3>1. TakeDomain("thread.checkpoint-revert-requested")
      BY <1>5 DEF Revert
    <3> QED BY <3>1, TakingTypes
  <2>2. new \in Jobs /\ new.step = "restore"
    <3>1. n \in Nat
      BY <1>5, Taken DEF Revert, TakeDomain, ReactorTypes, DomainEvents
    <3>2. CurrentTurnCount(checkpoints) \in Nat
      BY HighestCount DEF ReactorTypes
    <3>3. stale \in SUBSET Nat
      BY DEF ReactorTypes, Projection, Checkpoint
    <3> HIDE DEF n, stale
    <3> QED BY <3>1, <3>2, <3>3 DEF Job, Idle, Jobs
  <2>3. (job' = new /\ UNCHANGED <<answered, lost>>) \/ RevertFails({})
    BY <1>5 DEF Revert
  <2>4. /\ job' \in Jobs /\ job'.step \notin {"capture", "record"}
        /\ answered' \in Nat /\ answered' + RevertsOpen' <= requested /\ answered' <= requested
        /\ lost' \in [report : BOOLEAN, refs : SUBSET Nat]
    <3> HIDE DEF new
    <3>1. lost \in [report : BOOLEAN, refs : SUBSET Nat]
      BY DEF ReactorTypes, TypeOK
    <3> QED BY <1>2, <1>3, <1>4, <2>1, <2>2, <2>3, <3>1 DEF RevertsOpen
  <2>5. TypeOK'
    BY <1>1, <2>1, <2>4 DEF ReactorTypes, TypeOK, model, git, provider
  <2> QED BY <1>1, <2>1, <2>4, <2>5 DEF ReactorTypes, Projection, model, git, provider
<1>6. ASSUME job.step \in steps, UNCHANGED <<provider, ingestion, ingesting, domain, runtime, requested>>,
             activeTurn' = activeTurn, Projection(checkpoints'), workspace' \subseteq Edits,
             DOMAIN refs' \subseteq Nat /\ \A n \in DOMAIN refs' : refs'[n] \subseteq Edits,
             lost' \in [report : BOOLEAN, refs : SUBSET Nat],
             \/ job' = Idle /\ answered' \in {answered, answered + 1}
             \/ /\ job' \in {[job EXCEPT !.step = s] : s \in steps}
                /\ answered' = answered
      PROVE  ReactorTypes'
  <2>1. job' \in Jobs /\ job'.step \in steps \cup {"idle"}
    <3>1. job \in Jobs
      BY DEF ReactorTypes, TypeOK
    <3>2. \A s \in steps : [job EXCEPT !.step = s] \in Jobs /\ [job EXCEPT !.step = s].step = s
      BY <3>1 DEF Jobs
    <3> QED BY <1>3, <1>6, <3>2
  <2>2. RevertsOpen = Cardinality(RevertsQueued) + 1 /\ RevertsQueued' = RevertsQueued
    BY <1>6 DEF RevertsOpen, RevertsQueued
  <2>3. \A s \in steps : [job EXCEPT !.step = s].step = s
    BY DEF ReactorTypes, TypeOK, Jobs
  <2>4. /\ answered' \in Nat /\ answered' + RevertsOpen' <= requested' /\ answered' <= requested'
    BY <1>2, <1>3, <1>6, <2>2, <2>3 DEF RevertsOpen
  <2>5. TypeOK'
    BY <1>1, <1>6, <2>1, <2>4 DEF ReactorTypes, TypeOK, provider, Projection
  <2> QED BY <1>1, <1>6, <2>1, <2>4, <2>5 DEF ReactorTypes, Projection, provider
<1>7. /\ Projection(checkpoints) /\ workspace \subseteq Edits /\ DOMAIN refs \subseteq Nat
      /\ \A n \in DOMAIN refs : refs[n] \subseteq Edits
      /\ lost \in [report : BOOLEAN, refs : SUBSET Nat] /\ job.stale \in SUBSET Nat
  BY DEF ReactorTypes, TypeOK, Jobs
<1>8. CASE Restore
  <2>1. workspace' \subseteq Edits
    BY <1>7, <1>8 DEF Restore, HasRef
  <2>2. \/ job' = Idle /\ answered' \in {answered, answered + 1}
        \/ job' = [job EXCEPT !.step = "rollback"] /\ answered' = answered
    BY <1>4, <1>8 DEF Restore
  <2>3. lost' \in [report : BOOLEAN, refs : SUBSET Nat]
    BY <1>4, <1>7, <1>8 DEF Restore
  <2> QED BY <1>6, <1>7, <1>8, <2>1, <2>2, <2>3 DEF Restore, model, Projection
<1>9. CASE Rollback
  <2>1. \/ job' = Idle /\ answered' \in {answered, answered + 1}
        \/ job' = [job EXCEPT !.step = "delete"] /\ answered' = answered
    BY <1>4, <1>9 DEF Rollback
  <2>2. lost' \in [report : BOOLEAN, refs : SUBSET Nat]
    BY <1>4, <1>7, <1>9 DEF Rollback
  <2> QED BY <1>6, <1>7, <1>9, <2>1, <2>2 DEF Rollback, model, git, Projection
<1>10. CASE DeleteRefs
  <2>1. PICK gone \in SUBSET job.stale :
               /\ refs' = [n \in DOMAIN refs \ gone |-> refs[n]]
               /\ \/ job' = [job EXCEPT !.step = "reverted"] /\ UNCHANGED <<answered, lost>>
                  \/ RevertFails(gone)
    BY <1>10 DEF DeleteRefs
  <2>2. DOMAIN refs' \subseteq Nat /\ \A n \in DOMAIN refs' : refs'[n] \subseteq Edits
    BY <1>7, <2>1
  <2>3. /\ lost' \in [report : BOOLEAN, refs : SUBSET Nat]
        /\ \/ job' = Idle /\ answered' \in {answered, answered + 1}
           \/ job' = [job EXCEPT !.step = "reverted"] /\ answered' = answered
    BY <1>4, <1>7, <2>1
  <2> QED BY <1>6, <1>7, <1>10, <2>2, <2>3 DEF DeleteRefs, model, Projection
<1>11. CASE CompleteRevert
  <2>1. Projection(checkpoints')
    BY <1>7, <1>11, RevertIsProjection DEF CompleteRevert
  <2>2. /\ job' = Idle /\ answered' \in {answered, answered + 1}
        /\ lost' \in [report : BOOLEAN, refs : SUBSET Nat]
    BY <1>4, <1>7, <1>11 DEF CompleteRevert
  <2> QED BY <1>6, <1>7, <1>11, <2>1, <2>2 DEF CompleteRevert, git
<1> QED BY <1>5, <1>8, <1>9, <1>10, <1>11

LEMMA NextTypes == ReactorTypes /\ [Next]_vars => ReactorTypes'
<1> SUFFICES ASSUME ReactorTypes, [Next]_vars PROVE ReactorTypes'
  OBVIOUS
<1>1. CASE Next
  BY <1>1, EnvironmentTypes, IngestionTypes, CaptureTypes, RevertTypes DEF Next, ReactorStep
<1>2. CASE UNCHANGED vars
  BY <1>2 DEF vars, model, git, provider, ReactorTypes, TypeOK, TurnOrder, MaxDiffs, Edits,
     Projection, RevertsOpen, RevertsQueued
<1> QED BY <1>1, <1>2

(***************************************************************************)
(* Every variable keeps its type, and no revert is answered twice.         *)
(***************************************************************************)
THEOREM TypesHold == Spec => []TypeOK
<1>1. ReactorTypes => TypeOK
  BY DEF ReactorTypes
<1> QED BY <1>1, InitTypes, NextTypes, PTL DEF Spec

-----------------------------------------------------------------------------
(* Captures and their refs. *)

\* What a dispatched diff leaves of the checkpoints.
LEMMA CompleteIsOf ==
  ASSUME NEW cs, NEW new
  PROVE  /\ Complete(cs, new) \subseteq cs \cup {new}
         /\ ~ (HasReal(cs, new.turn) /\ new.status = "missing") => new \in Complete(cs, new)
BY DEF Complete

LEMMA InitRefs == Init => RefsFollowCheckpoints
BY DEF Init, RefsFollowCheckpoints, CapturesHaveRefs, Idle

\* A revert that fails remembers the refs it deleted.
LEMMA Lost ==
  ASSUME ReactorTypes, NEW gone, RevertFails(gone)
  PROVE  lost'.refs = lost.refs \cup gone /\ job' = Idle
BY DEF RevertFails, ReactorTypes, TypeOK

LEMMA NextRefs ==
  ASSUME ReactorTypes, RefsFollowCheckpoints, [Next]_vars
  PROVE  RefsFollowCheckpoints'
<1> USE DEF RefsFollowCheckpoints, CapturesHaveRefs, HasRef
<1>1. \A c \in checkpoints : c.count \in Nat
  BY DEF ReactorTypes, Projection, Checkpoint
<1>2. job \in Jobs /\ job.count \in Nat
  BY DEF ReactorTypes, TypeOK, Jobs
<1>3. /\ Idle.step = "idle"
      /\ \A t, n, st : Job("baseline", t, n, st).step = "baseline"
      /\ \A t, n, st : Job("capture", t, n, st).step = "capture"
  BY DEF Idle, Job
<1>4. CASE UNCHANGED <<checkpoints, refs, job, lost>>
  BY <1>4
<1>5. CASE SendTurn \/ StartTurn \/ UpdateDiff \/ Ingest \/ IngestLifecycle \/ Heartbeat
  BY <1>5 DEF SendTurn, StartTurn, UpdateDiff, Ingest, IngestLifecycle, Heartbeat, Ingested,
     model, git
<1>6. ASSUME NEW status \in Statuses, CompleteTurn(status) PROVE RefsFollowCheckpoints'
  BY <1>6 DEF CompleteTurn, model, git
<1>7. ASSUME NEW n \in 0..Len(TurnOrder), RequestRevert(n) PROVE RefsFollowCheckpoints'
  BY <1>7 DEF RequestRevert, model, git
<1>8. CASE IngestDiff
  <2> DEFINE new == [turn |-> ingesting.event.turn, status |-> "missing",
                     count |-> CurrentTurnCount(ingesting.seen) + 1, captured |-> FALSE]
  <2>1. checkpoints' \subseteq checkpoints \cup {new} /\ UNCHANGED <<refs, job, lost>>
    BY <1>8, CompleteIsOf DEF IngestDiff, DispatchDiff, Ingested, model, git
  <2> QED BY <2>1
<1>9. CASE EnsureBaseline \/ CaptureOnCompletion \/ CaptureOnPlaceholder
  <2>1. UNCHANGED <<checkpoints, refs, lost>> /\ job.step = "idle"
        /\ job'.step \in {"idle", "baseline", "capture"}
    BY <1>3, <1>9 DEF EnsureBaseline, CaptureOnCompletion, CaptureOnPlaceholder, TakeRuntime,
       TakeDomain, model, git
  <2> QED BY <2>1
<1>10. CASE CaptureBaseline
  <2>1. /\ UNCHANGED <<checkpoints, lost>> /\ job.step = "baseline" /\ job'.step = "idle"
        /\ DOMAIN refs \subseteq DOMAIN refs'
    BY <1>3, <1>10 DEF CaptureBaseline, WithRef, model
  <2> QED BY <2>1
<1>11. CASE Capture
  <2>1. /\ UNCHANGED <<checkpoints, lost>> /\ job.step = "capture"
        /\ DOMAIN refs \subseteq DOMAIN refs'
        /\ \/ job'.step = "idle"
           \/ job'.step = "record" /\ job'.count = job.count /\ job.count \in DOMAIN refs'
    BY <1>2, <1>3, <1>11 DEF Capture, WithRef, model, Jobs
  <2> QED BY <2>1
<1>12. CASE Record
  <2> DEFINE new == [turn |-> job.turn, count |-> job.count,
                     status |-> job.status, captured |-> TRUE]
  <2>1. /\ checkpoints' \subseteq checkpoints \cup {new} /\ UNCHANGED <<refs, lost>>
        /\ job.step = "record" /\ job'.step = "idle"
    BY <1>3, <1>12, CompleteIsOf DEF Record, DispatchDiff, git
  <2> QED BY <2>1
<1>13. CASE Revert
  <2> DEFINE n == Head(domain).count
             stale == {c.count : c \in {d \in checkpoints : d.count > n /\ d.captured}}
             new == [Job("restore", None, n, None) EXCEPT
                        !.stale = stale, !.current = CurrentTurnCount(checkpoints)]
  <2>1. /\ UNCHANGED <<checkpoints, refs>> /\ job.step = "idle"
        /\ lost.refs \subseteq lost'.refs /\ (job' = new \/ job'.step = "idle")
    BY <1>3, <1>13, Lost DEF Revert, TakeDomain, model, git
  <2>2. n \in Nat
    BY <1>13, Taken DEF Revert, TakeDomain, ReactorTypes, DomainEvents
  <2>3. new.step = "restore" /\ new.count = n /\ new.stale = stale
    <3> HIDE DEF stale, n
    <3> QED BY DEF Job, Idle
  <2>4. \A m \in stale : n < m
    BY <1>1, <2>2
  <2> HIDE DEF stale, n, new
  <2> QED BY <2>1, <2>3, <2>4
<1>14. CASE Restore \/ Rollback
  <2>1. /\ UNCHANGED <<checkpoints, refs>> /\ lost.refs \subseteq lost'.refs
        /\ job.step \in {"restore", "rollback"}
        /\ \/ job'.step = "idle"
           \/ job' = [job EXCEPT !.step = "rollback"]
           \/ job' = [job EXCEPT !.step = "delete"]
    BY <1>3, <1>14, Lost DEF Restore, Rollback, model, git
  <2> QED BY <1>2, <2>1 DEF Jobs
<1>15. CASE DeleteRefs
  <2>1. PICK gone \in SUBSET job.stale :
          /\ refs' = [n \in DOMAIN refs \ gone |-> refs[n]]
          /\ \/ job' = [job EXCEPT !.step = "reverted"] /\ UNCHANGED lost
             \/ RevertFails(gone)
    BY <1>15 DEF DeleteRefs
  <2>2. UNCHANGED checkpoints /\ job.step = "delete" /\ DOMAIN refs' = DOMAIN refs \ gone
    BY <1>15, <2>1 DEF DeleteRefs, model
  <2>3. CASE job' = [job EXCEPT !.step = "reverted"] /\ UNCHANGED lost
    <3>1. job'.step = "reverted" /\ job'.count = job.count /\ job'.stale = job.stale
      BY <1>2, <2>3 DEF Jobs
    <3> QED BY <2>2, <2>3, <3>1
  <2>4. CASE RevertFails(gone)
    BY <1>3, <2>2, <2>4, Lost
  <2> QED BY <2>1, <2>3, <2>4
<1>16. CASE CompleteRevert
  <2>1. UNCHANGED refs /\ job.step = "reverted"
    BY <1>16 DEF CompleteRevert, git
  <2>2. CASE checkpoints' = RevertTo(checkpoints, job.count) /\ job' = Idle /\ UNCHANGED lost
    <3>1. \A c \in RevertTo(checkpoints, job.count) : c \in checkpoints /\ ~ (job.count < c.count)
      BY <1>1, <1>2 DEF RevertTo
    <3> QED BY <1>3, <2>1, <2>2, <3>1
  <2>3. CASE RevertFails(job.stale) /\ UNCHANGED checkpoints
    BY <1>3, <2>1, <2>3, Lost
  <2> QED BY <1>16, <2>2, <2>3 DEF CompleteRevert
<1>17. CASE UNCHANGED vars
  BY <1>4, <1>17 DEF vars, model, git
<1> QED BY <1>5, <1>6, <1>7, <1>8, <1>9, <1>10, <1>11, <1>12, <1>13, <1>14, <1>15, <1>16, <1>17
     DEF Next, IngestionStep, ReactorStep

(***************************************************************************)
(* A captured checkpoint has its ref, whatever turns, reverts and failures *)
(* come in between, but for one that a revert deletes between its last two *)
(* steps, or deleted before it failed, in the deletion or in its last step.*)
(***************************************************************************)
THEOREM CapturesKeepRefs == Spec => []CapturesHaveRefs
<1>1. RefsFollowCheckpoints => CapturesHaveRefs
  BY DEF RefsFollowCheckpoints
<1> QED BY <1>1, InitTypes, NextTypes, InitRefs, NextRefs, PTL DEF Spec

-----------------------------------------------------------------------------
(* Placeholders. *)

\* The checkpoints change by a placeholder, a record or a revert only.
LEMMA CheckpointsChange ==
  ASSUME ReactorTypes, [Next]_vars
  PROVE  \/ UNCHANGED checkpoints
         \/ IngestDiff /\ DispatchDiff([turn |-> ingesting.event.turn, status |-> "missing",
                                        count |-> CurrentTurnCount(ingesting.seen) + 1,
                                        captured |-> FALSE])
         \/ Record /\ DispatchDiff([turn |-> job.turn, count |-> job.count,
                                    status |-> job.status, captured |-> TRUE])
         \/ CompleteRevert /\ checkpoints' \subseteq checkpoints
<1>1. CASE SendTurn \/ StartTurn \/ UpdateDiff \/ Ingest \/ IngestLifecycle \/ Heartbeat
  BY <1>1 DEF SendTurn, StartTurn, UpdateDiff, Ingest, IngestLifecycle, Heartbeat, model
<1>2. CASE \E status \in Statuses : CompleteTurn(status)
  BY <1>2 DEF CompleteTurn, model
<1>3. CASE \E n \in 0..Len(TurnOrder) : RequestRevert(n)
  BY <1>3 DEF RequestRevert, model
<1>4. CASE EnsureBaseline \/ CaptureBaseline \/ CaptureOnCompletion \/ CaptureOnPlaceholder
             \/ Capture \/ Revert
  BY <1>4 DEF EnsureBaseline, CaptureBaseline, CaptureOnCompletion, CaptureOnPlaceholder,
     Capture, Revert, TakeRuntime, TakeDomain, model
<1>5. CASE Restore \/ Rollback \/ DeleteRefs
  BY <1>5 DEF Restore, Rollback, DeleteRefs, model
<1>6. CASE IngestDiff
  BY <1>6 DEF IngestDiff, model
<1>7. CASE Record
  BY <1>7 DEF Record
<1>8. CASE CompleteRevert
  BY <1>8, RevertIsProjection DEF CompleteRevert, ReactorTypes
<1>9. CASE UNCHANGED vars
  BY <1>9 DEF vars, model
<1> QED BY <1>1, <1>2, <1>3, <1>4, <1>5, <1>6, <1>7, <1>8, <1>9 DEF Next, IngestionStep, ReactorStep

LEMMA CompleteKeepsOneEach ==
  ASSUME OneEach, NEW new, new.captured \/ new.status = "missing", DispatchDiff(new)
  PROVE  OneEach'
BY DEF OneEach, DispatchDiff, Complete

LEMMA NextOneEach ==
  ASSUME ReactorTypes, OneEach, [Next]_vars
  PROVE  OneEach'
<1>1. CASE checkpoints' \subseteq checkpoints
  BY <1>1 DEF OneEach
<1>2. ASSUME NEW new, new.captured \/ new.status = "missing", DispatchDiff(new) PROVE OneEach'
  BY <1>2, CompleteKeepsOneEach
<1> QED BY <1>1, <1>2, CheckpointsChange

\* An event in the queue of the reactor stays there until it is taken.
LEMMA AnnouncedAfterAppend ==
  ASSUME ReactorTypes, NEW t, NEW e \in DomainEvents, domain' = Append(domain, e)
  PROVE  /\ Announced(t) => Announced(t)'
         /\ (e.type = "thread.turn-diff-completed" /\ e.turn = t /\ e.status = "missing")
              => Announced(t)'
<1>1. domain \in Seq(DomainEvents)
  BY DEF ReactorTypes
<1>2. /\ \A i \in 1..Len(domain) : i \in 1..Len(domain') /\ domain'[i] = domain[i]
      /\ domain'[Len(domain) + 1] = e /\ Len(domain) + 1 \in 1..Len(domain')
  BY <1>1, Appended
<1> QED BY <1>2 DEF Announced

LEMMA AnnouncedAfterTail ==
  ASSUME ReactorTypes, NEW t, domain # <<>>, domain' = Tail(domain), Announced(t)
  PROVE  \/ Announced(t)'
         \/ /\ Head(domain).type = "thread.turn-diff-completed"
            /\ Head(domain).turn = t /\ Head(domain).status = "missing"
<1>1. domain \in Seq(DomainEvents)
  BY DEF ReactorTypes
<1>2. \A i \in 1..Len(domain) : \/ domain[i] = Head(domain)
                                \/ i - 1 \in 1..Len(domain') /\ domain[i] = domain'[i - 1]
  BY <1>1, Taken
<1> QED BY <1>2 DEF Announced

LEMMA NextPlaceholders ==
  ASSUME ReactorTypes, OneEach, PlaceholdersAreAttended, [Next]_vars
  PROVE  PlaceholdersAreAttended'
<1> DEFINE Attended(c) == \/ c.captured /\ c.status # "missing"
                          \/ Announced(c.turn) \/ Capturing(c.turn)
<1> SUFFICES ASSUME Faults' = {}, NEW c \in checkpoints'
             PROVE  Attended(c)'
  BY DEF PlaceholdersAreAttended
<1>1. Faults = {} /\ \A d \in checkpoints : Attended(d)
  BY DEF Next, vars, PlaceholdersAreAttended, Faults
<1>2. CASE UNCHANGED vars
  BY <1>1, <1>2 DEF vars, model, Announced, Capturing
<1>3. ASSUME c \in checkpoints, UNCHANGED job,
             domain' = domain \/ \E e \in DomainEvents : domain' = Append(domain, e)
      PROVE  Attended(c)'
  <2>1. Announced(c.turn) => Announced(c.turn)'
    BY <1>3, AnnouncedAfterAppend DEF Announced
  <2> QED BY <1>1, <1>3, <2>1 DEF Capturing
<1>4. CASE SendTurn \/ StartTurn \/ UpdateDiff \/ Ingest \/ IngestLifecycle \/ Heartbeat
  <2>1. DomainEvent("thread.turn-start-requested", None, 0, None) \in DomainEvents
    BY DEF DomainEvent, DomainEvents
  <2> QED BY <1>3, <1>4, <2>1 DEF SendTurn, StartTurn, UpdateDiff, Ingest, IngestLifecycle,
       Heartbeat, Ingested, model
<1>5. ASSUME NEW status \in Statuses, CompleteTurn(status) PROVE Attended(c)'
  BY <1>3, <1>5 DEF CompleteTurn, model
<1>6. ASSUME NEW n \in 0..Len(TurnOrder), RequestRevert(n) PROVE Attended(c)'
  <2>1. DomainEvent("thread.checkpoint-revert-requested", None, n, None) \in DomainEvents
    BY DEF DomainEvent, DomainEvents
  <2> QED BY <1>3, <1>6, <2>1 DEF RequestRevert, model
<1>7. ASSUME NEW new \in Checkpoint, DispatchDiff(new), new.captured \/ new.status = "missing",
             \A t : Capturing(t) => t = new.turn \/ Capturing(t)'
      PROVE  Attended(c)'
  <2> DEFINE e == DomainEvent("thread.turn-diff-completed", new.turn, new.count, new.status)
  <2>1. e \in DomainEvents /\ e.type = "thread.turn-diff-completed" /\ e.turn = new.turn
        /\ e.status = new.status
    BY DEF DomainEvents, DomainEvent, Checkpoint
  <2>2. domain' = Append(domain, e)
    BY <1>7 DEF DispatchDiff
  <2> HIDE DEF e
  <2>3. /\ Announced(c.turn) => Announced(c.turn)'
        /\ (e.type = "thread.turn-diff-completed" /\ e.turn = c.turn /\ e.status = "missing")
             => Announced(c.turn)'
    BY <2>1, <2>2, AnnouncedAfterAppend
  <2>4. CASE c \in checkpoints /\ c.turn # new.turn
    BY <1>1, <1>7, <2>3, <2>4
  <2>5. CASE c = new
    BY <1>7, <2>1, <2>3, <2>5
  <2>6. CASE c \in checkpoints /\ HasReal(checkpoints, new.turn) /\ c.turn = new.turn
    BY <2>6 DEF HasReal, OneEach
  <2> QED BY <1>7, <2>4, <2>5, <2>6 DEF DispatchDiff, Complete
<1>8. CASE IngestDiff
  <2> DEFINE new == [turn |-> ingesting.event.turn, status |-> "missing",
                     count |-> CurrentTurnCount(ingesting.seen) + 1, captured |-> FALSE]
  <2>1. DispatchDiff(new) \/ UNCHANGED <<checkpoints, domain>>
    BY <1>8 DEF IngestDiff, model
  <2>2. UNCHANGED job
    BY <1>8 DEF IngestDiff, Ingested
  <2>3. new \in Checkpoint
    <3>1. ingesting.event.turn \in Turns
      BY <1>8 DEF IngestDiff, ReactorTypes, RuntimeEvents, NoEvent, RuntimeEvent
    <3>2. CurrentTurnCount(ingesting.seen) \in Nat
      BY HighestCount DEF ReactorTypes
    <3> QED BY <3>1, <3>2 DEF Checkpoint, Statuses
  <2>4. new.status = "missing" /\ \A t : Capturing(t) => Capturing(t)'
    BY <2>2 DEF Capturing
  <2> HIDE DEF new
  <2> QED BY <1>3, <1>7, <2>1, <2>2, <2>3, <2>4
<1>9. CASE Record
  <2> DEFINE new == [turn |-> job.turn, count |-> job.count,
                     status |-> job.status, captured |-> TRUE]
  <2>1. DispatchDiff(new)
    BY <1>1, <1>9 DEF Record
  <2>2. new \in Checkpoint
    BY <1>9 DEF Record, ReactorTypes, TypeOK, Jobs, Checkpoint
  <2>3. new.captured /\ \A t : Capturing(t) => t = new.turn
    BY DEF Capturing
  <2> HIDE DEF new
  <2> QED BY <1>7, <2>1, <2>2, <2>3
<1>10. CASE EnsureBaseline \/ CaptureOnCompletion
  <2>1. c \in checkpoints /\ job.step = "idle"
    BY <1>10 DEF EnsureBaseline, CaptureOnCompletion, TakeRuntime, TakeDomain, model
  <2>2. Announced(c.turn) => Announced(c.turn)'
    <3>1. CASE UNCHANGED domain
      BY <3>1 DEF Announced
    <3>2. CASE TakeDomain("thread.turn-start-requested")
      BY <3>2, AnnouncedAfterTail DEF TakeDomain
    <3> QED BY <1>10, <3>1, <3>2 DEF EnsureBaseline, CaptureOnCompletion, TakeRuntime
  <2> QED BY <1>1, <2>1, <2>2 DEF Capturing
<1>11. CASE CaptureOnPlaceholder
  <2>1. c \in checkpoints /\ job.step = "idle" /\ domain # <<>> /\ domain' = Tail(domain)
    BY <1>11 DEF CaptureOnPlaceholder, TakeDomain, model
  <2>2. CASE Head(domain).status = "missing" /\ Head(domain).turn = c.turn
    <3>1. CASE HasReal(checkpoints, c.turn)
      BY <2>1, <3>1 DEF HasReal, OneEach
    <3>2. CASE ~ HasReal(checkpoints, c.turn)
      <4>1. job' = Job("capture", c.turn, Head(domain).count, "ready")
        BY <1>11, <2>2, <3>2 DEF CaptureOnPlaceholder
      <4> QED BY <4>1 DEF Job, Idle, Capturing
    <3> QED BY <3>1, <3>2
  <2>3. CASE ~ (Head(domain).status = "missing" /\ Head(domain).turn = c.turn)
    BY <1>1, <2>1, <2>3, AnnouncedAfterTail DEF Capturing
  <2> QED BY <2>2, <2>3
<1>12. CASE CaptureBaseline \/ Capture
  <2>1. c \in checkpoints /\ UNCHANGED domain
    BY <1>12 DEF CaptureBaseline, Capture, model
  <2>2. Capturing(c.turn) => Capturing(c.turn)'
    BY <1>1, <1>12 DEF CaptureBaseline, Capture, Capturing, ReactorTypes, TypeOK, Jobs
  <2> QED BY <1>1, <2>1, <2>2 DEF Announced
<1>13. CASE Revert
  <2>1. /\ c \in checkpoints /\ job.step = "idle" /\ domain # <<>> /\ domain' = Tail(domain)
        /\ Head(domain).type = "thread.checkpoint-revert-requested"
    BY <1>13 DEF Revert, TakeDomain, model
  <2> QED BY <1>1, <2>1, AnnouncedAfterTail DEF Capturing
<1>14. CASE Restore \/ Rollback \/ DeleteRefs \/ CompleteRevert
  <2>1. c \in checkpoints /\ UNCHANGED domain
    BY <1>14, RevertIsProjection
       DEF Restore, Rollback, DeleteRefs, CompleteRevert, model, ReactorTypes
  <2>2. ~ Capturing(c.turn)
    BY <1>14 DEF Restore, Rollback, DeleteRefs, CompleteRevert, Capturing
  <2> QED BY <1>1, <2>1, <2>2 DEF Announced
<1> QED BY <1>2, <1>4, <1>5, <1>6, <1>8, <1>9, <1>10, <1>11, <1>12, <1>13, <1>14
     DEF Next, IngestionStep, ReactorStep

LEMMA PlaceholdersInv == Spec => [](ReactorTypes /\ OneEach /\ PlaceholdersAreAttended)
<1>1. Init => OneEach /\ PlaceholdersAreAttended
  BY DEF Init, OneEach, PlaceholdersAreAttended
<1> QED BY <1>1, InitTypes, NextTypes, NextOneEach, NextPlaceholders, PTL DEF Spec

(***************************************************************************)
(* When both workers are done and nothing failed, no placeholder is left,  *)
(* for any turns, diffs and reverts.                                       *)
(***************************************************************************)
THEOREM PlaceholdersBecomeCaptures == Spec => []PlaceholdersAreReplaced
<1>1. PlaceholdersAreAttended => PlaceholdersAreReplaced
  BY DEF PlaceholdersAreAttended, PlaceholdersAreReplaced, Quiet, Announced, Capturing, Idle
<1> QED BY <1>1, PlaceholdersInv, PTL
-----------------------------------------------------------------------------
(* Turns. *)

LEMMA BegunGrows ==
  ASSUME ReactorTypes, [Next]_vars
  PROVE  TurnOrder' = TurnOrder /\ begun \in Nat /\ begun <= begun' /\ Begun \subseteq Begun'
<1>1. TurnOrder' = TurnOrder
  BY DEF Next, vars, TurnOrder
<1>2. begun' = begun \/ begun' = begun + 1
  <2>1. CASE SendTurn \/ StartTurn \/ UpdateDiff \/ IngestionStep
    BY <2>1 DEF SendTurn, StartTurn, UpdateDiff, IngestionStep, Ingest, IngestLifecycle,
       Heartbeat, IngestDiff, Ingested, provider
  <2>2. CASE \E status \in Statuses : CompleteTurn(status)
    BY <2>2 DEF CompleteTurn
  <2>3. CASE \E n \in 0..Len(TurnOrder) : RequestRevert(n)
    BY <2>3 DEF RequestRevert, provider
  <2>4. CASE EnsureBaseline \/ CaptureOnCompletion \/ CaptureOnPlaceholder \/ Revert
    BY <2>4 DEF EnsureBaseline, CaptureOnCompletion, CaptureOnPlaceholder, Revert,
       TakeRuntime, TakeDomain, provider
  <2>5. CASE CaptureBaseline \/ Capture \/ Record \/ Restore \/ Rollback \/ DeleteRefs \/ CompleteRevert
    BY <2>5 DEF CaptureBaseline, Capture, Record, Restore, Rollback, DeleteRefs, CompleteRevert,
       provider
  <2>6. CASE UNCHANGED vars
    BY <2>6 DEF vars, provider
  <2> QED BY <2>1, <2>2, <2>3, <2>4, <2>5, <2>6 DEF Next, ReactorStep
<1>3. begun \in Nat
  BY DEF ReactorTypes
<1>4. Begun \subseteq Begun'
  BY <1>1, <1>2, <1>3 DEF Begun
<1> QED BY <1>1, <1>2, <1>3, <1>4

\* The queues of events, when the provider publishes one and a worker takes one.
LEMMA NamesAfterAppend ==
  ASSUME NEW q \in Seq(RuntimeEvents), NEW e \in RuntimeEvents, NEW B,
         \A i \in 1..Len(q) : q[i].turn \in B, e.turn \in B
  PROVE  \A i \in 1..Len(Append(q, e)) : Append(q, e)[i].turn \in B
<1>1. \A i \in 1..Len(Append(q, e)) :
        Append(q, e)[i] = e \/ (i \in 1..Len(q) /\ Append(q, e)[i] = q[i])
  BY Appended
<1> QED BY <1>1

LEMMA NamesAfterTail ==
  ASSUME NEW q \in Seq(RuntimeEvents), q # <<>>, NEW B, \A i \in 1..Len(q) : q[i].turn \in B
  PROVE  Head(q).turn \in B /\ \A i \in 1..Len(Tail(q)) : Tail(q)[i].turn \in B
<1>1. /\ 1 \in 1..Len(q) /\ q[1] = Head(q)
      /\ \A i \in 1..Len(Tail(q)) : i + 1 \in 1..Len(q) /\ Tail(q)[i] = q[i + 1]
  BY Taken
<1> QED BY <1>1

\* What the reactor and the clients leave alone.
LEMMA ReactorLeaves ==
  ASSUME ReactorStep \/ SendTurn \/ \E n \in 0..Len(TurnOrder) : RequestRevert(n)
  PROVE  UNCHANGED <<running, begun, diffs, activeTurn, ingestion, ingesting>>
<1>1. CASE SendTurn \/ \E n \in 0..Len(TurnOrder) : RequestRevert(n)
  BY <1>1 DEF SendTurn, RequestRevert, model, provider
<1>2. CASE EnsureBaseline \/ CaptureOnCompletion \/ CaptureOnPlaceholder \/ Revert
  BY <1>2 DEF EnsureBaseline, CaptureOnCompletion, CaptureOnPlaceholder, Revert,
     TakeRuntime, TakeDomain, provider, model
<1>3. CASE CaptureBaseline \/ Capture \/ Record \/ Restore \/ Rollback \/ DeleteRefs \/ CompleteRevert
  BY <1>3 DEF CaptureBaseline, Capture, Record, Restore, Rollback, DeleteRefs, CompleteRevert,
     provider, model
<1> QED BY <1>1, <1>2, <1>3 DEF ReactorStep

\* The reactor's own events are published by the provider, and taken one by one.
LEMMA RuntimeChanges ==
  ASSUME ReactorStep
  PROVE  \/ UNCHANGED runtime
         \/ runtime # <<>> /\ runtime' = Tail(runtime) /\ (EnsureBaseline \/ CaptureOnCompletion)
<1>1. CASE EnsureBaseline \/ CaptureOnCompletion \/ CaptureOnPlaceholder \/ Revert
  BY <1>1 DEF EnsureBaseline, CaptureOnCompletion, CaptureOnPlaceholder, Revert,
     TakeRuntime, TakeDomain
<1>2. CASE CaptureBaseline \/ Capture \/ Record \/ Restore \/ Rollback \/ DeleteRefs \/ CompleteRevert
  BY <1>2 DEF CaptureBaseline, Capture, Record, Restore, Rollback, DeleteRefs, CompleteRevert
<1> QED BY <1>1, <1>2 DEF ReactorStep

LEMMA NextNames ==
  ASSUME ReactorTypes, NamesBegunTurns, [Next]_vars
  PROVE  NamesBegunTurns'
<1>1. TurnOrder' = TurnOrder /\ begun \in Nat /\ Begun \subseteq Begun'
  BY BegunGrows
<1>2. /\ ingestion \in Seq(RuntimeEvents) /\ runtime \in Seq(RuntimeEvents)
      /\ \A i \in 1..Len(ingestion) : ingestion[i].turn \in Begun'
      /\ \A i \in 1..Len(runtime) : runtime[i].turn \in Begun'
      /\ {running, activeTurn, ingesting.active, ingesting.event.turn} \subseteq Begun' \cup {None}
  BY <1>1 DEF ReactorTypes, NamesBegunTurns
<1>3. CASE UNCHANGED vars
  BY <1>3 DEF vars, provider, model, NamesBegunTurns, Begun, TurnOrder
<1>4. CASE StartTurn
  <2> DEFINE e == RuntimeEvent("turn.started", TurnOrder[begun + 1], None)
  <2>1. e.turn = TurnOrder[begun + 1] /\ e.turn \in Begun'
    BY <1>1, <1>4 DEF StartTurn, RuntimeEvent, Begun
  <2>2. e \in RuntimeEvents
    <3>1. TurnOrder[begun + 1] \in Turns
      BY <1>1, <1>4, ScenarioTypes DEF StartTurn, ReactorTypes
    <3> QED BY <3>1 DEF RuntimeEvent, RuntimeEvents
  <2>3. ingestion' = Append(ingestion, e) /\ runtime' = Append(runtime, e) /\ running' = e.turn
        /\ UNCHANGED <<activeTurn, ingesting>>
    BY <1>4, <2>1 DEF StartTurn, model
  <2> HIDE DEF e
  <2> QED BY <1>2, <2>1, <2>2, <2>3, NamesAfterAppend DEF NamesBegunTurns
<1>5. CASE UpdateDiff
  <2> DEFINE e == RuntimeEvent("turn.diff.updated", running, None)
  <2>1. e \in RuntimeEvents /\ e.turn = running /\ running # None
    BY <1>5 DEF UpdateDiff, ReactorTypes, RuntimeEvent, RuntimeEvents
  <2>2. ingestion' = Append(ingestion, e) /\ UNCHANGED <<activeTurn, ingesting, runtime, running>>
    BY <1>5 DEF UpdateDiff, model
  <2> HIDE DEF e
  <2> QED BY <1>2, <2>1, <2>2, NamesAfterAppend DEF NamesBegunTurns
<1>6. ASSUME NEW status \in Statuses, CompleteTurn(status) PROVE NamesBegunTurns'
  <2> DEFINE e == RuntimeEvent("turn.completed", running, status)
  <2>1. e \in RuntimeEvents /\ e.turn = running /\ running # None
    BY <1>6 DEF CompleteTurn, ReactorTypes, RuntimeEvent, RuntimeEvents
  <2>2. ingestion' = Append(ingestion, e) /\ runtime' = Append(runtime, e) /\ running' = None
        /\ UNCHANGED <<activeTurn, ingesting>>
    BY <1>6 DEF CompleteTurn, model
  <2> HIDE DEF e
  <2> QED BY <1>2, <2>1, <2>2, NamesAfterAppend DEF NamesBegunTurns
<1>7. CASE Ingest
  <2>1. /\ Head(ingestion).turn \in Begun'
        /\ \A i \in 1..Len(Tail(ingestion)) : Tail(ingestion)[i].turn \in Begun'
    BY <1>2, <1>7, NamesAfterTail DEF Ingest
  <2> QED BY <1>2, <1>7, <2>1 DEF Ingest, NamesBegunTurns, model, provider
<1>8. CASE IngestLifecycle \/ Heartbeat \/ IngestDiff
  <2>1. activeTurn' \in {activeTurn, ingesting.event.turn, None}
    BY <1>8 DEF IngestLifecycle, Heartbeat, IngestDiff
  <2>2. /\ UNCHANGED <<ingestion, runtime, running>>
        /\ ingesting'.active \in {ingesting.active, None}
        /\ ingesting'.event.turn \in {ingesting.event.turn, None}
    <3>1. Nothing.active = None /\ Nothing.event.turn = None
      BY DEF Nothing, NoEvent, RuntimeEvent
    <3> QED BY <1>8, <3>1
         DEF IngestLifecycle, Heartbeat, IngestDiff, Ingested, provider, ReactorTypes
  <2> QED BY <1>2, <2>1, <2>2 DEF NamesBegunTurns
<1>9. CASE SendTurn \/ \E n \in 0..Len(TurnOrder) : RequestRevert(n)
  <2>1. UNCHANGED runtime
    BY <1>9 DEF SendTurn, RequestRevert
  <2> QED BY <1>2, <1>9, <2>1, ReactorLeaves DEF NamesBegunTurns
<1>10. CASE ReactorStep
  <2>1. \A i \in 1..Len(runtime') : runtime'[i].turn \in Begun'
    BY <1>2, <1>10, RuntimeChanges, NamesAfterTail
  <2> QED BY <1>2, <1>10, <2>1, ReactorLeaves DEF NamesBegunTurns
<1> QED BY <1>3, <1>4, <1>5, <1>6, <1>7, <1>8, <1>9, <1>10 DEF Next, IngestionStep

\* The clients request reverts, and no one takes a request back.
LEMMA RevertsStay ==
  ASSUME ReactorTypes, [Next]_vars
  PROVE  requested' = requested \/ requested' = requested + 1
<1>1. CASE SendTurn \/ StartTurn \/ UpdateDiff \/ IngestionStep
  BY <1>1 DEF SendTurn, StartTurn, UpdateDiff, IngestionStep, Ingest, IngestLifecycle,
     Heartbeat, IngestDiff, Ingested
<1>2. CASE \E status \in Statuses : CompleteTurn(status)
  BY <1>2 DEF CompleteTurn
<1>3. CASE EnsureBaseline \/ CaptureOnCompletion \/ CaptureOnPlaceholder \/ Revert
  BY <1>3 DEF EnsureBaseline, CaptureOnCompletion, CaptureOnPlaceholder, Revert,
     TakeRuntime, TakeDomain
<1>4. CASE CaptureBaseline \/ Capture \/ Record \/ Restore \/ Rollback \/ DeleteRefs \/ CompleteRevert
  BY <1>4 DEF CaptureBaseline, Capture, Record, Restore, Rollback, DeleteRefs, CompleteRevert
<1>5. CASE UNCHANGED vars
  BY <1>5 DEF vars
<1>6. CASE \E n \in 0..Len(TurnOrder) : RequestRevert(n)
  BY <1>6 DEF RequestRevert
<1> QED BY <1>1, <1>2, <1>3, <1>4, <1>5, <1>6 DEF Next, ReactorStep

LEMMA NextNoReverts ==
  ASSUME ReactorTypes, NoReverts, [Next]_vars
  PROVE  NoReverts'
<1> DEFINE Kind(e) == e.type # "thread.checkpoint-revert-requested"
<1> SUFFICES ASSUME requested' = 0
             PROVE  /\ \A i \in 1..Len(domain') : Kind(domain'[i])
                    /\ job'.step \in {"idle", "baseline", "capture", "record"}
  BY DEF NoReverts
<1>1. requested \in Nat /\ domain \in Seq(DomainEvents)
  BY DEF ReactorTypes
<1>2. ASSUME NEW n \in 0..Len(TurnOrder), RequestRevert(n) PROVE FALSE
  BY <1>1, <1>2 DEF RequestRevert
<1>3. requested = 0
  BY <1>1, RevertsStay
<1>4. /\ \A i \in 1..Len(domain) : Kind(domain[i])
      /\ job.step \in {"idle", "baseline", "capture", "record"}
  BY <1>3 DEF NoReverts
<1>5. ASSUME NEW e \in DomainEvents, Kind(e), domain' = Append(domain, e)
      PROVE  \A i \in 1..Len(domain') : Kind(domain'[i])
  <2>1. \A i \in 1..Len(domain') : domain'[i] = e \/ (i \in 1..Len(domain) /\ domain'[i] = domain[i])
    BY <1>1, <1>5, Appended
  <2> QED BY <1>4, <1>5, <2>1
<1>6. ASSUME domain # <<>>, domain' = Tail(domain)
      PROVE  \A i \in 1..Len(domain') : Kind(domain'[i])
  <2>1. \A i \in 1..Len(domain') : i + 1 \in 1..Len(domain) /\ domain'[i] = domain[i + 1]
    BY <1>1, <1>6, Taken
  <2> QED BY <1>4, <2>1
<1>7. ASSUME NEW new \in Checkpoint, DispatchDiff(new)
      PROVE  \A i \in 1..Len(domain') : Kind(domain'[i])
  <2> DEFINE e == DomainEvent("thread.turn-diff-completed", new.turn, new.count, new.status)
  <2>1. e \in DomainEvents /\ Kind(e) /\ domain' = Append(domain, e)
    BY <1>7 DEF DispatchDiff, DomainEvent, DomainEvents, Checkpoint
  <2> HIDE DEF e, Kind
  <2> QED BY <1>5, <2>1
<1>8. CASE SendTurn
  <2> DEFINE e == DomainEvent("thread.turn-start-requested", None, 0, None)
  <2>1. e \in DomainEvents /\ Kind(e) /\ domain' = Append(domain, e) /\ UNCHANGED job
    BY <1>8 DEF SendTurn, DomainEvent, DomainEvents
  <2> HIDE DEF e, Kind
  <2> QED BY <1>4, <1>5, <2>1
<1>9. CASE StartTurn \/ UpdateDiff \/ Ingest \/ IngestLifecycle \/ Heartbeat \/ UNCHANGED vars
  BY <1>4, <1>9 DEF StartTurn, UpdateDiff, Ingest, IngestLifecycle, Heartbeat, Ingested, vars
<1>10. CASE \E status \in Statuses : CompleteTurn(status)
  BY <1>4, <1>10 DEF CompleteTurn
<1>11. CASE IngestDiff
  <2> DEFINE new == [turn |-> ingesting.event.turn, status |-> "missing",
                     count |-> CurrentTurnCount(ingesting.seen) + 1, captured |-> FALSE]
  <2>1. DispatchDiff(new) \/ UNCHANGED domain
    BY <1>11 DEF IngestDiff
  <2>2. UNCHANGED job
    BY <1>11 DEF IngestDiff, Ingested
  <2>3. new \in Checkpoint
    <3>1. ingesting.event.turn \in Turns
      BY <1>11 DEF IngestDiff, ReactorTypes, RuntimeEvents, NoEvent, RuntimeEvent
    <3>2. CurrentTurnCount(ingesting.seen) \in Nat
      BY HighestCount DEF ReactorTypes
    <3> QED BY <3>1, <3>2 DEF Checkpoint, Statuses
  <2> HIDE DEF new, Kind
  <2> QED BY <1>4, <1>7, <2>1, <2>2, <2>3
<1>12. CASE Record
  <2> DEFINE new == [turn |-> job.turn, count |-> job.count,
                     status |-> job.status, captured |-> TRUE]
  <2>1. (DispatchDiff(new) \/ UNCHANGED domain) /\ job'.step = "idle"
    BY <1>12 DEF Record, Idle
  <2>2. new \in Checkpoint
    BY <1>12 DEF Record, ReactorTypes, TypeOK, Jobs, Checkpoint
  <2> HIDE DEF new, Kind
  <2> QED BY <1>4, <1>7, <2>1, <2>2
<1>13. CASE EnsureBaseline \/ CaptureOnCompletion \/ CaptureOnPlaceholder
  <2>1. job'.step \in {"idle", "baseline", "capture"}
    <3>1. /\ Idle.step = "idle"
          /\ \A t, n, st : /\ Job("baseline", t, n, st).step = "baseline"
                          /\ Job("capture", t, n, st).step = "capture"
      BY DEF Idle, Job
    <3> QED BY <1>13, <3>1 DEF EnsureBaseline, CaptureOnCompletion, CaptureOnPlaceholder
  <2>2. UNCHANGED domain \/ (domain # <<>> /\ domain' = Tail(domain))
    BY <1>13 DEF EnsureBaseline, CaptureOnCompletion, CaptureOnPlaceholder, TakeRuntime, TakeDomain
  <2> QED BY <1>4, <1>6, <2>1, <2>2
<1>14. CASE CaptureBaseline \/ Capture
  BY <1>4, <1>14 DEF CaptureBaseline, Capture, Idle, ReactorTypes, TypeOK, Jobs
<1>15. CASE Revert
  BY <1>1, <1>4, <1>15, Taken DEF Revert, TakeDomain
<1>16. CASE Restore \/ Rollback \/ DeleteRefs \/ CompleteRevert
  BY <1>4, <1>16 DEF Restore, Rollback, DeleteRefs, CompleteRevert
<1> QED BY <1>2, <1>8, <1>9, <1>10, <1>11, <1>12, <1>13, <1>14, <1>15, <1>16
     DEF Next, IngestionStep, ReactorStep

\* Without a revert, a turn never loses its checkpoint again.
LEMMA CheckpointsStay ==
  ASSUME ReactorTypes, NoReverts, requested = 0, [Next]_vars, NEW t, HasCheckpoint(t)
  PROVE  HasCheckpoint(t)'
<1>1. ~ CompleteRevert
  BY DEF NoReverts, CompleteRevert
<1>2. \A new : DispatchDiff(new) => HasCheckpoint(t)'
  BY DEF DispatchDiff, HasCheckpoint, Complete
<1>3. UNCHANGED checkpoints => HasCheckpoint(t)'
  BY DEF HasCheckpoint
<1> QED BY <1>1, <1>2, <1>3, CheckpointsChange

LEMMA NextDiffs ==
  ASSUME ReactorTypes, NoReverts, TurnsAreAttended, [Next]_vars,
         Faults = {}, requested = 0
  PROVE  DiffsAreRecorded'
<1> DEFINE d(t) == RuntimeEvent("turn.diff.updated", t, None)
           Known(t) == HasCheckpoint(t) \/ In(d(t), ingestion) \/ ingesting.event = d(t)
<1>1. /\ \A c \in ingesting.seen : HasCheckpoint(c.turn)
      /\ \A t \in Turns : <<t, 1>> \in workspace => Known(t)
  BY DEF TurnsAreAttended, DiffsAreRecorded
<1>2. \A t : HasCheckpoint(t) => HasCheckpoint(t)'
  BY CheckpointsStay
<1>3. ingestion \in Seq(RuntimeEvents)
  BY DEF ReactorTypes
<1>4. ASSUME UNCHANGED <<ingesting, workspace, ingestion>> PROVE DiffsAreRecorded'
  BY <1>1, <1>2, <1>4 DEF DiffsAreRecorded, In
<1>5. CASE ReactorStep \/ SendTurn \/ (\E n \in 0..Len(TurnOrder) : RequestRevert(n))
  <2>1. UNCHANGED workspace
    <3>1. ~ Restore
      BY DEF NoReverts, Restore
    <3>2. CASE SendTurn \/ \E n \in 0..Len(TurnOrder) : RequestRevert(n)
      BY <3>2 DEF SendTurn, RequestRevert, git
    <3>3. CASE EnsureBaseline \/ CaptureOnCompletion \/ CaptureOnPlaceholder \/ Revert
      BY <3>3 DEF EnsureBaseline, CaptureOnCompletion, CaptureOnPlaceholder, Revert,
         TakeRuntime, TakeDomain, git
    <3>4. CASE CaptureBaseline \/ Capture \/ Record \/ Rollback \/ DeleteRefs \/ CompleteRevert
      BY <3>4 DEF CaptureBaseline, Capture, Record, Rollback, DeleteRefs, CompleteRevert, git
    <3> QED BY <1>5, <3>1, <3>2, <3>3, <3>4 DEF ReactorStep
  <2> QED BY <1>4, <1>5, <2>1, ReactorLeaves
<1>6. CASE UNCHANGED vars
  BY <1>4, <1>6 DEF vars, git
<1>7. ASSUME NEW e \in RuntimeEvents, ingestion' = Append(ingestion, e), UNCHANGED ingesting,
             \A t \in Turns : <<t, 1>> \in workspace' => <<t, 1>> \in workspace \/ e = d(t)
      PROVE  DiffsAreRecorded'
  <2>1. \A x : In(x, ingestion) => In(x, ingestion)'
    <3>1. \A i \in 1..Len(ingestion) : i \in 1..Len(ingestion') /\ ingestion'[i] = ingestion[i]
      BY <1>3, <1>7, Appended
    <3> QED BY <3>1 DEF In
  <2>2. In(e, ingestion)'
    <3>1. ingestion'[Len(ingestion) + 1] = e /\ Len(ingestion) + 1 \in 1..Len(ingestion')
      BY <1>3, <1>7, Appended
    <3> QED BY <3>1 DEF In
  <2>3. \A t \in Turns : <<t, 1>> \in workspace' => Known(t)'
    BY <1>1, <1>2, <1>7, <2>1, <2>2
  <2> QED BY <1>1, <1>2, <1>7, <2>3 DEF DiffsAreRecorded
<1>8. CASE StartTurn
  <2>1. TurnOrder[begun + 1] \in Turns
    BY <1>8, ScenarioTypes DEF StartTurn, ReactorTypes
  <2> DEFINE e == RuntimeEvent("turn.started", TurnOrder[begun + 1], None)
  <2>2. e \in RuntimeEvents
    BY <2>1 DEF RuntimeEvent, RuntimeEvents
  <2>3. /\ ingestion' = Append(ingestion, e) /\ UNCHANGED ingesting
        /\ \A t \in Turns : <<t, 1>> \in workspace' => <<t, 1>> \in workspace
    BY <1>8 DEF StartTurn
  <2> HIDE DEF e, d
  <2> QED BY <1>7, <2>2, <2>3
<1>9. CASE UpdateDiff
  <2> DEFINE e == RuntimeEvent("turn.diff.updated", running, None)
  <2>1. e \in RuntimeEvents
    BY <1>9 DEF UpdateDiff, ReactorTypes, RuntimeEvent, RuntimeEvents
  <2>2. /\ ingestion' = Append(ingestion, e) /\ UNCHANGED ingesting
        /\ \A t \in Turns : <<t, 1>> \in workspace' => <<t, 1>> \in workspace \/ t = running
    BY <1>9 DEF UpdateDiff
  <2>3. \A t \in Turns : <<t, 1>> \in workspace' => <<t, 1>> \in workspace \/ e = d(t)
    BY <2>2
  <2> HIDE DEF e, d
  <2> QED BY <1>7, <2>1, <2>2, <2>3
<1>10. ASSUME NEW status \in Statuses, CompleteTurn(status) PROVE DiffsAreRecorded'
  <2> DEFINE e == RuntimeEvent("turn.completed", running, status)
  <2>1. e \in RuntimeEvents
    BY <1>10 DEF CompleteTurn, ReactorTypes, RuntimeEvent, RuntimeEvents
  <2>2. ingestion' = Append(ingestion, e) /\ UNCHANGED <<ingesting, workspace>>
    BY <1>10 DEF CompleteTurn, git
  <2> HIDE DEF e, d
  <2> QED BY <1>7, <2>1, <2>2
<1>11. CASE Ingest
  <2>1. \A i \in 1..Len(ingestion) : \/ ingestion[i] = Head(ingestion)
                                     \/ i - 1 \in 1..Len(ingestion') /\ ingestion[i] = ingestion'[i - 1]
    BY <1>3, <1>11, Taken DEF Ingest
  <2>2. \A x : In(x, ingestion) => x = Head(ingestion) \/ In(x, ingestion)'
    BY <2>1 DEF In
  <2>3. ingesting'.event = Head(ingestion) /\ ingesting'.seen = checkpoints
        /\ UNCHANGED <<checkpoints, workspace>> /\ ingesting.event = NoEvent
    BY <1>11 DEF Ingest, model, git
  <2>4. \A t : d(t) # NoEvent
    BY DEF NoEvent, RuntimeEvent
  <2>5. \A t \in Turns : <<t, 1>> \in workspace' => Known(t)'
    <3> HIDE DEF d
    <3> QED BY <1>1, <1>2, <2>2, <2>3, <2>4
  <2>6. \A c \in ingesting'.seen : HasCheckpoint(c.turn)'
    BY <2>3 DEF HasCheckpoint
  <2> QED BY <2>5, <2>6 DEF DiffsAreRecorded
<1>12. CASE IngestLifecycle \/ IngestDiff
  <2>1. UNCHANGED <<ingestion, workspace>> /\ ingesting'.seen = {}
    BY <1>12 DEF IngestLifecycle, IngestDiff, Ingested, Nothing, git
  <2>2. ASSUME NEW t \in Turns, ingesting.event = d(t) PROVE HasCheckpoint(t)'
    <3>1. IngestDiff /\ ingesting.event.turn = t
      BY <1>12, <2>2 DEF IngestLifecycle, RuntimeEvent
    <3>2. CASE \E c \in ingesting.seen : c.turn = t
      BY <1>1, <1>2, <3>2
    <3>3. CASE ~ \E c \in ingesting.seen : c.turn = t
      <4> DEFINE new == [turn |-> t, status |-> "missing",
                         count |-> CurrentTurnCount(ingesting.seen) + 1, captured |-> FALSE]
      <4>1. DispatchDiff(new)
        BY <3>1, <3>3 DEF IngestDiff
      <4>2. new.turn = t
        OBVIOUS
      <4> HIDE DEF new
      <4> QED BY <4>1, <4>2 DEF DispatchDiff, Complete, HasReal, HasCheckpoint
    <3> QED BY <3>2, <3>3
  <2>3. \A t \in Turns : <<t, 1>> \in workspace' => Known(t)'
    BY <1>1, <1>2, <2>1, <2>2 DEF In
  <2> QED BY <2>1, <2>3 DEF DiffsAreRecorded
<1>13. CASE Heartbeat
  <2>1. ingesting' = [ingesting EXCEPT !.heard = TRUE] /\ UNCHANGED <<ingestion, workspace>>
    BY <1>13 DEF Heartbeat, git
  <2>2. ingesting'.event = ingesting.event /\ ingesting'.seen = ingesting.seen
    BY <2>1 DEF ReactorTypes
  <2> QED BY <1>1, <1>2, <2>1, <2>2 DEF DiffsAreRecorded, In
<1> QED BY <1>5, <1>6, <1>8, <1>9, <1>10, <1>11, <1>12, <1>13 DEF Next, IngestionStep

\* The end of the only turn is on its way to the reactor.
LEMMA CompletedAfterTail ==
  ASSUME runtime \in Seq(RuntimeEvents), runtime # <<>>, runtime' = Tail(runtime),
         \E i \in 1..Len(runtime) : runtime[i].type = "turn.completed"
  PROVE  \/ Head(runtime).type = "turn.completed"
         \/ \E i \in 1..Len(runtime') : runtime'[i].type = "turn.completed"
<1>1. \A i \in 1..Len(runtime) : \/ runtime[i] = Head(runtime)
                                 \/ i - 1 \in 1..Len(runtime') /\ runtime[i] = runtime'[i - 1]
  BY Taken
<1> QED BY <1>1

LEMMA NextOnlyTurn ==
  ASSUME ReactorTypes, NamesBegunTurns, NoReverts, TurnsAreAttended, [Next]_vars,
         Faults = {}, requested = 0
  PROVE  OnlyTurnIsAttended'
<1> DEFINE t == TurnOrder[1]
           Ended == \E i \in 1..Len(runtime) : runtime[i].type = "turn.completed"
           Attended == running # None \/ HasCheckpoint(t) \/ Capturing(t) \/ Ended
<1> SUFFICES ASSUME begun' = 1 PROVE Attended'
  BY DEF OnlyTurnIsAttended
<1>1. UNCHANGED TurnOrder /\ begun \in Nat /\ begun <= 1
  BY BegunGrows
<1>2. UNCHANGED begun => Attended
  BY DEF TurnsAreAttended, OnlyTurnIsAttended
<1>3. HasCheckpoint(t) => HasCheckpoint(t)'
  BY <1>1, CheckpointsStay DEF HasCheckpoint
<1>4. runtime \in Seq(RuntimeEvents)
  BY DEF ReactorTypes
<1>5. ASSUME UNCHANGED <<begun, running, job, runtime>> PROVE Attended'
  BY <1>1, <1>2, <1>3, <1>5 DEF Capturing
<1>6. CASE UNCHANGED vars
  BY <1>5, <1>6 DEF vars, provider
<1>7. CASE SendTurn \/ UpdateDiff \/ IngestionStep \/ \E n \in 0..Len(TurnOrder) : RequestRevert(n)
  BY <1>5, <1>7 DEF SendTurn, UpdateDiff, IngestionStep, Ingest, IngestLifecycle,
     Heartbeat, IngestDiff, Ingested, RequestRevert, provider
<1>8. CASE StartTurn
  BY <1>1, <1>8, ScenarioTypes DEF StartTurn, ReactorTypes
<1>9. ASSUME NEW status \in Statuses, CompleteTurn(status) PROVE Attended'
  <2> DEFINE e == RuntimeEvent("turn.completed", running, status)
  <2>1. e \in RuntimeEvents /\ e.type = "turn.completed" /\ runtime' = Append(runtime, e)
    BY <1>9 DEF CompleteTurn, ReactorTypes, RuntimeEvent, RuntimeEvents
  <2> HIDE DEF e
  <2>2. runtime'[Len(runtime) + 1] = e /\ Len(runtime) + 1 \in 1..Len(runtime')
    BY <1>4, <2>1, Appended
  <2> QED BY <2>1, <2>2
<1>10. CASE CaptureOnCompletion
  <2> DEFINE e == Head(runtime)
  <2>1. e.turn = t
    <3>1. e.turn \in Begun
      BY <1>4, <1>10, NamesAfterTail DEF NamesBegunTurns, CaptureOnCompletion, TakeRuntime
    <3>2. UNCHANGED begun
      BY <1>10, ReactorLeaves DEF ReactorStep
    <3> QED BY <3>1, <3>2 DEF Begun
  <2>2. activeTurn \in {None, t}
    <3>1. UNCHANGED begun
      BY <1>10, ReactorLeaves DEF ReactorStep
    <3> QED BY <3>1 DEF NamesBegunTurns, Begun
  <2>3. CASE HasReal(checkpoints, t)
    BY <1>3, <2>3 DEF HasReal, HasCheckpoint
  <2>4. CASE ~ HasReal(checkpoints, t)
    <3>1. \E n : job' = Job("capture", t, n, e.state)
      BY <1>10, <2>1, <2>2, <2>4 DEF CaptureOnCompletion
    <3>2. \A n, s : Job("capture", t, n, s).step = "capture" /\ Job("capture", t, n, s).turn = t
      BY DEF Job, Idle
    <3> QED BY <1>1, <3>1, <3>2 DEF Capturing
  <2> QED BY <2>3, <2>4
<1>11. ASSUME ReactorStep, Capturing(t) => HasCheckpoint(t)' \/ Capturing(t)',
              UNCHANGED runtime \/ Ended'
       PROVE  Attended'
  BY <1>1, <1>2, <1>3, <1>11, ReactorLeaves
<1>12. CASE EnsureBaseline
  <2>1. ~ Capturing(t) /\ (Ended => Ended')
    <3>1. job.step = "idle"
      BY <1>12 DEF EnsureBaseline, TakeRuntime, TakeDomain
    <3>2. CASE TakeRuntime("turn.started")
      BY <1>4, <3>1, <3>2, CompletedAfterTail DEF TakeRuntime, Capturing
    <3>3. CASE TakeDomain("thread.turn-start-requested")
      BY <3>1, <3>3 DEF TakeDomain, Capturing
    <3> QED BY <1>12, <3>2, <3>3 DEF EnsureBaseline
  <2> QED BY <1>2, <1>3, <1>12, <2>1, ReactorLeaves DEF ReactorStep
<1>13. CASE CaptureOnPlaceholder \/ Revert \/ CaptureBaseline \/ Restore \/ Rollback
              \/ DeleteRefs \/ CompleteRevert
  <2>1. ~ Capturing(t) /\ UNCHANGED runtime
    BY <1>13 DEF CaptureOnPlaceholder, Revert, CaptureBaseline, Restore, Rollback, DeleteRefs,
       CompleteRevert, TakeDomain, Capturing
  <2> QED BY <1>11, <1>13, <2>1 DEF ReactorStep
<1>14. CASE Capture
  <2>1. Capturing(t) => Capturing(t)'
    BY <1>1, <1>14 DEF Capture, Capturing, ReactorTypes, TypeOK, Jobs
  <2> QED BY <1>11, <1>14, <2>1 DEF Capture, ReactorStep
<1>15. CASE Record
  <2> DEFINE new == [turn |-> job.turn, count |-> job.count,
                     status |-> job.status, captured |-> TRUE]
  <2>1. DispatchDiff(new) /\ new.turn = job.turn
    BY <1>15 DEF Record
  <2> HIDE DEF new
  <2>2. Capturing(t) => HasCheckpoint(t)'
    BY <1>1, <2>1 DEF DispatchDiff, Complete, HasReal, HasCheckpoint, Capturing
  <2> QED BY <1>11, <1>15, <2>2 DEF Record, ReactorStep
<1> QED BY <1>6, <1>7, <1>8, <1>9, <1>10, <1>12, <1>13, <1>14, <1>15 DEF Next, ReactorStep

LEMMA InitTurns == Init => NamesBegunTurns /\ NoReverts /\ TurnsAreAttended
BY DEF Init, NamesBegunTurns, NoReverts, TurnsAreAttended, DiffsAreRecorded, OnlyTurnIsAttended,
   Nothing, NoEvent, RuntimeEvent, Idle, Begun

LEMMA NextTurns ==
  ASSUME ReactorTypes, NamesBegunTurns, NoReverts, TurnsAreAttended, [Next]_vars
  PROVE  TurnsAreAttended'
<1>1. Faults' = Faults
  BY DEF Next, vars, Faults
<1>2. requested' = 0 => requested = 0
  <2>1. requested \in Nat
    BY DEF ReactorTypes
  <2>2. requested' = requested \/ requested' = requested + 1
    BY RevertsStay
  <2> QED BY <2>1, <2>2
<1> QED BY <1>1, <1>2, NextDiffs, NextOnlyTurn DEF TurnsAreAttended

LEMMA QuietTurns ==
  ASSUME ReactorTypes, PlaceholdersAreAttended, TurnsAreAttended
  PROVE  TurnsAreCaptured
<1> SUFFICES ASSUME Quiet, running = None, Faults = {}, requested = 0, NEW i \in 1..begun,
                    begun > 1 => <<TurnOrder[i], 1>> \in workspace
             PROVE  \E c \in checkpoints : c.turn = TurnOrder[i] /\ c.captured
  BY DEF TurnsAreCaptured
<1>1. TurnOrder[i] \in Turns /\ begun \in Nat
  BY ScenarioTypes DEF ReactorTypes
<1>2. PlaceholdersAreReplaced
  BY DEF PlaceholdersAreAttended, PlaceholdersAreReplaced, Quiet, Announced, Capturing, Idle
<1>3. HasCheckpoint(TurnOrder[i])
  <2>1. CASE begun > 1
    <3> DEFINE e == RuntimeEvent("turn.diff.updated", TurnOrder[i], None)
    <3>1. e # ingesting.event
      BY DEF Quiet, NoEvent, RuntimeEvent
    <3>2. ~ In(e, ingestion)
      BY DEF Quiet, In
    <3> HIDE DEF e
    <3>3. HasCheckpoint(TurnOrder[i]) \/ In(e, ingestion) \/ ingesting.event = e
      BY <1>1, <2>1 DEF TurnsAreAttended, DiffsAreRecorded, e
    <3> QED BY <3>1, <3>2, <3>3
  <2>2. CASE begun = 1
    BY <2>2 DEF TurnsAreAttended, OnlyTurnIsAttended, Quiet, Capturing, Idle
  <2> QED BY <1>1, <2>1, <2>2
<1> QED BY <1>2, <1>3 DEF PlaceholdersAreReplaced, HasCheckpoint

(***************************************************************************)
(* When all is quiet, nothing failed and nothing was reverted, every turn  *)
(* that is over is captured, but for one without a diff next to another    *)
(* turn: for any number of turns and diffs, whichever worker is ahead.     *)
(***************************************************************************)
THEOREM TurnsEndCaptured == Spec => []TurnsAreCaptured
<1> DEFINE Inv == /\ ReactorTypes /\ OneEach /\ PlaceholdersAreAttended
                  /\ NamesBegunTurns /\ NoReverts /\ TurnsAreAttended
<1>1. Init => Inv
  BY InitTypes, InitTurns DEF Init, OneEach, PlaceholdersAreAttended
<1>2. Inv /\ [Next]_vars => Inv'
  BY NextTypes, NextOneEach, NextPlaceholders, NextNames, NextNoReverts, NextTurns
<1>3. Inv => TurnsAreCaptured
  BY QuietTurns
<1> QED BY <1>1, <1>2, <1>3, PTL DEF Spec
================================================================================
