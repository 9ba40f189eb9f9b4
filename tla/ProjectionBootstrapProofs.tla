----------------------- MODULE ProjectionBootstrapProofs -----------------------
(***************************************************************************)
(* Proofs about the projectors over crashes, restarts and upgrades, for    *)
(* every limit of a stream, every log, every number of turns, messages and *)
(* crashes and every set of upgrades.  A running server has applied every  *)
(* event, and a snapshot claims no more than its turns hold; the read      *)
(* model and the tables, which find out in different ways what a revert    *)
(* leaves, keep the same messages and plans; and tables that an upgrade    *)
(* rebuilds are those that were there before.                              *)
(***************************************************************************)
EXTENDS ProjectionBootstrap, FiniteSetTheorems, WellFoundedInduction, SequenceTheorems, TLAPS

\* A set of naturals that is not empty has a least element: of the intervals up
\* to its members one contains no smaller one.
LEMMA LeastNatural ==
  ASSUME NEW S \in SUBSET Nat, S # {}
  PROVE  \E m \in S : \A n \in S : m <= n
<1> DEFINE R == StrictSubsetOrdering(Nat)
           F == FiniteSubsetsOf(Nat)
           T == {0..x : x \in S}
<1>1. IsWellFoundedOn(R, F)
  BY FS_StrictSubsetOrderingWellFounded
<1>2. T \subseteq F /\ T # {}
  <2>1. \A x \in Nat : 0..x \in F
    BY FS_Interval DEF FiniteSubsetsOf
  <2> QED BY <2>1
<1>3. \E u \in T : \A v \in T : ~ (<<v, u>> \in R)
  <2> HIDE DEF R, F, T
  <2> QED BY <1>1, <1>2, WFMin
<1>4. PICK m \in S : \A n \in S : ~ (<<0..n, 0..m>> \in R)
  BY <1>3
<1>5. ASSUME NEW n \in S, n < m PROVE FALSE
  <2>1. 0..n \subseteq 0..m /\ 0..n # 0..m
    <3>1. m \in 0..m /\ m \notin 0..n
      BY <1>5
    <3>2. 0..n \subseteq 0..m
      BY <1>5
    <3> QED BY <3>1, <3>2
  <2>2. 0..n \in SUBSET Nat /\ 0..m \in SUBSET Nat
    BY <1>5
  <2>3. <<0..n, 0..m>> \in R
    BY <2>1, <2>2 DEF StrictSubsetOrdering
  <2> QED BY <1>4, <2>3
<1> QED BY <1>5

LEMMA SetMinIsLeast ==
  ASSUME NEW S \in SUBSET Nat, S # {}
  PROVE  SetMin(S) \in S /\ \A n \in S : SetMin(S) <= n
BY LeastNatural DEF SetMin

LEMMA SetMinOfTwo ==
  ASSUME NEW a \in Nat, NEW b \in Nat
  PROVE  SetMin({a, b}) = IF a <= b THEN a ELSE b
<1>1. SetMin({a, b}) \in {a, b} /\ SetMin({a, b}) <= a /\ SetMin({a, b}) <= b
  BY SetMinIsLeast
<1> QED BY <1>1

\* The projectors in their order, each once.
LEMMA OrderOfProjectors ==
  /\ Len(Order) = 9
  /\ \A i \in 1..9 : Order[i] \in Projectors
  /\ \A p \in Projectors : \E i \in 1..9 : Order[i] = p
  /\ \A i, j \in 1..9 : Order[i] = Order[j] => i = j
  /\ Order[6] = "threadTurns" /\ Order[7] = "checkpoints"
<1>1. /\ Len(Order) = 9
      /\ Order[1] = "projects" /\ Order[2] = "threadMessages" /\ Order[3] = "threadProposedPlans"
      /\ Order[4] = "threadActivities" /\ Order[5] = "threadSessions" /\ Order[6] = "threadTurns"
      /\ Order[7] = "checkpoints" /\ Order[8] = "pendingApprovals" /\ Order[9] = "threads"
  BY DEF Order
<1>2. \A i \in 1..9 : i \in {1, 2, 3, 4, 5, 6, 7, 8, 9}
  OBVIOUS
<1>3. \A i \in {1, 2, 3, 4, 5, 6, 7, 8, 9} : Order[i] \in Projectors
  BY <1>1 DEF Projectors
<1>4. \A p \in Projectors : \E i \in {1, 2, 3, 4, 5, 6, 7, 8, 9} : Order[i] = p
  BY <1>1 DEF Projectors
<1>5. \A i, j \in {1, 2, 3, 4, 5, 6, 7, 8, 9} : Order[i] = Order[j] => i = j
  BY <1>1
<1>6. \A p \in Projectors : \E i \in 1..9 : Order[i] = p
  BY <1>4
<1> QED BY <1>1, <1>2, <1>3, <1>5, <1>6

\* The projector that catches up, and the two this is about.
LEMMA CatchingType ==
  ASSUME BootstrapInv, phase = "bootstrap", catching <= Len(Order)
  PROVE  /\ catching \in 1..9 /\ Order[catching] \in Projectors
         /\ applied[Order[catching]] \in Nat /\ Len(log) \in Nat
         /\ applied[Order[catching]] <= Len(log)
         /\ applied["checkpoints"] \in Nat /\ applied["threadTurns"] \in Nat
<1>1. catching \in 1..9
  BY OrderOfProjectors DEF BootstrapInv, SequencesAreTyped
<1>2. Order[catching] \in Projectors
  BY <1>1, OrderOfProjectors
<1>3. Len(log) \in Nat
  BY LenProperties DEF BootstrapInv, LogIsASequence
<1> QED BY <1>1, <1>2, <1>3 DEF BootstrapInv, SequencesAreTyped, Projectors

-----------------------------------------------------------------------------
(* The running server. *)

LEMMA CommitStep ==
  ASSUME BootstrapInv, NEW S, NEW events \in Seq(S), Commit(events)
  PROVE  BootstrapInv'
<1>1. /\ phase = "running" /\ log' = log \o events
      /\ applied' = [p \in Projectors |-> Len(log) + Len(events)]
      /\ skipped' = [p \in Projectors |-> skipped[p] \cup ((applied[p] + 1)..Len(log))]
      /\ UNCHANGED <<phase, catching, until, crashes, upgrade>>
  BY DEF Commit
<1>2. LogIsASequence'
  <2> DEFINE A == {log[i] : i \in DOMAIN log} \cup S
  <2>1. log \in Seq(A) /\ events \in Seq(A)
    <3>1. {log[i] : i \in DOMAIN log} \subseteq A /\ S \subseteq A
      OBVIOUS
    <3>2. log \in Seq({log[i] : i \in DOMAIN log})
      BY DEF BootstrapInv, LogIsASequence
    <3> HIDE DEF A
    <3> QED BY <3>1, <3>2, SeqMonotonic
  <2> HIDE DEF A
  <2>2. log' \in Seq(A)
    BY <1>1, <2>1
  <2>3. log' \in Seq(Range(log'))
    BY <2>2, SeqOfRange
  <2> QED BY <2>3 DEF LogIsASequence, Range
<1>3. Len(log) \in Nat /\ Len(events) \in Nat /\ Len(log') = Len(log) + Len(events)
  <2>1. log \in Seq({log[i] : i \in DOMAIN log})
    BY DEF BootstrapInv, LogIsASequence
  <2> DEFINE A == {log[i] : i \in DOMAIN log} \cup S
  <2>2. log \in Seq(A) /\ events \in Seq(A)
    <3>1. {log[i] : i \in DOMAIN log} \subseteq A /\ S \subseteq A
      OBVIOUS
    <3> HIDE DEF A
    <3> QED BY <2>1, <3>1, SeqMonotonic
  <2> HIDE DEF A
  <2> QED BY <1>1, <2>2
<1>4. \A p \in Projectors : applied'[p] = Len(log')
  BY <1>1, <1>3
<1>5. SequencesAreTyped'
  <2>1. applied' \in [Projectors -> Nat]
    BY <1>1, <1>3
  <2> QED BY <1>1, <1>3, <1>4, <2>1 DEF BootstrapInv, SequencesAreTyped
<1>6. OnlyNewAreBehind'
  BY <1>4 DEF OnlyNewAreBehind
<1>7. StreamReachesTheEnd' /\ EarlierHaveCaughtUp'
  BY <1>1 DEF BootstrapInv, StreamReachesTheEnd, EarlierHaveCaughtUp
<1>8. CheckpointsFollowTurns'
  <2>1. applied'["checkpoints"] <= applied'["threadTurns"]
    BY <1>1, <1>3 DEF Projectors
  <2>2. until = None
    BY <1>1 DEF BootstrapInv, StreamReachesTheEnd
  <2> QED BY <1>1, <2>1, <2>2 DEF CheckpointsFollowTurns
<1>9. \A p \in Projectors : skipped'[p] = {} \/ OverLimit(p)'
  <2> SUFFICES ASSUME NEW p \in Projectors, ~ OverLimit(p) PROVE skipped'[p] = {}
    BY <1>1 DEF OverLimit
  <2>1. applied[p] = Len(log)
    <3>1. applied[p] = Len(log) \/ Behind(p)
      BY DEF BootstrapInv, OnlyNewAreBehind
    <3>2. ~ Behind(p)
      <4>1. upgrade # None => upgrade.at \in Nat
        BY DEF BootstrapInv, SequencesAreTyped
      <4> QED BY <1>1, <4>1, BootstrapAssumption DEF Behind, OverLimit
    <3> QED BY <3>1, <3>2
  <2>2. skipped[p] = {}
    BY DEF BootstrapInv
  <2>3. (applied[p] + 1)..Len(log) = {}
    BY <1>3, <2>1
  <2> QED BY <1>1, <2>2, <2>3
<1> QED BY <1>2, <1>5, <1>6, <1>7, <1>8, <1>9 DEF BootstrapInv

LEMMA CommandStep ==
  ASSUME BootstrapInv,
         \/ SendMessage
         \/ \E turn \in Turns :
              \/ RunTurn(turn) \/ Answer(turn) \/ ProposePlan(turn)
              \/ \E status \in {"ready", "missing"} : CompleteDiff(turn, status)
         \/ \E n \in 0..MaxEvents : CompleteRevert(n)
  PROVE  BootstrapInv'
<1>1. ASSUME NEW e, NEW f, Commit(<<e, f>>) PROVE BootstrapInv'
  <2>1. <<e, f>> \in Seq({e, f})
    OBVIOUS
  <2> QED BY <1>1, <2>1, CommitStep
<1>2. ASSUME NEW e, Commit(<<e>>) PROVE BootstrapInv'
  <2>1. <<e>> \in Seq({e})
    OBVIOUS
  <2> QED BY <1>2, <2>1, CommitStep
<1>3. CASE SendMessage
  BY <1>1, <1>3 DEF SendMessage
<1>4. ASSUME NEW turn \in Turns, RunTurn(turn) PROVE BootstrapInv'
  BY <1>2, <1>4 DEF RunTurn
<1>5. ASSUME NEW turn \in Turns, Answer(turn) PROVE BootstrapInv'
  BY <1>2, <1>5 DEF Answer
<1>6. ASSUME NEW turn \in Turns, ProposePlan(turn) PROVE BootstrapInv'
  BY <1>2, <1>6 DEF ProposePlan
<1>7. ASSUME NEW turn \in Turns, NEW status \in {"ready", "missing"}, CompleteDiff(turn, status)
      PROVE  BootstrapInv'
  BY <1>2, <1>7 DEF CompleteDiff
<1>8. ASSUME NEW n \in 0..MaxEvents, CompleteRevert(n) PROVE BootstrapInv'
  BY <1>2, <1>8 DEF CompleteRevert
<1> QED BY <1>3, <1>4, <1>5, <1>6, <1>7, <1>8

-----------------------------------------------------------------------------
(* The process. *)

LEMMA CrashStep ==
  ASSUME BootstrapInv, Crash
  PROVE  BootstrapInv'
<1> USE DEF Crash, store, ghosts, BootstrapInv
<1>1. LogIsASequence'
  BY DEF LogIsASequence
<1>2. SequencesAreTyped'
  BY OrderOfProjectors DEF SequencesAreTyped
<1>3. OnlyNewAreBehind'
  BY DEF OnlyNewAreBehind, Behind
<1>4. StreamReachesTheEnd' /\ EarlierHaveCaughtUp'
  BY DEF StreamReachesTheEnd, EarlierHaveCaughtUp
<1>5. CheckpointsFollowTurns'
  BY DEF CheckpointsFollowTurns
<1>6. \A p \in Projectors : skipped'[p] = {} \/ OverLimit(p)'
  BY DEF OverLimit
<1> QED BY <1>1, <1>2, <1>3, <1>4, <1>5, <1>6

LEMMA UpgradeStep ==
  ASSUME BootstrapInv, Upgrade
  PROVE  BootstrapInv'
<1>1. PICK new \in Upgrades :
        /\ upgrade' = [projectors |-> new, at |-> Len(log)]
        /\ applied' = [p \in Projectors |-> IF p \in new THEN 0 ELSE applied[p]]
  BY DEF Upgrade
<1>2. /\ phase = "down" /\ phase' = "down" /\ upgrade = None
      /\ UNCHANGED <<log, catching, until, crashes, skipped>>
  BY DEF Upgrade, memory
<1>3. /\ Len(log) \in Nat /\ applied \in [Projectors -> Nat]
      /\ catching = 1 /\ until = None
      /\ \A p \in Projectors : applied[p] = Len(log)
  BY <1>2, LenProperties
  DEF BootstrapInv, LogIsASequence, SequencesAreTyped, OnlyNewAreBehind, Behind
<1>4. upgrade' # None
  BY <1>1, <1>3, BootstrapAssumption
<1>5. LogIsASequence'
  BY <1>2 DEF BootstrapInv, LogIsASequence
<1>6. SequencesAreTyped'
  <2>1. applied' \in [Projectors -> Nat] /\ \A p \in Projectors : applied'[p] <= Len(log)
    BY <1>1, <1>3
  <2>2. upgrade' \in [projectors : Upgrades, at : Nat]
    BY <1>1, <1>3
  <2> QED BY <1>2, <2>1, <2>2 DEF BootstrapInv, SequencesAreTyped
<1>7. OnlyNewAreBehind'
  BY <1>1, <1>2, <1>3, <1>4 DEF OnlyNewAreBehind, Behind
<1>8. StreamReachesTheEnd' /\ EarlierHaveCaughtUp'
  BY <1>2, <1>3 DEF StreamReachesTheEnd, EarlierHaveCaughtUp
<1>9. CheckpointsFollowTurns'
  <2>1. applied'["checkpoints"] <= applied'["threadTurns"]
    BY <1>1, <1>3, BootstrapAssumption DEF Projectors
  <2> QED BY <1>2, <1>3, <2>1 DEF CheckpointsFollowTurns
<1>10. \A p \in Projectors : skipped'[p] = {} \/ OverLimit(p)'
  BY <1>2 DEF BootstrapInv, OverLimit
<1> QED BY <1>5, <1>6, <1>7, <1>8, <1>9, <1>10 DEF BootstrapInv

LEMMA StartStep ==
  ASSUME BootstrapInv, Start
  PROVE  BootstrapInv'
<1> USE DEF Start, store, ghosts, BootstrapInv
<1>1. catching = 1 /\ until = None
  BY DEF SequencesAreTyped
<1>2. LogIsASequence' /\ SequencesAreTyped'
  BY DEF LogIsASequence, SequencesAreTyped
<1>3. OnlyNewAreBehind'
  BY DEF OnlyNewAreBehind, Behind
<1>4. StreamReachesTheEnd' /\ EarlierHaveCaughtUp'
  BY <1>1 DEF StreamReachesTheEnd, EarlierHaveCaughtUp
<1>5. CheckpointsFollowTurns'
  BY <1>1 DEF CheckpointsFollowTurns
<1>6. \A p \in Projectors : skipped'[p] = {} \/ OverLimit(p)'
  BY DEF OverLimit
<1> QED BY <1>2, <1>3, <1>4, <1>5, <1>6

LEMMA ReadStateStep ==
  ASSUME BootstrapInv, ReadState
  PROVE  BootstrapInv'
<1> DEFINE p == Order[catching]
<1>1. /\ phase = "bootstrap" /\ catching <= Len(Order) /\ until = None
      /\ until' = SetMin({Len(log), applied[p] + Limit})
      /\ UNCHANGED <<store, phase, catching, ghosts>>
  BY DEF ReadState
<1>2. /\ catching \in 1..9 /\ p \in Projectors
      /\ applied[p] \in Nat /\ Len(log) \in Nat /\ applied[p] <= Len(log)
      /\ applied["checkpoints"] \in Nat /\ applied["threadTurns"] \in Nat
      /\ Limit \in Nat
  BY <1>1, CatchingType, BootstrapAssumption
<1> HIDE DEF p
<1>3. until' = IF Len(log) <= applied[p] + Limit THEN Len(log) ELSE applied[p] + Limit
  <2>1. applied[p] + Limit \in Nat
    BY <1>2
  <2> QED BY <1>1, <1>2, <2>1, SetMinOfTwo
<1>4. until' \in applied[p]..Len(log)
  BY <1>2, <1>3
<1>5. until' = Len(log) \/ OverLimit(p)
  <2>1. applied[p] = Len(log) \/ Behind(p)
    BY <1>2 DEF BootstrapInv, OnlyNewAreBehind
  <2>2. CASE applied[p] = Len(log)
    BY <1>2, <1>3, <2>2
  <2>3. CASE Behind(p)
    <3>1. upgrade.at \in Nat
      BY <2>3 DEF BootstrapInv, SequencesAreTyped, Behind
    <3> QED BY <1>2, <1>3, <2>3, <3>1 DEF Behind, OverLimit
  <2> QED BY <2>1, <2>2, <2>3
<1>6. StreamReachesTheEnd'
  BY <1>1, <1>4, <1>5 DEF StreamReachesTheEnd, OverLimit, store, ghosts, p
<1>7. LogIsASequence' /\ SequencesAreTyped'
  BY <1>1 DEF BootstrapInv, LogIsASequence, SequencesAreTyped, store, ghosts
<1>8. OnlyNewAreBehind' /\ EarlierHaveCaughtUp'
  BY <1>1 DEF BootstrapInv, OnlyNewAreBehind, Behind, EarlierHaveCaughtUp, OverLimit, store, ghosts
<1>9. CheckpointsFollowTurns'
  <2>1. applied["checkpoints"] <= applied["threadTurns"]
    BY DEF BootstrapInv, CheckpointsFollowTurns
  <2>2. CASE catching = 6
    <3>1. p = "threadTurns"
      BY <2>2, OrderOfProjectors DEF p
    <3>2. Covers(until')
      BY <1>2, <1>3, <2>1, <3>1 DEF Covers
    <3> QED BY <1>1, <2>1, <2>2, <3>2 DEF CheckpointsFollowTurns, Covers, store
  <2>3. CASE catching = 7
    <3>1. p = "checkpoints"
      BY <2>3, OrderOfProjectors DEF p
    <3>2. Covers(applied["threadTurns"])
      BY <1>1, <2>3 DEF BootstrapInv, CheckpointsFollowTurns
    <3>3. until' <= applied["threadTurns"]
      BY <1>2, <1>3, <3>1, <3>2 DEF Covers
    <3> QED BY <1>1, <2>1, <2>3, <3>2, <3>3 DEF CheckpointsFollowTurns, Covers, store
  <2>4. CASE catching \notin {6, 7}
    BY <1>1, <2>1, <2>4 DEF CheckpointsFollowTurns, store
  <2> QED BY <2>2, <2>3, <2>4
<1>10. \A q \in Projectors : skipped'[q] = {} \/ OverLimit(q)'
  BY <1>1 DEF BootstrapInv, OverLimit, ghosts
<1> QED BY <1>6, <1>7, <1>8, <1>9, <1>10 DEF BootstrapInv

LEMMA RunProjectorStep ==
  ASSUME BootstrapInv, RunProjector
  PROVE  BootstrapInv'
<1> DEFINE p == Order[catching]
<1>1. /\ phase = "bootstrap" /\ catching <= Len(Order) /\ until # None
      /\ applied[p] < until /\ applied' = [applied EXCEPT ![p] = applied[p] + 1]
      /\ UNCHANGED <<log, memory, ghosts>>
  BY DEF RunProjector
<1>2. /\ catching \in 1..9 /\ p \in Projectors
      /\ applied[p] \in Nat /\ Len(log) \in Nat
      /\ applied["checkpoints"] \in Nat /\ applied["threadTurns"] \in Nat
      /\ applied \in [Projectors -> Nat]
  BY <1>1, CatchingType DEF BootstrapInv, SequencesAreTyped
<1>3. until \in applied[p]..Len(log) /\ (until = Len(log) \/ OverLimit(p))
  BY <1>1 DEF BootstrapInv, StreamReachesTheEnd
<1> HIDE DEF p
<1>4. /\ applied' \in [Projectors -> Nat] /\ applied'[p] = applied[p] + 1
      /\ applied'[p] <= until /\ until <= Len(log) /\ until \in Nat
      /\ \A q \in Projectors : q # p => applied'[q] = applied[q]
  BY <1>1, <1>2, <1>3
<1>5. LogIsASequence'
  BY <1>1 DEF BootstrapInv, LogIsASequence
<1>6. SequencesAreTyped'
  <2>1. \A q \in Projectors : applied'[q] <= Len(log)
    BY <1>2, <1>4 DEF BootstrapInv, SequencesAreTyped
  <2> QED BY <1>1, <1>4, <2>1 DEF BootstrapInv, SequencesAreTyped, memory, ghosts
<1>7. OnlyNewAreBehind'
  <2> SUFFICES ASSUME NEW q \in Projectors PROVE applied'[q] = Len(log) \/ Behind(q)
    BY <1>1 DEF OnlyNewAreBehind, Behind, memory, ghosts
  <2>1. applied[q] = Len(log) \/ Behind(q)
    BY DEF BootstrapInv, OnlyNewAreBehind
  <2>2. q = p => applied[q] # Len(log)
    BY <1>1, <1>2, <1>4
  <2> QED BY <1>4, <2>1, <2>2
<1>8. StreamReachesTheEnd'
  <2>1. until \in applied'[p]..Len(log)
    BY <1>2, <1>4
  <2> QED BY <1>1, <1>3, <2>1 DEF StreamReachesTheEnd, OverLimit, memory, ghosts, p
<1>9. EarlierHaveCaughtUp'
  <2> SUFFICES ASSUME NEW i \in 1..(catching - 1)
               PROVE  applied'[Order[i]] = Len(log) \/ OverLimit(Order[i])
    BY <1>1 DEF EarlierHaveCaughtUp, OverLimit, memory, ghosts
  <2>1. i \in 1..9 /\ i # catching
    BY <1>2
  <2>2. Order[i] \in Projectors /\ Order[i] # p
    BY <1>2, <2>1, OrderOfProjectors DEF p
  <2> QED BY <1>1, <1>4, <2>2 DEF BootstrapInv, EarlierHaveCaughtUp
<1>10. CheckpointsFollowTurns'
  <2>1. /\ applied["checkpoints"] <= applied["threadTurns"]
        /\ "checkpoints" \in Projectors /\ "threadTurns" \in Projectors
    BY DEF BootstrapInv, CheckpointsFollowTurns, Projectors
  <2>2. CASE catching = 6
    <3>1. p = "threadTurns"
      BY <2>2, OrderOfProjectors DEF p
    <3>2. applied'["checkpoints"] = applied["checkpoints"] /\ Covers(until)
      BY <1>1, <1>4, <2>1, <2>2, <3>1 DEF BootstrapInv, CheckpointsFollowTurns
    <3>3. applied'["checkpoints"] <= applied'["threadTurns"]
      BY <1>2, <1>4, <2>1, <3>1, <3>2
    <3> QED BY <1>1, <2>2, <3>2, <3>3 DEF CheckpointsFollowTurns, Covers, memory
  <2>3. CASE catching = 7
    <3>1. p = "checkpoints"
      BY <2>3, OrderOfProjectors DEF p
    <3>2. until <= applied["threadTurns"] /\ applied'["threadTurns"] = applied["threadTurns"]
      BY <1>1, <1>4, <2>1, <2>3, <3>1 DEF BootstrapInv, CheckpointsFollowTurns
    <3>3. applied'["checkpoints"] <= applied'["threadTurns"]
      BY <1>2, <1>4, <3>1, <3>2
    <3> QED BY <1>1, <2>3, <3>2, <3>3 DEF CheckpointsFollowTurns, memory
  <2>4. CASE catching \notin {6, 7}
    <3>1. p # "checkpoints" /\ p # "threadTurns"
      <4>1. /\ 6 \in 1..9 /\ 7 \in 1..9 /\ catching \in 1..9
            /\ catching # 6 /\ catching # 7
        BY <1>2, <2>4
      <4>2. \A i, j \in 1..9 : Order[i] = Order[j] => i = j
        BY OrderOfProjectors
      <4>3. Order[catching] # Order[6] /\ Order[catching] # Order[7]
        BY <4>1, <4>2
      <4>4. Order[6] = "threadTurns" /\ Order[7] = "checkpoints"
        BY OrderOfProjectors
      <4> QED BY <4>3, <4>4 DEF p
    <3> QED BY <1>1, <1>4, <2>1, <2>4, <3>1 DEF CheckpointsFollowTurns, memory
  <2> QED BY <2>2, <2>3, <2>4
<1>11. \A q \in Projectors : skipped'[q] = {} \/ OverLimit(q)'
  BY <1>1 DEF BootstrapInv, OverLimit, ghosts
<1> QED BY <1>5, <1>6, <1>7, <1>8, <1>9, <1>10, <1>11 DEF BootstrapInv

LEMMA NextProjectorStep ==
  ASSUME BootstrapInv, NextProjector
  PROVE  BootstrapInv'
<1> DEFINE p == Order[catching]
<1>1. /\ phase = "bootstrap" /\ catching <= Len(Order) /\ until # None
      /\ applied[p] = until /\ catching' = catching + 1 /\ until' = None
      /\ UNCHANGED <<store, phase, ghosts>>
  BY DEF NextProjector
<1>2. catching \in 1..9 /\ p \in Projectors /\ Len(Order) = 9
  BY <1>1, CatchingType, OrderOfProjectors
<1>3. applied[p] = Len(log) \/ OverLimit(p)
  BY <1>1 DEF BootstrapInv, StreamReachesTheEnd
<1>4. LogIsASequence' /\ OnlyNewAreBehind'
  BY <1>1 DEF BootstrapInv, LogIsASequence, OnlyNewAreBehind, Behind, store, ghosts
<1>5. SequencesAreTyped'
  <2>1. catching' \in 1..(Len(Order) + 1)
    BY <1>1, <1>2
  <2> QED BY <1>1, <2>1 DEF BootstrapInv, SequencesAreTyped, store, ghosts
<1>6. StreamReachesTheEnd'
  BY <1>1 DEF StreamReachesTheEnd
<1>7. EarlierHaveCaughtUp'
  <2> SUFFICES ASSUME NEW i \in 1..(catching' - 1)
               PROVE  applied[Order[i]] = Len(log) \/ OverLimit(Order[i])
    BY <1>1 DEF EarlierHaveCaughtUp, OverLimit, store, ghosts
  <2>1. i = catching \/ i \in 1..(catching - 1)
    BY <1>1, <1>2
  <2> QED BY <1>1, <1>3, <2>1 DEF BootstrapInv, EarlierHaveCaughtUp
<1>8. CheckpointsFollowTurns'
  <2>1. applied["checkpoints"] <= applied["threadTurns"]
    BY DEF BootstrapInv, CheckpointsFollowTurns
  <2>2. CASE catching = 6
    <3>1. p = "threadTurns" /\ Covers(until)
      BY <1>1, <2>2, OrderOfProjectors DEF BootstrapInv, CheckpointsFollowTurns
    <3> QED BY <1>1, <2>1, <2>2, <3>1 DEF CheckpointsFollowTurns, Covers, store
  <2>3. CASE catching # 6
    <3>1. catching' # 7
      BY <1>1, <1>2, <2>3
    <3> QED BY <1>1, <2>1, <3>1 DEF CheckpointsFollowTurns, store
  <2> QED BY <2>2, <2>3
<1>9. \A q \in Projectors : skipped'[q] = {} \/ OverLimit(q)'
  BY <1>1 DEF BootstrapInv, OverLimit, ghosts
<1> QED BY <1>4, <1>5, <1>6, <1>7, <1>8, <1>9 DEF BootstrapInv

LEMMA ServeStep ==
  ASSUME BootstrapInv, Serve
  PROVE  BootstrapInv'
<1>1. /\ phase = "bootstrap" /\ catching > Len(Order) /\ phase' = "running"
      /\ UNCHANGED <<store, catching, until, ghosts>>
  BY DEF Serve
<1>2. catching = 10 /\ until = None
  <2>1. catching = 10
    BY <1>1, OrderOfProjectors DEF BootstrapInv, SequencesAreTyped
  <2> QED BY <2>1, OrderOfProjectors DEF BootstrapInv, StreamReachesTheEnd
<1>3. LogIsASequence' /\ SequencesAreTyped'
  BY <1>1 DEF BootstrapInv, LogIsASequence, SequencesAreTyped, store, ghosts
<1>4. OnlyNewAreBehind'
  <2> SUFFICES ASSUME NEW p \in Projectors
               PROVE  applied[p] = Len(log) \/ Behind(p)'
    BY <1>1 DEF OnlyNewAreBehind, store
  <2>1. applied[p] = Len(log) \/ OverLimit(p)
    <3>1. PICK i \in 1..9 : Order[i] = p
      BY OrderOfProjectors
    <3>2. i \in 1..(catching - 1)
      BY <1>2
    <3> QED BY <1>1, <3>1, <3>2 DEF BootstrapInv, EarlierHaveCaughtUp
  <2>2. applied[p] # Len(log) => Behind(p)
    BY DEF BootstrapInv, OnlyNewAreBehind
  <2>3. upgrade # None => upgrade.at \in Nat
    BY DEF BootstrapInv, SequencesAreTyped
  <2> QED BY <1>1, <2>1, <2>2, <2>3, BootstrapAssumption DEF Behind, OverLimit, store, ghosts
<1>5. StreamReachesTheEnd' /\ EarlierHaveCaughtUp'
  BY <1>1, <1>2 DEF StreamReachesTheEnd, EarlierHaveCaughtUp
<1>6. CheckpointsFollowTurns'
  BY <1>1, <1>2 DEF BootstrapInv, CheckpointsFollowTurns, store
<1>7. \A p \in Projectors : skipped'[p] = {} \/ OverLimit(p)'
  BY <1>1 DEF BootstrapInv, OverLimit, ghosts
<1> QED BY <1>3, <1>4, <1>5, <1>6, <1>7 DEF BootstrapInv

LEMMA StutterStep ==
  ASSUME BootstrapInv, UNCHANGED vars
  PROVE  BootstrapInv'
<1> USE DEF vars, store, memory, ghosts, BootstrapInv
<1>1. LogIsASequence' /\ SequencesAreTyped'
  BY DEF LogIsASequence, SequencesAreTyped
<1>2. OnlyNewAreBehind' /\ StreamReachesTheEnd' /\ EarlierHaveCaughtUp'
  BY DEF OnlyNewAreBehind, Behind, StreamReachesTheEnd, EarlierHaveCaughtUp, OverLimit
<1>3. CheckpointsFollowTurns'
  BY DEF CheckpointsFollowTurns, Covers
<1>4. \A p \in Projectors : skipped'[p] = {} \/ OverLimit(p)'
  BY DEF OverLimit
<1> QED BY <1>1, <1>2, <1>3, <1>4

-----------------------------------------------------------------------------
LEMMA InitInv == Init => BootstrapInv
<1> SUFFICES ASSUME Init PROVE BootstrapInv
  OBVIOUS
<1>1. LogIsASequence /\ Len(log) = 0
  BY DEF Init, LogIsASequence
<1>2. SequencesAreTyped
  BY <1>1, OrderOfProjectors DEF Init, SequencesAreTyped
<1>3. OnlyNewAreBehind /\ StreamReachesTheEnd /\ EarlierHaveCaughtUp
  BY <1>1 DEF Init, OnlyNewAreBehind, StreamReachesTheEnd, EarlierHaveCaughtUp
<1>4. CheckpointsFollowTurns
  BY DEF Init, CheckpointsFollowTurns, Projectors
<1> QED BY <1>1, <1>2, <1>3, <1>4 DEF BootstrapInv, Init

\* In every state the projectors are where their rows and the log allow.
THEOREM BootstrapInvariant == Spec => []BootstrapInv
<1>1. Init => BootstrapInv
  BY InitInv
<1>2. BootstrapInv /\ [Next]_vars => BootstrapInv'
  BY CommandStep, CrashStep, UpgradeStep, StartStep, ReadStateStep, RunProjectorStep,
     NextProjectorStep, ServeStep, StutterStep DEF Next
<1> QED BY <1>1, <1>2, PTL DEF Spec

(***************************************************************************)
(* A running server has applied every event with every projector, but for  *)
(* projectors introduced to a log longer than one stream returns.          *)
(***************************************************************************)
THEOREM RunningIsProjected == Spec => []EveryEventIsProjected
<1>1. BootstrapInv => EveryEventIsProjected
  <2> SUFFICES ASSUME BootstrapInv, phase = "running", NEW p \in Projectors, ~ OverLimit(p)
               PROVE  applied[p] = Len(log) /\ skipped[p] = {}
    BY DEF EveryEventIsProjected
  <2>1. upgrade # None => upgrade.at \in Nat
    BY DEF BootstrapInv, SequencesAreTyped
  <2>2. ~ Behind(p)
    BY <2>1, BootstrapAssumption DEF Behind, OverLimit
  <2> QED BY <2>2 DEF BootstrapInv, OnlyNewAreBehind
<1> QED BY <1>1, BootstrapInvariant, PTL

\* The sequence of a snapshot is covered by the rows of turns at every moment.
THEOREM SnapshotsAreCovered == Spec => []SnapshotIsCovered
<1>1. BootstrapInv => SnapshotIsCovered
  <2> SUFFICES ASSUME BootstrapInv PROVE SnapshotSequence <= applied["threadTurns"]
    BY DEF SnapshotIsCovered
  <2> DEFINE S == {applied[p] : p \in Required}
  <2>1. /\ applied \in [Projectors -> Nat]
        /\ applied["checkpoints"] <= applied["threadTurns"]
    BY DEF BootstrapInv, SequencesAreTyped, CheckpointsFollowTurns
  <2>2. "checkpoints" \in Required /\ Required \subseteq Projectors
        /\ "threadTurns" \in Projectors
    BY DEF Required, Projectors
  <2>3. S \in SUBSET Nat /\ applied["checkpoints"] \in S
    BY <2>1, <2>2
  <2>4. SetMin(S) \in Nat /\ SetMin(S) <= applied["checkpoints"]
    <3> HIDE DEF S
    <3> QED BY <2>3, SetMinIsLeast
  <2>5. applied["checkpoints"] \in Nat /\ applied["threadTurns"] \in Nat
    BY <2>1, <2>2
  <2> QED BY <2>1, <2>4, <2>5 DEF SnapshotSequence
<1> QED BY <1>1, BootstrapInvariant, PTL

\* A set of naturals with 0 and every successor is the naturals.
LEMMA SetNatInduction ==
  ASSUME NEW T \in SUBSET Nat, 0 \in T, \A m \in T : m + 1 \in T
  PROVE  T = Nat
<1> SUFFICES ASSUME Nat \ T # {} PROVE FALSE
  OBVIOUS
<1>1. PICK n \in Nat \ T : \A m \in Nat \ T : n <= m
  BY LeastNatural
<1>2. n - 1 \in Nat
  OBVIOUS
<1>3. n - 1 \in T
  BY <1>1, <1>2
<1> QED BY <1>1, <1>3

\* A set of naturals up to k that is not empty has a greatest element.
LEMMA GreatestNatural ==
  ASSUME NEW k \in Nat, NEW S \in SUBSET (0..k), S # {}
  PROVE  \E m \in S : \A n \in S : n <= m
<1> DEFINE D == {k - x : x \in S}
<1>1. D \in SUBSET Nat /\ D # {}
  <2>1. \A x \in S : k - x \in Nat
    OBVIOUS
  <2>2. \A y \in D : y \in Nat
    BY <2>1
  <2>3. PICK x \in S : TRUE
    OBVIOUS
  <2>4. k - x \in D
    BY <2>3
  <2> QED BY <2>2, <2>4, Zenon
<1>2. PICK d \in D : \A x \in D : d <= x
  <2> HIDE DEF D
  <2> QED BY <1>1, LeastNatural
<1>3. PICK m \in S : d = k - m
  OBVIOUS
<1>4. ASSUME NEW n \in S PROVE n <= m
  <2>1. k - n \in D
    OBVIOUS
  <2>2. d <= k - n
    BY <1>2, <2>1
  <2> QED BY <1>3, <2>2
<1> QED BY <1>4

-----------------------------------------------------------------------------
(* The recursive functions of the model unfold.                              *)

\* g passes the event to the first n projectors.
Passes(g, all, event, n) ==
  g = [i \in 0..n |-> IF i = 0 THEN all ELSE Apply(Order[i], g[i - 1], event)]

LEMMA PassesExists ==
  ASSUME NEW all, NEW event, NEW n \in Nat
  PROVE  \E g : Passes(g, all, event, n)
<1> DEFINE T == {m \in Nat : \E g : Passes(g, all, event, m)}
<1>1. 0 \in T
  <2>1. Passes([i \in 0..0 |-> all], all, event, 0)
    BY DEF Passes
  <2> QED BY <2>1
<1>2. ASSUME NEW m \in T PROVE m + 1 \in T
  <2>1. PICK g : Passes(g, all, event, m)
    OBVIOUS
  <2> DEFINE h == [i \in 0..(m + 1) |->
                     IF i = m + 1 THEN Apply(Order[m + 1], g[m], event) ELSE g[i]]
  <2>2. \A i \in 0..(m + 1) :
          h[i] = IF i = 0 THEN all ELSE Apply(Order[i], h[i - 1], event)
    BY <2>1 DEF Passes
  <2>3. Passes(h, all, event, m + 1)
    <3> HIDE DEF h
    <3>1. h = [i \in 0..(m + 1) |-> h[i]]
      BY DEF h
    <3> QED BY <2>2, <3>1 DEF Passes
  <2> QED BY <2>3
<1>3. T = Nat
  <2> HIDE DEF T
  <2>1. T \in SUBSET Nat
    BY DEF T
  <2> QED BY <1>1, <1>2, <2>1, SetNatInduction
<1> QED BY <1>3

\* Three of the nine projectors change the tables.
LEMMA ProjectEventIs ==
  ASSUME NEW all, NEW event
  PROVE  ProjectEvent(all, event) =
           ApplyThreadTurns(
             ApplyThreadProposedPlans(ApplyThreadMessages(all, event), event), event)
<1>1. /\ Len(Order) = 9
      /\ Order[1] = "projects" /\ Order[2] = "threadMessages" /\ Order[3] = "threadProposedPlans"
      /\ Order[4] = "threadActivities" /\ Order[5] = "threadSessions" /\ Order[6] = "threadTurns"
      /\ Order[7] = "checkpoints" /\ Order[8] = "pendingApprovals" /\ Order[9] = "threads"
  BY DEF Order
<1> DEFINE f == CHOOSE g : Passes(g, all, event, 9)
<1>2. Passes(f, all, event, 9)
  <2>1. \E g : Passes(g, all, event, 9)
    BY PassesExists
  <2> QED BY <2>1
<1>3. ProjectEvent(all, event) = f[9]
  BY <1>1 DEF ProjectEvent, Passes
<1> HIDE DEF f
<1>4. /\ f[0] = all
      /\ \A i \in 1..9 : f[i] = Apply(Order[i], f[i - 1], event)
  BY <1>2 DEF Passes
<1>5. /\ f[1] = Apply(Order[1], f[0], event) /\ f[2] = Apply(Order[2], f[1], event)
      /\ f[3] = Apply(Order[3], f[2], event) /\ f[4] = Apply(Order[4], f[3], event)
      /\ f[5] = Apply(Order[5], f[4], event) /\ f[6] = Apply(Order[6], f[5], event)
      /\ f[7] = Apply(Order[7], f[6], event) /\ f[8] = Apply(Order[8], f[7], event)
      /\ f[9] = Apply(Order[9], f[8], event)
  BY <1>4
<1>6. f[1] = all /\ f[2] = ApplyThreadMessages(f[1], event)
  BY <1>1, <1>4, <1>5 DEF Apply
<1>7. f[3] = ApplyThreadProposedPlans(f[2], event) /\ f[4] = f[3] /\ f[5] = f[4]
  BY <1>1, <1>5 DEF Apply
<1>8. f[6] = ApplyThreadTurns(f[5], event) /\ f[7] = f[6] /\ f[8] = f[7] /\ f[9] = f[8]
  BY <1>1, <1>5 DEF Apply
<1> QED BY <1>3, <1>6, <1>7, <1>8

\* One or two events, one after the other.
LEMMA ProjectEventsOne ==
  ASSUME NEW all, NEW e
  PROVE  ProjectEvents(all, <<e>>) = ProjectEvent(all, e)
<1> DEFINE IsRun(g) ==
      g = [i \in 0..1 |-> IF i = 0 THEN all ELSE ProjectEvent(g[i - 1], <<e>>[i])]
           h == [i \in 0..1 |-> IF i = 0 THEN all ELSE ProjectEvent(all, e)]
           f == CHOOSE g : IsRun(g)
<1>1. IsRun(h)
  OBVIOUS
<1>2. IsRun(f)
  <2> HIDE DEF IsRun, h
  <2> QED BY <1>1
<1>3. ProjectEvents(all, <<e>>) = f[1]
  BY DEF ProjectEvents
<1> HIDE DEF f
<1>4. f[0] = all /\ f[1] = ProjectEvent(f[0], e)
  BY <1>2
<1> QED BY <1>3, <1>4

LEMMA ProjectEventsTwo ==
  ASSUME NEW all, NEW e, NEW e2
  PROVE  ProjectEvents(all, <<e, e2>>) = ProjectEvent(ProjectEvent(all, e), e2)
<1> DEFINE IsRun(g) ==
      g = [i \in 0..2 |-> IF i = 0 THEN all ELSE ProjectEvent(g[i - 1], <<e, e2>>[i])]
           h == [i \in 0..2 |->
                   IF i = 0 THEN all
                   ELSE IF i = 1 THEN ProjectEvent(all, e)
                   ELSE ProjectEvent(ProjectEvent(all, e), e2)]
           f == CHOOSE g : IsRun(g)
<1>1. IsRun(h)
  <2>1. /\ <<e, e2>>[1] = e /\ <<e, e2>>[2] = e2
        /\ h[0] = all /\ h[1] = ProjectEvent(all, e)
        /\ h[2] = ProjectEvent(ProjectEvent(all, e), e2)
    OBVIOUS
  <2>2. \A i \in 0..2 : h[i] = IF i = 0 THEN all ELSE ProjectEvent(h[i - 1], <<e, e2>>[i])
    <3> HIDE DEF h
    <3>1. \A i \in {0, 1, 2} : h[i] = IF i = 0 THEN all ELSE ProjectEvent(h[i - 1], <<e, e2>>[i])
      BY <2>1
    <3> QED BY <3>1
  <2>3. h = [i \in 0..2 |-> h[i]]
    OBVIOUS
  <2> HIDE DEF h
  <2> QED BY <2>2, <2>3
<1>2. IsRun(f)
  <2> HIDE DEF IsRun, h
  <2> QED BY <1>1
<1>3. ProjectEvents(all, <<e, e2>>) = f[2]
  BY DEF ProjectEvents
<1> HIDE DEF f
<1>4. f[0] = all /\ f[1] = ProjectEvent(f[0], e) /\ f[2] = ProjectEvent(f[1], e2)
  BY <1>2
<1> QED BY <1>3, <1>4

LEMMA ProjectThreadEventsOne ==
  ASSUME NEW first, NEW e
  PROVE  ProjectThreadEvents(first, <<e>>) = ProjectThread(first, e)
<1> DEFINE IsRun(g) ==
      g = [i \in 0..1 |-> IF i = 0 THEN first ELSE ProjectThread(g[i - 1], <<e>>[i])]
           h == [i \in 0..1 |-> IF i = 0 THEN first ELSE ProjectThread(first, e)]
           f == CHOOSE g : IsRun(g)
<1>1. IsRun(h)
  OBVIOUS
<1>2. IsRun(f)
  <2> HIDE DEF IsRun, h
  <2> QED BY <1>1
<1>3. ProjectThreadEvents(first, <<e>>) = f[1]
  BY DEF ProjectThreadEvents
<1> HIDE DEF f
<1>4. f[0] = first /\ f[1] = ProjectThread(f[0], e)
  BY <1>2
<1> QED BY <1>3, <1>4

LEMMA ProjectThreadEventsTwo ==
  ASSUME NEW first, NEW e, NEW e2
  PROVE  ProjectThreadEvents(first, <<e, e2>>) = ProjectThread(ProjectThread(first, e), e2)
<1> DEFINE IsRun(g) ==
      g = [i \in 0..2 |-> IF i = 0 THEN first ELSE ProjectThread(g[i - 1], <<e, e2>>[i])]
           h == [i \in 0..2 |->
                   IF i = 0 THEN first
                   ELSE IF i = 1 THEN ProjectThread(first, e)
                   ELSE ProjectThread(ProjectThread(first, e), e2)]
           f == CHOOSE g : IsRun(g)
<1>1. IsRun(h)
  <2>1. /\ <<e, e2>>[1] = e /\ <<e, e2>>[2] = e2
        /\ h[0] = first /\ h[1] = ProjectThread(first, e)
        /\ h[2] = ProjectThread(ProjectThread(first, e), e2)
    OBVIOUS
  <2>2. \A i \in 0..2 : h[i] = IF i = 0 THEN first ELSE ProjectThread(h[i - 1], <<e, e2>>[i])
    <3> HIDE DEF h
    <3>1. \A i \in {0, 1, 2} :
            h[i] = IF i = 0 THEN first ELSE ProjectThread(h[i - 1], <<e, e2>>[i])
      BY <2>1
    <3> QED BY <3>1
  <2>3. h = [i \in 0..2 |-> h[i]]
    OBVIOUS
  <2> HIDE DEF h
  <2> QED BY <2>2, <2>3
<1>2. IsRun(f)
  <2> HIDE DEF IsRun, h
  <2> QED BY <1>1
<1>3. ProjectThreadEvents(first, <<e, e2>>) = f[2]
  BY DEF ProjectThreadEvents
<1> HIDE DEF f
<1>4. f[0] = first /\ f[1] = ProjectThread(f[0], e) /\ f[2] = ProjectThread(f[1], e2)
  BY <1>2
<1> QED BY <1>3, <1>4

\* g applies the first n events of l to the rows of turns.
AppliesTurns(g, l, n) ==
  g = [i \in 0..n |-> IF i = 0 THEN EmptyTables ELSE ApplyThreadTurns(g[i - 1], l[i])]

LEMMA AppliesTurnsExists ==
  ASSUME NEW l, NEW n \in Nat
  PROVE  \E g : AppliesTurns(g, l, n)
<1> DEFINE T == {m \in Nat : \E g : AppliesTurns(g, l, m)}
<1>1. 0 \in T
  <2>1. AppliesTurns([i \in 0..0 |-> EmptyTables], l, 0)
    BY DEF AppliesTurns
  <2> QED BY <2>1
<1>2. ASSUME NEW m \in T PROVE m + 1 \in T
  <2>1. PICK g : AppliesTurns(g, l, m)
    OBVIOUS
  <2> DEFINE h == [i \in 0..(m + 1) |->
                     IF i = m + 1 THEN ApplyThreadTurns(g[m], l[m + 1]) ELSE g[i]]
  <2>2. \A i \in 0..(m + 1) :
          h[i] = IF i = 0 THEN EmptyTables ELSE ApplyThreadTurns(h[i - 1], l[i])
    BY <2>1 DEF AppliesTurns
  <2>3. AppliesTurns(h, l, m + 1)
    <3> HIDE DEF h
    <3>1. h = [i \in 0..(m + 1) |-> h[i]]
      BY DEF h
    <3> QED BY <2>2, <3>1 DEF AppliesTurns
  <2> QED BY <2>3
<1>3. T = Nat
  <2> HIDE DEF T
  <2>1. T \in SUBSET Nat
    BY DEF T
  <2> QED BY <1>1, <1>2, <2>1, SetNatInduction
<1> QED BY <1>3

LEMMA TurnsAtStep ==
  ASSUME NEW l, Len(l) \in Nat
  PROVE  /\ TurnsAt(l)[0] = EmptyTables
         /\ \A i \in 1..Len(l) : TurnsAt(l)[i] = ApplyThreadTurns(TurnsAt(l)[i - 1], l[i])
<1>1. \E g : AppliesTurns(g, l, Len(l))
  BY AppliesTurnsExists
<1>2. AppliesTurns(TurnsAt(l), l, Len(l))
  BY <1>1 DEF AppliesTurns, TurnsAt
<1> QED BY <1>2 DEF AppliesTurns

\* The rows of turns after the first events do not depend on the events to come.
LEMMA TurnsAtExtends ==
  ASSUME NEW l, NEW l2, Len(l) \in Nat, Len(l2) \in Nat, Len(l) <= Len(l2),
         \A i \in 1..Len(l) : l2[i] = l[i]
  PROVE  \A i \in 0..Len(l) : TurnsAt(l2)[i] = TurnsAt(l)[i]
<1> DEFINE g == TurnsAt(l)
           h == TurnsAt(l2)
           n == Len(l)
           T == {m \in Nat : m <= n => g[m] = h[m]}
<1>1. g[0] = EmptyTables /\ h[0] = EmptyTables
  BY TurnsAtStep
<1>2. \A i \in 1..n : g[i] = ApplyThreadTurns(g[i - 1], l[i])
  BY TurnsAtStep
<1>3. \A i \in 1..n : h[i] = ApplyThreadTurns(h[i - 1], l[i])
  <2>1. \A i \in 1..n : i \in 1..Len(l2)
    OBVIOUS
  <2> QED BY <2>1, TurnsAtStep
<1> HIDE DEF g, h
<1>4. 0 \in T
  BY <1>1
<1>5. ASSUME NEW m \in T PROVE m + 1 \in T
  <2> SUFFICES ASSUME m + 1 <= n PROVE g[m + 1] = h[m + 1]
    OBVIOUS
  <2>1. g[m] = h[m] /\ m + 1 \in 1..n /\ (m + 1) - 1 = m
    OBVIOUS
  <2> QED BY <1>2, <1>3, <2>1
<1>6. T = Nat
  <2> HIDE DEF T
  <2>1. T \in SUBSET Nat
    BY DEF T
  <2> QED BY <1>4, <1>5, <2>1, SetNatInduction
<1>7. \A i \in 0..n : i \in T /\ i <= n
  BY <1>6
<1> QED BY <1>7 DEF g, h

-----------------------------------------------------------------------------
(* What one event does to the tables and to the thread of the read model.    *)

EventTypes == {"thread.message-sent", "thread.turn-start-requested", "thread.session-set",
               "thread.proposed-plan-upserted", "thread.turn-diff-completed", "thread.reverted"}

Proper(e) ==
  /\ e \in [type : EventTypes, id : Nat, turn : Turns \cup {None},
            role : {"user", "assistant", None}, count : Nat, status : RowStatuses]
  /\ IsMessage(e) => e.role \in {"user", "assistant"}
  /\ e.type \in {"thread.session-set", "thread.proposed-plan-upserted",
                 "thread.turn-diff-completed"} => e.turn \in Turns
  /\ IsDiff(e) => e.count # 0 /\ e.status \in {"ready", "missing"}

\* What the forms of an event say.
LEMMA EventAtIs ==
  ASSUME NEW l, NEW i \in Nat \ {0}, EventAt(l, i)
  PROVE  /\ Proper(l[i])
         /\ IsMessage(l[i]) => /\ l[i].id = i
                               /\ l[i].role = "user" => l[i] = UserMessage(i)
                               /\ l[i].role # "user" => l[i].turn \in Turns
         /\ IsPlan(l[i]) => l[i].id = i
         /\ IsDiff(l[i]) => l[i].count \in 1..i
         /\ l[i].type = "thread.turn-start-requested" =>
              l[i].id \in 1..(i - 1) /\ l[l[i].id] = UserMessage(l[i].id)
<1> USE DEF Proper, EventTypes, RowStatuses, Event, IsMessage, IsPlan, IsDiff
<1>1. CASE l[i] = UserMessage(i)
  BY <1>1 DEF UserMessage
<1>2. CASE \E m \in 1..(i - 1) : l[m] = UserMessage(m) /\ l[i] = TurnStartRequested(m)
  BY <1>2 DEF TurnStartRequested
<1>3. CASE \E turn \in Turns : l[i] = SessionSet(turn)
  BY <1>3 DEF SessionSet
<1>4. CASE \E turn \in Turns : l[i] = AssistantMessage(i, turn)
  BY <1>4 DEF AssistantMessage
<1>5. CASE \E turn \in Turns : l[i] = PlanUpserted(i, turn)
  BY <1>5 DEF PlanUpserted
<1>6. CASE \E turn \in Turns, status \in {"ready", "missing"} :
             l[i] = DiffCompleted(turn, l[i].count, status) /\ l[i].count \in 1..i
  BY <1>6 DEF DiffCompleted
<1>7. CASE l[i] = Reverted(l[i].count) /\ l[i].count \in Nat
  BY <1>7 DEF Reverted
<1> QED BY <1>1, <1>2, <1>3, <1>4, <1>5, <1>6, <1>7 DEF EventAt

LEMMA RetainIsPart ==
  ASSUME NEW messages, NEW turns, NEW started, NEW n
  PROVE  Retain(messages, turns, started, n) \subseteq messages
<1>1. \A S, m : Oldest(S, m) \subseteq S
  BY DEF Oldest
<1>2. ASSUME NEW kept, kept \subseteq messages, NEW role
      PROVE  FillUp(messages, kept, turns, role, n) \subseteq messages
  BY <1>1, <1>2 DEF FillUp
<1> DEFINE kept == {m \in messages : m.turn \in turns \/ m.id \in started}
<1>3. kept \subseteq messages
  OBVIOUS
<1> HIDE DEF kept
<1>4. FillUp(messages, kept, turns, "user", n) \subseteq messages
  BY <1>2, <1>3
<1>5. FillUp(messages, FillUp(messages, kept, turns, "user", n), turns, "assistant", n)
        \subseteq messages
  BY <1>2, <1>4
<1> QED BY <1>5 DEF Retain, kept

LEMMA TablesFields ==
  ASSUME NEW t \in AllTables, NEW u \in AllTables
  PROVE  /\ t.messages \in SUBSET Messages /\ t.plans \in SUBSET Plans
         /\ t.turns \in SUBSET Rows /\ t.pending \in Nat \cup {None}
         /\ (/\ t.messages = u.messages /\ t.plans = u.plans
             /\ t.turns = u.turns /\ t.pending = u.pending) => t = u
BY DEF AllTables

\* What a revert to n turns leaves, by the rows of turns.
KeptMessages(t, n) ==
  Retain(t.messages, {r.turn : r \in KeptRows(t.turns, n)},
         {r.message : r \in KeptRows(t.turns, n)}, n)
KeptPlans(t, n) == RetainPlans(t.plans, {r.turn : r \in KeptRows(t.turns, n)})

LEMMA MessagesEffect ==
  ASSUME NEW t \in AllTables, NEW e, Proper(e), NEW u, u = ApplyThreadMessages(t, e)
  PROVE  /\ u \in AllTables
         /\ u.plans = t.plans /\ u.turns = t.turns /\ u.pending = t.pending
         /\ IsMessage(e) => u.messages = t.messages \cup {MessageOf(e)}
         /\ IsRevert(e) => u.messages = KeptMessages(t, e.count)
         /\ IsMessage(e) \/ IsRevert(e) \/ u.messages = t.messages
<1>1. CASE IsMessage(e)
  <2>1. u = [t EXCEPT !.messages = t.messages \cup {MessageOf(e)}]
    BY <1>1 DEF ApplyThreadMessages, IsMessage
  <2>2. MessageOf(e) \in Messages
    BY <1>1 DEF MessageOf, Messages, Proper
  <2>3. t.messages \cup {MessageOf(e)} \in SUBSET Messages
    BY <2>2 DEF AllTables
  <2> QED BY <1>1, <2>1, <2>3 DEF AllTables, IsMessage, IsRevert
<1>2. CASE IsRevert(e)
  <2> DEFINE left == KeptMessages(t, e.count)
  <2>1. u = [t EXCEPT !.messages = left]
    BY <1>2 DEF ApplyThreadMessages, IsRevert, KeptMessages
  <2>2. left \subseteq t.messages
    BY RetainIsPart DEF KeptMessages
  <2> HIDE DEF left
  <2>3. left \in SUBSET Messages
    BY <2>2 DEF AllTables
  <2>4. /\ u \in AllTables /\ u.messages = left
        /\ u.plans = t.plans /\ u.turns = t.turns /\ u.pending = t.pending
    BY <2>1, <2>3 DEF AllTables
  <2> QED BY <1>2, <2>4 DEF left, IsMessage, IsRevert
<1>3. CASE ~IsMessage(e) /\ ~IsRevert(e)
  <2>1. u = t
    BY <1>3 DEF ApplyThreadMessages, IsMessage, IsRevert
  <2> QED BY <1>3, <2>1
<1> QED BY <1>1, <1>2, <1>3

LEMMA PlansEffect ==
  ASSUME NEW t \in AllTables, NEW e, Proper(e), NEW u, u = ApplyThreadProposedPlans(t, e)
  PROVE  /\ u \in AllTables
         /\ u.messages = t.messages /\ u.turns = t.turns /\ u.pending = t.pending
         /\ IsPlan(e) => u.plans = UpsertPlan(t.plans, PlanOf(e))
         /\ IsRevert(e) => u.plans = KeptPlans(t, e.count)
         /\ IsPlan(e) \/ IsRevert(e) \/ u.plans = t.plans
<1>1. CASE IsPlan(e)
  <2>1. u = [t EXCEPT !.plans = UpsertPlan(t.plans, PlanOf(e))]
    BY <1>1 DEF ApplyThreadProposedPlans, IsPlan
  <2>2. PlanOf(e) \in Plans
    BY <1>1 DEF PlanOf, Plans, Proper, IsPlan
  <2>3. UpsertPlan(t.plans, PlanOf(e)) \in SUBSET Plans
    BY <2>2 DEF AllTables, UpsertPlan
  <2> QED BY <1>1, <2>1, <2>3 DEF AllTables, IsPlan, IsRevert
<1>2. CASE IsRevert(e)
  <2> DEFINE left == KeptPlans(t, e.count)
  <2>1. u = [t EXCEPT !.plans = left]
    BY <1>2 DEF ApplyThreadProposedPlans, IsRevert, KeptPlans
  <2>2. left \in SUBSET Plans
    BY DEF AllTables, RetainPlans, KeptPlans
  <2> HIDE DEF left
  <2>3. /\ u \in AllTables /\ u.plans = left
        /\ u.messages = t.messages /\ u.turns = t.turns /\ u.pending = t.pending
    BY <2>1, <2>2 DEF AllTables
  <2> QED BY <1>2, <2>3 DEF left, IsPlan, IsRevert
<1>3. CASE ~IsPlan(e) /\ ~IsRevert(e)
  <2>1. u = t
    BY <1>3 DEF ApplyThreadProposedPlans, IsPlan, IsRevert
  <2> QED BY <1>3, <2>1
<1> QED BY <1>1, <1>2, <1>3

LEMMA RowOfType ==
  ASSUME NEW rows \in SUBSET Rows, NEW turn \in Turns
  PROVE  /\ RowOf(rows, turn) \in Rows /\ RowOf(rows, turn).turn = turn
         /\ RowOf(rows, turn) \in rows
            \/ (/\ \A r \in rows : r.turn # turn
                /\ RowOf(rows, turn) =
                     [turn |-> turn, message |-> None, count |-> None, status |-> None])
<1>1. CASE \E r \in rows : r.turn = turn
  <2>1. RowOf(rows, turn) = CHOOSE r \in rows : r.turn = turn
    BY <1>1 DEF RowOf
  <2> QED BY <1>1, <2>1
<1>2. CASE ~ \E r \in rows : r.turn = turn
  <2>1. RowOf(rows, turn) = [turn |-> turn, message |-> None, count |-> None, status |-> None]
    BY <1>2 DEF RowOf
  <2> QED BY <1>2, <2>1 DEF Rows, RowStatuses
<1> QED BY <1>1, <1>2

LEMMA StartRowType ==
  ASSUME NEW rows \in SUBSET Rows, NEW pending \in Nat \cup {None}, NEW turn \in Turns
  PROVE  StartRow(rows, pending, turn) \in SUBSET Rows
<1> DEFINE row == RowOf(rows, turn)
           new == [row EXCEPT !.message = IF @ = None THEN pending ELSE @]
<1>1. row \in Rows
  BY RowOfType
<1>2. StartRow(rows, pending, turn) = Upsert(rows, new)
  BY DEF StartRow
<1> HIDE DEF row
<1>3. new \in Rows
  BY <1>1 DEF Rows
<1> HIDE DEF new
<1> QED BY <1>2, <1>3 DEF Upsert

LEMMA CompleteRowType ==
  ASSUME NEW rows \in SUBSET Rows, NEW e, Proper(e), IsDiff(e)
  PROVE  CompleteRow(rows, e) \in SUBSET Rows
<1> DEFINE row == RowOf(rows, e.turn)
           new == [row EXCEPT !.count = e.count, !.status = e.status]
           cleared == {IF r.turn # e.turn /\ r.count = e.count
                       THEN [r EXCEPT !.count = None, !.status = None] ELSE r : r \in rows}
<1>1. e.turn \in Turns /\ e.count \in Nat /\ e.status \in {"ready", "missing"}
  BY DEF Proper, IsDiff
<1>2. row \in Rows
  BY <1>1, RowOfType
<1>3. CompleteRow(rows, e) = Upsert(cleared, new)
  BY DEF CompleteRow
<1> HIDE DEF row
<1>4. new \in Rows
  BY <1>1, <1>2 DEF Rows, RowStatuses
<1>5. \A r \in Rows : [r EXCEPT !.count = None, !.status = None] \in Rows
  BY DEF Rows, RowStatuses
<1>6. cleared \in SUBSET Rows
  BY <1>5
<1> HIDE DEF new, cleared
<1> QED BY <1>3, <1>4, <1>6 DEF Upsert

LEMMA TurnsEffect ==
  ASSUME NEW t \in AllTables, NEW e, Proper(e), NEW u, u = ApplyThreadTurns(t, e)
  PROVE  /\ u \in AllTables
         /\ u.messages = t.messages /\ u.plans = t.plans
         /\ e.type = "thread.turn-start-requested" => u.turns = t.turns /\ u.pending = e.id
         /\ e.type = "thread.session-set" =>
              u.turns = StartRow(t.turns, t.pending, e.turn) /\ u.pending = None
         /\ IsMessage(e) =>
              /\ u.pending = t.pending
              /\ e.turn = None => u.turns = t.turns
              /\ e.turn # None => u.turns = Upsert(t.turns, RowOf(t.turns, e.turn))
         /\ IsDiff(e) => u.turns = CompleteRow(t.turns, e) /\ u.pending = t.pending
         /\ IsRevert(e) => u.turns = KeptRows(t.turns, e.count) /\ u.pending = None
         /\ IsPlan(e) => u.turns = t.turns /\ u.pending = t.pending
<1>1. /\ t.turns \in SUBSET Rows /\ t.pending \in Nat \cup {None}
      /\ e.id \in Nat /\ e.turn \in Turns \cup {None} /\ e.count \in Nat
      /\ e.type \in EventTypes
  BY DEF AllTables, Proper
<1> USE DEF IsMessage, IsDiff, IsRevert, IsPlan
<1>2. CASE e.type = "thread.turn-start-requested"
  <2>1. u = [t EXCEPT !.pending = e.id]
    BY <1>2 DEF ApplyThreadTurns
  <2> QED BY <1>1, <1>2, <2>1 DEF AllTables
<1>3. CASE e.type = "thread.session-set"
  <2> DEFINE rows == StartRow(t.turns, t.pending, e.turn)
  <2>1. e.turn \in Turns
    BY <1>3 DEF Proper
  <2>2. rows \in SUBSET Rows
    BY <1>1, <2>1, StartRowType
  <2>3. u = [t EXCEPT !.turns = rows, !.pending = None]
    BY <1>3 DEF ApplyThreadTurns
  <2> HIDE DEF rows
  <2>4. /\ u \in AllTables /\ u.turns = rows /\ u.pending = None
        /\ u.messages = t.messages /\ u.plans = t.plans
    BY <2>2, <2>3 DEF AllTables
  <2> QED BY <1>3, <2>4 DEF rows
<1>4. CASE IsMessage(e) /\ e.turn # None
  <2> DEFINE rows == Upsert(t.turns, RowOf(t.turns, e.turn))
  <2>1. RowOf(t.turns, e.turn) \in Rows
    BY <1>1, <1>4, RowOfType
  <2>2. rows \in SUBSET Rows
    BY <1>1, <2>1 DEF Upsert
  <2>3. u = [t EXCEPT !.turns = rows]
    BY <1>4 DEF ApplyThreadTurns
  <2> HIDE DEF rows
  <2>4. /\ u \in AllTables /\ u.turns = rows /\ u.pending = t.pending
        /\ u.messages = t.messages /\ u.plans = t.plans
    BY <2>2, <2>3 DEF AllTables
  <2> QED BY <1>4, <2>4 DEF rows
<1>5. CASE IsMessage(e) /\ e.turn = None
  <2>1. u = t
    BY <1>5 DEF ApplyThreadTurns
  <2> QED BY <1>5, <2>1
<1>6. CASE IsDiff(e)
  <2> DEFINE rows == CompleteRow(t.turns, e)
  <2>1. rows \in SUBSET Rows
    BY <1>1, <1>6, CompleteRowType
  <2>2. u = [t EXCEPT !.turns = rows]
    BY <1>6 DEF ApplyThreadTurns
  <2> HIDE DEF rows
  <2>3. /\ u \in AllTables /\ u.turns = rows /\ u.pending = t.pending
        /\ u.messages = t.messages /\ u.plans = t.plans
    BY <2>1, <2>2 DEF AllTables
  <2> QED BY <1>6, <2>3 DEF rows
<1>7. CASE IsRevert(e)
  <2>1. KeptRows(t.turns, e.count) \in SUBSET Rows
    BY <1>1 DEF KeptRows
  <2>2. u = [t EXCEPT !.turns = KeptRows(t.turns, e.count), !.pending = None]
    BY <1>7 DEF ApplyThreadTurns
  <2> QED BY <1>7, <2>1, <2>2 DEF AllTables
<1>8. CASE IsPlan(e)
  <2>1. u = t
    BY <1>8 DEF ApplyThreadTurns
  <2> QED BY <1>8, <2>1
<1> QED BY <1>1, <1>2, <1>3, <1>4, <1>5, <1>6, <1>7, <1>8 DEF EventTypes

\* Each projector reads the rows of turns before they change.
LEMMA ProjectEffect ==
  ASSUME NEW t \in AllTables, NEW e, Proper(e)
  PROVE  LET u == ProjectEvent(t, e)
         IN  /\ u \in AllTables
             /\ u.messages = ApplyThreadMessages(t, e).messages
             /\ u.plans = ApplyThreadProposedPlans(t, e).plans
             /\ u.turns = ApplyThreadTurns(t, e).turns
             /\ u.pending = ApplyThreadTurns(t, e).pending
<1> DEFINE m == ApplyThreadMessages(t, e)
           p == ApplyThreadProposedPlans(m, e)
           q == ApplyThreadProposedPlans(t, e)
           u == ApplyThreadTurns(p, e)
           v == ApplyThreadTurns(t, e)
<1>1. ProjectEvent(t, e) = u
  BY ProjectEventIs
<1>2. /\ m \in AllTables /\ m.plans = t.plans /\ m.turns = t.turns /\ m.pending = t.pending
  BY MessagesEffect
<1>3. /\ p \in AllTables /\ p.messages = m.messages
      /\ p.turns = m.turns /\ p.pending = m.pending
  <2> HIDE DEF m
  <2> QED BY <1>2, PlansEffect
<1>4. p.plans = q.plans
  <2> HIDE DEF m, p, q
  <2>1. /\ IsPlan(e) => p.plans = UpsertPlan(m.plans, PlanOf(e))
        /\ IsRevert(e) => p.plans = KeptPlans(m, e.count)
        /\ IsPlan(e) \/ IsRevert(e) \/ p.plans = m.plans
    BY <1>2, PlansEffect DEF p
  <2>2. /\ IsPlan(e) => q.plans = UpsertPlan(t.plans, PlanOf(e))
        /\ IsRevert(e) => q.plans = KeptPlans(t, e.count)
        /\ IsPlan(e) \/ IsRevert(e) \/ q.plans = t.plans
    BY PlansEffect DEF q
  <2>3. KeptPlans(m, e.count) = KeptPlans(t, e.count)
    BY <1>2 DEF KeptPlans
  <2> QED BY <1>2, <2>1, <2>2, <2>3
<1>5. u \in AllTables /\ u.messages = p.messages /\ u.plans = p.plans
  <2> HIDE DEF p
  <2> QED BY <1>3, TurnsEffect
<1>6. u.turns = v.turns /\ u.pending = v.pending
  <2> HIDE DEF m, p, u, v
  <2>1. e.type \in EventTypes
    BY DEF Proper
  <2>2. p.turns = t.turns /\ p.pending = t.pending
    BY <1>2, <1>3
  <2>3. /\ e.type = "thread.turn-start-requested" => u.turns = p.turns /\ u.pending = e.id
        /\ e.type = "thread.session-set" =>
              u.turns = StartRow(p.turns, p.pending, e.turn) /\ u.pending = None
        /\ IsMessage(e) =>
              /\ u.pending = p.pending
              /\ e.turn = None => u.turns = p.turns
              /\ e.turn # None => u.turns = Upsert(p.turns, RowOf(p.turns, e.turn))
        /\ IsDiff(e) => u.turns = CompleteRow(p.turns, e) /\ u.pending = p.pending
        /\ IsRevert(e) => u.turns = KeptRows(p.turns, e.count) /\ u.pending = None
        /\ IsPlan(e) => u.turns = p.turns /\ u.pending = p.pending
    BY <1>3, TurnsEffect DEF u
  <2>4. /\ e.type = "thread.turn-start-requested" => v.turns = t.turns /\ v.pending = e.id
        /\ e.type = "thread.session-set" =>
              v.turns = StartRow(t.turns, t.pending, e.turn) /\ v.pending = None
        /\ IsMessage(e) =>
              /\ v.pending = t.pending
              /\ e.turn = None => v.turns = t.turns
              /\ e.turn # None => v.turns = Upsert(t.turns, RowOf(t.turns, e.turn))
        /\ IsDiff(e) => v.turns = CompleteRow(t.turns, e) /\ v.pending = t.pending
        /\ IsRevert(e) => v.turns = KeptRows(t.turns, e.count) /\ v.pending = None
        /\ IsPlan(e) => v.turns = t.turns /\ v.pending = t.pending
    BY TurnsEffect DEF v
  <2> QED BY <2>1, <2>2, <2>3, <2>4 DEF EventTypes, IsMessage, IsDiff, IsRevert, IsPlan
<1>7. u.messages = m.messages
  BY <1>3, <1>5
<1> HIDE DEF m, p, q, u, v
<1> QED BY <1>1, <1>4, <1>5, <1>6, <1>7 DEF m, q, v

LEMMA ThreadFields ==
  ASSUME NEW t \in Threads
  PROVE  /\ t.messages \in SUBSET Messages /\ t.plans \in SUBSET Plans
         /\ t.checkpoints \in SUBSET ReadCheckpoints
BY DEF Threads

LEMMA ThreadEffect ==
  ASSUME NEW t \in Threads, NEW e, Proper(e), NEW u, u = ProjectThread(t, e)
  PROVE  /\ u \in Threads
         /\ IsMessage(e) => /\ u.messages = t.messages \cup {MessageOf(e)}
                            /\ u.plans = t.plans /\ u.checkpoints = t.checkpoints
         /\ IsPlan(e) => /\ u.plans = UpsertPlan(t.plans, PlanOf(e))
                         /\ u.messages = t.messages /\ u.checkpoints = t.checkpoints
         /\ IsDiff(e) => /\ u.checkpoints = Complete(t.checkpoints, CheckpointOf(e))
                         /\ u.messages = t.messages /\ u.plans = t.plans
         /\ IsRevert(e) => u = RevertThread(t, e.count)
         /\ e.type \in {"thread.turn-start-requested", "thread.session-set"} => u = t
<1> USE DEF IsMessage, IsPlan, IsDiff, IsRevert
<1>1. /\ t.messages \in SUBSET Messages /\ t.plans \in SUBSET Plans
      /\ t.checkpoints \in SUBSET ReadCheckpoints /\ e.type \in EventTypes
  BY ThreadFields DEF Proper
<1>2. CASE IsMessage(e)
  <2>1. u = [t EXCEPT !.messages = t.messages \cup {MessageOf(e)}]
    BY <1>2 DEF ProjectThread
  <2>2. MessageOf(e) \in Messages
    BY <1>2 DEF MessageOf, Messages, Proper
  <2>3. t.messages \cup {MessageOf(e)} \in SUBSET Messages
    BY <1>1, <2>2
  <2> QED BY <1>2, <2>1, <2>3 DEF Threads
<1>3. CASE IsPlan(e)
  <2>1. u = [t EXCEPT !.plans = UpsertPlan(t.plans, PlanOf(e))]
    BY <1>3 DEF ProjectThread
  <2>2. PlanOf(e) \in Plans
    BY <1>3 DEF PlanOf, Plans, Proper
  <2>3. UpsertPlan(t.plans, PlanOf(e)) \in SUBSET Plans
    BY <1>1, <2>2 DEF UpsertPlan
  <2> QED BY <1>3, <2>1, <2>3 DEF Threads
<1>4. CASE IsDiff(e)
  <2> DEFINE left == Complete(t.checkpoints, CheckpointOf(e))
  <2>1. u = [t EXCEPT !.checkpoints = left]
    BY <1>4 DEF ProjectThread
  <2>2. CheckpointOf(e) \in ReadCheckpoints
    BY <1>4 DEF CheckpointOf, ReadCheckpoints, RowStatuses, Proper
  <2>3. left \in SUBSET ReadCheckpoints
    BY <1>1, <2>2 DEF Complete
  <2> HIDE DEF left
  <2>4. /\ u \in Threads /\ u.checkpoints = left
        /\ u.messages = t.messages /\ u.plans = t.plans
    BY <2>1, <2>3 DEF Threads
  <2> QED BY <1>4, <2>4 DEF left
<1>5. CASE IsRevert(e)
  <2>1. u = RevertThread(t, e.count)
    BY <1>5 DEF ProjectThread
  <2> DEFINE kept == RevertTo(t.checkpoints, e.count)
             turns == {c.turn : c \in kept}
             messages == Retain(t.messages, turns, {}, e.count)
             plans == RetainPlans(t.plans, turns)
  <2>2. u = [messages |-> messages, plans |-> plans, checkpoints |-> kept]
    BY <2>1 DEF RevertThread
  <2>3. kept \in SUBSET ReadCheckpoints
    BY <1>1 DEF RevertTo
  <2>4. messages \in SUBSET Messages
    BY <1>1, RetainIsPart
  <2>5. plans \in SUBSET Plans
    BY <1>1 DEF RetainPlans
  <2> HIDE DEF kept, turns, messages, plans
  <2>6. u \in Threads
    BY <2>2, <2>3, <2>4, <2>5 DEF Threads
  <2> QED BY <1>5, <2>1, <2>6
<1>6. CASE e.type \in {"thread.turn-start-requested", "thread.session-set"}
  <2>1. u = t
    BY <1>6 DEF ProjectThread
  <2> QED BY <1>6, <2>1
<1> QED BY <1>1, <1>2, <1>3, <1>4, <1>5, <1>6 DEF EventTypes

-----------------------------------------------------------------------------
(* The two computations of what a revert keeps.                              *)

Below(S, m) == {k \in S : k.id <= m.id}

LEMMA OldestIsSmall ==
  ASSUME NEW S, IsFiniteSet(S), NEW k \in Nat, \A m \in S : m.id \in 0..k, NEW n \in Nat
  PROVE  IsFiniteSet(Oldest(S, n)) /\ Cardinality(Oldest(S, n)) <= n
<1> DEFINE B == Oldest(S, n)
           ids == {m.id : m \in B}
<1>1. B \subseteq S /\ \A m \in B : Cardinality(Below(S, m)) <= n
  BY DEF Oldest, Below
<1>2. IsFiniteSet(B)
  <2> HIDE DEF B
  <2> QED BY <1>1, FS_Subset
<1> HIDE DEF B
<1>3. CASE B = {}
  <2>1. Cardinality(B) = 0
    BY <1>3, FS_EmptySet
  <2> QED BY <1>2, <2>1 DEF B
<1>4. CASE B # {}
  <2>1. ids \in SUBSET (0..k) /\ ids # {}
    BY <1>1, <1>4
  <2> HIDE DEF ids
  <2>2. PICK x \in ids : \A y \in ids : y <= x
    BY <2>1, GreatestNatural
  <2>3. PICK m \in B : m.id = x
    BY <2>2 DEF ids
  <2>4. B \subseteq Below(S, m)
    BY <1>1, <2>2, <2>3 DEF ids, Below
  <2>5. IsFiniteSet(Below(S, m))
    <3>1. Below(S, m) \subseteq S
      BY DEF Below
    <3> QED BY <3>1, FS_Subset
  <2>6. /\ Cardinality(B) <= Cardinality(Below(S, m))
        /\ Cardinality(B) \in Nat /\ Cardinality(Below(S, m)) \in Nat
    BY <1>2, <2>4, <2>5, FS_Subset, FS_CardinalityType
  <2>7. Cardinality(Below(S, m)) <= n
    BY <1>1, <2>3
  <2>8. Cardinality(B) <= n
    BY <2>6, <2>7
  <2> QED BY <1>2, <2>8 DEF B
<1> QED BY <1>3, <1>4

\* Some of the oldest n, and the oldest of the others to fill up to n.
LEMMA OldestSplit ==
  ASSUME NEW S, IsFiniteSet(S), NEW k \in Nat, \A m \in S : m.id \in 0..k, NEW n \in Nat,
         NEW K \in SUBSET S, \A m \in K : Cardinality(Below(S, m)) <= n
  PROVE  Oldest(S, n) = K \cup Oldest(S \ K, n - Cardinality(K))
<1> DEFINE B == Oldest(S, n)
           R == S \ K
<1>1. /\ IsFiniteSet(B) /\ Cardinality(B) <= n
      /\ IsFiniteSet(K) /\ IsFiniteSet(R)
      /\ Cardinality(B) \in Nat /\ Cardinality(K) \in Nat
  <2>1. IsFiniteSet(B) /\ Cardinality(B) <= n
    BY OldestIsSmall
  <2>2. IsFiniteSet(K) /\ IsFiniteSet(R)
    <3>1. R \subseteq S
      OBVIOUS
    <3> HIDE DEF R
    <3> QED BY <3>1, FS_Subset
  <2> HIDE DEF B, R
  <2> QED BY <2>1, <2>2, FS_CardinalityType
<1>2. B \subseteq S /\ \A m \in S : m \in B <=> Cardinality(Below(S, m)) <= n
  BY DEF Oldest, Below
<1>3. K \subseteq B
  BY <1>2
<1>4. \A m \in R : m \in Oldest(R, n - Cardinality(K))
                     <=> Cardinality(Below(R, m)) <= n - Cardinality(K)
  BY DEF Oldest, Below
<1>5. Oldest(R, n - Cardinality(K)) \subseteq R
  BY DEF Oldest
<1>6. \A m \in S : /\ IsFiniteSet(Below(S, m)) /\ Cardinality(Below(S, m)) \in Nat
                   /\ IsFiniteSet(Below(R, m)) /\ Cardinality(Below(R, m)) \in Nat
  <2> TAKE m \in S
  <2>1. Below(S, m) \subseteq S /\ Below(R, m) \subseteq S
    BY DEF Below
  <2> QED BY <2>1, FS_Subset, FS_CardinalityType
<1>7. ASSUME NEW m \in B, m \notin K PROVE Cardinality(Below(R, m)) <= n - Cardinality(K)
  <2>1. ASSUME NEW x \in Below(R, m) PROVE x \in B \ K
    <3>1. x \in S /\ x \notin K /\ x.id <= m.id /\ m \in S
      BY <1>2, <2>1 DEF Below
    <3>2. x.id \in Nat /\ m.id \in Nat /\ \A y \in S : y.id \in Nat
      BY <3>1
    <3>3. Below(S, x) \subseteq Below(S, m)
      BY <3>1, <3>2 DEF Below
    <3>4. Cardinality(Below(S, x)) <= Cardinality(Below(S, m))
      BY <1>6, <3>1, <3>3, FS_Subset
    <3>5. Cardinality(Below(S, m)) <= n
      BY <1>2, <3>1
    <3>6. Cardinality(Below(S, x)) <= n
      BY <1>6, <3>1, <3>4, <3>5
    <3> QED BY <1>2, <3>1, <3>6
  <2>2. IsFiniteSet(B \ K) /\ Cardinality(B \ K) = Cardinality(B) - Cardinality(K)
    <3> HIDE DEF B
    <3>1. B \cap K = K
      BY <1>3
    <3>2. /\ IsFiniteSet(B \ K)
          /\ Cardinality(B \ K) = Cardinality(B) - Cardinality(B \cap K)
      BY <1>1, FS_Difference
    <3> QED BY <3>1, <3>2
  <2>3. Below(R, m) \subseteq B \ K
    BY <2>1
  <2> HIDE DEF B, R
  <2>4. Cardinality(Below(R, m)) <= Cardinality(B \ K)
    BY <2>2, <2>3, FS_Subset
  <2>5. Cardinality(Below(R, m)) \in Nat
    BY <1>2, <1>6
  <2> QED BY <1>1, <2>2, <2>4, <2>5
<1>8. ASSUME NEW m \in R, Cardinality(Below(R, m)) <= n - Cardinality(K) PROVE m \in B
  <2>1. Below(S, m) \subseteq Below(R, m) \cup K
    BY DEF Below
  <2>2. m \in S
    OBVIOUS
  <2> HIDE DEF B, R
  <2>3. /\ IsFiniteSet(Below(R, m) \cup K)
        /\ Cardinality(Below(R, m) \cup K)
             = Cardinality(Below(R, m)) + Cardinality(K) - Cardinality(Below(R, m) \cap K)
    BY <1>1, <1>6, <2>2, FS_Union
  <2>4. Cardinality(Below(R, m) \cap K) \in Nat
    <3>1. Below(R, m) \cap K \subseteq K
      OBVIOUS
    <3> QED BY <1>1, <3>1, FS_Subset, FS_CardinalityType
  <2>5. Cardinality(Below(S, m)) <= Cardinality(Below(R, m) \cup K)
    BY <2>1, <2>3, FS_Subset
  <2>6. Cardinality(Below(S, m)) <= n
    BY <1>1, <1>6, <1>8, <2>2, <2>3, <2>4, <2>5
  <2> QED BY <1>2, <2>2, <2>6
<1> HIDE DEF B
<1>9. B \subseteq K \cup Oldest(R, n - Cardinality(K))
  BY <1>2, <1>4, <1>7
<1>10. K \cup Oldest(R, n - Cardinality(K)) \subseteq B
  BY <1>3, <1>4, <1>5, <1>8
<1>11. B = K \cup Oldest(R, n - Cardinality(K))
  BY <1>9, <1>10
<1> QED BY <1>11 DEF B

\* Knowing which messages started the turns changes nothing if message n of the
\* user has started turn n.
LEMMA RetainAgrees ==
  ASSUME NEW messages \in SUBSET Messages, IsFiniteSet(messages),
         NEW k \in Nat, \A m \in messages : m.id \in 0..k,
         \A m \in messages : m.role = "user" => m.turn = None,
         NEW turns \in SUBSET Turns, NEW n \in Nat, NEW started,
         \A m \in messages : m.id \in started =>
            /\ m.role = "user"
            /\ Cardinality({x \in messages : x.role = "user" /\ x.id <= m.id}) <= n
  PROVE  Retain(messages, turns, {}, n) = Retain(messages, turns, started, n)
<1> DEFINE U == {m \in messages : m.role = "user"}
           K == {m \in messages : m.id \in started}
           A == {m \in messages : m.turn \in turns}
           byTurns == {m \in messages : m.turn \in turns \/ m.id \in {}}
           byBoth == {m \in messages : m.turn \in turns \/ m.id \in started}
           first == FillUp(messages, byTurns, turns, "user", n)
           second == FillUp(messages, byBoth, turns, "user", n)
<1>1. /\ IsFiniteSet(U) /\ K \in SUBSET U /\ \A m \in U : m.id \in 0..k
      /\ \A m \in K : Cardinality(Below(U, m)) <= n
  <2>1. U \subseteq messages /\ K \subseteq U
    OBVIOUS
  <2>2. \A m \in messages : Below(U, m) = {x \in messages : x.role = "user" /\ x.id <= m.id}
    BY DEF Below
  <2>3. \A m \in K : Cardinality(Below(U, m)) <= n
    BY <2>2
  <2>4. IsFiniteSet(U)
    <3> HIDE DEF U
    <3> QED BY <2>1, FS_Subset
  <2> QED BY <2>1, <2>3, <2>4
<1>2. Oldest(U, n) = K \cup Oldest(U \ K, n - Cardinality(K))
  <2> HIDE DEF U, K
  <2> QED BY <1>1, OldestSplit
<1>3. None \notin turns
  BY BootstrapAssumption
<1>4. byTurns = A /\ byBoth = A \cup K
  OBVIOUS
<1>5. \A m \in U : m \notin A
  BY <1>3
<1>6. first = A \cup Oldest(U, n)
  <2>1. {m \in A : m.role = "user"} = {}
    BY <1>5
  <2>2. Cardinality({m \in A : m.role = "user"}) = 0
    BY <2>1, FS_EmptySet
  <2>3. {m \in messages \ A : m.role = "user" /\ m.turn \in turns \cup {None}} = U
    BY <1>5
  <2> HIDE DEF U, K, A, byTurns
  <2>4. first = A \cup Oldest(U, n - 0)
    BY <1>4, <2>2, <2>3 DEF FillUp
  <2> QED BY <2>4
<1>7. second = (A \cup K) \cup Oldest(U \ K, n - Cardinality(K))
  <2>1. {m \in A \cup K : m.role = "user"} = K
    BY <1>1, <1>5
  <2>2. {m \in messages \ (A \cup K) : m.role = "user" /\ m.turn \in turns \cup {None}} = U \ K
    BY <1>5
  <2> HIDE DEF U, K, A, byBoth
  <2> QED BY <1>4, <2>1, <2>2 DEF FillUp
<1>8. first = second
  <2> HIDE DEF first, second, U, K, A
  <2> QED BY <1>2, <1>6, <1>7
<1>9. /\ Retain(messages, turns, {}, n) = FillUp(messages, first, turns, "assistant", n)
      /\ Retain(messages, turns, started, n) = FillUp(messages, second, turns, "assistant", n)
  BY DEF Retain
<1> HIDE DEF first, second
<1> QED BY <1>8, <1>9

-----------------------------------------------------------------------------
(* What is projected is of the log.                                          *)

\* A log that goes on says the same of what was there.
LEMMA EventsExtend ==
  ASSUME NEW l, NEW l2, Len(l) \in Nat, Len(l2) \in Nat, Len(l) <= Len(l2),
         \A i \in 1..Len(l) : l2[i] = l[i]
  PROVE  /\ \A i \in 1..Len(l) : EventAt(l, i) => EventAt(l2, i)
         /\ \A t : OfLog(l, t) => OfLog(l2, t)
<1>1. ASSUME NEW i \in 1..Len(l), EventAt(l, i) PROVE EventAt(l2, i)
  <2>1. l2[i] = l[i] /\ \A m \in 1..(i - 1) : l2[m] = l[m]
    OBVIOUS
  <2> QED BY <1>1, <2>1 DEF EventAt
<1>2. ASSUME NEW t, OfLog(l, t) PROVE OfLog(l2, t)
  <2>1. \A i \in 1..Len(l) : i \in 1..Len(l2)
    OBVIOUS
  <2> QED BY <1>2, <2>1 DEF OfLog
<1> QED BY <1>1, <1>2

LEMMA MessagesOfLog ==
  ASSUME NEW l, Len(l) \in Nat, NEW i \in 1..Len(l), EventAt(l, i),
         NEW t \in AllTables, OfLog(l, t)
  PROVE  OfLog(l, ApplyThreadMessages(t, l[i]))
<1> DEFINE e == l[i]
<1> DEFINE u == ApplyThreadMessages(t, e)
<1>1. Proper(e) /\ (IsMessage(e) => e.id = i)
  BY EventAtIs
<1> HIDE DEF e
<1> HIDE DEF u
<1>2. u.turns = t.turns /\ u.pending = t.pending
  BY <1>1, MessagesEffect DEF u
<1>3. ASSUME NEW m \in u.messages PROVE m \in t.messages \/ (IsMessage(e) /\ m = MessageOf(e))
  <2>1. IsMessage(e) => u.messages = t.messages \cup {MessageOf(e)}
    BY <1>1, MessagesEffect DEF u
  <2>2. IsRevert(e) => u.messages = KeptMessages(t, e.count)
    BY <1>1, MessagesEffect DEF u
  <2>3. IsMessage(e) \/ IsRevert(e) \/ u.messages = t.messages
    BY <1>1, MessagesEffect DEF u
  <2>4. KeptMessages(t, e.count) \subseteq t.messages
    BY RetainIsPart DEF KeptMessages
  <2> QED BY <1>3, <2>1, <2>2, <2>3, <2>4
<1>4. ASSUME NEW m \in u.messages
      PROVE  m.id \in 1..Len(l) /\ IsMessage(l[m.id]) /\ m = MessageOf(l[m.id])
  <2>1. m \in t.messages \/ (IsMessage(e) /\ m = MessageOf(e))
    BY <1>3, <1>4
  <2>2. CASE m \in t.messages
    BY <2>2 DEF OfLog
  <2>3. CASE IsMessage(e) /\ m = MessageOf(e)
    <3>1. m.id = i
      BY <1>1, <2>3 DEF MessageOf
    <3> QED BY <2>3, <3>1 DEF e
  <2> QED BY <2>1, <2>2, <2>3
<1>5. OfLog(l, u)
  BY <1>2, <1>4 DEF OfLog
<1> QED BY <1>5 DEF u, e

LEMMA PlansOfLog ==
  ASSUME NEW l, NEW t \in AllTables, NEW e, Proper(e), OfLog(l, t)
  PROVE  OfLog(l, ApplyThreadProposedPlans(t, e))
<1> DEFINE u == ApplyThreadProposedPlans(t, e)
<1>1. u.messages = t.messages /\ u.turns = t.turns /\ u.pending = t.pending
  BY PlansEffect
<1> HIDE DEF u
<1>2. OfLog(l, u)
  BY <1>1 DEF OfLog
<1> QED BY <1>2 DEF u

\* The messages that started turns, or are to start one.
Starters(t) == {t.pending} \cup {r.message : r \in t.turns}

LEMMA StartersAfter ==
  ASSUME NEW t \in AllTables, NEW e, Proper(e)
  PROVE  Starters(ApplyThreadTurns(t, e)) \subseteq
           Starters(t) \cup {None}
             \cup (IF e.type = "thread.turn-start-requested" THEN {e.id} ELSE {})
<1> DEFINE u == ApplyThreadTurns(t, e)
           S == Starters(t) \cup {None}
<1>1. t.turns \in SUBSET Rows /\ e.type \in EventTypes
  BY TablesFields DEF Proper
<1>2. \A r \in t.turns : r.message \in S
  BY DEF Starters
<1>3. ASSUME NEW turn \in Turns
      PROVE  RowOf(t.turns, turn) \in Rows /\ RowOf(t.turns, turn).message \in S
  BY <1>1, <1>2, <1>3, RowOfType
<1>4. t.pending \in S /\ None \in S
  BY DEF Starters
<1> HIDE DEF u, S
<1>5. CASE e.type = "thread.turn-start-requested"
  <2>1. u.turns = t.turns /\ u.pending = e.id
    BY <1>5, TurnsEffect DEF u
  <2> QED BY <1>2, <1>5, <2>1 DEF Starters, u, S
<1>6. CASE e.type = "thread.session-set"
  <2> DEFINE row == RowOf(t.turns, e.turn)
             new == [row EXCEPT !.message = IF @ = None THEN t.pending ELSE @]
  <2>1. e.turn \in Turns
    BY <1>6 DEF Proper
  <2>2. u.turns = Upsert(t.turns, new) /\ u.pending = None
    BY <1>6, TurnsEffect DEF u, StartRow
  <2>3. row \in Rows /\ row.message \in S
    BY <1>3, <2>1
  <2> HIDE DEF row
  <2>4. new.message \in S
    BY <1>4, <2>3 DEF Rows
  <2> HIDE DEF new
  <2>5. \A r \in u.turns : r.message \in S
    BY <1>2, <2>2, <2>4 DEF Upsert
  <2>6. Starters(u) \subseteq S
    BY <1>4, <2>2, <2>5 DEF Starters
  <2> QED BY <1>6, <2>6 DEF u, S
<1>7. CASE IsMessage(e)
  <2>1. u.pending = t.pending
    BY <1>7, TurnsEffect DEF u
  <2>2. CASE e.turn = None
    <3>1. u.turns = t.turns
      BY <1>7, <2>2, TurnsEffect DEF u
    <3> QED BY <1>2, <1>4, <2>1, <3>1 DEF Starters, u, S
  <2>3. CASE e.turn # None
    <3> DEFINE row == RowOf(t.turns, e.turn)
    <3>1. e.turn \in Turns
      BY <2>3 DEF Proper
    <3>2. u.turns = Upsert(t.turns, row)
      BY <1>7, <2>3, TurnsEffect DEF u
    <3>3. row.message \in S
      BY <1>3, <3>1
    <3> HIDE DEF row
    <3>4. \A r \in u.turns : r.message \in S
      BY <1>2, <3>2, <3>3 DEF Upsert
    <3>5. Starters(u) \subseteq S
      BY <1>4, <2>1, <3>4 DEF Starters
    <3> QED BY <3>5 DEF u, S
  <2> QED BY <2>2, <2>3
<1>8. CASE IsDiff(e)
  <2> DEFINE row == RowOf(t.turns, e.turn)
             new == [row EXCEPT !.count = e.count, !.status = e.status]
             cleared == {IF r.turn # e.turn /\ r.count = e.count
                         THEN [r EXCEPT !.count = None, !.status = None] ELSE r : r \in t.turns}
  <2>1. e.turn \in Turns
    BY <1>8 DEF Proper, IsDiff
  <2>2. u.turns = Upsert(cleared, new) /\ u.pending = t.pending
    <3>1. u.turns = CompleteRow(t.turns, e) /\ u.pending = t.pending
      BY <1>8, TurnsEffect DEF u
    <3>2. CompleteRow(t.turns, e) = Upsert(cleared, new)
      BY DEF CompleteRow
    <3> QED BY <3>1, <3>2
  <2>3. row \in Rows /\ row.message \in S
    BY <1>3, <2>1
  <2> HIDE DEF row
  <2>4. new.message \in S
    BY <2>3 DEF Rows
  <2>5. \A r \in t.turns : [r EXCEPT !.count = None, !.status = None].message = r.message
    BY <1>1 DEF Rows
  <2>6. \A r \in cleared : r.message \in S
    BY <1>2, <2>5
  <2> HIDE DEF new, cleared
  <2>7. \A r \in u.turns : r.message \in S
    BY <2>2, <2>4, <2>6 DEF Upsert
  <2>8. Starters(u) \subseteq S
    BY <1>4, <2>2, <2>7 DEF Starters
  <2> QED BY <2>8 DEF u, S
<1>9. CASE IsRevert(e)
  <2>1. u.turns = KeptRows(t.turns, e.count) /\ u.pending = None
    BY <1>9, TurnsEffect DEF u
  <2>2. u.turns \subseteq t.turns
    BY <2>1 DEF KeptRows
  <2>3. Starters(u) \subseteq S
    BY <1>2, <1>4, <2>1, <2>2 DEF Starters
  <2> QED BY <2>3 DEF u, S
<1>10. CASE IsPlan(e)
  <2>1. u.turns = t.turns /\ u.pending = t.pending
    BY <1>10, TurnsEffect DEF u
  <2> QED BY <2>1 DEF Starters, u, S
<1> QED BY <1>1, <1>5, <1>6, <1>7, <1>8, <1>9, <1>10
        DEF EventTypes, IsMessage, IsPlan, IsDiff, IsRevert

\* The counts of the rows of turns.
RowCounts(t) == {r.count : r \in t.turns}

LEMMA CountsAfter ==
  ASSUME NEW t \in AllTables, NEW e, Proper(e)
  PROVE  RowCounts(ApplyThreadTurns(t, e)) \subseteq
           RowCounts(t) \cup {None}
             \cup (IF IsDiff(e) THEN {e.count} ELSE {})
<1> DEFINE u == ApplyThreadTurns(t, e)
           S == RowCounts(t) \cup {None}
<1>1. t.turns \in SUBSET Rows /\ e.type \in EventTypes
  BY TablesFields DEF Proper
<1>2. \A r \in t.turns : r.count \in S
  BY DEF RowCounts
<1>3. ASSUME NEW turn \in Turns
      PROVE  RowOf(t.turns, turn) \in Rows /\ RowOf(t.turns, turn).count \in S
  BY <1>1, <1>2, <1>3, RowOfType
<1>4. None \in S
  BY DEF RowCounts
<1> HIDE DEF u, S
<1>5. CASE e.type = "thread.turn-start-requested"
  <2>1. u.turns = t.turns
    BY <1>5, TurnsEffect DEF u
  <2> QED BY <1>2, <2>1 DEF RowCounts, u, S
<1>6. CASE e.type = "thread.session-set"
  <2> DEFINE row == RowOf(t.turns, e.turn)
             new == [row EXCEPT !.message = IF @ = None THEN t.pending ELSE @]
  <2>1. e.turn \in Turns
    BY <1>6 DEF Proper
  <2>2. u.turns = Upsert(t.turns, new)
    BY <1>6, TurnsEffect DEF u, StartRow
  <2>3. row \in Rows /\ row.count \in S
    BY <1>3, <2>1
  <2> HIDE DEF row
  <2>4. new.count \in S
    BY <1>4, <2>3 DEF Rows
  <2> HIDE DEF new
  <2>5. \A r \in u.turns : r.count \in S
    BY <1>2, <2>2, <2>4 DEF Upsert
  <2>6. RowCounts(u) \subseteq S
    BY <1>4, <2>2, <2>5 DEF RowCounts
  <2> QED BY <1>6, <2>6 DEF u, S
<1>7. CASE IsMessage(e)
  <2>1. CASE e.turn = None
    <3>1. u.turns = t.turns
      BY <1>7, <2>1, TurnsEffect DEF u
    <3> QED BY <1>2, <3>1 DEF RowCounts, u, S
  <2>2. CASE e.turn # None
    <3> DEFINE row == RowOf(t.turns, e.turn)
    <3>1. e.turn \in Turns
      BY <2>2 DEF Proper
    <3>2. u.turns = Upsert(t.turns, row)
      BY <1>7, <2>2, TurnsEffect DEF u
    <3>3. row.count \in S
      BY <1>3, <3>1
    <3> HIDE DEF row
    <3>4. \A r \in u.turns : r.count \in S
      BY <1>2, <3>2, <3>3 DEF Upsert
    <3>5. RowCounts(u) \subseteq S
      BY <1>4, <3>4 DEF RowCounts
    <3> QED BY <3>5 DEF u, S
  <2> QED BY <2>1, <2>2
<1>8. CASE IsDiff(e)
  <2> DEFINE row == RowOf(t.turns, e.turn)
             new == [row EXCEPT !.count = e.count, !.status = e.status]
             cleared == {IF r.turn # e.turn /\ r.count = e.count
                         THEN [r EXCEPT !.count = None, !.status = None] ELSE r : r \in t.turns}
  <2>1. e.turn \in Turns
    BY <1>8 DEF Proper, IsDiff
  <2>2. u.turns = Upsert(cleared, new)
    <3>1. u.turns = CompleteRow(t.turns, e)
      BY <1>8, TurnsEffect DEF u
    <3>2. CompleteRow(t.turns, e) = Upsert(cleared, new)
      BY DEF CompleteRow
    <3> QED BY <3>1, <3>2
  <2>3. row \in Rows
    BY <1>3, <2>1
  <2> HIDE DEF row
  <2>4. new.count = e.count
    <3>1. \A r \in Rows : [r EXCEPT !.count = e.count, !.status = e.status].count = e.count
      BY DEF Rows
    <3> QED BY <2>3, <3>1
  <2>5. \A r \in t.turns : [r EXCEPT !.count = None, !.status = None].count = None
    BY <1>1 DEF Rows
  <2>6. \A r \in cleared : r.count \in S
    BY <1>2, <1>4, <2>5
  <2> HIDE DEF new, cleared
  <2>7. \A r \in u.turns : r.count \in S \/ r.count = e.count
    BY <2>2, <2>4, <2>6 DEF Upsert
  <2>8. RowCounts(u) \subseteq S \cup {e.count}
    BY <2>7 DEF RowCounts
  <2> QED BY <1>8, <2>8 DEF u, S
<1>9. CASE IsRevert(e)
  <2>1. u.turns = KeptRows(t.turns, e.count)
    BY <1>9, TurnsEffect DEF u
  <2>2. u.turns \subseteq t.turns
    BY <2>1 DEF KeptRows
  <2>3. RowCounts(u) \subseteq S
    BY <1>2, <1>4, <2>1, <2>2 DEF RowCounts
  <2> QED BY <2>3 DEF u, S
<1>10. CASE IsPlan(e)
  <2>1. u.turns = t.turns
    BY <1>10, TurnsEffect DEF u
  <2> QED BY <2>1 DEF RowCounts, u, S
<1> QED BY <1>1, <1>5, <1>6, <1>7, <1>8, <1>9, <1>10
        DEF EventTypes, IsMessage, IsPlan, IsDiff, IsRevert

LEMMA TurnsOfLog ==
  ASSUME NEW l, Len(l) \in Nat, NEW i \in 1..Len(l), EventAt(l, i),
         NEW t \in AllTables, OfLog(l, t)
  PROVE  OfLog(l, ApplyThreadTurns(t, l[i]))
<1> DEFINE u == ApplyThreadTurns(t, l[i])
<1>1. /\ Proper(l[i])
      /\ l[i].type = "thread.turn-start-requested" =>
           l[i].id \in 1..(i - 1) /\ l[l[i].id] = UserMessage(l[i].id)
      /\ IsDiff(l[i]) => l[i].count \in 1..i
  BY EventAtIs
<1>2. u.messages = t.messages
  BY <1>1, TurnsEffect
<1>3. ASSUME NEW id \in Starters(u), id # None
      PROVE  id \in 1..Len(l) /\ l[id] = UserMessage(id)
  <2>1. id \in Starters(t) \/ (l[i].type = "thread.turn-start-requested" /\ id = l[i].id)
    BY <1>1, <1>3, StartersAfter
  <2>2. CASE id \in Starters(t)
    BY <1>3, <2>2 DEF Starters, OfLog
  <2>3. CASE l[i].type = "thread.turn-start-requested" /\ id = l[i].id
    BY <1>1, <2>3
  <2> QED BY <2>1, <2>2, <2>3
<1>4. ASSUME NEW r \in u.turns, r.count # None PROVE r.count \in 1..Len(l)
  <2>1. r.count \in RowCounts(t) \/ (IsDiff(l[i]) /\ r.count = l[i].count)
    <3>1. r.count \in RowCounts(u)
      BY DEF RowCounts
    <3> QED BY <1>1, <1>4, <3>1, CountsAfter
  <2>2. CASE r.count \in RowCounts(t)
    BY <1>4, <2>2 DEF RowCounts, OfLog
  <2>3. CASE IsDiff(l[i]) /\ r.count = l[i].count
    BY <1>1, <2>3
  <2> QED BY <2>1, <2>2, <2>3
<1> HIDE DEF u
<1>5. OfLog(l, u)
  BY <1>2, <1>3, <1>4 DEF OfLog, Starters
<1> QED BY <1>5 DEF u

\* One projector, or all of them.
LEMMA ApplyOfLog ==
  ASSUME NEW l, Len(l) \in Nat, NEW i \in 1..Len(l), EventAt(l, i),
         NEW t \in AllTables, OfLog(l, t), NEW p
  PROVE  Apply(p, t, l[i]) \in AllTables /\ OfLog(l, Apply(p, t, l[i]))
<1>1. Proper(l[i])
  BY EventAtIs
<1>2. CASE p = "threadMessages"
  BY <1>1, <1>2, MessagesEffect, MessagesOfLog DEF Apply
<1>3. CASE p = "threadProposedPlans"
  BY <1>1, <1>3, PlansEffect, PlansOfLog DEF Apply
<1>4. CASE p = "threadTurns"
  BY <1>1, <1>4, TurnsEffect, TurnsOfLog DEF Apply
<1>5. CASE p \notin {"threadMessages", "threadProposedPlans", "threadTurns"}
  BY <1>5 DEF Apply
<1> QED BY <1>2, <1>3, <1>4, <1>5

LEMMA ProjectOfLog ==
  ASSUME NEW l, Len(l) \in Nat, NEW i \in 1..Len(l), EventAt(l, i),
         NEW t \in AllTables, OfLog(l, t)
  PROVE  ProjectEvent(t, l[i]) \in AllTables /\ OfLog(l, ProjectEvent(t, l[i]))
<1> DEFINE m == ApplyThreadMessages(t, l[i])
           p == ApplyThreadProposedPlans(m, l[i])
<1>1. Proper(l[i])
  BY EventAtIs
<1>2. m \in AllTables /\ OfLog(l, m)
  BY <1>1, MessagesEffect, MessagesOfLog
<1> HIDE DEF m
<1>3. p \in AllTables /\ OfLog(l, p)
  BY <1>1, <1>2, PlansEffect, PlansOfLog
<1> HIDE DEF p
<1>4. ApplyThreadTurns(p, l[i]) \in AllTables /\ OfLog(l, ApplyThreadTurns(p, l[i]))
  BY <1>1, <1>3, TurnsEffect, TurnsOfLog
<1> QED BY <1>4, ProjectEventIs DEF p, m

LEMMA CommitOne ==
  ASSUME BootstrapInv, NEW e, Commit(<<e>>)
  PROVE  /\ phase = "running" /\ Len(log) \in Nat /\ Len(log') = Len(log) + 1
         /\ log'[Len(log) + 1] = e /\ \A i \in 1..Len(log) : log'[i] = log[i]
         /\ tables' = ProjectEvent(tables, e) /\ live' = ProjectEvent(live, e)
         /\ thread' = ProjectThread(thread, e)
         /\ even' = (even /\ (IsRevert(e) => Aligned))
         /\ applied' = [p \in Projectors |-> Len(log) + 1]
         /\ UNCHANGED <<phase, catching, until, upgrade>>
<1> DEFINE A == {log[i] : i \in DOMAIN log} \cup {e}
<1>1. log \in Seq(A) /\ <<e>> \in Seq(A) /\ Len(<<e>>) = 1 /\ <<e>>[1] = e
  <2>1. log \in Seq({log[i] : i \in DOMAIN log})
    BY DEF BootstrapInv, LogIsASequence
  <2>2. {log[i] : i \in DOMAIN log} \subseteq A /\ e \in A
    OBVIOUS
  <2> HIDE DEF A
  <2> QED BY <2>1, <2>2, SeqMonotonic
<1>2. log' = log \o <<e>>
  BY DEF Commit
<1> HIDE DEF A
<1>3. /\ Len(log) \in Nat /\ Len(log') = Len(log) + 1
      /\ log'[Len(log) + 1] = e /\ \A i \in 1..Len(log) : log'[i] = log[i]
  BY <1>1, <1>2
<1>4. /\ tables' = ProjectEvent(tables, e) /\ live' = ProjectEvent(live, e)
      /\ thread' = ProjectThread(thread, e)
  BY ProjectEventsOne, ProjectThreadEventsOne DEF Commit
<1> QED BY <1>1, <1>3, <1>4 DEF Commit, IsRevert

LEMMA CommitTwo ==
  ASSUME BootstrapInv, NEW e, NEW f, Commit(<<e, f>>)
  PROVE  /\ phase = "running" /\ Len(log) \in Nat /\ Len(log') = Len(log) + 2
         /\ log'[Len(log) + 1] = e /\ log'[Len(log) + 2] = f
         /\ \A i \in 1..Len(log) : log'[i] = log[i]
         /\ tables' = ProjectEvent(ProjectEvent(tables, e), f)
         /\ live' = ProjectEvent(ProjectEvent(live, e), f)
         /\ thread' = ProjectThread(ProjectThread(thread, e), f)
         /\ even' = (even /\ (IsRevert(e) => Aligned))
         /\ applied' = [p \in Projectors |-> Len(log) + 2]
         /\ UNCHANGED <<phase, catching, until, upgrade>>
<1> DEFINE A == {log[i] : i \in DOMAIN log} \cup {e, f}
<1>1. log \in Seq(A) /\ <<e, f>> \in Seq(A) /\ Len(<<e, f>>) = 2
      /\ <<e, f>>[1] = e /\ <<e, f>>[2] = f
  <2>1. log \in Seq({log[i] : i \in DOMAIN log})
    BY DEF BootstrapInv, LogIsASequence
  <2>2. {log[i] : i \in DOMAIN log} \subseteq A /\ e \in A /\ f \in A
    OBVIOUS
  <2> HIDE DEF A
  <2> QED BY <2>1, <2>2, SeqMonotonic
<1>2. log' = log \o <<e, f>>
  BY DEF Commit
<1> HIDE DEF A
<1>3. /\ Len(log) \in Nat /\ Len(log') = Len(log) + 2
      /\ log'[Len(log) + 1] = e /\ log'[Len(log) + 2] = f
      /\ \A i \in 1..Len(log) : log'[i] = log[i]
  BY <1>1, <1>2
<1>4. /\ tables' = ProjectEvent(ProjectEvent(tables, e), f)
      /\ live' = ProjectEvent(ProjectEvent(live, e), f)
      /\ thread' = ProjectThread(ProjectThread(thread, e), f)
  BY ProjectEventsTwo, ProjectThreadEventsTwo DEF Commit
<1> QED BY <1>1, <1>3, <1>4 DEF Commit, IsRevert

\* The tables t and v and the thread th are of the types, and their messages of l.
AgreesOn(l, t, v, th) ==
  /\ t \in AllTables /\ v \in AllTables /\ th \in Threads
  /\ OfLog(l, t)
  /\ \A m \in th.messages : m.id \in 1..Len(l) /\ m = MessageOf(l[m.id])
  /\ \A c \in th.checkpoints : c.count \in 1..Len(l)

LEMMA AgreesOnProject ==
  ASSUME NEW l, Len(l) \in Nat, NEW i \in 1..Len(l), EventAt(l, i),
         NEW t, NEW v, NEW th, AgreesOn(l, t, v, th)
  PROVE  AgreesOn(l, ProjectEvent(t, l[i]), ProjectEvent(v, l[i]), ProjectThread(th, l[i]))
<1> DEFINE e == l[i]
           u == ProjectThread(th, e)
<1>1. /\ Proper(e) /\ (IsMessage(e) => e.id = i)
      /\ IsDiff(e) => e.count \in 1..Len(l)
  BY EventAtIs
<1>2. /\ t \in AllTables /\ v \in AllTables /\ th \in Threads /\ OfLog(l, t)
      /\ \A m \in th.messages : m.id \in 1..Len(l) /\ m = MessageOf(l[m.id])
      /\ \A c \in th.checkpoints : c.count \in 1..Len(l)
  BY DEF AgreesOn
<1>3. ProjectEvent(t, e) \in AllTables /\ OfLog(l, ProjectEvent(t, e))
  BY <1>2, ProjectOfLog
<1>4. ProjectEvent(v, e) \in AllTables
  BY <1>1, <1>2, ProjectEffect
<1>5. \A m \in {MessageOf(e)} : IsMessage(e) => m.id \in 1..Len(l) /\ m = MessageOf(l[m.id])
  BY <1>1 DEF MessageOf
<1> HIDE DEF e, u
<1>6. u \in Threads /\ \A m \in u.messages : m \in th.messages \/ (IsMessage(e) /\ m = MessageOf(e))
  <2>1. CASE IsMessage(e)
    BY <1>1, <1>2, <2>1, ThreadEffect DEF u
  <2>2. CASE IsPlan(e)
    BY <1>1, <1>2, <2>2, ThreadEffect DEF u
  <2>3. CASE IsDiff(e)
    BY <1>1, <1>2, <2>3, ThreadEffect DEF u
  <2>4. CASE IsRevert(e)
    <3>1. u \in Threads /\ u = RevertThread(th, e.count)
      BY <1>1, <1>2, <2>4, ThreadEffect DEF u
    <3>2. u.messages \subseteq th.messages
      BY <3>1, RetainIsPart DEF RevertThread
    <3> QED BY <3>1, <3>2
  <2>5. CASE e.type \in {"thread.turn-start-requested", "thread.session-set"}
    BY <1>1, <1>2, <2>5, ThreadEffect DEF u
  <2> QED BY <1>1, <2>1, <2>2, <2>3, <2>4, <2>5
          DEF Proper, EventTypes, IsMessage, IsPlan, IsDiff, IsRevert
<1>7. \A m \in u.messages : m.id \in 1..Len(l) /\ m = MessageOf(l[m.id])
  BY <1>2, <1>5, <1>6
<1>8. \A c \in u.checkpoints : c \in th.checkpoints \/ (IsDiff(e) /\ c = CheckpointOf(e))
  <2>1. CASE IsMessage(e)
    BY <1>1, <1>2, <2>1, ThreadEffect DEF u
  <2>2. CASE IsPlan(e)
    BY <1>1, <1>2, <2>2, ThreadEffect DEF u
  <2>3. CASE IsDiff(e)
    <3>1. u.checkpoints = Complete(th.checkpoints, CheckpointOf(e))
      BY <1>1, <1>2, <2>3, ThreadEffect DEF u
    <3> QED BY <2>3, <3>1 DEF Complete
  <2>4. CASE IsRevert(e)
    <3>1. u = RevertThread(th, e.count)
      BY <1>1, <1>2, <2>4, ThreadEffect DEF u
    <3> QED BY <3>1 DEF RevertThread, RevertTo
  <2>5. CASE e.type \in {"thread.turn-start-requested", "thread.session-set"}
    BY <1>1, <1>2, <2>5, ThreadEffect DEF u
  <2> QED BY <1>1, <2>1, <2>2, <2>3, <2>4, <2>5
          DEF Proper, EventTypes, IsMessage, IsPlan, IsDiff, IsRevert
<1>9. \A c \in u.checkpoints : c.count \in 1..Len(l)
  BY <1>1, <1>2, <1>8 DEF CheckpointOf
<1>10. AgreesOn(l, ProjectEvent(t, e), ProjectEvent(v, e), u)
  BY <1>3, <1>4, <1>6, <1>7, <1>9 DEF AgreesOn
<1> QED BY <1>10 DEF u, e

\* The thread has the messages and plans of the tables.
SameShown(th, t) == th.messages = t.messages /\ th.plans = t.plans

LEMMA SameShownProject ==
  ASSUME NEW t \in AllTables, NEW th \in Threads, NEW e, Proper(e), ~IsRevert(e),
         SameShown(th, t)
  PROVE  SameShown(ProjectThread(th, e), ProjectEvent(t, e))
<1> DEFINE u == ProjectThread(th, e)
           m == ApplyThreadMessages(t, e)
           p == ApplyThreadProposedPlans(t, e)
           w == ProjectEvent(t, e)
<1>1. w.messages = m.messages /\ w.plans = p.plans
  BY ProjectEffect
<1>2. th.messages = t.messages /\ th.plans = t.plans
  BY DEF SameShown
<1> HIDE DEF u, m, p, w
<1>3. /\ IsMessage(e) => m.messages = t.messages \cup {MessageOf(e)}
      /\ IsMessage(e) \/ m.messages = t.messages
  BY MessagesEffect DEF m
<1>4. /\ IsPlan(e) => p.plans = UpsertPlan(t.plans, PlanOf(e))
      /\ IsPlan(e) \/ p.plans = t.plans
  BY PlansEffect DEF p
<1>5. SameShown(u, w)
  <2>1. CASE IsMessage(e)
    <3>1. u.messages = th.messages \cup {MessageOf(e)} /\ u.plans = th.plans
      BY <2>1, ThreadEffect DEF u
    <3>2. ~IsPlan(e)
      BY <2>1 DEF IsMessage, IsPlan
    <3> QED BY <1>1, <1>2, <1>3, <1>4, <2>1, <3>1, <3>2 DEF SameShown
  <2>2. CASE IsPlan(e)
    <3>1. u.plans = UpsertPlan(th.plans, PlanOf(e)) /\ u.messages = th.messages
      BY <2>2, ThreadEffect DEF u
    <3>2. ~IsMessage(e)
      BY <2>2 DEF IsMessage, IsPlan
    <3> QED BY <1>1, <1>2, <1>3, <1>4, <2>2, <3>1, <3>2 DEF SameShown
  <2>3. CASE ~IsMessage(e) /\ ~IsPlan(e)
    <3>1. u.plans = th.plans /\ u.messages = th.messages
      <4>1. CASE IsDiff(e)
        BY <4>1, ThreadEffect DEF u
      <4>2. CASE e.type \in {"thread.turn-start-requested", "thread.session-set"}
        BY <4>2, ThreadEffect DEF u
      <4> QED BY <2>3, <4>1, <4>2
              DEF Proper, EventTypes, IsMessage, IsPlan, IsDiff, IsRevert
    <3> QED BY <1>1, <1>2, <1>3, <1>4, <2>3, <3>1 DEF SameShown
  <2> QED BY <2>1, <2>2, <2>3
<1> QED BY <1>5 DEF u, w

\* There are no more messages than events.
LEMMA MessagesAreFinite ==
  ASSUME NEW l, Len(l) \in Nat, NEW t \in AllTables, OfLog(l, t)
  PROVE  IsFiniteSet(t.messages)
<1> DEFINE T == {MessageOf(l[i]) : i \in 1..Len(l)}
           f == [i \in 1..Len(l) |-> MessageOf(l[i])]
<1>1. f \in Surjection(1..Len(l), T)
  BY DEF Surjection
<1>2. IsFiniteSet(1..Len(l))
  BY FS_Interval
<1> HIDE DEF f
<1>3. IsFiniteSet(T)
  <2> HIDE DEF T
  <2> QED BY <1>1, <1>2, FS_Surjection
<1>4. t.messages \subseteq T
  BY DEF OfLog
<1> HIDE DEF T
<1> QED BY <1>3, <1>4, FS_Subset

\* Where message n of the user started turn n, the rows of turns and the checkpoints
\* of the read model lead to the same messages and plans.
LEMMA SameShownRevert ==
  ASSUME Len(log) \in Nat, AgreeInv, Aligned, SameShown(thread, tables),
         NEW e, Proper(e), IsRevert(e)
  PROVE  SameShown(ProjectThread(thread, e), ProjectEvent(tables, e))
<1> DEFINE n == e.count
           kept == KeptRows(tables.turns, n)
           turns == {r.turn : r \in kept}
           started == {r.message : r \in kept}
           users == {m \in tables.messages : m.role = "user"}
<1>1. /\ tables \in AllTables /\ thread \in Threads /\ OfLog(log, tables)
      /\ tables.messages \in SUBSET Messages /\ tables.turns \in SUBSET Rows
      /\ thread.checkpoints \in SUBSET ReadCheckpoints /\ n \in Nat
  BY TablesFields, ThreadFields DEF AgreeInv, Proper
<1>2. \A i \in 1..Len(log) : EventAt(log, i)
  BY DEF AgreeInv, LogIsWellFormed
<1>3. {c.turn : c \in RevertTo(thread.checkpoints, n)} = turns
  <2> DEFINE rows == {r \in tables.turns : r.count # None}
             P == {[turn |-> r.turn, count |-> r.count] : r \in rows}
             Q == {[turn |-> c.turn, count |-> c.count] : c \in thread.checkpoints}
  <2>1. P = Q
    BY DEF Aligned
  <2>2. ASSUME NEW r \in kept
        PROVE  \E c \in RevertTo(thread.checkpoints, n) : c.turn = r.turn
    <3>1. r \in rows /\ r.count <= n
      BY DEF KeptRows
    <3>2. [turn |-> r.turn, count |-> r.count] \in Q
      BY <2>1, <3>1
    <3>3. PICK c \in thread.checkpoints :
            [turn |-> r.turn, count |-> r.count] = [turn |-> c.turn, count |-> c.count]
      BY <3>2
    <3>4. c.turn = r.turn /\ c.count = r.count
      BY <3>3
    <3> QED BY <3>1, <3>4 DEF RevertTo
  <2>3. ASSUME NEW c \in RevertTo(thread.checkpoints, n)
        PROVE  \E r \in kept : r.turn = c.turn
    <3>1. c \in thread.checkpoints /\ c.count <= n
      BY DEF RevertTo
    <3>2. [turn |-> c.turn, count |-> c.count] \in P
      BY <2>1, <3>1
    <3>3. PICK r \in rows :
            [turn |-> r.turn, count |-> r.count] = [turn |-> c.turn, count |-> c.count]
      BY <3>2
    <3>4. c.turn = r.turn /\ c.count = r.count
      BY <3>3
    <3> QED BY <3>1, <3>3, <3>4 DEF KeptRows
  <2> HIDE DEF kept
  <2> QED BY <2>2, <2>3
<1>4. /\ IsFiniteSet(tables.messages)
      /\ \A m \in tables.messages : m.id \in 0..Len(log)
      /\ \A m \in tables.messages : m.role = "user" => m.turn = None
  <2>1. \A m \in tables.messages :
          m.id \in 1..Len(log) /\ IsMessage(log[m.id]) /\ m = MessageOf(log[m.id])
    BY <1>1 DEF OfLog
  <2>2. ASSUME NEW m \in tables.messages, m.role = "user" PROVE m.turn = None
    <3>1. /\ m.id \in 1..Len(log) /\ IsMessage(log[m.id])
          /\ m.turn = log[m.id].turn /\ m.role = log[m.id].role
      BY <2>1 DEF MessageOf
    <3>2. log[m.id] = UserMessage(m.id)
      BY <1>2, <2>2, <3>1, EventAtIs
    <3> QED BY <3>1, <3>2 DEF UserMessage, Event
  <2> QED BY <1>1, <2>1, <2>2, MessagesAreFinite
<1>5. turns \in SUBSET Turns
  <2>1. \A r \in kept : r.turn \in Turns
    BY <1>1 DEF KeptRows, Rows
  <2> HIDE DEF kept
  <2> QED BY <2>1
<1>6. ASSUME NEW m \in tables.messages, m.id \in started
      PROVE  /\ m.role = "user"
             /\ Cardinality({x \in tables.messages : x.role = "user" /\ x.id <= m.id}) <= n
  <2>1. PICK r \in kept : m.id = r.message
    BY <1>6
  <2>2. r \in tables.turns /\ r.count # None /\ r.count <= n
    BY DEF KeptRows
  <2>3. r.message # None /\ Cardinality({x \in users : x.id <= r.message}) = r.count
    BY <2>2 DEF Aligned
  <2>4. log[m.id] = UserMessage(m.id) /\ m = MessageOf(log[m.id])
    BY <1>1, <2>1, <2>2, <2>3 DEF OfLog
  <2>5. m.role = "user"
    BY <2>4 DEF UserMessage, Event, MessageOf
  <2>6. {x \in users : x.id <= r.message}
          = {x \in tables.messages : x.role = "user" /\ x.id <= m.id}
    BY <2>1
  <2> QED BY <2>2, <2>3, <2>5, <2>6
<1> HIDE DEF turns, started
<1>7. Retain(tables.messages, turns, {}, n) = Retain(tables.messages, turns, started, n)
  BY <1>1, <1>4, <1>5, <1>6, RetainAgrees
<1>8. /\ ProjectThread(thread, e).messages = Retain(tables.messages, turns, {}, n)
      /\ ProjectThread(thread, e).plans = RetainPlans(tables.plans, turns)
  <2>1. ProjectThread(thread, e) = RevertThread(thread, n)
    BY <1>1, ThreadEffect
  <2> DEFINE T == {c.turn : c \in RevertTo(thread.checkpoints, n)}
  <2>2. /\ RevertThread(thread, n).messages = Retain(thread.messages, T, {}, n)
        /\ RevertThread(thread, n).plans = RetainPlans(thread.plans, T)
    BY DEF RevertThread
  <2>3. T = turns
    BY <1>3
  <2> HIDE DEF T
  <2> QED BY <2>1, <2>2, <2>3 DEF SameShown
<1>9. /\ ProjectEvent(tables, e).messages = Retain(tables.messages, turns, started, n)
      /\ ProjectEvent(tables, e).plans = RetainPlans(tables.plans, turns)
  <2>1. /\ ProjectEvent(tables, e).messages = ApplyThreadMessages(tables, e).messages
        /\ ProjectEvent(tables, e).plans = ApplyThreadProposedPlans(tables, e).plans
    BY <1>1, ProjectEffect
  <2>2. ApplyThreadMessages(tables, e).messages = KeptMessages(tables, n)
    BY <1>1, MessagesEffect
  <2>3. ApplyThreadProposedPlans(tables, e).plans = KeptPlans(tables, n)
    BY <1>1, PlansEffect
  <2> QED BY <2>1, <2>2, <2>3 DEF KeptMessages, KeptPlans, turns, started
<1> QED BY <1>7, <1>8, <1>9 DEF SameShown

-----------------------------------------------------------------------------
(* What the tables and the read model show follows the log.                  *)

LEMMA AgreeCommitOne ==
  ASSUME BootstrapInv, AgreeInv, NEW e, Commit(<<e>>),
         EventAt(log', Len(log) + 1)
  PROVE  AgreeInv'
<1> DEFINE N == Len(log)
<1>1. /\ phase = "running" /\ phase' = "running" /\ N \in Nat /\ Len(log') = N + 1
      /\ log'[N + 1] = e /\ \A i \in 1..N : log'[i] = log[i]
      /\ tables' = ProjectEvent(tables, e) /\ live' = ProjectEvent(live, e)
      /\ thread' = ProjectThread(thread, e)
      /\ even' = (even /\ (IsRevert(e) => Aligned))
  BY CommitOne
<1>2. /\ \A i \in 1..N : EventAt(log, i) => EventAt(log', i)
      /\ OfLog(log, tables) => OfLog(log', tables)
  BY <1>1, EventsExtend
<1>3. N + 1 \in 1..Len(log') /\ Proper(e)
  <2>1. N + 1 \in 1..Len(log') /\ N + 1 \in Nat \ {0}
    BY <1>1
  <2> QED BY <1>1, <2>1, EventAtIs
<1>4. LogIsWellFormed'
  <2>1. \A i \in 1..Len(log') : i \in 1..N \/ i = N + 1
    BY <1>1
  <2> QED BY <1>1, <1>2, <2>1 DEF AgreeInv, LogIsWellFormed
<1>5. AgreesOn(log', tables, live, thread)
  <2>1. /\ \A m \in thread.messages : m.id \in 1..N /\ m = MessageOf(log[m.id])
        /\ \A c \in thread.checkpoints : c.count \in 1..N
    BY <1>1 DEF AgreeInv, ShownFollows
  <2>2. /\ \A m \in thread.messages : m.id \in 1..Len(log') /\ m = MessageOf(log'[m.id])
        /\ \A c \in thread.checkpoints : c.count \in 1..Len(log')
    BY <1>1, <2>1
  <2> QED BY <1>2, <2>2 DEF AgreeInv, AgreesOn
<1>6. AgreesOn(log', tables', live', thread')
  <2>1. AgreesOn(log', ProjectEvent(tables, log'[N + 1]), ProjectEvent(live, log'[N + 1]),
                 ProjectThread(thread, log'[N + 1]))
    <3> DEFINE l == log'
    <3>1. Len(l) \in Nat /\ N + 1 \in 1..Len(l) /\ EventAt(l, N + 1)
          /\ AgreesOn(l, tables, live, thread)
      BY <1>1, <1>3, <1>5
    <3> HIDE DEF l, N
    <3>2. AgreesOn(l, ProjectEvent(tables, l[N + 1]), ProjectEvent(live, l[N + 1]),
                   ProjectThread(thread, l[N + 1]))
      BY <3>1, AgreesOnProject
    <3> QED BY <3>2 DEF l
  <2> QED BY <1>1, <2>1
<1>7. ASSUME even' PROVE SameShown(thread', tables')
  <2>1. even /\ (IsRevert(e) => Aligned)
    BY <1>1, <1>7
  <2>2. SameShown(thread, tables) /\ tables \in AllTables /\ thread \in Threads
    BY <1>1, <2>1 DEF AgreeInv, ShownFollows, SameShown
  <2>3. SameShown(ProjectThread(thread, e), ProjectEvent(tables, e))
    <3>1. CASE IsRevert(e)
      BY <1>1, <1>3, <2>1, <2>2, <3>1, SameShownRevert
    <3>2. CASE ~IsRevert(e)
      BY <1>3, <2>2, <3>2, SameShownProject
    <3> QED BY <3>1, <3>2
  <2> QED BY <1>1, <2>3
<1>8. ShownFollows'
  BY <1>6, <1>7 DEF ShownFollows, AgreesOn, SameShown
<1> QED BY <1>4, <1>6, <1>8 DEF AgreeInv, AgreesOn

LEMMA AgreeSendMessage ==
  ASSUME BootstrapInv, AgreeInv, SendMessage
  PROVE  AgreeInv'
<1> DEFINE N == Len(log)
           e == UserMessage(N + 1)
           f == TurnStartRequested(N + 1)
           l == log'
           t == ProjectEvent(tables, e)
           v == ProjectEvent(live, e)
           th == ProjectThread(thread, e)
<1>1. ~IsRevert(e) /\ ~IsRevert(f)
  BY DEF IsRevert, UserMessage, TurnStartRequested, Event
<1> HIDE DEF e, f
<1>2. /\ phase = "running" /\ phase' = "running" /\ N \in Nat /\ Len(l) = N + 2
      /\ l[N + 1] = e /\ l[N + 2] = f /\ \A i \in 1..N : l[i] = log[i]
      /\ tables' = ProjectEvent(t, f) /\ live' = ProjectEvent(v, f)
      /\ thread' = ProjectThread(th, f)
      /\ even' => even
  <2>1. Commit(<<e, f>>)
    BY DEF SendMessage, e, f
  <2>2. even' = (even /\ (IsRevert(e) => Aligned))
    BY <2>1, CommitTwo
  <2>3. even' => even
    BY <2>2
  <2>4. /\ phase = "running" /\ phase' = "running" /\ N \in Nat /\ Len(l) = N + 2
        /\ l[N + 1] = e /\ l[N + 2] = f /\ \A i \in 1..N : l[i] = log[i]
    BY <2>1, CommitTwo
  <2>5. /\ tables' = ProjectEvent(t, f) /\ live' = ProjectEvent(v, f)
        /\ thread' = ProjectThread(th, f)
    BY <2>1, CommitTwo
  <2> QED BY <2>3, <2>4, <2>5
<1>3. EventAt(l, N + 1) /\ EventAt(l, N + 2)
  <2>1. EventAt(l, N + 1)
    BY <1>2 DEF EventAt, e
  <2>2. N + 1 \in 1..((N + 2) - 1) /\ l[N + 1] = UserMessage(N + 1)
        /\ l[N + 2] = TurnStartRequested(N + 1)
    BY <1>2 DEF e, f
  <2> QED BY <2>1, <2>2 DEF EventAt
<1>4. /\ \A i \in 1..N : EventAt(log, i) => EventAt(l, i)
      /\ OfLog(log, tables) => OfLog(l, tables)
  BY <1>2, EventsExtend
<1>5. N + 1 \in 1..Len(l) /\ N + 2 \in 1..Len(l) /\ Proper(e) /\ Proper(f)
  <2>1. N + 1 \in 1..Len(l) /\ N + 1 \in Nat \ {0} /\ N + 2 \in 1..Len(l) /\ N + 2 \in Nat \ {0}
    BY <1>2
  <2>2. Proper(l[N + 1]) /\ Proper(l[N + 2])
    <3> HIDE DEF l, N
    <3> QED BY <1>3, <2>1, EventAtIs
  <2> QED BY <1>2, <2>1, <2>2
<1>6. LogIsWellFormed'
  <2>1. \A i \in 1..Len(l) : i \in 1..N \/ i = N + 1 \/ i = N + 2
    BY <1>2
  <2> QED BY <1>3, <1>4, <2>1 DEF AgreeInv, LogIsWellFormed
<1>7. AgreesOn(l, tables, live, thread)
  <2>1. /\ \A m \in thread.messages : m.id \in 1..N /\ m = MessageOf(log[m.id])
        /\ \A c \in thread.checkpoints : c.count \in 1..N
    BY <1>2 DEF AgreeInv, ShownFollows
  <2>2. /\ \A m \in thread.messages : m.id \in 1..Len(l) /\ m = MessageOf(l[m.id])
        /\ \A c \in thread.checkpoints : c.count \in 1..Len(l)
    BY <1>2, <2>1
  <2> QED BY <1>4, <2>2 DEF AgreeInv, AgreesOn
<1>8. AgreesOn(l, t, v, th)
  <2>1. Len(l) \in Nat
    BY <1>2
  <2> HIDE DEF l, N
  <2>2. AgreesOn(l, ProjectEvent(tables, l[N + 1]), ProjectEvent(live, l[N + 1]),
                 ProjectThread(thread, l[N + 1]))
    BY <1>3, <1>5, <1>7, <2>1, AgreesOnProject
  <2> QED BY <1>2, <2>2
<1>9. AgreesOn(l, tables', live', thread')
  <2>1. Len(l) \in Nat
    BY <1>2
  <2> HIDE DEF l, N, t, v, th
  <2>2. AgreesOn(l, ProjectEvent(t, l[N + 2]), ProjectEvent(v, l[N + 2]),
                 ProjectThread(th, l[N + 2]))
    BY <1>3, <1>5, <1>8, <2>1, AgreesOnProject
  <2> QED BY <1>2, <2>2
<1>10. ASSUME even' PROVE SameShown(thread', tables')
  <2>1. SameShown(thread, tables) /\ tables \in AllTables /\ thread \in Threads
    BY <1>2, <1>10 DEF AgreeInv, ShownFollows, SameShown
  <2>2. SameShown(th, t) /\ t \in AllTables /\ th \in Threads
    BY <1>1, <1>5, <1>8, <2>1, SameShownProject DEF AgreesOn
  <2> HIDE DEF t, th
  <2>3. SameShown(ProjectThread(th, f), ProjectEvent(t, f))
    BY <1>1, <1>5, <2>2, SameShownProject
  <2> QED BY <1>2, <2>3
<1>11. ShownFollows'
  BY <1>9, <1>10 DEF ShownFollows, AgreesOn, SameShown
<1> QED BY <1>6, <1>9, <1>11 DEF AgreeInv, AgreesOn

\* A diff is recorded with a count that is at most one above those given so far.
LEMMA CountOfDiff ==
  ASSUME BootstrapInv, AgreeInv, NEW turn \in Turns, NEW status \in {"ready", "missing"},
         CompleteDiff(turn, status)
  PROVE  \E count \in 1..(Len(log) + 1) : Commit(<<DiffCompleted(turn, count, status)>>)
<1>1. PICK n \in {0} \cup Given : Commit(<<DiffCompleted(turn, n + 1, status)>>)
  BY DEF CompleteDiff
<1>2. Len(log) \in Nat
  BY <1>1, CommitOne
<1>3. n \in 0..Len(log)
  <2>1. CASE n = 0
    BY <1>2, <2>1
  <2>2. CASE n \in Given
    <3>1. PICK i \in DOMAIN log : IsDiff(log[i]) /\ n = log[i].count
      BY <2>2 DEF Given, IsDiff
    <3>2. DOMAIN log = 1..Len(log)
      BY DEF BootstrapInv, LogIsASequence
    <3>3. i \in 1..Len(log) /\ i \in Nat \ {0} /\ EventAt(log, i)
      BY <1>2, <3>2 DEF AgreeInv, LogIsWellFormed
    <3>4. log[i].count \in 1..i
      BY <3>1, <3>3, EventAtIs
    <3> QED BY <1>2, <3>1, <3>3, <3>4
  <2> QED BY <2>1, <2>2
<1> QED BY <1>1, <1>2, <1>3

LEMMA AgreeCommand ==
  ASSUME BootstrapInv, AgreeInv,
         \/ SendMessage
         \/ \E turn \in Turns :
              \/ RunTurn(turn) \/ Answer(turn) \/ ProposePlan(turn)
              \/ \E status \in {"ready", "missing"} : CompleteDiff(turn, status)
         \/ \E n \in 0..MaxEvents : CompleteRevert(n)
  PROVE  AgreeInv'
<1> DEFINE N == Len(log)
<1>1. ASSUME NEW turn \in Turns, RunTurn(turn) PROVE AgreeInv'
  <2>1. Commit(<<SessionSet(turn)>>)
    BY <1>1 DEF RunTurn
  <2>2. log'[N + 1] = SessionSet(turn)
    BY <2>1, CommitOne
  <2>3. EventAt(log', N + 1)
    BY <2>2 DEF EventAt
  <2> QED BY <2>1, <2>3, AgreeCommitOne
<1>2. ASSUME NEW turn \in Turns, Answer(turn) PROVE AgreeInv'
  <2>1. Commit(<<AssistantMessage(N + 1, turn)>>)
    BY <1>2 DEF Answer
  <2>2. log'[N + 1] = AssistantMessage(N + 1, turn)
    BY <2>1, CommitOne
  <2>3. EventAt(log', N + 1)
    BY <2>2 DEF EventAt
  <2> QED BY <2>1, <2>3, AgreeCommitOne
<1>3. ASSUME NEW turn \in Turns, ProposePlan(turn) PROVE AgreeInv'
  <2>1. Commit(<<PlanUpserted(N + 1, turn)>>)
    BY <1>3 DEF ProposePlan
  <2>2. log'[N + 1] = PlanUpserted(N + 1, turn)
    BY <2>1, CommitOne
  <2>3. EventAt(log', N + 1)
    BY <2>2 DEF EventAt
  <2> QED BY <2>1, <2>3, AgreeCommitOne
<1>4. ASSUME NEW turn \in Turns, NEW status \in {"ready", "missing"}, CompleteDiff(turn, status)
      PROVE  AgreeInv'
  <2>1. PICK count \in 1..(N + 1) : Commit(<<DiffCompleted(turn, count, status)>>)
    BY <1>4, CountOfDiff
  <2>2. log'[N + 1] = DiffCompleted(turn, count, status)
    BY <2>1, CommitOne
  <2>3. DiffCompleted(turn, count, status).count = count
    BY DEF DiffCompleted, Event
  <2>4. EventAt(log', N + 1)
    BY <2>2, <2>3 DEF EventAt
  <2> QED BY <2>1, <2>4, AgreeCommitOne
<1>5. ASSUME NEW n \in 0..MaxEvents, CompleteRevert(n) PROVE AgreeInv'
  <2>1. Commit(<<Reverted(n)>>)
    BY <1>5 DEF CompleteRevert
  <2>2. log'[N + 1] = Reverted(n)
    BY <2>1, CommitOne
  <2>3. Reverted(n).count = n /\ n \in Nat
    BY DEF Reverted, Event
  <2>4. EventAt(log', N + 1)
    BY <2>2, <2>3 DEF EventAt
  <2> QED BY <2>1, <2>4, AgreeCommitOne
<1> QED BY <1>1, <1>2, <1>3, <1>4, <1>5, AgreeSendMessage

\* A crash forgets the thread of the read model.
LEMMA EmptyTypes == EmptyTables \in AllTables /\ EmptyThread \in Threads
BY DEF EmptyTables, EmptyThread, AllTables, Threads

LEMMA AgreeCrash ==
  ASSUME AgreeInv, Crash
  PROVE  AgreeInv'
<1>1. phase' = "down" /\ thread' = EmptyThread /\ UNCHANGED <<log, tables, live>>
  BY DEF Crash, store, ghosts
<1> QED BY <1>1, EmptyTypes DEF AgreeInv, LogIsWellFormed, ShownFollows

LEMMA AgreeUpgrade ==
  ASSUME AgreeInv, Upgrade
  PROVE  AgreeInv'
<1>1. PICK new \in Upgrades :
        tables' = [messages |-> IF "threadMessages" \in new THEN {} ELSE tables.messages,
                   plans |-> IF "threadProposedPlans" \in new THEN {} ELSE tables.plans,
                   turns |-> IF "threadTurns" \in new THEN {} ELSE tables.turns,
                   pending |-> IF "threadTurns" \in new THEN None ELSE tables.pending]
  BY DEF Upgrade
<1>2. phase = "down" /\ phase' = "down" /\ UNCHANGED <<log, thread, live>>
  BY DEF Upgrade, memory
<1>3. /\ tables'.messages \subseteq tables.messages /\ tables'.turns \subseteq tables.turns
      /\ tables'.plans \subseteq tables.plans /\ tables'.pending \in {tables.pending, None}
  BY <1>1
<1>4. tables' \in AllTables
  BY <1>1, <1>3 DEF AgreeInv, AllTables
<1>5. OfLog(log, tables')
  BY <1>3 DEF AgreeInv, OfLog
<1> QED BY <1>2, <1>4, <1>5 DEF AgreeInv, LogIsWellFormed, ShownFollows

LEMMA AgreeRunProjector ==
  ASSUME BootstrapInv, AgreeInv, RunProjector
  PROVE  AgreeInv'
<1> DEFINE p == Order[catching]
           i == applied[p] + 1
<1>1. /\ phase = "bootstrap" /\ catching <= Len(Order) /\ until # None /\ applied[p] < until
      /\ tables' = Apply(p, tables, log[i])
      /\ UNCHANGED <<log, phase, thread, even, live>>
  BY DEF RunProjector, memory, ghosts
<1>2. Len(log) \in Nat /\ i \in 1..Len(log)
  <2>1. applied[p] \in Nat /\ Len(log) \in Nat
    BY <1>1, CatchingType
  <2>2. until \in applied[p]..Len(log)
    BY <1>1 DEF BootstrapInv, StreamReachesTheEnd
  <2> QED BY <1>1, <2>1, <2>2
<1> HIDE DEF i, p
<1>3. tables' \in AllTables /\ OfLog(log, tables')
  BY <1>1, <1>2, ApplyOfLog DEF AgreeInv, LogIsWellFormed
<1> QED BY <1>1, <1>3 DEF AgreeInv, LogIsWellFormed, ShownFollows

LEMMA AgreeServe ==
  ASSUME AgreeInv, Serve
  PROVE  AgreeInv'
<1>1. thread' = Snapshot(tables) /\ UNCHANGED <<log, tables, live>>
  BY DEF Serve, store, ghosts
<1> DEFINE shown == {x \in tables.turns : x.count # None}
           cps == {[turn |-> r.turn, count |-> r.count, status |-> r.status] : r \in shown}
<1>2. /\ thread' = [messages |-> tables.messages, plans |-> tables.plans, checkpoints |-> cps]
      /\ thread'.messages = tables.messages /\ thread'.plans = tables.plans
      /\ thread'.checkpoints = cps
  BY <1>1 DEF Snapshot
<1>3. \A r \in shown : r \in Rows /\ r.count \in Nat /\ r.count \in 1..Len(log)
  <2>1. tables.turns \in SUBSET Rows
    BY TablesFields DEF AgreeInv
  <2> QED BY <2>1 DEF AgreeInv, OfLog, Rows
<1> HIDE DEF shown
<1>4. cps \in SUBSET ReadCheckpoints /\ \A c \in cps : c.count \in 1..Len(log)
  BY <1>3 DEF Rows, ReadCheckpoints
<1> HIDE DEF cps
<1>5. thread' \in Threads
  <2>1. tables.messages \in SUBSET Messages /\ tables.plans \in SUBSET Plans
    BY TablesFields DEF AgreeInv
  <2> QED BY <1>2, <1>4, <2>1 DEF Threads
<1>6. \A m \in tables.messages : m.id \in 1..Len(log) /\ m = MessageOf(log[m.id])
  BY DEF AgreeInv, OfLog
<1> QED BY <1>1, <1>2, <1>4, <1>5, <1>6 DEF AgreeInv, LogIsWellFormed, ShownFollows

LEMMA AgreeOther ==
  ASSUME AgreeInv, Start \/ ReadState \/ NextProjector \/ UNCHANGED vars
  PROVE  AgreeInv'
<1>1. UNCHANGED <<log, tables, thread, even, live>> /\ (phase' = "running" => phase = "running")
  BY DEF Start, ReadState, NextProjector, vars, store, memory, ghosts
<1> QED BY <1>1 DEF AgreeInv, LogIsWellFormed, ShownFollows

LEMMA InitAgree == Init => AgreeInv
<1> SUFFICES ASSUME Init PROVE AgreeInv
  OBVIOUS
<1>1. Len(log) = 0 /\ phase = "down" /\ tables = EmptyTables /\ live = EmptyTables
      /\ thread = EmptyThread
  BY DEF Init
<1>2. OfLog(log, tables)
  BY <1>1 DEF OfLog, EmptyTables
<1> QED BY <1>1, <1>2, EmptyTypes DEF AgreeInv, LogIsWellFormed, ShownFollows

\* What is projected is of the log, and a server shows what its tables hold.
THEOREM AgreeInvariant == Spec => []AgreeInv
<1>1. Init => AgreeInv
  BY InitAgree
<1>2. BootstrapInv /\ AgreeInv /\ [Next]_vars => AgreeInv'
  BY AgreeCommand, AgreeCrash, AgreeUpgrade, AgreeRunProjector, AgreeServe, AgreeOther DEF Next
<1> QED BY <1>1, <1>2, BootstrapInvariant, PTL DEF Spec

(***************************************************************************)
(* The read model and the tables keep the same messages and plans, as long *)
(* as turn n of every revert was the one that message n started.           *)
(***************************************************************************)
THEOREM ProjectionsAgreeHolds == Spec => []ProjectionsAgree
<1>1. AgreeInv => ProjectionsAgree
  BY DEF AgreeInv, ShownFollows, ProjectionsAgree
<1> QED BY <1>1, AgreeInvariant, PTL

-----------------------------------------------------------------------------
(* Diffs, and the counts in force, after one more event.                     *)

LEMMA DiffsNext ==
  ASSUME NEW l, NEW k \in Nat
  PROVE  /\ IsDiff(l[k + 1]) => Diffs(l, k + 1) = Diffs(l, k) \cup {k + 1}
         /\ ~IsDiff(l[k + 1]) => Diffs(l, k + 1) = Diffs(l, k)
<1>1. \A d : d \in 1..(k + 1) <=> d \in 1..k \/ d = k + 1
  OBVIOUS
<1> QED BY <1>1 DEF Diffs

LEMMA InForceNext ==
  ASSUME NEW l, NEW k \in Nat, NEW d \in 1..k
  PROVE  InForce(l, d, k + 1) <=>
           InForce(l, d, k) /\ (IsRevert(l[k + 1]) => l[d].count <= l[k + 1].count)
<1>1. \A j : j \in (d + 1)..(k + 1) <=> j \in (d + 1)..k \/ j = k + 1
  OBVIOUS
<1> QED BY <1>1 DEF InForce

LEMMA InForceEarlier ==
  ASSUME NEW l, NEW k \in Nat, NEW d \in Nat, NEW j \in Nat, j <= k, InForce(l, d, k)
  PROVE  InForce(l, d, j)
<1>1. \A i \in (d + 1)..j : i \in (d + 1)..k
  OBVIOUS
<1> QED BY <1>1 DEF InForce

LEMMA InForceAtOnce ==
  ASSUME NEW l, NEW d \in Nat
  PROVE  InForce(l, d, d)
BY DEF InForce

\* A diff that is in force when an equal count is given stays so as long as that one.
LEMMA InForceOn ==
  ASSUME NEW l, NEW k \in Nat, NEW d \in Nat, NEW e \in Nat, d <= e, e <= k,
         InForce(l, d, e), InForce(l, e, k), l[d].count = l[e].count
  PROVE  InForce(l, d, k)
<1>1. \A j \in (d + 1)..k : j \in (d + 1)..e \/ j \in (e + 1)..k
  OBVIOUS
<1> QED BY <1>1 DEF InForce

LEMMA SoundNext ==
  ASSUME NEW l, NEW k \in Nat, CountsAreSound(l, k + 1)
  PROVE  CountsAreSound(l, k)
<1>1. Diffs(l, k) \subseteq Diffs(l, k + 1)
  BY DiffsNext
<1>2. ~CountShared(l, k) /\ TurnsKeepCounts(l, k)
  BY <1>1 DEF CountsAreSound, CountShared, TurnsKeepCounts
<1>3. RevertsMeetCounts(l, k)
  <2>1. \A j \in 1..k : j \in 1..(k + 1)
    OBVIOUS
  <2> QED BY <2>1 DEF CountsAreSound, RevertsMeetCounts
<1> QED BY <1>2, <1>3 DEF CountsAreSound

\* What is in force, after each kind of event.
LEMMA CountedNext ==
  ASSUME NEW l, NEW k \in Nat
  PROVE  /\ IsDiff(l[k + 1]) =>
              Counted(l, k + 1) = Counted(l, k) \cup {<<l[k + 1].turn, l[k + 1].count>>}
         /\ IsRevert(l[k + 1]) =>
              Counted(l, k + 1) = {p \in Counted(l, k) : p[2] <= l[k + 1].count}
         /\ ~IsDiff(l[k + 1]) /\ ~IsRevert(l[k + 1]) => Counted(l, k + 1) = Counted(l, k)
<1> DEFINE I(m) == {x \in Diffs(l, m) : InForce(l, x, m)}
<1>0. \A m : Counted(l, m) = {<<l[d].turn, l[d].count>> : d \in I(m)}
  BY DEF Counted
<1>1. Diffs(l, k) \subseteq 1..k /\ k + 1 \notin Diffs(l, k)
  BY DEF Diffs
<1>2. CASE IsDiff(l[k + 1])
  <2>1. ~IsRevert(l[k + 1])
    BY <1>2 DEF IsDiff, IsRevert
  <2>2. InForce(l, k + 1, k + 1)
    BY InForceAtOnce
  <2>3. I(k + 1) = I(k) \cup {k + 1}
    <3>1. Diffs(l, k + 1) = Diffs(l, k) \cup {k + 1}
      BY <1>2, DiffsNext
    <3>2. \A d \in Diffs(l, k) : InForce(l, d, k + 1) <=> InForce(l, d, k)
      BY <1>1, <2>1, InForceNext
    <3> QED BY <2>2, <3>1, <3>2
  <2> HIDE DEF I
  <2>4. {<<l[d].turn, l[d].count>> : d \in I(k) \cup {k + 1}}
          = {<<l[d].turn, l[d].count>> : d \in I(k)} \cup {<<l[k + 1].turn, l[k + 1].count>>}
    OBVIOUS
  <2>5. Counted(l, k + 1) = Counted(l, k) \cup {<<l[k + 1].turn, l[k + 1].count>>}
    BY <1>0, <2>3, <2>4
  <2> QED BY <1>2, <2>1, <2>5
<1>3. CASE IsRevert(l[k + 1])
  <2>1. ~IsDiff(l[k + 1])
    BY <1>3 DEF IsDiff, IsRevert
  <2>2. Diffs(l, k + 1) = Diffs(l, k)
    BY <2>1, DiffsNext
  <2>3. \A d \in Diffs(l, k) :
          InForce(l, d, k + 1) <=> InForce(l, d, k) /\ l[d].count <= l[k + 1].count
    BY <1>1, <1>3, InForceNext
  <2>4. I(k + 1) = {d \in I(k) : l[d].count <= l[k + 1].count}
    BY <2>2, <2>3
  <2> HIDE DEF I
  <2>5. {<<l[d].turn, l[d].count>> : d \in {x \in I(k) : l[x].count <= l[k + 1].count}}
          = {p \in {<<l[d].turn, l[d].count>> : d \in I(k)} : p[2] <= l[k + 1].count}
    OBVIOUS
  <2>6. Counted(l, k + 1) = {p \in Counted(l, k) : p[2] <= l[k + 1].count}
    BY <1>0, <2>4, <2>5
  <2> QED BY <1>3, <2>1, <2>6
<1>4. CASE ~IsDiff(l[k + 1]) /\ ~IsRevert(l[k + 1])
  <2>1. I(k + 1) = I(k)
    BY <1>1, <1>4, DiffsNext, InForceNext
  <2> HIDE DEF I
  <2>2. Counted(l, k + 1) = Counted(l, k)
    BY <1>0, <2>1
  <2> QED BY <1>4, <2>2
<1> QED BY <1>2, <1>3, <1>4

LEMMA CountedIs ==
  ASSUME NEW l, NEW k, NEW t, NEW c
  PROVE  <<t, c>> \in Counted(l, k) <=>
           \E d \in Diffs(l, k) : InForce(l, d, k) /\ l[d].turn = t /\ l[d].count = c
BY DEF Counted

-----------------------------------------------------------------------------
(* The account of counts, as long as they are sound.                         *)

LEMMA CountsAfterQuiet ==
  ASSUME NEW l, NEW k \in Nat, NEW rows, NEW rows2, ~IsDiff(l[k + 1]), ~IsRevert(l[k + 1]),
         CountsFollow(l, k, rows), Pairs(rows2) = Pairs(rows)
  PROVE  CountsFollow(l, k + 1, rows2)
BY SoundNext, CountedNext DEF CountsFollow

LEMMA CountsAfterRevert ==
  ASSUME NEW l, NEW k \in Nat, NEW rows, NEW rows2, IsRevert(l[k + 1]),
         CountsFollow(l, k, rows),
         Pairs(rows2) = {p \in Pairs(rows) : p[2] <= l[k + 1].count}
  PROVE  CountsFollow(l, k + 1, rows2)
<1>1. Counted(l, k + 1) = {p \in Counted(l, k) : p[2] <= l[k + 1].count}
  BY CountedNext
<1> QED BY <1>1, SoundNext DEF CountsFollow

\* In force, a count has one turn and a turn has one count.
LEMMA CountsAfterDiff ==
  ASSUME NEW l, NEW k \in Nat, NEW rows, NEW rows2, IsDiff(l[k + 1]),
         CountsFollow(l, k, rows),
         Pairs(rows2) = {p \in Pairs(rows) : p[1] # l[k + 1].turn /\ p[2] # l[k + 1].count}
                          \cup {<<l[k + 1].turn, l[k + 1].count>>}
  PROVE  CountsFollow(l, k + 1, rows2)
<1> DEFINE T == l[k + 1].turn
           c == l[k + 1].count
<1> SUFFICES ASSUME CountsAreSound(l, k + 1) PROVE Pairs(rows2) = Counted(l, k + 1)
  BY DEF CountsFollow
<1>1. Pairs(rows) = Counted(l, k)
  BY SoundNext DEF CountsFollow
<1>2. /\ Diffs(l, k + 1) = Diffs(l, k) \cup {k + 1} /\ Diffs(l, k) \subseteq 1..k
      /\ ~IsRevert(l[k + 1])
  BY DiffsNext DEF Diffs, IsDiff, IsRevert
<1>3. \A d \in Diffs(l, k) : InForce(l, d, k + 1) <=> InForce(l, d, k)
  BY <1>2, InForceNext
<1>4. ASSUME NEW d \in Diffs(l, k), InForce(l, d, k) PROVE l[d].turn = T <=> l[d].count = c
  BY <1>2, <1>3, <1>4 DEF CountsAreSound, CountShared, TurnsKeepCounts
<1>5. Counted(l, k + 1) = Counted(l, k) \cup {<<T, c>>}
  BY CountedNext
<1>6. ASSUME NEW p \in Counted(l, k) PROVE p = <<T, c>> \/ (p[1] # T /\ p[2] # c)
  <2>1. PICK d \in Diffs(l, k) : InForce(l, d, k) /\ p = <<l[d].turn, l[d].count>>
    BY DEF Counted
  <2>2. l[d].turn = T <=> l[d].count = c
    BY <1>4, <2>1
  <2> QED BY <2>1, <2>2
<1> HIDE DEF T, c
<1>7. Pairs(rows2) = {p \in Counted(l, k) : p[1] # T /\ p[2] # c} \cup {<<T, c>>}
  BY <1>1 DEF T, c
<1> QED BY <1>5, <1>6, <1>7

-----------------------------------------------------------------------------
(* Which plans survive, found out revert by revert, or with the last rows.   *)

\* The turn of event i has a row that every later revert keeps.
KeptThroughout(l, i, k) ==
  \A j \in (i + 1)..k : IsRevert(l[j]) =>
    \E p \in Counted(l, k) : p[1] = l[i].turn /\ p[2] <= l[j].count

\* The counts are sound, and numbers.
SoundCounts(l, k) ==
  /\ CountsAreSound(l, k)
  /\ \A d \in Diffs(l, k) : l[d].count \in Nat \ {0}
  /\ \A j \in 1..k : IsRevert(l[j]) => l[j].count \in Nat

LEMMA OneCountInForce ==
  ASSUME NEW l, NEW k \in Nat, SoundCounts(l, k),
         NEW d \in Diffs(l, k), InForce(l, d, k), NEW e \in Diffs(l, k), InForce(l, e, k),
         l[d].turn = l[e].turn
  PROVE  l[d].count = l[e].count
<1>1. d \in 1..k /\ e \in 1..k
  BY DEF Diffs
<1>2. CASE d < e
  <2>1. InForce(l, d, e)
    BY <1>1, InForceEarlier
  <2> QED BY <1>2, <2>1 DEF SoundCounts, CountsAreSound, TurnsKeepCounts
<1>3. CASE e < d
  <2>1. InForce(l, e, d)
    BY <1>1, InForceEarlier
  <2> QED BY <1>3, <2>1 DEF SoundCounts, CountsAreSound, TurnsKeepCounts
<1> QED BY <1>1, <1>2, <1>3

\* A count in force at the end that a revert keeps was in force there, for the turn:
\* the revert met it, and nothing dropped it since.
LEMMA KeptHaveSurvived ==
  ASSUME NEW l, NEW k \in Nat, NEW i \in 1..k, SoundCounts(l, k), KeptThroughout(l, i, k)
  PROVE  SurvivesAll(l, i, k)
<1> SUFFICES ASSUME NEW j \in (i + 1)..k, IsRevert(l[j])
             PROVE  \E d \in Diffs(l, j) : l[d].turn = l[i].turn /\ InForce(l, d, j)
  BY DEF SurvivesAll
<1>1. j \in 1..k /\ j \in Nat /\ i \in Nat
  OBVIOUS
<1>2. PICK p \in Counted(l, k) : p[1] = l[i].turn /\ p[2] <= l[j].count
  BY DEF KeptThroughout
<1>3. PICK e \in Diffs(l, k) : InForce(l, e, k) /\ p = <<l[e].turn, l[e].count>>
  BY DEF Counted
<1>4. /\ e \in 1..k /\ IsDiff(l[e]) /\ l[e].turn = l[i].turn
      /\ l[e].count \in 1..l[j].count
  <2>1. l[e].count \in Nat \ {0} /\ l[j].count \in Nat
    BY <1>1 DEF SoundCounts, CountsAreSound
  <2> QED BY <1>2, <1>3, <2>1 DEF Diffs
<1>5. CASE e < j
  <2>1. InForce(l, e, j) /\ e \in Diffs(l, j)
    BY <1>1, <1>3, <1>4, <1>5, InForceEarlier DEF Diffs
  <2> QED BY <1>4, <2>1
<1>6. CASE j < e
  <2>1. PICK d \in Diffs(l, j) : l[d].count = l[e].count /\ InForce(l, d, j)
    BY <1>1, <1>4 DEF SoundCounts, CountsAreSound, RevertsMeetCounts
  <2>2. d \in 1..j /\ IsDiff(l[d]) /\ d \in Diffs(l, k) /\ d < e
    BY <1>1, <1>6, <2>1 DEF Diffs
  <2>3. InForce(l, d, e)
    <3> SUFFICES ASSUME NEW x \in (d + 1)..e, IsRevert(l[x]) PROVE l[d].count <= l[x].count
      BY DEF InForce
    <3>1. CASE x \in (d + 1)..j
      BY <2>1, <3>1 DEF InForce
    <3>2. CASE x \in (j + 1)..e
      <4>1. x \in (i + 1)..k
        BY <1>1, <1>4, <3>2
      <4>2. PICK q \in Counted(l, k) : q[1] = l[i].turn /\ q[2] <= l[x].count
        BY <4>1 DEF KeptThroughout
      <4>3. PICK f \in Diffs(l, k) : InForce(l, f, k) /\ q = <<l[f].turn, l[f].count>>
        BY DEF Counted
      <4>4. l[f].count = l[e].count
        BY <1>3, <1>4, <4>2, <4>3, OneCountInForce
      <4> QED BY <2>1, <4>2, <4>3, <4>4
    <3> QED BY <1>1, <1>4, <2>2, <3>1, <3>2
  <2>4. l[d].turn = l[e].turn
    BY <2>1, <2>2, <2>3 DEF SoundCounts, CountsAreSound, CountShared
  <2> QED BY <1>4, <2>1, <2>4
<1>7. e # j
  BY <1>4 DEF IsDiff, IsRevert
<1> QED BY <1>1, <1>4, <1>5, <1>6, <1>7

\* A turn that every revert kept has the count it had at the first of them.
LEMMA SurvivorsAreKept ==
  ASSUME NEW l, NEW k \in Nat, NEW i \in 1..k, SoundCounts(l, k), SurvivesAll(l, i, k)
  PROVE  KeptThroughout(l, i, k)
<1> DEFINE R == {j \in (i + 1)..k : IsRevert(l[j])}
           D == {d \in Diffs(l, k) : l[d].turn = l[i].turn /\ InForce(l, d, k)}
<1> SUFFICES ASSUME R # {}
             PROVE  \A j \in R : \E p \in Counted(l, k) : p[1] = l[i].turn /\ p[2] <= l[j].count
  BY DEF KeptThroughout
<1>1. /\ R \in SUBSET (0..k) /\ \A j \in R : j \in (i + 1)..k /\ IsRevert(l[j])
      /\ i \in Nat
  OBVIOUS
<1>2. ASSUME NEW j \in R
      PROVE  \E d \in Diffs(l, k) : d < j /\ l[d].turn = l[i].turn /\ InForce(l, d, j)
  <2>1. PICK d \in Diffs(l, j) : l[d].turn = l[i].turn /\ InForce(l, d, j)
    BY <1>1, <1>2 DEF SurvivesAll
  <2>2. d \in 1..j /\ IsDiff(l[d]) /\ d # j
    BY <1>1, <1>2, <2>1 DEF Diffs, IsDiff, IsRevert
  <2>3. d \in Diffs(l, k) /\ d < j
    BY <1>1, <1>2, <2>2 DEF Diffs
  <2> QED BY <2>1, <2>3
<1>3. D \in SUBSET Nat /\ D # {}
  <2>1. PICK j \in R : \A x \in R : x <= j
    <3> HIDE DEF R
    <3> QED BY <1>1, GreatestNatural
  <2>2. PICK d \in Diffs(l, k) : d < j /\ l[d].turn = l[i].turn /\ InForce(l, d, j)
    BY <1>2
  <2>3. InForce(l, d, k)
    <3> SUFFICES ASSUME NEW x \in (d + 1)..k, IsRevert(l[x]) PROVE l[d].count <= l[x].count
      BY DEF InForce
    <3>1. x > j => x \in R
      BY <1>1
    <3>2. x <= j
      BY <1>1, <2>1, <3>1
    <3>3. x \in (d + 1)..j
      BY <1>1, <3>2
    <3> QED BY <2>2, <3>3 DEF InForce
  <2>4. d \in D
    BY <2>2, <2>3
  <2>5. \A x \in D : x \in Nat
    BY DEF Diffs
  <2> QED BY <2>4, <2>5, Zenon
<1>4. PICK d \in D : \A x \in D : d <= x
  <2> HIDE DEF D
  <2> QED BY <1>3, LeastNatural
<1>5. /\ d \in Diffs(l, k) /\ l[d].turn = l[i].turn /\ InForce(l, d, k)
      /\ d \in 1..k
  BY DEF Diffs
<1>6. ASSUME NEW y \in R, y < d PROVE FALSE
  <2> DEFINE E == {x \in R : x < d}
  <2>1. E \in SUBSET (0..k) /\ E # {}
    BY <1>1, <1>6
  <2>2. PICK j \in E : \A x \in E : x <= j
    <3> HIDE DEF E
    <3> QED BY <2>1, GreatestNatural
  <2>3. PICK e \in Diffs(l, k) : e < j /\ l[e].turn = l[i].turn /\ InForce(l, e, j)
    BY <1>2
  <2>4. e \in 1..k /\ j \in (i + 1)..k /\ j < d /\ e < d
    <3>1. e \in 1..k
      BY DEF Diffs
    <3>2. j \in (i + 1)..k /\ j < d
      BY <1>1
    <3> QED BY <1>1, <1>5, <2>3, <3>1, <3>2
  <2>5. InForce(l, e, d)
    <3> SUFFICES ASSUME NEW x \in (e + 1)..d, IsRevert(l[x]) PROVE l[e].count <= l[x].count
      BY DEF InForce
    <3>1. x # d
      BY <1>5 DEF Diffs, IsDiff, IsRevert
    <3>2. x > j => x \in E
      BY <1>1, <1>5, <2>4, <3>1
    <3>3. x <= j
      BY <1>1, <2>2, <2>4, <3>2
    <3>4. x \in (e + 1)..j
      BY <2>4, <3>3
    <3> QED BY <2>3, <3>4 DEF InForce
  <2>6. l[e].count = l[d].count
    BY <1>5, <2>3, <2>4, <2>5 DEF SoundCounts, CountsAreSound, TurnsKeepCounts
  <2>7. InForce(l, e, k)
    BY <1>5, <2>4, <2>5, <2>6, InForceOn
  <2>8. e \in D
    BY <2>3, <2>7
  <2> QED BY <1>4, <1>5, <2>4, <2>8
<1>7. ASSUME NEW j \in R
      PROVE  \E p \in Counted(l, k) : p[1] = l[i].turn /\ p[2] <= l[j].count
  <2>1. d # j /\ j \in (i + 1)..k /\ IsRevert(l[j])
    BY <1>1, <1>5, <1>7 DEF Diffs, IsDiff, IsRevert
  <2>2. j \in (d + 1)..k
    <3>1. ~ (j < d)
      BY <1>6
    <3> QED BY <1>5, <2>1, <3>1
  <2>3. l[d].count <= l[j].count
    BY <1>5, <2>1, <2>2 DEF InForce
  <2>4. <<l[d].turn, l[d].count>> \in Counted(l, k)
    BY <1>5, CountedIs
  <2> QED BY <1>5, <2>3, <2>4
<1> QED BY <1>7

-----------------------------------------------------------------------------
(* Turns and their counts in the rows and in the checkpoints, after an event. *)

LEMMA PairsIs ==
  ASSUME NEW S, NEW t, NEW c
  PROVE  <<t, c>> \in Pairs(S) <=> \E x \in S : x.count # None /\ x.turn = t /\ x.count = c
BY DEF Pairs

LEMMA PairsArePairs ==
  ASSUME NEW S, NEW p \in Pairs(S)
  PROVE  \E x \in S : x.count # None /\ p = <<x.turn, x.count>>
BY DEF Pairs

LEMMA PairsEqual ==
  ASSUME NEW S, NEW P, \A p \in P : p = <<p[1], p[2]>>,
         \A t, c : <<t, c>> \in Pairs(S) <=> <<t, c>> \in P
  PROVE  Pairs(S) = P
<1>1. \A p \in Pairs(S) : p = <<p[1], p[2]>>
  BY PairsArePairs
<1> QED BY <1>1

\* A row that takes the place of the one of its turn, with the same count.
LEMMA UpsertKeepsPairs ==
  ASSUME NEW rows \in SUBSET Rows, OneRow(rows), NEW turn \in Turns, NEW new \in Rows,
         new.turn = turn, new.count = RowOf(rows, turn).count
  PROVE  OneRow(Upsert(rows, new)) /\ Pairs(Upsert(rows, new)) = Pairs(rows)
<1>1. OneRow(Upsert(rows, new))
  BY DEF OneRow, Upsert
<1>2. /\ RowOf(rows, turn).turn = turn
      /\ \/ RowOf(rows, turn) \in rows
         \/ (\A r \in rows : r.turn # turn) /\ RowOf(rows, turn).count = None
  BY RowOfType
<1>3. ASSUME NEW t, NEW c
      PROVE  <<t, c>> \in Pairs(Upsert(rows, new)) <=> <<t, c>> \in Pairs(rows)
  <2>1. CASE t # turn
    BY <2>1, PairsIs DEF Upsert
  <2>2. CASE t = turn
    <3>1. <<t, c>> \in Pairs(Upsert(rows, new)) <=> new.count # None /\ new.count = c
      BY <2>2, PairsIs DEF Upsert
    <3>2. <<t, c>> \in Pairs(rows) <=> new.count # None /\ new.count = c
      <4>1. CASE RowOf(rows, turn) \in rows
        <5>1. \A x \in rows : x.turn = t <=> x = RowOf(rows, turn)
          BY <1>2, <2>2, <4>1 DEF OneRow
        <5> QED BY <4>1, <5>1, PairsIs
      <4>2. CASE (\A r \in rows : r.turn # turn) /\ RowOf(rows, turn).count = None
        BY <2>2, <4>2, PairsIs
      <4> QED BY <1>2, <4>1, <4>2
    <3> QED BY <3>1, <3>2
  <2> QED BY <2>1, <2>2
<1>4. \A p \in Pairs(rows) : p = <<p[1], p[2]>>
  BY PairsArePairs
<1>5. Pairs(Upsert(rows, new)) = Pairs(rows)
  BY <1>3, <1>4, PairsEqual
<1> QED BY <1>1, <1>5

\* The count is taken from any other turn.
LEMMA CompleteRowPairs ==
  ASSUME NEW rows \in SUBSET Rows, OneRow(rows), NEW e, Proper(e), IsDiff(e)
  PROVE  /\ OneRow(CompleteRow(rows, e))
         /\ Pairs(CompleteRow(rows, e)) =
              {p \in Pairs(rows) : p[1] # e.turn /\ p[2] # e.count} \cup {<<e.turn, e.count>>}
<1> DEFINE clear(r) == IF r.turn # e.turn /\ r.count = e.count
                       THEN [r EXCEPT !.count = None, !.status = None] ELSE r
           cleared == {clear(r) : r \in rows}
           new == [RowOf(rows, e.turn) EXCEPT !.count = e.count, !.status = e.status]
           P == {p \in Pairs(rows) : p[1] # e.turn /\ p[2] # e.count} \cup {<<e.turn, e.count>>}
<1>1. e.turn \in Turns /\ e.count \in Nat /\ e.count # None
  BY BootstrapAssumption DEF Proper, IsDiff
<1>2. CompleteRow(rows, e) = Upsert(cleared, new)
  BY DEF CompleteRow
<1>3. new.turn = e.turn /\ new.count = e.count
  <2>1. RowOf(rows, e.turn) \in Rows /\ RowOf(rows, e.turn).turn = e.turn
    BY <1>1, RowOfType
  <2>2. \A r \in Rows : /\ [r EXCEPT !.count = e.count, !.status = e.status].turn = r.turn
                        /\ [r EXCEPT !.count = e.count, !.status = e.status].count = e.count
    BY DEF Rows
  <2> HIDE DEF P, clear, cleared
  <2> QED BY <2>1, <2>2
<1> HIDE DEF new, P
<1>4. \A r \in rows : /\ clear(r).turn = r.turn
                      /\ clear(r).count = IF r.turn # e.turn /\ r.count = e.count
                                          THEN None ELSE r.count
  <2>1. \A r \in Rows : /\ [r EXCEPT !.count = None, !.status = None].turn = r.turn
                        /\ [r EXCEPT !.count = None, !.status = None].count = None
    BY DEF Rows
  <2> QED BY <2>1
<1> HIDE DEF clear
<1>5. OneRow(CompleteRow(rows, e))
  <2>1. \A r \in cleared : \E x \in rows : r = clear(x) /\ r.turn = x.turn
    BY <1>4
  <2>2. \A r, s \in cleared : r.turn = s.turn => r = s
    BY <2>1 DEF OneRow
  <2> HIDE DEF cleared
  <2> QED BY <1>2, <2>2 DEF OneRow, Upsert
<1>6. ASSUME NEW t, NEW c
      PROVE  <<t, c>> \in Pairs(Upsert(cleared, new)) <=> <<t, c>> \in P
  <2>1. CASE t = e.turn
    <3>1. <<t, c>> \in Pairs(Upsert(cleared, new)) <=> c = e.count
      <4> HIDE DEF cleared
      <4> QED BY <1>1, <1>3, <2>1, PairsIs DEF Upsert
    <3>2. <<t, c>> \in P <=> c = e.count
      BY <2>1 DEF P
    <3> QED BY <3>1, <3>2
  <2>2. CASE t # e.turn
    <3>1. <<t, c>> \in Pairs(Upsert(cleared, new)) <=> <<t, c>> \in Pairs(cleared)
      <4> HIDE DEF cleared
      <4> QED BY <1>3, <2>2, PairsIs DEF Upsert
    <3>2. <<t, c>> \in Pairs(cleared) <=> \E x \in rows : /\ clear(x).count # None
                                                         /\ clear(x).turn = t
                                                         /\ clear(x).count = c
      BY PairsIs
    <3>3. \A x \in rows : (clear(x).count # None /\ clear(x).turn = t /\ clear(x).count = c)
                            <=> (x.count # None /\ x.turn = t /\ x.count = c /\ c # e.count)
      BY <1>1, <1>4, <2>2
    <3>4. <<t, c>> \in Pairs(cleared) <=> <<t, c>> \in Pairs(rows) /\ c # e.count
      <4> HIDE DEF cleared
      <4> QED BY <3>2, <3>3, PairsIs
    <3>5. <<t, c>> \in P <=> <<t, c>> \in Pairs(rows) /\ c # e.count
      BY <2>2 DEF P
    <3> QED BY <3>1, <3>4, <3>5
  <2> QED BY <2>1, <2>2
<1>7. \A p \in P : p = <<p[1], p[2]>>
  BY PairsArePairs DEF P
<1> HIDE DEF cleared
<1>8. Pairs(Upsert(cleared, new)) = P
  BY <1>6, <1>7, PairsEqual
<1> QED BY <1>2, <1>5, <1>8 DEF P

LEMMA RowsEffect ==
  ASSUME NEW t \in AllTables, OneRow(t.turns), NEW e, Proper(e),
         NEW rows, rows = ApplyThreadTurns(t, e).turns
  PROVE  /\ OneRow(rows)
         /\ IsDiff(e) => Pairs(rows) =
              {p \in Pairs(t.turns) : p[1] # e.turn /\ p[2] # e.count} \cup {<<e.turn, e.count>>}
         /\ IsRevert(e) => Pairs(rows) = {p \in Pairs(t.turns) : p[2] <= e.count}
         /\ IsDiff(e) \/ IsRevert(e) \/ Pairs(rows) = Pairs(t.turns)
<1> DEFINE u == ApplyThreadTurns(t, e)
<1>1. t.turns \in SUBSET Rows /\ t.pending \in Nat \cup {None}
  BY TablesFields
<1>2. rows = u.turns
  OBVIOUS
<1> HIDE DEF u
<1>3. CASE IsDiff(e)
  <2>1. rows = CompleteRow(t.turns, e) /\ ~IsRevert(e)
    BY <1>2, <1>3, TurnsEffect DEF u, IsDiff, IsRevert
  <2> QED BY <1>1, <1>3, <2>1, CompleteRowPairs
<1>4. CASE IsRevert(e)
  <2>1. rows = KeptRows(t.turns, e.count) /\ ~IsDiff(e)
    BY <1>2, <1>4, TurnsEffect DEF u, IsDiff, IsRevert
  <2>2. OneRow(rows)
    BY <2>1 DEF OneRow, KeptRows
  <2> DEFINE P == {p \in Pairs(t.turns) : p[2] <= e.count}
  <2>3. ASSUME NEW x, NEW c PROVE <<x, c>> \in Pairs(rows) <=> <<x, c>> \in P
    <3>1. <<x, c>> \in P <=> <<x, c>> \in Pairs(t.turns) /\ c <= e.count
      OBVIOUS
    <3>2. \A r : r \in rows <=> r \in t.turns /\ r.count # None /\ r.count <= e.count
      BY <2>1 DEF KeptRows
    <3> HIDE DEF P
    <3> QED BY <3>1, <3>2, PairsIs
  <2>4. \A p \in P : p = <<p[1], p[2]>>
    BY PairsArePairs
  <2>5. Pairs(rows) = P
    <3> HIDE DEF P
    <3> QED BY <2>3, <2>4, PairsEqual
  <2> QED BY <1>4, <2>1, <2>2, <2>5
<1>5. CASE e.type = "thread.session-set"
  <2> DEFINE row == RowOf(t.turns, e.turn)
             new == [row EXCEPT !.message = IF @ = None THEN t.pending ELSE @]
  <2>1. e.turn \in Turns
    BY <1>5 DEF Proper
  <2>2. u.turns = StartRow(t.turns, t.pending, e.turn)
    BY <1>5, TurnsEffect DEF u
  <2>3. StartRow(t.turns, t.pending, e.turn) = Upsert(t.turns, new)
    BY DEF StartRow
  <2>4. row \in Rows /\ row.turn = e.turn
    BY <1>1, <2>1, RowOfType
  <2>5. new \in Rows /\ new.turn = e.turn /\ new.count = row.count
    <3>1. \A r \in Rows, m \in Nat \cup {None} :
            /\ [r EXCEPT !.message = m] \in Rows
            /\ [r EXCEPT !.message = m].turn = r.turn /\ [r EXCEPT !.message = m].count = r.count
      BY DEF Rows
    <3> HIDE DEF row
    <3>2. (IF row.message = None THEN t.pending ELSE row.message) \in Nat \cup {None}
      BY <1>1, <2>4 DEF Rows
    <3> QED BY <2>4, <3>1, <3>2
  <2> HIDE DEF new
  <2>6. OneRow(rows) /\ Pairs(rows) = Pairs(t.turns)
    BY <1>1, <1>2, <2>1, <2>2, <2>3, <2>5, UpsertKeepsPairs
  <2> QED BY <1>5, <2>6 DEF IsDiff, IsRevert
<1>6. CASE IsMessage(e) /\ e.turn # None
  <2>1. e.turn \in Turns
    BY <1>6 DEF Proper
  <2>2. u.turns = Upsert(t.turns, RowOf(t.turns, e.turn))
    BY <1>6, TurnsEffect DEF u
  <2>3. RowOf(t.turns, e.turn) \in Rows /\ RowOf(t.turns, e.turn).turn = e.turn
    BY <1>1, <2>1, RowOfType
  <2>4. OneRow(rows) /\ Pairs(rows) = Pairs(t.turns)
    BY <1>1, <1>2, <2>1, <2>2, <2>3, UpsertKeepsPairs
  <2> QED BY <1>6, <2>4 DEF IsDiff, IsRevert, IsMessage
<1>7. CASE \/ IsMessage(e) /\ e.turn = None
           \/ IsPlan(e)
           \/ e.type = "thread.turn-start-requested"
  <2>1. rows = t.turns
    BY <1>2, <1>7, TurnsEffect DEF u
  <2> QED BY <1>7, <2>1 DEF IsDiff, IsRevert, IsMessage, IsPlan
<1>8. e.type \in EventTypes
  BY DEF Proper
<1> QED BY <1>3, <1>4, <1>5, <1>6, <1>7, <1>8 DEF EventTypes, IsDiff, IsRevert, IsMessage, IsPlan

-----------------------------------------------------------------------------
(* Plans and messages after one more event.                                  *)

LEMMA PlansThatIs ==
  ASSUME NEW l, NEW k, NEW p
  PROVE  p \in PlansThat(l, k) <=>
           \E i \in 1..k : IsPlan(l[i]) /\ SurvivesAll(l, i, k) /\ p = PlanOf(l[i])
BY DEF PlansThat

LEMMA SurvivesNext ==
  ASSUME NEW l, NEW k \in Nat, NEW i \in 1..k
  PROVE  SurvivesAll(l, i, k + 1) <=>
           /\ SurvivesAll(l, i, k)
           /\ IsRevert(l[k + 1]) =>
                \E d \in Diffs(l, k + 1) : l[d].turn = l[i].turn /\ InForce(l, d, k + 1)
<1>1. \A j : j \in (i + 1)..(k + 1) <=> j \in (i + 1)..k \/ j = k + 1
  OBVIOUS
<1> QED BY <1>1 DEF SurvivesAll

LEMMA PlansThatNext ==
  ASSUME NEW l, NEW k \in Nat, ~IsRevert(l[k + 1])
  PROVE  /\ IsPlan(l[k + 1]) => PlansThat(l, k + 1) = PlansThat(l, k) \cup {PlanOf(l[k + 1])}
         /\ ~IsPlan(l[k + 1]) => PlansThat(l, k + 1) = PlansThat(l, k)
<1>1. \A i \in 1..k : SurvivesAll(l, i, k + 1) <=> SurvivesAll(l, i, k)
  BY SurvivesNext
<1>2. SurvivesAll(l, k + 1, k + 1)
  BY DEF SurvivesAll
<1>3. \A i : i \in 1..(k + 1) <=> i \in 1..k \/ i = k + 1
  OBVIOUS
<1>4. ASSUME NEW p
      PROVE  p \in PlansThat(l, k + 1) <=>
               p \in PlansThat(l, k) \/ (IsPlan(l[k + 1]) /\ p = PlanOf(l[k + 1]))
  BY <1>1, <1>2, <1>3, PlansThatIs
<1> QED BY <1>4

LEMMA MessagesUpToNext ==
  ASSUME NEW l, NEW k \in Nat
  PROVE  /\ IsMessage(l[k + 1]) =>
              MessagesUpTo(l, k + 1) = MessagesUpTo(l, k) \cup {MessageOf(l[k + 1])}
         /\ ~IsMessage(l[k + 1]) => MessagesUpTo(l, k + 1) = MessagesUpTo(l, k)
<1>1. \A i : i \in 1..(k + 1) <=> i \in 1..k \/ i = k + 1
  OBVIOUS
<1>2. \A m, p : p \in MessagesUpTo(l, m) <=> \E i \in 1..m : IsMessage(l[i]) /\ p = MessageOf(l[i])
  BY DEF MessagesUpTo
<1>3. ASSUME NEW p
      PROVE  p \in MessagesUpTo(l, k + 1) <=>
               p \in MessagesUpTo(l, k) \/ (IsMessage(l[k + 1]) /\ p = MessageOf(l[k + 1]))
  BY <1>1, <1>2
<1> QED BY <1>3

LEMMA NoRevertNext ==
  ASSUME NEW l, NEW k \in Nat
  PROVE  NoRevert(l, k + 1) <=> NoRevert(l, k) /\ ~IsRevert(l[k + 1])
<1>1. \A i : i \in 1..(k + 1) <=> i \in 1..k \/ i = k + 1
  OBVIOUS
<1> QED BY <1>1 DEF NoRevert

\* A plan of the event is new: the plans so far are of earlier events.
LEMMA UpsertNewPlan ==
  ASSUME NEW k \in Nat, NEW plans, \A p \in plans : p.id \in 1..k, NEW e, e.id = k + 1
  PROVE  UpsertPlan(plans, PlanOf(e)) = plans \cup {PlanOf(e)}
<1>1. PlanOf(e).id = k + 1
  BY DEF PlanOf
<1>2. \A p \in plans : p.id # PlanOf(e).id
  BY <1>1
<1> QED BY <1>2 DEF UpsertPlan

LEMMA PlansAfter ==
  ASSUME NEW l, NEW k \in Nat, \A i \in 1..(k + 1) : EventAt(l, i),
         NEW v \in AllTables, CountsFollow(l, k, v.turns), PlansSurvive(l, k, v.plans),
         NEW plans, plans = ApplyThreadProposedPlans(v, l[k + 1]).plans
  PROVE  PlansSurvive(l, k + 1, plans)
<1> DEFINE e == l[k + 1]
<1> SUFFICES ASSUME NoRevert(l, k + 1) \/ CountsAreSound(l, k + 1)
             PROVE  plans = PlansThat(l, k + 1)
  BY DEF PlansSurvive
<1>1. v.plans = PlansThat(l, k)
  BY SoundNext, NoRevertNext DEF PlansSurvive
<1>2. \A i \in 1..(k + 1) : Proper(l[i]) /\ (IsPlan(l[i]) => l[i].id = i)
  <2>1. \A i \in 1..(k + 1) : i \in Nat \ {0}
    OBVIOUS
  <2> QED BY <2>1, EventAtIs
<1>3. Proper(e) /\ (IsPlan(e) => e.id = k + 1)
  BY <1>2
<1>4. CASE IsRevert(e)
  <2>1. CountsAreSound(l, k + 1)
    BY <1>4, NoRevertNext
  <2>2. Pairs(v.turns) = Counted(l, k)
    BY <2>1, SoundNext DEF CountsFollow
  <2>3. plans = KeptPlans(v, e.count)
    BY <1>3, <1>4, PlansEffect
  <2>4. ~IsDiff(e) /\ Diffs(l, k + 1) = Diffs(l, k) /\ Diffs(l, k) \subseteq 1..k
    <3>1. ~IsDiff(e)
      BY <1>4 DEF IsDiff, IsRevert
    <3> QED BY <3>1, DiffsNext DEF Diffs
  <2>5. \A d \in Diffs(l, k) : InForce(l, d, k + 1) <=> InForce(l, d, k) /\ l[d].count <= e.count
    BY <1>4, <2>4, InForceNext
  <2>6. ASSUME NEW t
        PROVE  (\E r \in KeptRows(v.turns, e.count) : r.turn = t) <=>
               (\E d \in Diffs(l, k + 1) : l[d].turn = t /\ InForce(l, d, k + 1))
    <3>1. \A c : <<t, c>> \in Pairs(v.turns) <=>
             \E r \in v.turns : r.count # None /\ r.turn = t /\ r.count = c
      BY PairsIs
    <3>2. \A c : <<t, c>> \in Counted(l, k) <=>
             \E d \in Diffs(l, k) : InForce(l, d, k) /\ l[d].turn = t /\ l[d].count = c
      BY CountedIs
    <3>3. \A c : (\E r \in v.turns : r.count # None /\ r.turn = t /\ r.count = c) <=>
             (\E d \in Diffs(l, k) : InForce(l, d, k) /\ l[d].turn = t /\ l[d].count = c)
      BY <2>2, <3>1, <3>2
    <3>4. (\E r \in KeptRows(v.turns, e.count) : r.turn = t) <=>
          (\E r \in v.turns : r.count # None /\ r.count <= e.count /\ r.turn = t)
      BY DEF KeptRows
    <3> HIDE DEF e
    <3>5. (\E r \in v.turns : r.count # None /\ r.count <= e.count /\ r.turn = t) <=>
          (\E d \in Diffs(l, k) : InForce(l, d, k) /\ l[d].turn = t /\ l[d].count <= e.count)
      BY <3>3
    <3>6. (\E d \in Diffs(l, k) : InForce(l, d, k) /\ l[d].turn = t /\ l[d].count <= e.count) <=>
          (\E d \in Diffs(l, k + 1) : l[d].turn = t /\ InForce(l, d, k + 1))
      BY <2>4, <2>5
    <3> QED BY <3>4, <3>5, <3>6
  <2>7. ASSUME NEW p \in v.plans
        PROVE  p \in plans <=> \E r \in KeptRows(v.turns, e.count) : r.turn = p.turn
    <3>1. p.turn \in Turns /\ p.turn # None
      BY TablesFields, BootstrapAssumption DEF Plans
    <3>2. plans = {q \in v.plans :
                     q.turn \in {r.turn : r \in KeptRows(v.turns, e.count)} \cup {None}}
      BY <2>3 DEF KeptPlans, RetainPlans
    <3> QED BY <3>1, <3>2
  <2>8. plans \subseteq v.plans
    BY <2>3 DEF KeptPlans, RetainPlans
  <2>9. \A i \in 1..(k + 1) : IsPlan(l[i]) => i \in 1..k
    BY <1>4 DEF IsPlan, IsRevert
  <2>10. ASSUME NEW p \in plans PROVE p \in PlansThat(l, k + 1)
    <3>1. PICK i \in 1..k : IsPlan(l[i]) /\ SurvivesAll(l, i, k) /\ p = PlanOf(l[i])
      BY <1>1, <2>8, <2>10, PlansThatIs
    <3>2. p.turn = l[i].turn
      BY <3>1 DEF PlanOf
    <3>3. \E d \in Diffs(l, k + 1) : l[d].turn = l[i].turn /\ InForce(l, d, k + 1)
      BY <2>6, <2>7, <2>8, <2>10, <3>2
    <3>4. SurvivesAll(l, i, k + 1)
      BY <3>1, <3>3, SurvivesNext
    <3>5. i \in 1..(k + 1)
      OBVIOUS
    <3> QED BY <3>1, <3>4, <3>5, PlansThatIs
  <2>11. ASSUME NEW p \in PlansThat(l, k + 1) PROVE p \in plans
    <3>1. PICK i \in 1..(k + 1) : IsPlan(l[i]) /\ SurvivesAll(l, i, k + 1) /\ p = PlanOf(l[i])
      BY <2>11, PlansThatIs
    <3>2. i \in 1..k
      BY <2>9, <3>1
    <3>3. /\ SurvivesAll(l, i, k)
          /\ \E d \in Diffs(l, k + 1) : l[d].turn = l[i].turn /\ InForce(l, d, k + 1)
      BY <1>4, <3>1, <3>2, SurvivesNext
    <3>4. p \in v.plans
      BY <1>1, <3>1, <3>2, <3>3, PlansThatIs
    <3>5. p.turn = l[i].turn
      BY <3>1 DEF PlanOf
    <3> QED BY <2>6, <2>7, <3>3, <3>4, <3>5
  <2> QED BY <2>10, <2>11
<1>5. CASE ~IsRevert(e)
  <2>1. /\ IsPlan(e) => PlansThat(l, k + 1) = PlansThat(l, k) \cup {PlanOf(e)}
        /\ ~IsPlan(e) => PlansThat(l, k + 1) = PlansThat(l, k)
    BY <1>5, PlansThatNext
  <2>2. CASE IsPlan(e)
    <3>1. plans = UpsertPlan(v.plans, PlanOf(e))
      BY <1>3, <2>2, PlansEffect
    <3>2. \A p \in v.plans : p.id \in 1..k
      BY <1>1, <1>2, PlansThatIs DEF PlanOf
    <3>3. e.id = k + 1
      BY <1>3, <2>2
    <3> HIDE DEF e
    <3>4. plans = v.plans \cup {PlanOf(e)}
      BY <3>1, <3>2, <3>3, UpsertNewPlan
    <3> QED BY <1>1, <2>1, <2>2, <3>4
  <2>3. CASE ~IsPlan(e)
    <3>1. plans = v.plans
      BY <1>3, <1>5, <2>3, PlansEffect
    <3> QED BY <1>1, <2>1, <2>3, <3>1
  <2> QED BY <2>2, <2>3
<1> QED BY <1>4, <1>5

LEMMA MessagesAfter ==
  ASSUME NEW l, NEW k \in Nat, NEW v \in AllTables, Proper(l[k + 1]),
         NoRevert(l, k) => v.messages = MessagesUpTo(l, k),
         NEW messages, messages = ApplyThreadMessages(v, l[k + 1]).messages,
         NoRevert(l, k + 1)
  PROVE  messages = MessagesUpTo(l, k + 1)
<1>1. v.messages = MessagesUpTo(l, k) /\ ~IsRevert(l[k + 1])
  BY NoRevertNext
<1>2. CASE IsMessage(l[k + 1])
  <2>1. messages = v.messages \cup {MessageOf(l[k + 1])}
    BY <1>2, MessagesEffect
  <2> QED BY <1>1, <1>2, <2>1, MessagesUpToNext
<1>3. CASE ~IsMessage(l[k + 1])
  <2>1. messages = v.messages
    BY <1>1, <1>3, MessagesEffect
  <2> QED BY <1>1, <1>3, <2>1, MessagesUpToNext
<1> QED BY <1>2, <1>3

-----------------------------------------------------------------------------
(* The tables that saw all events follow the log.                            *)

LEMMA LiveOnProject ==
  ASSUME NEW l, NEW k \in Nat, \A i \in 1..(k + 1) : EventAt(l, i),
         NEW v \in AllTables, LiveOn(l, k, v)
  PROVE  LiveOn(l, k + 1, ProjectEvent(v, l[k + 1]))
<1> DEFINE e == l[k + 1]
           w == ProjectEvent(v, e)
<1>1. \A i \in 1..(k + 1) : Proper(l[i]) /\ (IsDiff(l[i]) => l[i].count \in 1..i)
  <2>1. \A i \in 1..(k + 1) : i \in Nat \ {0}
    OBVIOUS
  <2> QED BY <2>1, EventAtIs
<1>2. Proper(e) /\ e.count \in Nat
  BY <1>1 DEF Proper
<1>4. /\ w.messages = ApplyThreadMessages(v, e).messages
      /\ w.plans = ApplyThreadProposedPlans(v, e).plans
      /\ w.turns = ApplyThreadTurns(v, e).turns
  BY <1>2, ProjectEffect
<1> HIDE DEF w
<1>5. OneRow(v.turns) /\ CountsFollow(l, k, v.turns)
  BY DEF LiveOn
<1>6. /\ OneRow(w.turns)
      /\ IsDiff(e) => Pairs(w.turns) =
           {p \in Pairs(v.turns) : p[1] # e.turn /\ p[2] # e.count} \cup {<<e.turn, e.count>>}
      /\ IsRevert(e) => Pairs(w.turns) = {p \in Pairs(v.turns) : p[2] <= e.count}
      /\ IsDiff(e) \/ IsRevert(e) \/ Pairs(w.turns) = Pairs(v.turns)
  BY <1>2, <1>4, <1>5, RowsEffect
<1>7. CountsFollow(l, k + 1, w.turns)
  <2>1. CASE IsDiff(e)
    BY <1>5, <1>6, <2>1, CountsAfterDiff
  <2>2. CASE IsRevert(e)
    BY <1>5, <1>6, <2>2, CountsAfterRevert
  <2>3. CASE ~IsDiff(e) /\ ~IsRevert(e)
    BY <1>5, <1>6, <2>3, CountsAfterQuiet
  <2> QED BY <2>1, <2>2, <2>3
<1>8. PlansSurvive(l, k + 1, w.plans)
  BY <1>4, <1>5, PlansAfter DEF LiveOn
<1>9. NoRevert(l, k + 1) => w.messages = MessagesUpTo(l, k + 1)
  BY <1>2, <1>4, MessagesAfter DEF LiveOn
<1> QED BY <1>6, <1>7, <1>8, <1>9 DEF LiveOn, w

\* What is said of the first k events does not depend on those to come.
LEMMA LogExtends ==
  ASSUME NEW l, NEW l2, NEW k \in Nat, \A i \in 1..k : l2[i] = l[i]
  PROVE  /\ Diffs(l2, k) = Diffs(l, k) /\ Counted(l2, k) = Counted(l, k)
         /\ CountsAreSound(l2, k) <=> CountsAreSound(l, k)
         /\ NoRevert(l2, k) <=> NoRevert(l, k)
         /\ \A v : LiveOn(l, k, v) => LiveOn(l2, k, v)
<1>1. \A m \in 0..k : Diffs(l2, m) = Diffs(l, m) /\ Diffs(l, m) \subseteq 1..m
  <2>1. \A m \in 0..k : \A d \in 1..m : d \in 1..k
    OBVIOUS
  <2> QED BY <2>1 DEF Diffs
<1>2. \A d \in 1..k, m \in 0..k : InForce(l2, d, m) <=> InForce(l, d, m)
  <2>1. \A d \in 1..k : \A m \in 0..k : \A j \in (d + 1)..m : j \in 1..k
    OBVIOUS
  <2> QED BY <2>1 DEF InForce
<1>3. k \in 0..k /\ Diffs(l2, k) = Diffs(l, k) /\ Diffs(l, k) \subseteq 1..k
  BY <1>1
<1>4. Counted(l2, k) = Counted(l, k)
  <2>1. \A p : p \in Counted(l2, k) <=>
          \E d \in Diffs(l2, k) : InForce(l2, d, k) /\ p = <<l2[d].turn, l2[d].count>>
    BY DEF Counted
  <2>2. \A p : p \in Counted(l, k) <=>
          \E d \in Diffs(l, k) : InForce(l, d, k) /\ p = <<l[d].turn, l[d].count>>
    BY DEF Counted
  <2>3. \A d \in Diffs(l, k) : l2[d] = l[d] /\ (InForce(l2, d, k) <=> InForce(l, d, k))
    BY <1>2, <1>3
  <2> QED BY <1>3, <2>1, <2>2, <2>3
<1>5. \A d, e \in Diffs(l, k) : /\ l2[d] = l[d] /\ l2[e] = l[e]
                                /\ InForce(l2, d, e) <=> InForce(l, d, e)
  <2>1. \A e \in 1..k : e \in 0..k
    OBVIOUS
  <2> QED BY <1>2, <1>3, <2>1
<1>6. CountShared(l2, k) <=> CountShared(l, k)
  BY <1>3, <1>5 DEF CountShared
<1>7. NoRevert(l2, k) <=> NoRevert(l, k)
  BY DEF NoRevert
<1>8. TurnsKeepCounts(l2, k) <=> TurnsKeepCounts(l, k)
  BY <1>3, <1>5 DEF TurnsKeepCounts
<1>9. RevertsMeetCounts(l2, k) <=> RevertsMeetCounts(l, k)
  <2>1. ASSUME NEW j \in 1..k, NEW c
        PROVE  (\E d \in Diffs(l2, j) : l2[d].count = c /\ InForce(l2, d, j)) <=>
               (\E d \in Diffs(l, j) : l[d].count = c /\ InForce(l, d, j))
    <3>1. j \in 0..k /\ Diffs(l2, j) = Diffs(l, j)
      BY <1>1
    <3>2. \A d \in Diffs(l, j) : d \in 1..k
      BY <1>1, <3>1
    <3> QED BY <1>2, <3>1, <3>2
  <2> QED BY <2>1 DEF RevertsMeetCounts
<1>10. CountsAreSound(l2, k) <=> CountsAreSound(l, k)
  BY <1>6, <1>8, <1>9 DEF CountsAreSound
<1>11. PlansThat(l2, k) = PlansThat(l, k)
  <2>1. ASSUME NEW i \in 1..k PROVE SurvivesAll(l2, i, k) <=> SurvivesAll(l, i, k)
    <3>1. \A j \in (i + 1)..k : /\ j \in 1..k /\ j \in 0..k /\ l2[j] = l[j] /\ l2[i] = l[i]
                                /\ Diffs(l2, j) = Diffs(l, j) /\ Diffs(l, j) \subseteq 1..j
      BY <1>1
    <3>2. \A j \in (i + 1)..k : \A d \in 1..j : d \in 1..k
      OBVIOUS
    <3>3. \A j \in (i + 1)..k : \A d \in Diffs(l, j) :
            l2[d] = l[d] /\ (InForce(l2, d, j) <=> InForce(l, d, j))
      BY <1>2, <3>1, <3>2
    <3> QED BY <3>1, <3>3 DEF SurvivesAll
  <2>2. \A p : p \in PlansThat(l2, k) <=> p \in PlansThat(l, k)
    BY <2>1, PlansThatIs
  <2> QED BY <2>2
<1>12. MessagesUpTo(l2, k) = MessagesUpTo(l, k)
  <2>1. \A p : p \in MessagesUpTo(l, k) <=>
                 \E i \in 1..k : IsMessage(l[i]) /\ p = MessageOf(l[i])
    BY DEF MessagesUpTo
  <2>2. \A p : p \in MessagesUpTo(l2, k) <=>
                 \E i \in 1..k : IsMessage(l2[i]) /\ p = MessageOf(l2[i])
    BY DEF MessagesUpTo
  <2> QED BY <2>1, <2>2
<1>13. \A v : LiveOn(l, k, v) => LiveOn(l2, k, v)
  BY <1>4, <1>7, <1>10, <1>11, <1>12
  DEF LiveOn, CountsFollow, PlansSurvive
<1> QED BY <1>3, <1>4, <1>7, <1>10, <1>13

-----------------------------------------------------------------------------
(* The rows of turns, and the checkpoints of the read model.                 *)

\* The rows of turns come from the rows of turns alone.
LEMMA SameTurnsAfter ==
  ASSUME NEW t \in AllTables, NEW u \in AllTables, SameTurns(t, u), NEW e, Proper(e)
  PROVE  SameTurns(ApplyThreadTurns(t, e), ApplyThreadTurns(u, e))
<1> DEFINE x == ApplyThreadTurns(t, e)
           y == ApplyThreadTurns(u, e)
<1>1. t.turns = u.turns /\ t.pending = u.pending
  BY DEF SameTurns
<1>2. CASE e.type = "thread.turn-start-requested"
  <2>1. x.turns = t.turns /\ x.pending = e.id /\ y.turns = u.turns /\ y.pending = e.id
    BY <1>2, TurnsEffect
  <2> QED BY <1>1, <2>1 DEF SameTurns
<1>3. CASE e.type = "thread.session-set"
  <2>1. /\ x.turns = StartRow(t.turns, t.pending, e.turn) /\ x.pending = None
        /\ y.turns = StartRow(u.turns, u.pending, e.turn) /\ y.pending = None
    BY <1>3, TurnsEffect
  <2> QED BY <1>1, <2>1 DEF SameTurns
<1>4. CASE IsMessage(e)
  <2>1. /\ x.pending = t.pending /\ y.pending = u.pending
        /\ e.turn = None => x.turns = t.turns /\ y.turns = u.turns
        /\ e.turn # None => /\ x.turns = Upsert(t.turns, RowOf(t.turns, e.turn))
                            /\ y.turns = Upsert(u.turns, RowOf(u.turns, e.turn))
    BY <1>4, TurnsEffect
  <2> QED BY <1>1, <2>1 DEF SameTurns
<1>5. CASE IsDiff(e)
  <2>1. /\ x.turns = CompleteRow(t.turns, e) /\ x.pending = t.pending
        /\ y.turns = CompleteRow(u.turns, e) /\ y.pending = u.pending
    BY <1>5, TurnsEffect
  <2> QED BY <1>1, <2>1 DEF SameTurns
<1>6. CASE IsRevert(e)
  <2>1. /\ x.turns = KeptRows(t.turns, e.count) /\ x.pending = None
        /\ y.turns = KeptRows(u.turns, e.count) /\ y.pending = None
    BY <1>6, TurnsEffect
  <2> QED BY <1>1, <2>1 DEF SameTurns
<1>7. CASE IsPlan(e)
  <2>1. x.turns = t.turns /\ x.pending = t.pending /\ y.turns = u.turns /\ y.pending = u.pending
    BY <1>7, TurnsEffect
  <2> QED BY <1>1, <2>1 DEF SameTurns
<1>8. e.type \in EventTypes
  BY DEF Proper
<1> QED BY <1>2, <1>3, <1>4, <1>5, <1>6, <1>7, <1>8
        DEF EventTypes, IsMessage, IsPlan, IsDiff, IsRevert

LEMMA TurnsAtTyped ==
  ASSUME NEW l, Len(l) \in Nat, \A i \in 1..Len(l) : Proper(l[i])
  PROVE  \A i \in 0..Len(l) : TurnsAt(l)[i] \in AllTables
<1> DEFINE g == TurnsAt(l)
           n == Len(l)
           T == {m \in Nat : m <= n => g[m] \in AllTables}
<1>1. /\ g[0] = EmptyTables
      /\ \A i \in 1..n : g[i] = ApplyThreadTurns(g[i - 1], l[i])
  BY TurnsAtStep
<1> HIDE DEF g
<1>2. 0 \in T
  BY <1>1, EmptyTypes
<1>3. ASSUME NEW m \in T PROVE m + 1 \in T
  <2> SUFFICES ASSUME m + 1 <= n PROVE g[m + 1] \in AllTables
    OBVIOUS
  <2>1. g[m] \in AllTables /\ m + 1 \in 1..n /\ (m + 1) - 1 = m
    OBVIOUS
  <2>2. g[m + 1] = ApplyThreadTurns(g[m], l[m + 1]) /\ Proper(l[m + 1])
    BY <1>1, <2>1
  <2> QED BY <2>1, <2>2, TurnsEffect
<1>4. T = Nat
  <2> HIDE DEF T
  <2>1. T \in SUBSET Nat
    BY DEF T
  <2> QED BY <1>2, <1>3, <2>1, SetNatInduction
<1>5. \A i \in 0..n : i \in T /\ i <= n
  BY <1>4
<1> QED BY <1>5 DEF g

\* One more event, in the tables and in the rows that replay the log.
LEMMA SameTurnsNext ==
  ASSUME NEW l, Len(l) \in Nat, \A i \in 1..Len(l) : Proper(l[i]), NEW i \in 1..Len(l),
         NEW t \in AllTables, SameTurns(t, TurnsAt(l)[i - 1])
  PROVE  /\ SameTurns(ApplyThreadTurns(t, l[i]), TurnsAt(l)[i])
         /\ SameTurns(ProjectEvent(t, l[i]), TurnsAt(l)[i])
<1>1. Proper(l[i]) /\ i - 1 \in 0..Len(l)
  OBVIOUS
<1>2. TurnsAt(l)[i - 1] \in AllTables
  BY <1>1, TurnsAtTyped
<1>3. TurnsAt(l)[i] = ApplyThreadTurns(TurnsAt(l)[i - 1], l[i])
  BY TurnsAtStep
<1>4. SameTurns(ApplyThreadTurns(t, l[i]), TurnsAt(l)[i])
  BY <1>1, <1>2, <1>3, SameTurnsAfter
<1>5. /\ ProjectEvent(t, l[i]).turns = ApplyThreadTurns(t, l[i]).turns
      /\ ProjectEvent(t, l[i]).pending = ApplyThreadTurns(t, l[i]).pending
  BY <1>1, ProjectEffect
<1> QED BY <1>4, <1>5 DEF SameTurns

LEMMA SoundAreSound ==
  ASSUME NEW l, NEW k \in Nat, \A i \in 1..k : EventAt(l, i), CountsAreSound(l, k)
  PROVE  SoundCounts(l, k)
<1>1. \A i \in 1..k : Proper(l[i]) /\ (IsDiff(l[i]) => l[i].count \in 1..i)
  <2>1. \A i \in 1..k : i \in Nat \ {0}
    OBVIOUS
  <2> QED BY <2>1, EventAtIs
<1>2. \A d \in Diffs(l, k) : l[d].count \in Nat \ {0}
  BY <1>1 DEF Diffs
<1>3. \A j \in 1..k : l[j].count \in Nat
  BY <1>1 DEF Proper
<1> QED BY <1>2, <1>3 DEF SoundCounts

-----------------------------------------------------------------------------
(* Commands.                                                                 *)

LEMMA AllHaveCaughtUp ==
  ASSUME BootstrapInv, upgrade = None \/ phase = "running", \A p \in Projectors : ~OverLimit(p)
  PROVE  \A p \in Projectors : applied[p] = Len(log)
<1>1. upgrade # None => upgrade.at \in Nat
  BY DEF BootstrapInv, SequencesAreTyped
<1>2. \A p \in Projectors : ~Behind(p)
  BY <1>1, BootstrapAssumption DEF Behind, OverLimit
<1> QED BY <1>2 DEF BootstrapInv, OnlyNewAreBehind

LEMMA RebuiltTables ==
  ASSUME AgreeInv, Rebuilding, \A p \in Projectors : applied[p] = Len(log)
  PROVE  tables = live
<1>1. /\ applied["threadTurns"] = Len(log) /\ applied["threadMessages"] = Len(log)
      /\ applied["threadProposedPlans"] = Len(log)
  BY DEF Projectors
<1>2. /\ tables.messages = live.messages /\ tables.plans = live.plans
      /\ tables.turns = live.turns /\ tables.pending = live.pending
  BY <1>1 DEF Rebuilding, SameTurns
<1> QED BY <1>2, TablesFields DEF AgreeInv

\* What more events must keep, in tables that have applied all events before.
LEMMA RebuildCommit ==
  ASSUME BootstrapInv, AgreeInv, RebuildInv, phase = "running", phase' = "running",
         upgrade' = upgrade, Len(log) \in Nat, Len(log') \in Nat, Len(log) < Len(log'),
         \A i \in 1..Len(log) : log'[i] = log[i],
         applied' = [p \in Projectors |-> Len(log')],
         tables = live => tables' = live',
         SameTurns(live, TurnsAt(log)[Len(log)]) => SameTurns(live', TurnsAt(log')[Len(log')]),
         upgrade = None => LiveOn(log', Len(log'), live')
  PROVE  RebuildInv'
<1>1. upgrade # None => upgrade.at \in Nat /\ upgrade.at <= Len(log)
  BY DEF BootstrapInv, SequencesAreTyped, RebuildInv
<1>2. upgrade' # None => upgrade'.at <= Len(log') /\ Len(log') # upgrade'.at
  BY <1>1
<1>3. LiveFollows'
  BY <1>2 DEF LiveFollows
<1>4. ASSUME ~RevertsReplayedWrongly', \A p \in Projectors : ~OverLimit(p)'
      PROVE  Rebuilding'
  <2>1. \A p \in Projectors : ~OverLimit(p)
    BY <1>4 DEF OverLimit
  <2>2. ~RevertsReplayedWrongly
    <3>1. CASE upgrade = None
      BY <3>1 DEF RevertsReplayedWrongly
    <3>2. CASE upgrade # None
      <4>1. \A i \in 1..upgrade.at : log'[i] = log[i]
        BY <1>1, <3>2
      <4>2. /\ NoRevert(log', upgrade.at) <=> NoRevert(log, upgrade.at)
            /\ CountsAreSound(log', upgrade.at) <=> CountsAreSound(log, upgrade.at)
        BY <1>1, <3>2, <4>1, LogExtends
      <4> QED BY <1>4, <4>2 DEF RevertsReplayedWrongly
    <3> QED BY <3>1, <3>2
  <2>3. Rebuilding
    BY <2>1, <2>2 DEF RebuildInv
  <2>4. \A p \in Projectors : applied[p] = Len(log)
    BY <2>1, AllHaveCaughtUp
  <2>5. tables' = live'
    BY <2>3, <2>4, RebuiltTables
  <2>6. SameTurns(live', TurnsAt(log')[Len(log')])
    BY <2>3 DEF Rebuilding
  <2>7. /\ applied'["threadTurns"] = Len(log') /\ applied'["threadMessages"] = Len(log')
        /\ applied'["threadProposedPlans"] = Len(log')
    BY DEF Projectors
  <2> QED BY <2>5, <2>6, <2>7 DEF Rebuilding
<1> QED BY <1>2, <1>3, <1>4 DEF RebuildInv

LEMMA RebuildCommitOne ==
  ASSUME BootstrapInv, AgreeInv, RebuildInv, NEW e, Commit(<<e>>),
         EventAt(log', Len(log) + 1)
  PROVE  RebuildInv'
<1> DEFINE N == Len(log)
           l == log'
<1>1. /\ phase = "running" /\ phase' = "running" /\ N \in Nat /\ Len(l) = N + 1
      /\ l[N + 1] = e /\ \A i \in 1..N : l[i] = log[i]
      /\ tables' = ProjectEvent(tables, e) /\ live' = ProjectEvent(live, e)
      /\ thread' = ProjectThread(thread, e)
      /\ applied' = [p \in Projectors |-> N + 1] /\ upgrade' = upgrade
  BY CommitOne
<1>2. live \in AllTables /\ thread \in Threads
  BY DEF AgreeInv
<1>3. \A i \in 1..(N + 1) : EventAt(l, i)
  <2>1. AgreeInv'
    BY AgreeCommitOne
  <2> QED BY <1>1, <2>1 DEF AgreeInv, LogIsWellFormed
<1>4. \A i \in 1..(N + 1) : Proper(l[i])
  <2>1. \A i \in 1..(N + 1) : i \in Nat \ {0}
    BY <1>1
  <2> HIDE DEF l
  <2> QED BY <1>3, <2>1, EventAtIs
<1>5. SameTurns(live, TurnsAt(log)[N]) => SameTurns(live', TurnsAt(l)[N + 1])
  <2>1. TurnsAt(l)[N] = TurnsAt(log)[N]
    BY <1>1, TurnsAtExtends
  <2> HIDE DEF l
  <2>2. N + 1 \in 1..Len(l) /\ (N + 1) - 1 = N /\ Len(l) \in Nat
    BY <1>1
  <2>3. SameTurns(live, TurnsAt(l)[N]) => SameTurns(ProjectEvent(live, l[N + 1]), TurnsAt(l)[N + 1])
    BY <1>1, <1>2, <1>4, <2>2, SameTurnsNext
  <2> QED BY <1>1, <2>1, <2>3
<1>6. ASSUME upgrade = None PROVE LiveOn(l, N + 1, live')
  <2>1. LiveOn(log, N, live)
    BY <1>6 DEF RebuildInv, LiveFollows
  <2>2. LiveOn(l, N, live)
    BY <1>1, <2>1, LogExtends
  <2> HIDE DEF l, N
  <2>3. LiveOn(l, N + 1, ProjectEvent(live, l[N + 1]))
    BY <1>1, <1>2, <1>3, <2>2, LiveOnProject
  <2> QED BY <1>1, <2>3
<1>7. tables = live => tables' = live'
  BY <1>1
<1>8. Len(l) \in Nat /\ N < Len(l)
  BY <1>1
<1> QED BY <1>1, <1>5, <1>6, <1>7, <1>8, RebuildCommit

LEMMA RebuildSendMessage ==
  ASSUME BootstrapInv, AgreeInv, RebuildInv, SendMessage
  PROVE  RebuildInv'
<1> DEFINE N == Len(log)
           e == UserMessage(N + 1)
           f == TurnStartRequested(N + 1)
           l == log'
           v == ProjectEvent(live, e)
<1> HIDE DEF e, f
<1>2. Commit(<<e, f>>)
  BY DEF SendMessage, e, f
<1>3. /\ phase = "running" /\ phase' = "running" /\ N \in Nat /\ Len(l) = N + 2
      /\ l[N + 1] = e /\ l[N + 2] = f /\ \A i \in 1..N : l[i] = log[i]
      /\ tables' = ProjectEvent(ProjectEvent(tables, e), f)
      /\ live' = ProjectEvent(v, f)
      /\ applied' = [p \in Projectors |-> N + 2] /\ upgrade' = upgrade
  BY <1>2, CommitTwo
<1>4. live \in AllTables
  BY DEF AgreeInv
<1>5. Len(l) \in Nat /\ N < Len(l) /\ N + 1 \in Nat /\ (N + 1) + 1 = N + 2
      /\ N + 1 \in 1..Len(l) /\ (N + 1) - 1 = N /\ N + 2 \in 1..Len(l) /\ (N + 2) - 1 = N + 1
  BY <1>3
<1>6. \A i \in 1..(N + 2) : EventAt(l, i)
  <2>1. AgreeInv'
    BY AgreeSendMessage
  <2> QED BY <1>3, <2>1 DEF AgreeInv, LogIsWellFormed
<1>7. \A i \in 1..(N + 1) : i \in 1..(N + 2)
  BY <1>3
<1>8. \A i \in 1..(N + 2) : Proper(l[i])
  <2>1. \A i \in 1..(N + 2) : i \in Nat \ {0}
    BY <1>3
  <2> HIDE DEF l
  <2> QED BY <1>6, <2>1, EventAtIs
<1>9. v \in AllTables
  <2>1. Proper(e)
    BY <1>3, <1>5, <1>7, <1>8
  <2> QED BY <1>4, <2>1, ProjectEffect
<1>10. TurnsAt(l)[N] = TurnsAt(log)[N]
  BY <1>3, <1>5, TurnsAtExtends
<1>11. ASSUME upgrade = None PROVE LiveOn(l, N, live)
  <2>1. LiveOn(log, N, live)
    BY <1>11 DEF RebuildInv, LiveFollows
  <2> QED BY <1>3, <2>1, LogExtends
<1> HIDE DEF l, v
<1>12. SameTurns(live, TurnsAt(log)[N]) => SameTurns(live', TurnsAt(l)[N + 2])
  <2>1. SameTurns(live, TurnsAt(l)[N]) => SameTurns(ProjectEvent(live, l[N + 1]), TurnsAt(l)[N + 1])
    BY <1>3, <1>4, <1>5, <1>8, SameTurnsNext
  <2>2. SameTurns(v, TurnsAt(l)[N + 1]) => SameTurns(ProjectEvent(v, l[N + 2]), TurnsAt(l)[N + 2])
    BY <1>3, <1>5, <1>8, <1>9, SameTurnsNext
  <2> QED BY <1>3, <1>10, <2>1, <2>2 DEF v
<1>13. ASSUME upgrade = None PROVE LiveOn(l, N + 2, live')
  <2> HIDE DEF N
  <2>1. LiveOn(l, N + 1, v)
    BY <1>3, <1>4, <1>6, <1>7, <1>11, <1>13, LiveOnProject DEF v
  <2>2. LiveOn(l, (N + 1) + 1, ProjectEvent(v, l[(N + 1) + 1]))
    BY <1>5, <1>6, <1>9, <2>1, LiveOnProject
  <2> QED BY <1>3, <1>5, <2>2
<1>14. tables = live => tables' = live'
  BY <1>3 DEF v
<1> QED BY <1>3, <1>5, <1>12, <1>13, <1>14, RebuildCommit DEF l

LEMMA RebuildCommand ==
  ASSUME BootstrapInv, AgreeInv, RebuildInv,
         \/ SendMessage
         \/ \E turn \in Turns :
              \/ RunTurn(turn) \/ Answer(turn) \/ ProposePlan(turn)
              \/ \E status \in {"ready", "missing"} : CompleteDiff(turn, status)
         \/ \E n \in 0..MaxEvents : CompleteRevert(n)
  PROVE  RebuildInv'
<1> DEFINE N == Len(log)
<1>1. ASSUME NEW e, Commit(<<e>>), log'[N + 1] = e => EventAt(log', N + 1)
      PROVE  RebuildInv'
  BY <1>1, CommitOne, RebuildCommitOne
<1>2. ASSUME NEW turn \in Turns, RunTurn(turn) PROVE RebuildInv'
  BY <1>1, <1>2 DEF RunTurn, EventAt
<1>3. ASSUME NEW turn \in Turns, Answer(turn) PROVE RebuildInv'
  BY <1>1, <1>3 DEF Answer, EventAt
<1>4. ASSUME NEW turn \in Turns, ProposePlan(turn) PROVE RebuildInv'
  BY <1>1, <1>4 DEF ProposePlan, EventAt
<1>5. ASSUME NEW turn \in Turns, NEW status \in {"ready", "missing"}, CompleteDiff(turn, status)
      PROVE  RebuildInv'
  <2>1. PICK count \in 1..(N + 1) : Commit(<<DiffCompleted(turn, count, status)>>)
    BY <1>5, CountOfDiff
  <2>2. DiffCompleted(turn, count, status).count = count
    BY DEF DiffCompleted, Event
  <2>3. log'[N + 1] = DiffCompleted(turn, count, status) => EventAt(log', N + 1)
    BY <2>2 DEF EventAt
  <2> QED BY <1>1, <2>1, <2>3
<1>6. ASSUME NEW n \in 0..MaxEvents, CompleteRevert(n) PROVE RebuildInv'
  <2>1. Commit(<<Reverted(n)>>)
    BY <1>6 DEF CompleteRevert
  <2>2. Reverted(n).count = n /\ n \in Nat
    BY DEF Reverted, Event
  <2>3. log'[N + 1] = Reverted(n) => EventAt(log', N + 1)
    BY <2>2 DEF EventAt
  <2> QED BY <1>1, <2>1, <2>3
<1> QED BY <1>2, <1>3, <1>4, <1>5, <1>6, RebuildSendMessage

-----------------------------------------------------------------------------
(* Plans that are replayed.                                                  *)

\* Every revert of the first k events kept the turn, which has a row.
ReplayKeeps(l, k, rows, turn, i) ==
  \A j \in (i + 1)..k : IsRevert(l[j]) => \E r \in KeptRows(rows, l[j].count) : r.turn = turn

LEMMA ReplayedPlansIs ==
  ASSUME NEW l, NEW k, NEW rows, NEW p
  PROVE  p \in ReplayedPlans(l, k, rows) <=>
           \E i \in 1..k : /\ IsPlan(l[i]) /\ p = PlanOf(l[i])
                           /\ ReplayKeeps(l, k, rows, l[i].turn, i)
BY DEF ReplayedPlans, ReplayKeeps

LEMMA ReplayKeepsNext ==
  ASSUME NEW l, NEW k \in Nat, NEW i \in 1..k, NEW rows, NEW turn
  PROVE  ReplayKeeps(l, k + 1, rows, turn, i) <=>
           /\ ReplayKeeps(l, k, rows, turn, i)
           /\ IsRevert(l[k + 1]) => \E r \in KeptRows(rows, l[k + 1].count) : r.turn = turn
<1>1. \A j : j \in (i + 1)..(k + 1) <=> j \in (i + 1)..k \/ j = k + 1
  OBVIOUS
<1> QED BY <1>1 DEF ReplayKeeps

\* One more event is replayed.
LEMMA ReplayedNext ==
  ASSUME NEW l, NEW k \in Nat, \A i \in 1..(k + 1) : EventAt(l, i),
         NEW t \in AllTables, t.plans = ReplayedPlans(l, k, t.turns)
  PROVE  ApplyThreadProposedPlans(t, l[k + 1]).plans = ReplayedPlans(l, k + 1, t.turns)
<1> DEFINE e == l[k + 1]
           plans == ApplyThreadProposedPlans(t, e).plans
           R == ReplayedPlans(l, k + 1, t.turns)
<1>1. \A i \in 1..(k + 1) : Proper(l[i]) /\ (IsPlan(l[i]) => l[i].id = i)
  <2>1. \A i \in 1..(k + 1) : i \in Nat \ {0}
    OBVIOUS
  <2> QED BY <2>1, EventAtIs
<1>2. Proper(e) /\ (IsPlan(e) => e.id = k + 1)
  BY <1>1
<1>3. \A i : i \in 1..(k + 1) <=> i \in 1..k \/ i = k + 1
  OBVIOUS
<1>4. ASSUME NEW p
      PROVE  p \in R <=>
               \/ \E i \in 1..k : /\ IsPlan(l[i]) /\ p = PlanOf(l[i])
                                  /\ ReplayKeeps(l, k, t.turns, l[i].turn, i)
                                  /\ IsRevert(e) => \E r \in KeptRows(t.turns, e.count) :
                                                       r.turn = l[i].turn
               \/ IsPlan(e) /\ p = PlanOf(e)
  <2>1. ReplayKeeps(l, k + 1, t.turns, e.turn, k + 1)
    BY DEF ReplayKeeps
  <2>2. \A i \in 1..k : ReplayKeeps(l, k + 1, t.turns, l[i].turn, i) <=>
          /\ ReplayKeeps(l, k, t.turns, l[i].turn, i)
          /\ IsRevert(e) => \E r \in KeptRows(t.turns, e.count) : r.turn = l[i].turn
    BY ReplayKeepsNext
  <2>3. p \in R <=> \E i \in 1..(k + 1) : /\ IsPlan(l[i]) /\ p = PlanOf(l[i])
                                          /\ ReplayKeeps(l, k + 1, t.turns, l[i].turn, i)
    BY ReplayedPlansIs
  <2> HIDE DEF R
  <2> QED BY <1>3, <2>1, <2>2, <2>3
<1>5. ASSUME NEW p
      PROVE  p \in t.plans <=>
               \E i \in 1..k : /\ IsPlan(l[i]) /\ p = PlanOf(l[i])
                               /\ ReplayKeeps(l, k, t.turns, l[i].turn, i)
  BY ReplayedPlansIs
<1>6. \A p \in t.plans : p.id \in 1..k /\ p.turn \in Turns /\ p.turn # None
  <2>1. \A p \in t.plans : p.id \in 1..k
    BY <1>1, <1>3, <1>5 DEF PlanOf
  <2>2. \A p \in t.plans : p.turn \in Turns /\ p.turn # None
    BY TablesFields, BootstrapAssumption DEF Plans
  <2> QED BY <2>1, <2>2
<1>7. /\ IsPlan(e) => plans = UpsertPlan(t.plans, PlanOf(e))
      /\ IsRevert(e) => plans = KeptPlans(t, e.count)
      /\ IsPlan(e) \/ IsRevert(e) \/ plans = t.plans
  BY <1>2, PlansEffect
<1>8. \A i \in 1..k : PlanOf(l[i]).turn = l[i].turn
  BY DEF PlanOf
<1> HIDE DEF e, plans, R
<1>9. ASSUME NEW p PROVE p \in plans <=> p \in R
  <2>1. CASE IsPlan(e)
    <3>1. plans = t.plans \cup {PlanOf(e)} /\ ~IsRevert(e)
      <4>1. \A q \in t.plans : q.id \in 1..k
        BY <1>6
      <4>2. e.id = k + 1
        BY <1>2, <2>1
      <4>3. UpsertPlan(t.plans, PlanOf(e)) = t.plans \cup {PlanOf(e)}
        BY <4>1, <4>2, UpsertNewPlan
      <4> QED BY <1>7, <2>1, <4>3 DEF IsPlan, IsRevert
    <3> QED BY <1>4, <1>5, <2>1, <3>1
  <2>2. CASE IsRevert(e)
    <3>1. ~IsPlan(e) /\ plans = KeptPlans(t, e.count)
      BY <1>7, <2>2 DEF IsPlan, IsRevert
    <3>2. p \in plans <=> p \in t.plans
                          /\ p.turn \in {r.turn : r \in KeptRows(t.turns, e.count)} \cup {None}
      BY <3>1 DEF KeptPlans, RetainPlans
    <3>3. p \in plans <=> p \in t.plans /\ \E r \in KeptRows(t.turns, e.count) : r.turn = p.turn
      BY <1>6, <3>2
    <3>4. p \in R <=>
            \E i \in 1..k : /\ IsPlan(l[i]) /\ p = PlanOf(l[i])
                            /\ ReplayKeeps(l, k, t.turns, l[i].turn, i)
                            /\ \E r \in KeptRows(t.turns, e.count) : r.turn = l[i].turn
      BY <1>4, <2>2, <3>1
    <3> QED BY <1>5, <1>8, <3>3, <3>4
  <2>3. CASE ~IsPlan(e) /\ ~IsRevert(e)
    BY <1>4, <1>5, <1>7, <2>3
  <2> QED BY <2>1, <2>2, <2>3
<1>10. plans = R
  BY <1>9
<1> QED BY <1>10 DEF plans, e, R

\* Where nothing was reverted, all plans are there.
LEMMA ReplayedWithoutRevert ==
  ASSUME NEW l, NEW k \in Nat, NoRevert(l, k), NEW m \in 0..k, NEW rows, NEW rows2
  PROVE  /\ ReplayedPlans(l, m, rows) = ReplayedPlans(l, m, rows2)
         /\ ReplayedPlans(l, k, rows) = PlansThat(l, k)
<1>1. \A n \in 0..k : \A i \in 1..n : \A j \in (i + 1)..n : j \in 1..k
  OBVIOUS
<1>2. \A n \in 0..k : \A i \in 1..n : \A S, T : ReplayKeeps(l, n, S, T, i) /\ SurvivesAll(l, i, n)
  BY <1>1 DEF NoRevert, ReplayKeeps, SurvivesAll
<1>3. ASSUME NEW p PROVE p \in ReplayedPlans(l, m, rows) <=> p \in ReplayedPlans(l, m, rows2)
  BY <1>2, ReplayedPlansIs
<1>4. ASSUME NEW p PROVE p \in ReplayedPlans(l, k, rows) <=> p \in PlansThat(l, k)
  <2>1. k \in 0..k
    OBVIOUS
  <2> QED BY <1>2, <2>1, ReplayedPlansIs, PlansThatIs
<1> QED BY <1>3, <1>4

\* With the rows of the end, all is kept that survived when it happened.
LEMMA ReplayedAreThose ==
  ASSUME NEW l, NEW k \in Nat, SoundCounts(l, k),
         NEW rows, Pairs(rows) = Counted(l, k)
  PROVE  ReplayedPlans(l, k, rows) = PlansThat(l, k)
<1>1. ASSUME NEW i \in 1..k PROVE ReplayKeeps(l, k, rows, l[i].turn, i) <=> KeptThroughout(l, i, k)
  <2>1. ASSUME NEW j
        PROVE  (\E r \in KeptRows(rows, l[j].count) : r.turn = l[i].turn) <=>
               (\E p \in Counted(l, k) : p[1] = l[i].turn /\ p[2] <= l[j].count)
    <3>1. ASSUME NEW r \in KeptRows(rows, l[j].count), r.turn = l[i].turn
          PROVE  \E p \in Counted(l, k) : p[1] = l[i].turn /\ p[2] <= l[j].count
      <4>1. r \in rows /\ r.count # None /\ r.count <= l[j].count
        BY DEF KeptRows
      <4>2. <<r.turn, r.count>> \in Counted(l, k)
        BY <4>1, PairsIs
      <4> QED BY <3>1, <4>1, <4>2
    <3>2. ASSUME NEW p \in Counted(l, k), p[1] = l[i].turn, p[2] <= l[j].count
          PROVE  \E r \in KeptRows(rows, l[j].count) : r.turn = l[i].turn
      <4>1. PICK r \in rows : r.count # None /\ p = <<r.turn, r.count>>
        BY PairsArePairs
      <4>2. r.turn = p[1] /\ r.count = p[2]
        BY <4>1
      <4> QED BY <3>2, <4>1, <4>2 DEF KeptRows
    <3> QED BY <3>1, <3>2
  <2> QED BY <2>1 DEF ReplayKeeps, KeptThroughout
<1>2. \A i \in 1..k : KeptThroughout(l, i, k) <=> SurvivesAll(l, i, k)
  BY KeptHaveSurvived, SurvivorsAreKept
<1>3. ASSUME NEW p PROVE p \in ReplayedPlans(l, k, rows) <=> p \in PlansThat(l, k)
  BY <1>1, <1>2, ReplayedPlansIs, PlansThatIs
<1> QED BY <1>3

-----------------------------------------------------------------------------
(* The process, and what it rebuilds.                                        *)

LEMMA RebuildOther ==
  ASSUME RebuildInv, Crash \/ Start \/ ReadState \/ NextProjector \/ UNCHANGED vars
  PROVE  RebuildInv'
<1>1. /\ UNCHANGED <<log, tables, applied, live, upgrade>>
      /\ phase' = "running" => phase = "running" /\ UNCHANGED thread
  BY DEF Crash, Start, ReadState, NextProjector, vars, store, memory, ghosts
<1>2. LiveFollows'
  BY <1>1 DEF RebuildInv, LiveFollows
<1>3. /\ RevertsReplayedWrongly' <=> RevertsReplayedWrongly
      /\ \A p : OverLimit(p)' <=> OverLimit(p)
      /\ Rebuilding' <=> Rebuilding
  BY <1>1 DEF RevertsReplayedWrongly, OverLimit, Rebuilding
<1> QED BY <1>1, <1>2, <1>3 DEF RebuildInv

LEMMA RebuildServe ==
  ASSUME BootstrapInv, AgreeInv, RebuildInv, Serve
  PROVE  RebuildInv'
<1>1. /\ UNCHANGED <<log, tables, applied, live, upgrade>> /\ thread' = Snapshot(tables)
  BY DEF Serve, store, ghosts
<1>2. LiveFollows'
  BY <1>1 DEF RebuildInv, LiveFollows
<1>4. /\ RevertsReplayedWrongly' <=> RevertsReplayedWrongly
      /\ \A p : OverLimit(p)' <=> OverLimit(p)
      /\ Rebuilding' <=> Rebuilding
  BY <1>1 DEF RevertsReplayedWrongly, OverLimit, Rebuilding
<1> QED BY <1>1, <1>2, <1>4 DEF RebuildInv

LEMMA RebuildUpgrade ==
  ASSUME BootstrapInv, AgreeInv, RebuildInv, Upgrade
  PROVE  RebuildInv'
<1>1. PICK new \in Upgrades :
        /\ upgrade' = [projectors |-> new, at |-> Len(log)]
        /\ applied' = [p \in Projectors |-> IF p \in new THEN 0 ELSE applied[p]]
        /\ tables' = [messages |-> IF "threadMessages" \in new THEN {} ELSE tables.messages,
                      plans |-> IF "threadProposedPlans" \in new THEN {} ELSE tables.plans,
                      turns |-> IF "threadTurns" \in new THEN {} ELSE tables.turns,
                      pending |-> IF "threadTurns" \in new THEN None ELSE tables.pending]
  BY DEF Upgrade
<1>2. /\ upgrade = None /\ phase' = "down" /\ log # <<>> /\ UNCHANGED <<log, live>>
  BY DEF Upgrade, memory
<1>3. Len(log) \in Nat /\ Len(log) # 0
  <2>1. log \in Seq({log[i] : i \in DOMAIN log})
    BY DEF BootstrapInv, LogIsASequence
  <2> QED BY <1>2, <2>1, LenProperties, EmptySeq
<1>4. upgrade' # None /\ upgrade'.at = Len(log)
  <2>1. upgrade' \in [projectors : SUBSET Projectors, at : Nat]
    BY <1>1, <1>3, BootstrapAssumption
  <2> QED BY <1>1, <2>1, BootstrapAssumption
<1>5. LiveFollows'
  BY <1>2, <1>4 DEF RebuildInv, LiveFollows
<1>6. \A p \in Projectors : ~OverLimit(p)
  BY <1>2 DEF OverLimit
<1>7. /\ \A p \in Projectors : applied[p] = Len(log)
      /\ tables = live /\ Rebuilding
  <2>1. Rebuilding
    BY <1>2, <1>6 DEF RebuildInv, RevertsReplayedWrongly
  <2> QED BY <1>2, <1>6, <2>1, AllHaveCaughtUp, RebuiltTables
<1>8. /\ applied'["threadTurns"] = IF "threadTurns" \in new THEN 0 ELSE Len(log)
      /\ applied'["threadMessages"] = IF "threadMessages" \in new THEN 0 ELSE Len(log)
      /\ applied'["threadProposedPlans"] = IF "threadProposedPlans" \in new THEN 0 ELSE Len(log)
  BY <1>1, <1>7 DEF Projectors
<1>9. SameTurns(tables', TurnsAt(log)[applied'["threadTurns"]])
  <2>1. CASE "threadTurns" \in new
    <3>1. tables'.turns = {} /\ tables'.pending = None
      BY <1>1, <2>1
    <3>2. TurnsAt(log)[0] = EmptyTables
      BY <1>3, TurnsAtStep
    <3>3. EmptyTables.turns = {} /\ EmptyTables.pending = None
      BY DEF EmptyTables
    <3>4. applied'["threadTurns"] = 0
      BY <1>8, <2>1
    <3> QED BY <3>1, <3>2, <3>3, <3>4 DEF SameTurns
  <2>2. CASE "threadTurns" \notin new
    <3>1. tables'.turns = tables.turns /\ tables'.pending = tables.pending
      BY <1>1, <2>2
    <3>2. applied'["threadTurns"] = Len(log)
      BY <1>8, <2>2
    <3>3. SameTurns(live, TurnsAt(log)[Len(log)])
      BY <1>7 DEF Rebuilding
    <3> QED BY <1>7, <3>1, <3>2, <3>3 DEF SameTurns
  <2> QED BY <2>1, <2>2
<1>10. tables'.messages = IF applied'["threadMessages"] = Len(log) THEN live.messages
                          ELSE MessagesUpTo(log, applied'["threadMessages"])
  <2>1. MessagesUpTo(log, 0) = {}
    BY DEF MessagesUpTo
  <2>2. tables'.messages = IF "threadMessages" \in new THEN {} ELSE tables.messages
    BY <1>1
  <2> QED BY <1>3, <1>7, <1>8, <2>1, <2>2
<1>11. tables'.plans = IF applied'["threadProposedPlans"] = Len(log) THEN live.plans
                       ELSE ReplayedPlans(log, applied'["threadProposedPlans"], tables'.turns)
  <2>1. \A rows : ReplayedPlans(log, 0, rows) = {}
    BY DEF ReplayedPlans
  <2>2. tables'.plans = IF "threadProposedPlans" \in new THEN {} ELSE tables.plans
    BY <1>1
  <2> QED BY <1>3, <1>7, <1>8, <2>1, <2>2
<1>12. Rebuilding'
  BY <1>2, <1>7, <1>9, <1>10, <1>11 DEF Rebuilding
<1>13. upgrade'.at <= Len(log')
  BY <1>2, <1>3, <1>4
<1> QED BY <1>5, <1>12, <1>13 DEF RebuildInv

LEMMA RebuildRunProjector ==
  ASSUME BootstrapInv, AgreeInv, RebuildInv, RunProjector
  PROVE  RebuildInv'
<1> DEFINE p == Order[catching]
           i == applied[p] + 1
           N == Len(log)
<1>1. /\ phase = "bootstrap" /\ catching <= Len(Order) /\ until # None /\ applied[p] < until
      /\ tables' = Apply(p, tables, log[i])
      /\ applied' = [applied EXCEPT ![p] = applied[p] + 1]
      /\ UNCHANGED <<log, phase, thread, live, upgrade>>
  BY DEF RunProjector, memory, ghosts
<1>2. /\ N \in Nat /\ applied[p] \in Nat /\ i \in 1..N /\ p \in Projectors
      /\ applied \in [Projectors -> Nat]
  <2>1. applied[p] \in Nat /\ N \in Nat /\ p \in Projectors
    BY <1>1, CatchingType
  <2>2. until \in applied[p]..N
    BY <1>1 DEF BootstrapInv, StreamReachesTheEnd
  <2> QED BY <1>1, <2>1, <2>2 DEF BootstrapInv, SequencesAreTyped
<1> HIDE DEF p
<1>3. LiveFollows' /\ (upgrade' # None => upgrade'.at <= Len(log'))
  BY <1>1 DEF RebuildInv, LiveFollows
<1> SUFFICES ASSUME ~RevertsReplayedWrongly, \A q \in Projectors : ~OverLimit(q)
             PROVE  Rebuilding'
  <2>1. /\ RevertsReplayedWrongly' <=> RevertsReplayedWrongly
        /\ \A q : OverLimit(q)' <=> OverLimit(q)
    BY <1>1 DEF RevertsReplayedWrongly, OverLimit
  <2> QED BY <1>3, <2>1 DEF RebuildInv
<1>4. Rebuilding
  BY DEF RebuildInv
<1>5. \A j \in 1..N : EventAt(log, j) /\ Proper(log[j])
  <2>1. \A j \in 1..N : EventAt(log, j) /\ j \in Nat \ {0}
    BY DEF AgreeInv, LogIsWellFormed
  <2> QED BY <2>1, EventAtIs
<1>6. tables \in AllTables /\ live \in AllTables
  BY DEF AgreeInv
<1>7. \A q \in Projectors : applied[q] # N =>
        upgrade # None /\ q \in upgrade.projectors /\ N = upgrade.at /\ upgrade.at \in Nat
  <2>1. \A q \in Projectors : applied[q] = N \/ Behind(q)
    BY DEF BootstrapInv, OnlyNewAreBehind
  <2>2. upgrade # None => upgrade.at \in Nat
    BY DEF BootstrapInv, SequencesAreTyped
  <2> QED BY <2>1, <2>2, BootstrapAssumption DEF Behind, OverLimit
<1>8. upgrade # None /\ p \in upgrade.projectors /\ N = upgrade.at
  BY <1>2, <1>7
<1>9. LiveOn(log, N, live)
  BY <1>8 DEF RebuildInv, LiveFollows
<1>10. ~NoRevert(log, N) => "threadTurns" \notin upgrade.projectors /\ CountsAreSound(log, N)
  BY <1>8 DEF RevertsReplayedWrongly
<1>11. /\ applied'[p] = i /\ (\A q \in Projectors : q # p => applied'[q] = applied[q])
       /\ applied[p] = i - 1 /\ applied[p] # N
  BY <1>1, <1>2
<1>12. /\ "threadTurns" \in Projectors /\ "threadMessages" \in Projectors
       /\ "threadProposedPlans" \in Projectors
  BY DEF Projectors
<1>13. Proper(log[i])
  BY <1>2, <1>5
<1> HIDE DEF i, N
<1>14. CASE p = "threadTurns"
  <2>1. tables' = ApplyThreadTurns(tables, log[i])
    BY <1>1, <1>14 DEF Apply
  <2>2. tables'.messages = tables.messages /\ tables'.plans = tables.plans
    BY <1>6, <1>13, <2>1, TurnsEffect
  <2>3. SameTurns(tables, TurnsAt(log)[i - 1])
    BY <1>4, <1>11, <1>14 DEF Rebuilding
  <2>4. SameTurns(tables', TurnsAt(log)[i])
    BY <1>2, <1>5, <1>6, <2>1, <2>3, SameTurnsNext DEF N
  <2>5. NoRevert(log, N)
    BY <1>8, <1>10, <1>14
  <2>6. applied["threadProposedPlans"] \in 0..N
    BY <1>2, <1>12 DEF BootstrapInv, SequencesAreTyped, N
  <2>7. ReplayedPlans(log, applied["threadProposedPlans"], tables.turns)
          = ReplayedPlans(log, applied["threadProposedPlans"], tables'.turns)
    BY <1>2, <2>5, <2>6, ReplayedWithoutRevert
  <2> QED BY <1>1, <1>4, <1>11, <1>12, <1>14, <2>2, <2>4, <2>7 DEF Rebuilding, N
<1>15. CASE p = "threadMessages"
  <2>1. tables' = ApplyThreadMessages(tables, log[i])
    BY <1>1, <1>15 DEF Apply
  <2>2. /\ tables'.turns = tables.turns /\ tables'.pending = tables.pending
        /\ tables'.plans = tables.plans
        /\ IsMessage(log[i]) => tables'.messages = tables.messages \cup {MessageOf(log[i])}
        /\ IsMessage(log[i]) \/ IsRevert(log[i]) \/ tables'.messages = tables.messages
    BY <1>6, <1>13, <2>1, MessagesEffect
  <2>3. "threadTurns" \in upgrade.projectors
    <3>1. upgrade.projectors \in Upgrades
      BY <1>8 DEF BootstrapInv, SequencesAreTyped
    <3> QED BY <1>8, <1>15, <3>1, MessagesComeWithTurns
  <2>4. NoRevert(log, N) /\ ~IsRevert(log[i])
    BY <1>2, <1>10, <2>3 DEF NoRevert
  <2>5. tables.messages = MessagesUpTo(log, i - 1)
    BY <1>4, <1>11, <1>15 DEF Rebuilding, N
  <2>6. tables'.messages = MessagesUpTo(log, i)
    <3>1. i - 1 \in Nat /\ (i - 1) + 1 = i
      BY <1>2
    <3>2. /\ IsMessage(log[i]) =>
               MessagesUpTo(log, i) = MessagesUpTo(log, i - 1) \cup {MessageOf(log[i])}
          /\ ~IsMessage(log[i]) => MessagesUpTo(log, i) = MessagesUpTo(log, i - 1)
      BY <3>1, MessagesUpToNext
    <3> QED BY <2>2, <2>4, <2>5, <3>2
  <2>7. live.messages = MessagesUpTo(log, N)
    BY <1>9, <2>4 DEF LiveOn
  <2>8. SameTurns(tables', TurnsAt(log)[applied'["threadTurns"]])
    BY <1>4, <1>11, <1>12, <1>15, <2>2 DEF Rebuilding, SameTurns
  <2> QED BY <1>1, <1>4, <1>11, <1>12, <1>15, <2>2, <2>6, <2>7, <2>8 DEF Rebuilding, N
<1>16. CASE p = "threadProposedPlans"
  <2>1. tables' = ApplyThreadProposedPlans(tables, log[i])
    BY <1>1, <1>16 DEF Apply
  <2>2. /\ tables'.turns = tables.turns /\ tables'.pending = tables.pending
        /\ tables'.messages = tables.messages
    BY <1>6, <1>13, <2>1, PlansEffect
  <2>3. tables.plans = ReplayedPlans(log, i - 1, tables.turns)
    BY <1>4, <1>11, <1>16 DEF Rebuilding, N
  <2>4. tables'.plans = ReplayedPlans(log, i, tables.turns)
    <3>1. /\ i - 1 \in Nat /\ (i - 1) + 1 = i
          /\ \A j \in 1..i : EventAt(log, j)
      BY <1>2, <1>5
    <3> QED BY <1>6, <2>1, <2>3, <3>1, ReplayedNext
  <2>5. ReplayedPlans(log, N, tables.turns) = live.plans
    <3>1. CASE NoRevert(log, N)
      <4>1. N \in 0..N
        BY <1>2
      <4>2. ReplayedPlans(log, N, tables.turns) = PlansThat(log, N)
        BY <1>2, <3>1, <4>1, ReplayedWithoutRevert
      <4> QED BY <1>9, <3>1, <4>2 DEF LiveOn, PlansSurvive
    <3>2. CASE ~NoRevert(log, N)
      <4>1. CountsAreSound(log, N) /\ applied["threadTurns"] = N
        BY <1>7, <1>10, <1>12, <3>2 DEF N
      <4>2. tables.turns = live.turns
        BY <1>4, <4>1 DEF Rebuilding, SameTurns, N
      <4>3. SoundCounts(log, N) /\ Pairs(live.turns) = Counted(log, N)
        BY <1>2, <1>5, <1>9, <4>1, SoundAreSound DEF LiveOn, CountsFollow
      <4>4. ReplayedPlans(log, N, tables.turns) = PlansThat(log, N)
        BY <1>2, <4>2, <4>3, ReplayedAreThose
      <4> QED BY <1>9, <4>1, <4>4 DEF LiveOn, PlansSurvive
    <3> QED BY <3>1, <3>2
  <2>6. SameTurns(tables', TurnsAt(log)[applied'["threadTurns"]])
    BY <1>4, <1>11, <1>12, <1>16, <2>2 DEF Rebuilding, SameTurns
  <2> QED BY <1>1, <1>4, <1>11, <1>12, <1>16, <2>2, <2>4, <2>5, <2>6 DEF Rebuilding, N
<1>17. CASE p \notin {"threadTurns", "threadMessages", "threadProposedPlans"}
  <2>1. tables' = tables
    BY <1>1, <1>17 DEF Apply
  <2> QED BY <1>1, <1>4, <1>11, <1>12, <1>17, <2>1 DEF Rebuilding
<1> QED BY <1>14, <1>15, <1>16, <1>17

LEMMA InitRebuild == Init => RebuildInv
<1> SUFFICES ASSUME Init PROVE RebuildInv
  OBVIOUS
<1>1. /\ log = <<>> /\ Len(log) = 0 /\ phase = "down" /\ upgrade = None
      /\ tables = EmptyTables /\ live = EmptyTables
      /\ applied["threadTurns"] = 0 /\ applied["threadMessages"] = 0
      /\ applied["threadProposedPlans"] = 0
  BY DEF Init, Projectors
<1>2. LiveOn(log, 0, EmptyTables)
  <2>1. Diffs(log, 0) = {} /\ Counted(log, 0) = {} /\ Pairs({}) = {}
    BY DEF Diffs, Counted, Pairs
  <2>2. CountsFollow(log, 0, {})
    BY <2>1 DEF CountsFollow
  <2>3. PlansThat(log, 0) = {} /\ MessagesUpTo(log, 0) = {}
    BY DEF PlansThat, MessagesUpTo
  <2>4. EmptyTables.turns = {} /\ EmptyTables.plans = {} /\ EmptyTables.messages = {}
    BY DEF EmptyTables
  <2> QED BY <2>2, <2>3, <2>4 DEF LiveOn, OneRow, PlansSurvive
<1>3. TurnsAt(log)[0] = EmptyTables
  BY <1>1, TurnsAtStep
<1>4. Rebuilding
  BY <1>1, <1>3 DEF Rebuilding, SameTurns
<1> QED BY <1>1, <1>2, <1>4 DEF RebuildInv, LiveFollows

\* The tables before the upgrade follow the log, and those after it catch up with them.
THEOREM RebuildInvariant == Spec => []RebuildInv
<1>1. Init => RebuildInv
  BY InitRebuild
<1>2. BootstrapInv /\ AgreeInv /\ RebuildInv /\ [Next]_vars => RebuildInv'
  BY RebuildCommand, RebuildUpgrade, RebuildRunProjector, RebuildServe, RebuildOther DEF Next
<1> QED BY <1>1, <1>2, BootstrapInvariant, AgreeInvariant, PTL DEF Spec

(***************************************************************************)
(* Tables that an upgrade rebuilds one projector after the other are those *)
(* the events made, but for turns rebuilt with a revert in the log, counts *)
(* that are not sound in a log with a revert, and logs past the limit.     *)
(***************************************************************************)
THEOREM RebuiltAsBeforeHolds == Spec => []RebuiltAsBefore
<1>1. BootstrapInv /\ AgreeInv /\ RebuildInv => RebuiltAsBefore
  <2> SUFFICES ASSUME BootstrapInv, AgreeInv, RebuildInv, phase = "running",
                      ~RevertsReplayedWrongly, \A p \in Projectors : ~OverLimit(p)
               PROVE  tables = live
    BY DEF RebuiltAsBefore
  <2>1. Rebuilding
    BY DEF RebuildInv
  <2>2. \A p \in Projectors : applied[p] = Len(log)
    BY AllHaveCaughtUp
  <2> QED BY <2>1, <2>2, RebuiltTables
<1> QED BY <1>1, BootstrapInvariant, AgreeInvariant, RebuildInvariant, PTL

-----------------------------------------------------------------------------
(* The types. *)

LEMMA CountersCommit ==
  ASSUME BootstrapInv, CountersAreTyped, NEW S, NEW events \in Seq(S), Commit(events)
  PROVE  CountersAreTyped'
<1>1. /\ log' = log \o events /\ crashes' = crashes
      /\ skipped' = [p \in Projectors |-> skipped[p] \cup ((applied[p] + 1)..Len(log))]
      /\ even' = (even /\ (events[1].type = "thread.reverted" => Aligned))
  BY DEF Commit
<1>2. Len(log) \in Nat /\ Len(events) \in Nat /\ Len(log') = Len(log) + Len(events)
  <2> DEFINE A == {log[i] : i \in DOMAIN log} \cup S
  <2>1. log \in Seq(A) /\ events \in Seq(A)
    <3>1. {log[i] : i \in DOMAIN log} \subseteq A /\ S \subseteq A
      OBVIOUS
    <3>2. log \in Seq({log[i] : i \in DOMAIN log})
      BY DEF BootstrapInv, LogIsASequence
    <3> HIDE DEF A
    <3> QED BY <3>1, <3>2, SeqMonotonic
  <2> HIDE DEF A
  <2> QED BY <1>1, <2>1
<1>3. even' \in BOOLEAN
  BY <1>1, Zenon
<1>4. ASSUME NEW p \in Projectors
      PROVE  skipped[p] \cup ((applied[p] + 1)..Len(log)) \in SUBSET (1..Len(log'))
  <2>1. applied[p] \in Nat
    BY DEF BootstrapInv, SequencesAreTyped
  <2>2. skipped[p] \in SUBSET (1..Len(log))
    BY DEF CountersAreTyped
  <2> QED BY <1>2, <2>1, <2>2
<1>5. skipped' \in [Projectors -> SUBSET (1..Len(log'))]
  BY <1>1, <1>4
<1> QED BY <1>1, <1>3, <1>5 DEF CountersAreTyped

(***************************************************************************)
(* The types: no projector is ahead of the log at any moment, and what a   *)
(* stream of bootstrap returns is of the log and not yet applied.          *)
(***************************************************************************)
THEOREM TypesHold == Spec => []TypeOK
<1>1. Init => CountersAreTyped
  <2> SUFFICES ASSUME Init PROVE CountersAreTyped
    OBVIOUS
  <2>1. MaxCrashes \in Nat
    BY BootstrapAssumption
  <2> QED BY <2>1 DEF Init, CountersAreTyped
<1>2. BootstrapInv /\ CountersAreTyped /\ [Next]_vars => CountersAreTyped'
  <2> SUFFICES ASSUME BootstrapInv, CountersAreTyped, [Next]_vars PROVE CountersAreTyped'
    OBVIOUS
  <2>1. ASSUME NEW e, Commit(<<e>>) PROVE CountersAreTyped'
    <3>1. <<e>> \in Seq({e})
      OBVIOUS
    <3> QED BY <2>1, <3>1, CountersCommit
  <2>2. ASSUME NEW e, NEW f, Commit(<<e, f>>) PROVE CountersAreTyped'
    <3>1. <<e, f>> \in Seq({e, f})
      OBVIOUS
    <3> QED BY <2>2, <3>1, CountersCommit
  <2>3. CASE SendMessage
    BY <2>2, <2>3 DEF SendMessage
  <2>4. ASSUME NEW turn \in Turns, RunTurn(turn) \/ Answer(turn) \/ ProposePlan(turn)
        PROVE  CountersAreTyped'
    BY <2>1, <2>4 DEF RunTurn, Answer, ProposePlan
  <2>5. ASSUME NEW turn \in Turns, NEW status \in {"ready", "missing"},
               CompleteDiff(turn, status)
        PROVE  CountersAreTyped'
    BY <2>1, <2>5 DEF CompleteDiff
  <2>6. ASSUME NEW n \in 0..MaxEvents, CompleteRevert(n) PROVE CountersAreTyped'
    BY <2>1, <2>6 DEF CompleteRevert
  <2>7. CASE Crash
    <3>1. crashes \in Nat /\ MaxCrashes \in Nat
      BY BootstrapAssumption DEF CountersAreTyped
    <3> QED BY <2>7, <3>1 DEF Crash, CountersAreTyped, store, ghosts
  <2>8. CASE Upgrade \/ Start \/ ReadState \/ RunProjector \/ NextProjector \/ Serve
             \/ UNCHANGED vars
    <3>1. UNCHANGED <<log, crashes, skipped, even>>
      BY <2>8 DEF Upgrade, Start, ReadState, RunProjector, NextProjector, Serve,
                  vars, store, ghosts
    <3> QED BY <3>1 DEF CountersAreTyped
  <2> QED BY <2>3, <2>4, <2>5, <2>6, <2>7, <2>8 DEF Next
<1>3. BootstrapInv /\ RebuildInv /\ CountersAreTyped => TypeOK
  <2> SUFFICES ASSUME BootstrapInv, RebuildInv, CountersAreTyped PROVE TypeOK
    OBVIOUS
  <2>1. Len(log) \in Nat
    BY LenProperties DEF BootstrapInv, LogIsASequence
  <2>2. applied \in [Projectors -> 0..Len(log)]
    BY <2>1 DEF BootstrapInv, SequencesAreTyped
  <2>3. phase \in {"down", "bootstrap", "running"} /\ catching \in 1..(Len(Order) + 1)
    BY DEF BootstrapInv, SequencesAreTyped
  <2>4. until # None => /\ phase = "bootstrap" /\ catching <= Len(Order)
                        /\ until \in applied[Order[catching]]..Len(log)
    BY DEF BootstrapInv, StreamReachesTheEnd
  <2>5. upgrade # None => upgrade.projectors \in Upgrades /\ upgrade.at \in 0..Len(log)
    BY <2>1 DEF BootstrapInv, SequencesAreTyped, RebuildInv
  <2> QED BY <2>2, <2>3, <2>4, <2>5 DEF CountersAreTyped, TypeOK
<1> QED BY <1>1, <1>2, <1>3, BootstrapInvariant, RebuildInvariant, PTL DEF Spec
=============================================================================
