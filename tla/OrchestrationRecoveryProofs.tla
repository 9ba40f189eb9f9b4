---------------------- MODULE OrchestrationRecoveryProofs ----------------------
(***************************************************************************)
(* The client's recovery, for any number of events, lost connections,      *)
(* welcomes and failures, and any retry limit but zero: its store holds    *)
(* each event once, and at rest it has all it was told of.                 *)
(***************************************************************************)
EXTENDS OrchestrationRecovery, FiniteSetTheorems, TLAPS

\* The greater of two, and the greatest of an interval.
LEMMA MaxOfTwo ==
  ASSUME NEW a \in Int, NEW b \in Int
  PROVE  Max({a, b}) = IF a >= b THEN a ELSE b
<1>1. CASE a >= b
  <2>1. a \in {a, b} /\ \A y \in {a, b} : a >= y  BY <1>1
  <2>2. \A x \in {a, b} : (\A y \in {a, b} : x >= y) => x = a  BY <1>1
  <2> QED BY <1>1, <2>1, <2>2 DEF Max
<1>2. CASE ~ (a >= b)
  <2>1. b \in {a, b} /\ \A y \in {a, b} : b >= y  BY <1>2
  <2>2. \A x \in {a, b} : (\A y \in {a, b} : x >= y) => x = b  BY <1>2
  <2> QED BY <1>2, <2>1, <2>2 DEF Max
<1> QED BY <1>1, <1>2

LEMMA MaxOfInterval ==
  ASSUME NEW a \in Int, NEW b \in Int, a <= b
  PROVE  Max(a..b) = b
<1>1. b \in a..b /\ \A y \in a..b : b >= y  OBVIOUS
<1>2. \A x \in a..b : (\A y \in a..b : x >= y) => x = b  BY <1>1
<1> QED BY <1>1, <1>2 DEF Max

\* The events after a up to b, in order.
Consecutive(batch, a, b) ==
  /\ DOMAIN batch = 1..(b - a)
  /\ \A i \in 1..(b - a) : batch[i] = a + i

\* A batch of consecutive events that starts at or before the client's
\* position, and ends at or after it, brings the client to its end.
LEMMA BatchApplied ==
  ASSUME NEW k \in Nat, NEW s \in Coordinators(k),
         NEW a \in Nat, NEW b \in 0..k, a <= s.latest, s.latest <= b,
         NEW batch, Consecutive(batch, a, b)
  PROVE  /\ Fresh(s, batch) = (s.latest + 1)..b
         /\ MarkApplied(s, batch) \in Coordinators(k)
         /\ MarkApplied(s, batch).latest = b
         /\ MarkApplied(s, batch).highest = IF b > s.latest /\ b > s.highest THEN b ELSE s.highest
         /\ MarkApplied(s, batch).bootstrapped = s.bootstrapped
         /\ MarkApplied(s, batch).pendingReplay = s.pendingReplay
         /\ MarkApplied(s, batch).inFlight = s.inFlight
         /\ MarkApplied(s, batch).replayStart = s.replayStart
<1>1. s.latest \in 0..k /\ s.highest \in 0..k  BY DEF Coordinators
<1>2. Fresh(s, batch) = (s.latest + 1)..b
  <2>1. ASSUME NEW n \in Fresh(s, batch) PROVE n \in (s.latest + 1)..b
    <3>1. PICK i \in 1..(b - a) : n = a + i  BY DEF Fresh, Consecutive
    <3> QED BY <1>1, <2>1, <3>1 DEF Fresh
  <2>2. ASSUME NEW n \in (s.latest + 1)..b PROVE n \in Fresh(s, batch)
    <3>1. n - a \in 1..(b - a) /\ a + (n - a) = n  BY <1>1
    <3>2. n - a \in DOMAIN batch /\ batch[n - a] = n  BY <3>1 DEF Consecutive
    <3>3. n > s.latest  BY <1>1
    <3> QED BY <3>2, <3>3 DEF Fresh
  <2> QED BY <2>1, <2>2
<1>3. CASE s.latest = b
  <2>1. Fresh(s, batch) = {}  BY <1>1, <1>2, <1>3
  <2> QED BY <1>1, <1>2, <1>3, <2>1 DEF MarkApplied
<1>4. CASE s.latest < b
  <2>1. Fresh(s, batch) # {} /\ Max(Fresh(s, batch)) = b
    <3>1. s.latest + 1 <= b /\ s.latest + 1 \in Int /\ b \in Int  BY <1>1, <1>4
    <3>2. Max((s.latest + 1)..b) = b  BY <3>1, MaxOfInterval
    <3>3. b \in (s.latest + 1)..b  BY <3>1
    <3> QED BY <1>2, <3>2, <3>3
  <2>2. MarkApplied(s, batch) = [s EXCEPT !.latest = b, !.highest = Max({s.highest, b})]
    BY <2>1 DEF MarkApplied
  <2>3. Max({s.highest, b}) = IF s.highest >= b THEN s.highest ELSE b
    <3>1. s.highest \in Int /\ b \in Int  BY <1>1
    <3> QED BY <3>1, MaxOfTwo
  <2>4. Max({s.highest, b}) \in 0..k  BY <1>1, <2>3
  <2> DEFINE h == Max({s.highest, b})
  <2>5. h = IF b > s.latest /\ b > s.highest THEN b ELSE s.highest
    BY <1>1, <1>4, <2>3
  <2>6. h \in 0..k /\ MarkApplied(s, batch) = [s EXCEPT !.latest = b, !.highest = h]
    BY <2>2, <2>4
  <2> HIDE DEF h
  <2> QED BY <1>2, <2>5, <2>6 DEF Coordinators
<1> QED BY <1>1, <1>3, <1>4

\* ... and its store to hold each event up to there once.
LEMMA BatchStored ==
  ASSUME NEW k \in Nat, c \in Coordinators(k), StoreMatchesLatest,
         NEW a \in Nat, NEW b \in 0..k, a <= c.latest, c.latest <= b,
         NEW batch, Consecutive(batch, a, b)
  PROVE  ApplyBatch(c, batch) = [n \in Events |-> IF n <= b THEN 1 ELSE 0]
<1>1. c.latest \in 0..k  BY DEF Coordinators
<1>2. Fresh(c, batch) = (c.latest + 1)..b  BY BatchApplied
<1>3. ASSUME NEW n \in Events
      PROVE  ApplyBatch(c, batch)[n] = IF n <= b THEN 1 ELSE 0
  <2>0. n \in Nat \ {0}  BY RecoveryAssumption DEF Events
  <2>1. CASE n \in (c.latest + 1)..b
    <3>1. \A i \in 1..(b - a) : batch[i] = n <=> i = n - a  BY <2>0 DEF Consecutive
    <3>2. n - a \in 1..(b - a)  BY <1>1, <2>1
    <3>3. {i \in DOMAIN batch : batch[i] = n} = {n - a}  BY <3>1, <3>2 DEF Consecutive
    <3>4. Cardinality({n - a}) = 1  BY FS_Singleton
    <3>5. store[n] = 0  BY <1>1, <2>0, <2>1 DEF StoreMatchesLatest
    <3>6. n <= b /\ n \in Fresh(c, batch)  BY <1>1, <1>2, <2>1
    <3> DEFINE times == Cardinality({i \in DOMAIN batch : batch[i] = n})
    <3>7. times = 1  BY <3>3, <3>4
    <3>8. ApplyBatch(c, batch)[n] = store[n] + times  BY <3>6 DEF ApplyBatch
    <3> HIDE DEF times
    <3>9. ApplyBatch(c, batch)[n] = 1  BY <3>5, <3>7, <3>8
    <3> QED BY <3>6, <3>9
  <2>2. CASE n \notin (c.latest + 1)..b
    <3>1. store[n] = IF n <= c.latest THEN 1 ELSE 0  BY DEF StoreMatchesLatest
    <3>2. ApplyBatch(c, batch)[n] = store[n]  BY <1>2, <2>2 DEF ApplyBatch
    <3>3. n <= b <=> n <= c.latest  BY <1>1, <2>0, <2>2
    <3> QED BY <3>1, <3>2, <3>3
  <2> QED BY <2>1, <2>2
<1> QED BY <1>3 DEF ApplyBatch

\* What is pending is such a batch.
LEMMA PendingIsBatch ==
  ASSUME TypeOK
  PROVE  /\ c.latest \in Nat /\ Len(pending) \in Nat
         /\ pending = <<>> => Len(pending) = 0
         /\ pending # <<>> => Len(pending) = 1
         /\ Consecutive(pending, c.latest, c.latest + Len(pending))
<1>1. c.latest \in Nat  BY RecoveryAssumption DEF TypeOK, Coordinators
<1>2. CASE pending = <<>>
  BY <1>1, <1>2 DEF Consecutive
<1>3. CASE pending = <<c.latest + 1>>
  <2>1. Len(pending) = 1 /\ DOMAIN pending = 1..1 /\ pending[1] = c.latest + 1
    BY <1>1, <1>3
  <2>2. (c.latest + 1) - c.latest = 1  BY <1>1
  <2> QED BY <1>1, <1>3, <2>1, <2>2 DEF Consecutive
<1> QED BY <1>1, <1>2, <1>3 DEF TypeOK

\* A recovery that begins, or is refused, changes no position; a replay
\* starts where the client is.
LEMMA BeginKeeps ==
  ASSUME NEW k \in Nat, NEW s \in Coordinators(k), NEW kind \in {"snapshot", "replay"}
  PROVE  /\ Begin(s, kind) \in Coordinators(k)
         /\ Begin(s, kind).latest = s.latest
         /\ Begin(s, kind).highest = s.highest
         /\ Begin(s, kind).bootstrapped = s.bootstrapped
         /\ s.inFlight # "none" => /\ Begin(s, kind).inFlight = s.inFlight
                                   /\ Begin(s, kind).replayStart = s.replayStart
         /\ s.inFlight = "none" =>
              IF kind = "replay" /\ ~ s.bootstrapped
              THEN Begin(s, kind).inFlight = "none"
              ELSE /\ Begin(s, kind).inFlight = kind
                   /\ kind = "replay" => Begin(s, kind).replayStart = s.latest
BY DEF Begin, Coordinators

\* The coordinator is created with the first snapshot on its way.
LEMMA RecoveryInvInit == Init => RecoveryInv
<1> SUFFICES ASSUME Init PROVE RecoveryInv
  OBVIOUS
<1>1. TypeOK
  <2>1. committed \in 0..MaxEvents /\ committed \in Nat /\ published \in 0..committed
    BY RecoveryAssumption DEF Init
  <2>2. c \in Coordinators(committed) /\ c.latest = 0
    BY <2>1 DEF Init, Coordinators
  <2>3. tracker \in [attempts : Nat, latest : 0..committed, highest : 0..committed]
    BY <2>1 DEF Init, NoTracker
  <2>4. store \in [Events -> Nat]  BY DEF Init
  <2>5. cursor \in 0..published /\ answer \in {NoAnswer} \cup 0..committed
    BY <2>1 DEF Init
  <2>6. pending \in {<<>>, <<c.latest + 1>>}  BY DEF Init
  <2>7. drops \in Nat /\ welcomes \in Nat /\ failures \in Nat /\ timers \in Nat
    BY DEF Init
  <2>8. /\ channel \in {"opening", "live", "down"}
        /\ heard \in BOOLEAN /\ gaveUp \in BOOLEAN
    BY DEF Init
  <2> QED BY <2>1, <2>2, <2>3, <2>4, <2>5, <2>6, <2>7, <2>8 DEF TypeOK
<1>2. StoreMatchesLatest
  BY RecoveryAssumption DEF Init, StoreMatchesLatest, Events
<1> QED BY <1>1, <1>2 DEF Init, RecoveryInv, NoAnswer

\* The numbers the steps compare, and their order.
Bounded ==
  /\ committed \in Nat /\ published \in Nat /\ cursor \in Nat
  /\ cursor <= published /\ published <= committed
  /\ c.latest \in Nat /\ c.latest <= committed
  /\ c.highest \in Nat /\ c.highest <= committed
  /\ tracker.highest \in Nat /\ tracker.highest <= committed
  /\ Len(pending) \in Nat /\ c.latest + Len(pending) <= committed

LEMMA Bounds ==
  ASSUME TypeOK, pending # <<>> => c.latest < cursor
  PROVE  Bounded
<1>1. /\ committed \in Nat /\ published \in Nat /\ cursor \in Nat
      /\ cursor <= published /\ published <= committed
  BY RecoveryAssumption DEF TypeOK
<1>2. /\ c.latest \in Nat /\ c.latest <= committed
      /\ c.highest \in Nat /\ c.highest <= committed
  BY <1>1 DEF TypeOK, Coordinators
<1>3. tracker.highest \in Nat /\ tracker.highest <= committed
  BY <1>1 DEF TypeOK
<1>4. /\ pending = <<>> => Len(pending) = 0
      /\ pending # <<>> => Len(pending) = 1
  BY PendingIsBatch
<1>5. CASE pending = <<>>  BY <1>1, <1>2, <1>3, <1>4, <1>5 DEF Bounded
<1>6. CASE pending # <<>>
  <2>1. c.latest + 1 <= committed  BY <1>1, <1>2, <1>6
  <2>2. Len(pending) = 1  BY <1>4, <1>6
  <2>3. Len(pending) \in Nat /\ c.latest + Len(pending) <= committed  BY <2>1, <2>2
  <2> QED BY <1>1, <1>2, <1>3, <2>3 DEF Bounded
<1> QED BY <1>5, <1>6

\* The server and the connection change nothing the client relies on.
LEMMA EnvironmentStep ==
  RecoveryInv /\ (Commit \/ Publish \/ Subscribed \/ Drop \/ Answer) => RecoveryInv'
<1> SUFFICES ASSUME RecoveryInv, Commit \/ Publish \/ Subscribed \/ Drop \/ Answer
             PROVE  RecoveryInv'
  OBVIOUS
<1> USE RecoveryAssumption DEF RecoveryInv, client, connection, server, env
<1>0. Bounded  BY Bounds DEF RecoveryInv
<1>1. CASE Commit
  <2>1. TypeOK'  BY <1>0, <1>1 DEF Bounded, Commit, TypeOK, Coordinators
  <2> QED BY <1>1, <2>1 DEF Commit, StoreMatchesLatest
<1>2. CASE Publish
  <2>1. TypeOK'  BY <1>0, <1>2 DEF Bounded, Publish, TypeOK, Coordinators
  <2> QED BY <1>2, <2>1 DEF Publish, StoreMatchesLatest
<1>3. CASE Subscribed
  <2>1. TypeOK'  BY <1>0, <1>3 DEF Bounded, Subscribed, TypeOK, Coordinators
  <2> QED BY <1>3, <2>1 DEF Subscribed, StoreMatchesLatest
<1>4. CASE Drop
  <2>1. TypeOK'  BY <1>0, <1>4 DEF Bounded, Drop, TypeOK, Coordinators
  <2> QED BY <1>4, <2>1 DEF Drop, StoreMatchesLatest
<1>5. CASE Answer
  <2>1. TypeOK'  BY <1>0, <1>5 DEF Bounded, Answer, TypeOK, Coordinators
  <2> QED BY <1>0, <1>5, <2>1 DEF Bounded, Answer, StoreMatchesLatest
<1> QED BY <1>1, <1>2, <1>3, <1>4, <1>5

\* flushPendingDomainEvents brings the client to the end of what is pending.
LEMMA FlushApplies ==
  ASSUME RecoveryInv, NEW s \in Coordinators(committed), s.latest = c.latest
  PROVE  /\ MarkApplied(s, pending) \in Coordinators(committed)
         /\ MarkApplied(s, pending).latest = c.latest + Len(pending)
         /\ \/ MarkApplied(s, pending).highest = s.highest
            \/ MarkApplied(s, pending).highest = c.latest + Len(pending)
         /\ MarkApplied(s, pending).bootstrapped = s.bootstrapped
         /\ MarkApplied(s, pending).inFlight = s.inFlight
         /\ MarkApplied(s, pending).replayStart = s.replayStart
         /\ ApplyBatch(c, pending) =
              [n \in Events |-> IF n <= c.latest + Len(pending) THEN 1 ELSE 0]
<1> DEFINE b == c.latest + Len(pending)
<1>1. /\ committed \in Nat /\ c.latest \in Nat /\ b \in 0..committed
      /\ c.latest <= c.latest /\ c.latest <= b
  BY Bounds DEF RecoveryInv, Bounded
<1>2. Consecutive(pending, c.latest, b)
  BY PendingIsBatch DEF RecoveryInv
<1>3. c \in Coordinators(committed) /\ StoreMatchesLatest
  BY DEF RecoveryInv, TypeOK
<1> HIDE DEF b
<1>4. ApplyBatch(c, pending) = [n \in Events |-> IF n <= b THEN 1 ELSE 0]
  BY <1>1, <1>2, <1>3, BatchStored
<1>5. /\ MarkApplied(s, pending) \in Coordinators(committed)
      /\ MarkApplied(s, pending).latest = b
      /\ MarkApplied(s, pending).highest = IF b > s.latest /\ b > s.highest THEN b ELSE s.highest
      /\ MarkApplied(s, pending).bootstrapped = s.bootstrapped
      /\ MarkApplied(s, pending).inFlight = s.inFlight
      /\ MarkApplied(s, pending).replayStart = s.replayStart
  BY <1>1, <1>2, BatchApplied
<1> QED BY <1>4, <1>5 DEF b

LEMMA FlushStep == RecoveryInv /\ Flush => RecoveryInv'
<1> SUFFICES ASSUME RecoveryInv, Flush PROVE RecoveryInv'
  OBVIOUS
<1>1. Bounded  BY Bounds DEF RecoveryInv
<1>2. /\ c' \in Coordinators(committed)
      /\ c'.latest = c.latest + Len(pending)
      /\ c'.highest = c.highest \/ c'.highest = c.latest + Len(pending)
      /\ c'.bootstrapped = c.bootstrapped /\ c'.inFlight = c.inFlight
      /\ c'.replayStart = c.replayStart
      /\ store' = [n \in Events |-> IF n <= c.latest + Len(pending) THEN 1 ELSE 0]
  <2>1. c \in Coordinators(committed)  BY DEF RecoveryInv, TypeOK
  <2> QED BY <2>1, FlushApplies DEF Flush, Flushed, Leave
<1>3. pending' = <<>> /\ Len(pending') = 0  BY DEF Flush
<1>4. gaveUp' = (gaveUp /\ c'.inFlight = "none")  BY DEF Flush, Leave
<1>5. UNCHANGED <<committed, published, channel, cursor, heard, drops, welcomes,
                  failures, tracker, timers, answer>>
  BY DEF Flush, env, server, connection
<1>6. TypeOK'
  <2>1. store' \in [Events -> Nat]  BY <1>2
  <2> QED BY <1>2, <1>3, <1>4, <1>5, <2>1 DEF TypeOK, RecoveryInv
<1>7. StoreMatchesLatest'  BY <1>2 DEF StoreMatchesLatest
<1>8. answer' # NoAnswer => c'.latest + Len(pending') <= answer' /\ tracker'.highest <= answer'
  BY <1>1, <1>2, <1>3, <1>5 DEF Bounded, RecoveryInv
<1>9. c'.inFlight = "replay" => c'.bootstrapped /\ c'.replayStart <= c'.latest
  <2>1. c.replayStart \in Nat  BY DEF RecoveryInv, TypeOK, Coordinators
  <2> QED BY <1>1, <1>2, <2>1 DEF Bounded, RecoveryInv
<1>10. c'.inFlight = "none" /\ timers' = 0 /\ ~ gaveUp' => c'.highest <= c'.latest + Len(pending')
  <2>1. c'.inFlight = "none" /\ timers' = 0 /\ ~ gaveUp' =>
          c.inFlight = "none" /\ timers = 0 /\ ~ gaveUp
    BY <1>2, <1>4, <1>5
  <2>2. c.inFlight = "none" /\ timers = 0 /\ ~ gaveUp => c.highest <= c.latest + Len(pending)
    BY DEF RecoveryInv
  <2> QED BY <1>1, <1>2, <1>3, <2>1, <2>2 DEF Bounded
<1>11. c'.bootstrapped \/ c'.inFlight = "snapshot" \/ gaveUp'
  BY <1>2, <1>4 DEF RecoveryInv, TypeOK, Coordinators
<1> QED BY <1>2, <1>3, <1>5, <1>6, <1>7, <1>8, <1>9, <1>10, <1>11 DEF RecoveryInv

\* A replay or a snapshot that is asked for with nothing pending, or after the
\* flush, leaves the client where it is.
LEMMA RefusedOrBegun ==
  ASSUME RecoveryInv, NEW s \in Coordinators(committed),
         s.latest \in {c.latest, c.latest + Len(pending)},
         s.bootstrapped = c.bootstrapped, s.inFlight = c.inFlight,
         s.replayStart = c.replayStart,
         NEW kind \in {"snapshot", "replay"},
         Leave(Begin(s, kind))
  PROVE  /\ c' \in Coordinators(committed)
         /\ c'.latest = s.latest /\ gaveUp' \in BOOLEAN
         /\ c'.inFlight = "none" => c.inFlight = "none" /\ gaveUp'
         /\ c'.inFlight = "replay" => c'.bootstrapped /\ c'.replayStart <= c'.latest
         /\ c'.bootstrapped \/ c'.inFlight = "snapshot" \/ gaveUp'
<1>1. Bounded  BY Bounds DEF RecoveryInv
<1>2. committed \in Nat /\ c' = Begin(s, kind) /\ gaveUp' = (gaveUp /\ c'.inFlight = "none")
  BY <1>1 DEF Bounded, Leave
<1>3. /\ c' \in Coordinators(committed)
      /\ c'.latest = s.latest /\ c'.bootstrapped = s.bootstrapped
      /\ s.inFlight # "none" => c'.inFlight = s.inFlight /\ c'.replayStart = s.replayStart
      /\ s.inFlight = "none" =>
           IF kind = "replay" /\ ~ s.bootstrapped THEN c'.inFlight = "none"
           ELSE c'.inFlight = kind /\ (kind = "replay" => c'.replayStart = s.latest)
  BY <1>2, BeginKeeps
<1>4. c.bootstrapped \/ c.inFlight = "snapshot" \/ gaveUp
  BY DEF RecoveryInv
<1>5. c'.inFlight = "none" => c.inFlight = "none" /\ gaveUp
  <2>1. CASE c.inFlight # "none"  BY <1>3, <2>1
  <2>2. CASE c.inFlight = "none"  BY <1>3, <1>4, <2>2
  <2> QED BY <2>1, <2>2
<1>6. c'.inFlight = "replay" => c'.bootstrapped /\ c'.replayStart <= c'.latest
  <2>1. CASE c.inFlight = "none"  BY <1>1, <1>3, <2>1 DEF Bounded
  <2>2. CASE c.inFlight # "none"
    <3>1. c.replayStart \in Nat  BY <1>1 DEF RecoveryInv, TypeOK, Coordinators, Bounded
    <3>2. c.inFlight = "replay" => c.bootstrapped /\ c.replayStart <= c.latest
      BY DEF RecoveryInv
    <3> QED BY <1>1, <1>3, <2>2, <3>1, <3>2 DEF Bounded
  <2> QED BY <2>1, <2>2
<1>7. gaveUp' \in BOOLEAN  BY <1>2
<1>8. c'.inFlight = "none" => gaveUp'  BY <1>2, <1>5
<1>9. c'.bootstrapped \/ c'.inFlight = "snapshot" \/ gaveUp'
  <2>1. c'.inFlight \in {"none", "snapshot", "replay"}  BY <1>3 DEF Coordinators
  <2> QED BY <1>6, <1>8, <2>1
<1> QED BY <1>3, <1>5, <1>6, <1>7, <1>8, <1>9

LEMMA WelcomeAndTimerStep == RecoveryInv /\ (OnWelcome \/ RetryTimer) => RecoveryInv'
<1> SUFFICES ASSUME RecoveryInv, OnWelcome \/ RetryTimer PROVE RecoveryInv'
  OBVIOUS
<1>1. Leave(Begin(c, "snapshot")) \/ Leave(Begin(c, "replay"))
  BY DEF OnWelcome, RetryTimer
<1>2. c \in Coordinators(committed)  BY DEF RecoveryInv, TypeOK
<1>3. /\ c' \in Coordinators(committed)
      /\ c'.latest = c.latest /\ gaveUp' \in BOOLEAN
      /\ c'.inFlight = "none" => c.inFlight = "none" /\ gaveUp'
      /\ c'.inFlight = "replay" => c'.bootstrapped /\ c'.replayStart <= c'.latest
      /\ c'.bootstrapped \/ c'.inFlight = "snapshot" \/ gaveUp'
  BY <1>1, <1>2, RefusedOrBegun
<1>4. /\ UNCHANGED <<committed, published, channel, cursor, heard, drops, failures,
                     tracker, answer, pending, store>>
      /\ timers' \in Nat /\ welcomes' \in Nat
  BY DEF OnWelcome, RetryTimer, env, server, connection, RecoveryInv, TypeOK
<1>5. TypeOK'  BY <1>3, <1>4 DEF RecoveryInv, TypeOK
<1>6. StoreMatchesLatest'  BY <1>3, <1>4 DEF RecoveryInv, StoreMatchesLatest
<1> QED BY <1>3, <1>4, <1>5, <1>6 DEF RecoveryInv

LEMMA ResubscribeStep == RecoveryInv /\ Resubscribe => RecoveryInv'
<1> SUFFICES ASSUME RecoveryInv, Resubscribe PROVE RecoveryInv'
  OBVIOUS
<1>1. Bounded  BY Bounds DEF RecoveryInv
<1>2. /\ UNCHANGED <<committed, published, cursor, heard, drops, welcomes, failures,
                     tracker, timers, answer>>
      /\ channel' = "opening"
  BY DEF Resubscribe, server
<1>3. CASE heard
  <2>1. /\ Leave(Begin(Flushed, "replay"))
        /\ store' = ApplyBatch(c, pending) /\ pending' = <<>> /\ Len(pending') = 0
    BY <1>3 DEF Resubscribe
  <2>2. /\ Flushed \in Coordinators(committed)
        /\ Flushed.latest = c.latest + Len(pending)
        /\ Flushed.bootstrapped = c.bootstrapped /\ Flushed.inFlight = c.inFlight
        /\ Flushed.replayStart = c.replayStart
        /\ store' = [n \in Events |-> IF n <= c.latest + Len(pending) THEN 1 ELSE 0]
    <3>1. c \in Coordinators(committed)  BY DEF RecoveryInv, TypeOK
    <3> QED BY <2>1, <3>1, FlushApplies DEF Flushed
  <2>3. /\ c' \in Coordinators(committed)
        /\ c'.latest = Flushed.latest /\ gaveUp' \in BOOLEAN
        /\ c'.inFlight = "none" => c.inFlight = "none" /\ gaveUp'
        /\ c'.inFlight = "replay" => c'.bootstrapped /\ c'.replayStart <= c'.latest
        /\ c'.bootstrapped \/ c'.inFlight = "snapshot" \/ gaveUp'
    BY <2>1, <2>2, RefusedOrBegun
  <2>4. TypeOK'
    <3>1. store' \in [Events -> Nat]  BY <2>2
    <3> QED BY <1>2, <2>1, <2>3, <3>1 DEF RecoveryInv, TypeOK
  <2>5. StoreMatchesLatest'  BY <2>2, <2>3 DEF StoreMatchesLatest
  <2>6. answer' # NoAnswer => c'.latest + Len(pending') <= answer' /\ tracker'.highest <= answer'
    BY <1>1, <1>2, <2>1, <2>2, <2>3 DEF Bounded, RecoveryInv
  <2> QED BY <1>2, <2>1, <2>3, <2>4, <2>5, <2>6 DEF RecoveryInv
<1>4. CASE ~ heard
  <2>1. UNCHANGED <<c, gaveUp, store, pending>> /\ pending = <<>>
    BY <1>4 DEF Resubscribe, RecoveryInv
  <2>2. TypeOK'  BY <1>2, <2>1 DEF RecoveryInv, TypeOK
  <2>3. StoreMatchesLatest'  BY <2>1 DEF RecoveryInv, StoreMatchesLatest
  <2> QED BY <1>2, <2>1, <2>2, <2>3 DEF RecoveryInv
<1> QED BY <1>3, <1>4

LEMMA DomainEventStep == RecoveryInv /\ OnDomainEvent => RecoveryInv'
<1> SUFFICES ASSUME RecoveryInv, OnDomainEvent PROVE RecoveryInv'
  OBVIOUS
<1> DEFINE n == cursor + 1
           seen == Observe(c, n)
           noted == [seen EXCEPT !.pendingReplay = TRUE]
<1>1. Bounded  BY Bounds DEF RecoveryInv
<1>2. /\ channel = "live" /\ cursor < published
      /\ cursor' = n /\ heard' = TRUE
      /\ UNCHANGED <<committed, published, channel, drops, welcomes, failures,
                     tracker, timers, answer>>
  BY DEF OnDomainEvent, server
<1>3. n \in Nat /\ n <= published /\ n <= committed /\ cursor < n
  BY <1>1, <1>2 DEF Bounded
<1>4. /\ seen \in Coordinators(committed)
      /\ seen.highest = IF c.highest >= n THEN c.highest ELSE n
      /\ \A f \in {"latest", "bootstrapped", "inFlight", "replayStart"} : seen[f] = c[f]
  <2>1. c \in Coordinators(committed) /\ c.highest \in 0..committed
    BY DEF RecoveryInv, TypeOK, Coordinators
  <2>2. Max({c.highest, n}) = IF c.highest >= n THEN c.highest ELSE n
    <3>1. c.highest \in Int /\ n \in Int  BY <1>1, <1>3 DEF Bounded
    <3> QED BY <3>1, MaxOfTwo
  <2>3. Max({c.highest, n}) \in 0..committed  BY <1>1, <1>3, <2>1, <2>2 DEF Bounded
  <2> DEFINE h == Max({c.highest, n})
  <2>4. seen = [c EXCEPT !.highest = h]  BY DEF Observe
  <2> HIDE DEF h, seen
  <2> QED BY <2>1, <2>2, <2>3, <2>4 DEF Coordinators, h
<1>5. /\ noted \in Coordinators(committed)
      /\ noted.highest = seen.highest
      /\ \A f \in {"latest", "bootstrapped", "inFlight", "replayStart"} : noted[f] = c[f]
  <2> HIDE DEF seen
  <2> QED BY <1>4 DEF Coordinators
<1>6. ASSUME NEW s \in {seen, noted}, Leave(s), UNCHANGED <<store, pending>>,
             n <= c.latest \/ ~ c.bootstrapped \/ c.inFlight # "none"
      PROVE  RecoveryInv'
  <2>1. /\ c' \in Coordinators(committed) /\ c'.latest = c.latest
        /\ c'.bootstrapped = c.bootstrapped /\ c'.inFlight = c.inFlight
        /\ c'.replayStart = c.replayStart
        /\ c'.highest = IF c.highest >= n THEN c.highest ELSE n
        /\ gaveUp' = (gaveUp /\ c'.inFlight = "none")
    <3> HIDE DEF seen, noted
    <3> QED BY <1>4, <1>5, <1>6 DEF Leave
  <2>2. TypeOK'
    <3>1. gaveUp' \in BOOLEAN /\ heard' \in BOOLEAN  BY <1>2, <2>1
    <3>2. cursor' \in 0..published'  BY <1>2, <1>3
    <3>3. pending' \in {<<>>, <<c'.latest + 1>>}  BY <1>6, <2>1 DEF RecoveryInv, TypeOK
    <3> QED BY <1>2, <1>6, <2>1, <3>1, <3>2, <3>3 DEF RecoveryInv, TypeOK
  <2>3. StoreMatchesLatest'  BY <1>6, <2>1 DEF RecoveryInv, StoreMatchesLatest
  <2>4. c'.inFlight = "none" /\ timers' = 0 /\ ~ gaveUp' => c'.highest <= c'.latest + Len(pending')
    <3>1. c'.inFlight = "none" /\ timers' = 0 /\ ~ gaveUp' =>
            c.inFlight = "none" /\ timers = 0 /\ ~ gaveUp
      BY <1>2, <2>1
    <3>2. c.inFlight = "none" /\ timers = 0 /\ ~ gaveUp =>
            c.highest <= c.latest + Len(pending) /\ c.bootstrapped
      BY DEF RecoveryInv
    <3>3. CASE n <= c.latest  BY <1>1, <1>3, <1>6, <2>1, <3>1, <3>2, <3>3 DEF Bounded
    <3>4. CASE ~ c.bootstrapped \/ c.inFlight # "none"  BY <3>1, <3>2, <3>4
    <3> QED BY <1>6, <3>3, <3>4
  <2>5. c'.bootstrapped \/ c'.inFlight = "snapshot" \/ gaveUp'
    <3>1. c'.inFlight \in {"none", "snapshot", "replay"}  BY <2>1 DEF Coordinators
    <3> QED BY <2>1, <3>1 DEF RecoveryInv
  <2>6. pending' # <<>> => heard' /\ channel' # "opening" /\ c'.latest < cursor'
    BY <1>1, <1>2, <1>3, <1>6, <2>1 DEF RecoveryInv, Bounded
  <2> QED BY <1>2, <1>6, <2>1, <2>2, <2>3, <2>4, <2>5, <2>6 DEF RecoveryInv
<1>7. ASSUME n = c.latest + 1, c.bootstrapped, c.inFlight = "none",
             Leave(seen), pending' = Append(pending, n), UNCHANGED store
      PROVE  RecoveryInv'
  <2>1. pending = <<>>  BY <1>1, <1>3, <1>7 DEF RecoveryInv, Bounded
  <2>2. pending' = <<c.latest + 1>> /\ Len(pending') = 1  BY <1>7, <2>1
  <2>3. /\ c' \in Coordinators(committed) /\ c'.latest = c.latest
        /\ c'.bootstrapped /\ c'.inFlight = "none"
        /\ c'.highest = IF c.highest >= n THEN c.highest ELSE n
        /\ gaveUp' = gaveUp
    <3> HIDE DEF seen
    <3>1. c' = seen /\ gaveUp' = (gaveUp /\ seen.inFlight = "none")  BY <1>7 DEF Leave
    <3>2. gaveUp \in BOOLEAN /\ seen.inFlight = "none" /\ seen.bootstrapped
      BY <1>4, <1>7 DEF RecoveryInv, TypeOK
    <3>3. gaveUp' = gaveUp  BY <3>1, <3>2
    <3> QED BY <1>4, <3>1, <3>2, <3>3
  <2>4. TypeOK'
    <3>1. gaveUp' \in BOOLEAN /\ heard' \in BOOLEAN  BY <1>2, <2>3 DEF RecoveryInv, TypeOK
    <3>2. cursor' \in 0..published'  BY <1>2, <1>3
    <3>3. pending' \in {<<>>, <<c'.latest + 1>>}  BY <2>2, <2>3
    <3> QED BY <1>2, <1>7, <2>3, <3>1, <3>2, <3>3 DEF RecoveryInv, TypeOK
  <2>5. StoreMatchesLatest'  BY <1>7, <2>3 DEF RecoveryInv, StoreMatchesLatest
  <2>6. answer' = NoAnswer  BY <1>2, <1>7 DEF RecoveryInv
  <2>7. c'.inFlight = "none" /\ timers' = 0 /\ ~ gaveUp' => c'.highest <= c'.latest + Len(pending')
    <3>1. timers = 0 /\ ~ gaveUp => c.highest <= c.latest
      BY <1>1, <1>7, <2>1 DEF RecoveryInv, Bounded
    <3> QED BY <1>1, <1>2, <1>7, <2>2, <2>3, <3>1 DEF Bounded
  <2>8. c'.latest < cursor'  BY <1>1, <1>2, <1>7, <2>3 DEF Bounded
  <2> QED BY <1>2, <2>3, <2>4, <2>5, <2>6, <2>7, <2>8 DEF RecoveryInv
<1>8. ASSUME Leave(Begin(MarkApplied(noted, pending), "replay")),
             store' = ApplyBatch(c, pending), pending' = <<>>
      PROVE  RecoveryInv'
  <2> DEFINE s == MarkApplied(noted, pending)
  <2> HIDE DEF noted
  <2>1. /\ s \in Coordinators(committed)
        /\ s.latest = c.latest + Len(pending)
        /\ s.bootstrapped = c.bootstrapped /\ s.inFlight = c.inFlight
        /\ s.replayStart = c.replayStart
        /\ store' = [m \in Events |-> IF m <= c.latest + Len(pending) THEN 1 ELSE 0]
    BY <1>5, <1>8, FlushApplies
  <2> HIDE DEF s
  <2>2. Leave(Begin(s, "replay")) /\ Len(pending') = 0  BY <1>8 DEF s
  <2>3. /\ c' \in Coordinators(committed)
        /\ c'.latest = s.latest /\ gaveUp' \in BOOLEAN
        /\ c'.inFlight = "none" => c.inFlight = "none" /\ gaveUp'
        /\ c'.inFlight = "replay" => c'.bootstrapped /\ c'.replayStart <= c'.latest
        /\ c'.bootstrapped \/ c'.inFlight = "snapshot" \/ gaveUp'
    BY <2>1, <2>2, RefusedOrBegun
  <2>4. TypeOK'
    <3>1. store' \in [Events -> Nat]  BY <2>1
    <3> QED BY <1>1, <1>2, <1>3, <1>8, <2>3, <3>1 DEF RecoveryInv, TypeOK, Bounded
  <2>5. StoreMatchesLatest'  BY <2>1, <2>3 DEF StoreMatchesLatest
  <2>6. answer' # NoAnswer => c'.latest + Len(pending') <= answer' /\ tracker'.highest <= answer'
    BY <1>1, <1>2, <2>1, <2>2, <2>3 DEF Bounded, RecoveryInv
  <2> QED BY <1>2, <1>8, <2>3, <2>4, <2>5, <2>6 DEF RecoveryInv
<1>9. /\ Classify(c, n) = "ignore" => n <= c.latest
      /\ Classify(c, n) = "defer" => ~ c.bootstrapped \/ c.inFlight # "none"
      /\ Classify(c, n) = "apply" => n = c.latest + 1 /\ c.bootstrapped /\ c.inFlight = "none"
  BY DEF Classify
<1>10. \/ Classify(c, n) = "ignore" /\ Leave(seen) /\ UNCHANGED <<store, pending>>
       \/ Classify(c, n) = "defer" /\ Leave(noted) /\ UNCHANGED <<store, pending>>
       \/ /\ Classify(c, n) = "apply" /\ Leave(seen)
          /\ pending' = Append(pending, n) /\ UNCHANGED store
       \/ /\ Leave(Begin(MarkApplied(noted, pending), "replay"))
          /\ store' = ApplyBatch(c, pending) /\ pending' = <<>>
  BY DEF OnDomainEvent
<1> HIDE DEF n, seen, noted
<1> QED BY <1>6, <1>7, <1>8, <1>9, <1>10

\* A snapshot is at least as recent as all that the client has applied.
LEMMA SnapshotStep == RecoveryInv /\ SnapshotArrives => RecoveryInv'
<1> SUFFICES ASSUME RecoveryInv, SnapshotArrives PROVE RecoveryInv'
  OBVIOUS
<1> DEFINE s == InstallSnapshot(c, answer)
<1>1. Bounded  BY Bounds DEF RecoveryInv
<1>2. /\ UNCHANGED <<committed, published, channel, cursor, heard, drops, welcomes,
                     failures, tracker, timers, pending>>
      /\ pending = <<>> /\ answer' = NoAnswer
      /\ c.inFlight = "snapshot" /\ answer # NoAnswer
      /\ store' = [n \in Events |-> IF n <= answer THEN 1 ELSE 0]
  BY DEF SnapshotArrives, env, server, connection
<1>3. answer \in 0..committed /\ c.latest <= answer /\ committed \in Nat
  <2>1. answer \in 0..committed /\ committed \in Nat
    BY <1>1, <1>2 DEF RecoveryInv, TypeOK, Bounded
  <2>2. c.latest + Len(pending) <= answer /\ Len(pending) = 0
    BY <1>2 DEF RecoveryInv
  <2> QED BY <1>1, <2>1, <2>2 DEF Bounded
<1>4. /\ s \in Coordinators(committed)
      /\ s.latest = answer /\ s.bootstrapped
  <2>1. Max({c.latest, answer}) = answer
    <3>1. c.latest \in Int /\ answer \in Int  BY <1>1, <1>3 DEF Bounded
    <3>2. Max({c.latest, answer}) = IF c.latest >= answer THEN c.latest ELSE answer
      BY <3>1, MaxOfTwo
    <3> QED BY <1>3, <3>1, <3>2
  <2>2. Max({c.highest, answer}) \in 0..committed
    <3>1. c.highest \in Int /\ answer \in Int  BY <1>1, <1>3 DEF Bounded
    <3>2. Max({c.highest, answer}) = IF c.highest >= answer THEN c.highest ELSE answer
      BY <3>1, MaxOfTwo
    <3> QED BY <1>1, <1>3, <3>2 DEF Bounded
  <2> DEFINE h == Max({c.highest, answer})
  <2>3. s = [c EXCEPT !.latest = answer, !.highest = h, !.bootstrapped = TRUE]
    BY <2>1 DEF InstallSnapshot
  <2>4. h \in 0..committed  BY <2>2
  <2> HIDE DEF h, s
  <2>5. c \in Coordinators(committed)  BY DEF RecoveryInv, TypeOK
  <2> QED BY <1>3, <2>3, <2>4, <2>5 DEF Coordinators
<1>5. Leave(IF NeedsReplay(s) THEN Begin(Completed(s), "replay") ELSE Completed(s))
  BY DEF SnapshotArrives
<1> HIDE DEF s
<1>6. /\ Completed(s) \in Coordinators(committed)
      /\ Completed(s).latest = answer /\ Completed(s).bootstrapped
      /\ Completed(s).highest = s.highest /\ Completed(s).inFlight = "none"
  BY <1>4 DEF Completed, Coordinators
<1>7. /\ c' \in Coordinators(committed)
      /\ c'.latest = answer /\ c'.bootstrapped /\ gaveUp' \in BOOLEAN
      /\ c'.inFlight = "none" => c'.highest <= c'.latest
      /\ c'.inFlight = "replay" => c'.replayStart <= c'.latest
  <2>1. CASE NeedsReplay(s)
    <3>1. c' = Begin(Completed(s), "replay") /\ gaveUp' \in BOOLEAN
      BY <1>5, <2>1 DEF Leave
    <3>2. answer <= answer  BY <1>3
    <3> QED BY <1>3, <1>6, <3>1, <3>2, BeginKeeps
  <2>2. CASE ~ NeedsReplay(s)
    <3>1. c' = Completed(s) /\ gaveUp' \in BOOLEAN  BY <1>5, <2>2 DEF Leave
    <3>2. ~ (s.highest > s.latest)  BY <2>2 DEF NeedsReplay
    <3>3. s.highest \in Nat /\ s.latest \in Nat  BY <1>3, <1>4 DEF Coordinators
    <3> QED BY <1>4, <1>6, <3>1, <3>2, <3>3
  <2> QED BY <2>1, <2>2
<1>8. TypeOK'
  <2>1. store' \in [Events -> Nat]  BY <1>2
  <2> QED BY <1>2, <1>7, <2>1 DEF RecoveryInv, TypeOK
<1>9. StoreMatchesLatest'  BY <1>2, <1>7 DEF StoreMatchesLatest
<1>10. c'.inFlight = "none" => c'.highest <= c'.latest + Len(pending')
  <2>1. c'.latest \in Nat /\ c'.highest \in Nat  BY <1>3, <1>7 DEF Coordinators
  <2>2. Len(pending') = 0  BY <1>2
  <2> QED BY <1>7, <2>1, <2>2
<1> QED BY <1>2, <1>7, <1>8, <1>9, <1>10 DEF RecoveryInv

LEMMA FailureStep == RecoveryInv /\ (SnapshotFails \/ ReplayFails) => RecoveryInv'
<1> SUFFICES ASSUME RecoveryInv, SnapshotFails \/ ReplayFails PROVE RecoveryInv'
  OBVIOUS
<1>1. Bounded  BY Bounds DEF RecoveryInv
<1>2. /\ UNCHANGED <<committed, published, channel, cursor, heard, drops, welcomes,
                     timers, pending, store>>
      /\ pending = <<>> /\ answer' = NoAnswer /\ failures' = failures + 1
  BY DEF SnapshotFails, ReplayFails, server, connection
<1>3. /\ c' \in Coordinators(committed) /\ c'.latest = c.latest
      /\ gaveUp' \in BOOLEAN
      /\ (c'.inFlight = "none" /\ gaveUp') \/ c'.inFlight = "snapshot"
  <2>0. c \in Coordinators(committed) /\ committed \in Nat
    BY <1>1 DEF RecoveryInv, TypeOK, Bounded
  <2>1. CASE SnapshotFails  BY <2>0, <2>1 DEF SnapshotFails, Coordinators
  <2>2. CASE ReplayFails
    <3>1. c' = Begin(FailReplay(c), "snapshot") /\ gaveUp' \in BOOLEAN
      BY <2>2 DEF ReplayFails, Leave
    <3>2. /\ FailReplay(c) \in Coordinators(committed)
          /\ FailReplay(c).latest = c.latest /\ FailReplay(c).inFlight = "none"
      BY <2>0 DEF FailReplay, Coordinators
    <3> QED BY <2>0, <3>1, <3>2, BeginKeeps
  <2> QED BY <2>1, <2>2
<1>4. /\ tracker' = tracker \/ tracker' = NoTracker
      /\ tracker' \in [attempts : Nat, latest : 0..committed, highest : 0..committed]
  BY <1>1 DEF SnapshotFails, ReplayFails, NoTracker, RecoveryInv, TypeOK, Bounded
<1>5. TypeOK'  BY <1>2, <1>3, <1>4 DEF RecoveryInv, TypeOK
<1>6. StoreMatchesLatest'  BY <1>2, <1>3 DEF RecoveryInv, StoreMatchesLatest
<1> QED BY <1>2, <1>3, <1>5, <1>6 DEF RecoveryInv

\* A replay brings the client to what the server had read; when the retries
\* end for lack of progress, that is all the client was ever told of.
LEMMA ReplayStep == RecoveryInv /\ ReplayArrives => RecoveryInv'
<1> SUFFICES ASSUME RecoveryInv, ReplayArrives PROVE RecoveryInv'
  OBVIOUS
<1> DEFINE batch == [i \in 1..(answer - c.replayStart) |-> c.replayStart + i]
           s == MarkApplied(c, batch)
<1>1. Bounded  BY Bounds DEF RecoveryInv
<1>2. /\ UNCHANGED <<committed, published, channel, cursor, heard, drops, welcomes,
                     failures, pending>>
      /\ pending = <<>> /\ answer' = NoAnswer
      /\ c.inFlight = "replay" /\ answer # NoAnswer
      /\ store' = ApplyBatch(c, batch)
  BY DEF ReplayArrives, env, server, connection
<1>3. /\ answer \in 0..committed /\ c.latest <= answer /\ committed \in Nat
      /\ tracker.highest <= answer
      /\ c.replayStart \in Nat /\ c.replayStart <= c.latest /\ c.bootstrapped
  <2>1. answer \in 0..committed /\ committed \in Nat
    BY <1>1, <1>2 DEF RecoveryInv, TypeOK, Bounded
  <2>2. c.latest + Len(pending) <= answer /\ tracker.highest <= answer /\ Len(pending) = 0
    BY <1>2 DEF RecoveryInv
  <2>3. c.replayStart \in Nat  BY <1>1 DEF RecoveryInv, TypeOK, Coordinators, Bounded
  <2>4. c.replayStart <= c.latest /\ c.bootstrapped  BY <1>2 DEF RecoveryInv
  <2> QED BY <1>1, <2>1, <2>2, <2>3, <2>4 DEF Bounded
<1>4. Consecutive(batch, c.replayStart, answer)
  BY <1>3 DEF Consecutive
<1>5. c \in Coordinators(committed) /\ StoreMatchesLatest
  BY DEF RecoveryInv, TypeOK
<1>6. \/ /\ ~ NeedsReplay(s) /\ Leave(Completed(s))
         /\ tracker' = NoTracker /\ timers' = timers
      \/ /\ Leave(Begin(Completed(s), "replay"))
         /\ tracker' = NoTracker /\ timers' = timers
      \/ /\ s.latest <= s.replayStart /\ Leave(Completed(s))
         /\ Attempts(s) > MaxRetries
         /\ tracker' = NoTracker /\ timers' = timers
      \/ /\ Leave(Completed(s))
         /\ tracker' = [attempts |-> Attempts(s), latest |-> s.latest, highest |-> s.highest]
         /\ timers' = timers + 1
  BY DEF ReplayArrives
<1> HIDE DEF batch
<1>7. store' = [n \in Events |-> IF n <= answer THEN 1 ELSE 0]
  BY <1>2, <1>3, <1>4, <1>5, BatchStored
<1>8. /\ s \in Coordinators(committed)
      /\ s.latest = answer /\ s.bootstrapped /\ s.replayStart = c.replayStart
  BY <1>3, <1>4, <1>5, BatchApplied
<1> HIDE DEF s
<1>9. /\ Completed(s) \in Coordinators(committed)
      /\ Completed(s).latest = answer /\ Completed(s).bootstrapped
      /\ Completed(s).highest = s.highest /\ Completed(s).inFlight = "none"
      /\ s.highest \in 0..committed /\ s.latest \in 0..committed
  BY <1>8 DEF Completed, Coordinators
<1>10. /\ c' \in Coordinators(committed)
       /\ c'.latest = answer /\ c'.bootstrapped /\ gaveUp' \in BOOLEAN
       /\ c'.inFlight = "replay" => c'.replayStart <= c'.latest
       /\ c'.inFlight = "none" => c'.highest = s.highest
  <2>1. CASE Leave(Completed(s))
    <3>1. c' = Completed(s) /\ gaveUp' \in BOOLEAN  BY <2>1 DEF Leave
    <3> QED BY <1>9, <3>1
  <2>2. CASE Leave(Begin(Completed(s), "replay"))
    <3>1. c' = Begin(Completed(s), "replay") /\ gaveUp' \in BOOLEAN  BY <2>2 DEF Leave
    <3>2. answer <= answer  BY <1>3
    <3> QED BY <1>3, <1>9, <3>1, <3>2, BeginKeeps
  <2> QED BY <1>6, <2>1, <2>2
<1>11. /\ tracker' \in [attempts : Nat, latest : 0..committed, highest : 0..committed]
       /\ timers' \in Nat
  <2>1. tracker.attempts \in Nat /\ timers \in Nat  BY DEF RecoveryInv, TypeOK
  <2>2. Attempts(s) \in Nat  BY <2>1 DEF Attempts
  <2>3. NoTracker \in [attempts : Nat, latest : 0..committed, highest : 0..committed]
    BY <1>3 DEF NoTracker
  <2> QED BY <1>6, <1>9, <2>1, <2>2, <2>3
<1>12. TypeOK'
  <2>1. store' \in [Events -> Nat]  BY <1>7
  <2> QED BY <1>2, <1>10, <1>11, <2>1 DEF RecoveryInv, TypeOK
<1>13. StoreMatchesLatest'  BY <1>7, <1>10 DEF StoreMatchesLatest
<1>14. c'.inFlight = "none" /\ timers' = 0 => c'.highest <= c'.latest + Len(pending')
  <2>0. Len(pending') = 0  BY <1>2
  <2>1. CASE ~ NeedsReplay(s)
    <3>1. ~ (s.highest > s.latest)  BY <2>1 DEF NeedsReplay
    <3> QED BY <1>3, <1>8, <1>9, <1>10, <2>0, <3>1
  <2>2. CASE Leave(Begin(Completed(s), "replay"))
    <3>1. c' = Begin(Completed(s), "replay")  BY <2>2 DEF Leave
    <3>2. c'.inFlight = "replay"  BY <1>3, <1>9, <3>1, BeginKeeps
    <3> QED BY <3>2
  <2>3. CASE Attempts(s) > MaxRetries
    <3>1. Attempts(s) # 1  BY <2>3, RecoveryAssumption
    <3>2. tracker.highest = s.highest  BY <3>1 DEF Attempts
    <3> QED BY <1>3, <1>9, <1>10, <2>0, <3>2
  <2>4. CASE timers' = timers + 1
    <3>1. timers \in Nat  BY DEF RecoveryInv, TypeOK
    <3> QED BY <2>4, <3>1
  <2> QED BY <1>6, <2>1, <2>2, <2>3, <2>4
<1> QED BY <1>2, <1>10, <1>12, <1>13, <1>14 DEF RecoveryInv

(***************************************************************************)
(* RecoveryInv holds in every reachable state.                             *)
(***************************************************************************)
THEOREM RecoveryInvariant == Spec => []RecoveryInv
<1>1. RecoveryInv /\ [Next]_vars => RecoveryInv'
  <2> SUFFICES ASSUME RecoveryInv, [Next]_vars PROVE RecoveryInv'
    OBVIOUS
  <2>1. CASE Commit \/ Publish \/ Subscribed \/ Drop \/ Answer
    BY <2>1, EnvironmentStep
  <2>2. CASE Flush  BY <2>2, FlushStep
  <2>3. CASE OnDomainEvent  BY <2>3, DomainEventStep
  <2>4. CASE Resubscribe  BY <2>4, ResubscribeStep
  <2>5. CASE OnWelcome \/ RetryTimer  BY <2>5, WelcomeAndTimerStep
  <2>6. CASE SnapshotArrives  BY <2>6, SnapshotStep
  <2>7. CASE SnapshotFails \/ ReplayFails  BY <2>7, FailureStep
  <2>8. CASE ReplayArrives  BY <2>8, ReplayStep
  <2>9. CASE UNCHANGED vars
    BY <2>9 DEF vars, env, client, server, connection, RecoveryInv, TypeOK, StoreMatchesLatest
  <2> QED BY <2>1, <2>2, <2>3, <2>4, <2>5, <2>6, <2>7, <2>8, <2>9 DEF Next, Arrives
<1> QED BY <1>1, RecoveryInvInit, PTL DEF Spec

(***************************************************************************)
(* The client's store holds each event up to latestSequence once, however  *)
(* live events, snapshots, replays and retries follow one another.         *)
(***************************************************************************)
THEOREM StoreIsWhole == Spec => []StoreMatchesLatest
<1>1. RecoveryInv => StoreMatchesLatest  BY DEF RecoveryInv
<1> QED BY <1>1, RecoveryInvariant, PTL

(***************************************************************************)
(* A client that waits for nothing has applied all that it was told of,    *)
(* unless its last recovery was a snapshot that failed.                    *)
(***************************************************************************)
THEOREM NothingIsForgotten == Spec => []RestsInSync
<1>1. RecoveryInv => RestsInSync
  <2> SUFFICES ASSUME RecoveryInv, c.inFlight = "none", timers = 0, pending = <<>>, ~ gaveUp
               PROVE  c.bootstrapped /\ c.highest <= c.latest
    BY DEF RestsInSync
  <2>1. c.bootstrapped /\ c.highest <= c.latest + Len(pending) /\ Len(pending) = 0
    BY DEF RecoveryInv
  <2> QED BY <2>1, Bounds DEF RecoveryInv, Bounded
<1> QED BY <1>1, RecoveryInvariant, PTL
=============================================================================
