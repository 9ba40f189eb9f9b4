---------------------- MODULE KeyedCoalescingWorkerProofs ----------------------
(***************************************************************************)
(* The marks of the keyed coalescing worker, for every set of keys and any *)
(* number of values: no value is lost, drainKey waits for all of them, and *)
(* the worker implements the mailbox.                                      *)
(***************************************************************************)
EXTENDS KeyedCoalescingWorker, TLAPS

\* What appending an element, and removing the first, do to a queue of
\* distinct elements.
LEMMA AppendDistinct ==
  ASSUME NEW S, NEW q \in Seq(S), NEW x \in S
  PROVE  /\ Append(q, x) \in Seq(S)
         /\ Range(Append(q, x)) = Range(q) \cup {x}
         /\ IsInjective(q) /\ x \notin Range(q) => IsInjective(Append(q, x))
<1>1. /\ Append(q, x) \in Seq(S)
      /\ DOMAIN Append(q, x) = 1..(Len(q) + 1)
      /\ \A i \in 1..Len(q) : Append(q, x)[i] = q[i]
      /\ Append(q, x)[Len(q) + 1] = x
      /\ DOMAIN q = 1..Len(q)
      /\ Len(q) \in Nat
  OBVIOUS
<1>2. Range(Append(q, x)) = Range(q) \cup {x}
  BY <1>1 DEF Range
<1>3. ASSUME IsInjective(q), x \notin Range(q)
      PROVE  IsInjective(Append(q, x))
  BY <1>1, <1>3 DEF Range, IsInjective
<1> QED BY <1>1, <1>2, <1>3

LEMMA TailDistinct ==
  ASSUME NEW S, NEW q \in Seq(S), q # <<>>
  PROVE  /\ Tail(q) \in Seq(S)
         /\ Head(q) \in S
         /\ Range(q) = Range(Tail(q)) \cup {Head(q)}
         /\ IsInjective(q) => IsInjective(Tail(q)) /\ Head(q) \notin Range(Tail(q))
<1>1. /\ Tail(q) \in Seq(S)
      /\ Len(q) \in Nat \ {0}
      /\ DOMAIN Tail(q) = 1..(Len(q) - 1)
      /\ \A i \in 1..(Len(q) - 1) : Tail(q)[i] = q[i + 1]
      /\ Head(q) = q[1]
      /\ DOMAIN q = 1..Len(q)
      /\ Head(q) \in S
  OBVIOUS
<1>2. Range(q) = Range(Tail(q)) \cup {Head(q)}
  <2>1. ASSUME NEW i \in DOMAIN q
        PROVE  q[i] = Head(q) \/ \E j \in DOMAIN Tail(q) : q[i] = Tail(q)[j]
    <3>1. CASE i = 1  BY <1>1, <3>1
    <3>2. CASE i # 1
      <4>1. i - 1 \in DOMAIN Tail(q) /\ Tail(q)[i - 1] = q[i]  BY <1>1, <3>2
      <4> QED BY <4>1
    <3> QED BY <3>1, <3>2
  <2>2. \A j \in DOMAIN Tail(q) : j + 1 \in DOMAIN q /\ Tail(q)[j] = q[j + 1]
    BY <1>1
  <2>3. 1 \in DOMAIN q /\ Head(q) = q[1]  BY <1>1
  <2> QED BY <2>1, <2>2, <2>3 DEF Range
<1>3. ASSUME IsInjective(q)
      PROVE  IsInjective(Tail(q)) /\ Head(q) \notin Range(Tail(q))
  BY <1>1, <1>3 DEF Range, IsInjective
<1> QED BY <1>1, <1>2, <1>3

\* The initial state of the worker satisfies its invariant.
LEMMA WorkerInvInit == Init => WorkerInv
<1> SUFFICES ASSUME Init PROVE WorkerInv
  OBVIOUS
<1>1. TypeOK  BY DEF Init, TypeOK
<1>2. Marks
  BY DEF Init, Marks, Holds, Range, IsInjective
<1>3. NoValueIsLost
  BY DEF Init, NoValueIsLost
<1> QED BY <1>1, <1>2, <1>3 DEF WorkerInv

\* Every step of the callers and of the fiber preserves it.
LEMMA WorkerInvNext == WorkerInv /\ [Next]_vars => WorkerInv'
<1> SUFFICES ASSUME WorkerInv, [Next]_vars PROVE WorkerInv'
  OBVIOUS
<1> USE WorkerAssumption
<1> USE DEF WorkerInv
<1>1. ASSUME NEW k \in Keys, Enqueue(k) PROVE WorkerInv'
  <2>1. TypeOK'
    <3>1. queue' \in Seq(Keys)
      <4>1. queue \in Seq(Keys) /\ Append(queue, k) \in Seq(Keys)
        BY <1>1, AppendDistinct DEF TypeOK
      <4>2. queue' = queue \/ queue' = Append(queue, k)
        BY <1>1 DEF Enqueue
      <4> QED BY <4>1, <4>2
    <3> QED BY <1>1, <3>1 DEF Enqueue, TypeOK
  <2>2. Marks'
    <3>1. CASE k \in queuedKeys \cup activeKeys
      <4>1. UNCHANGED <<queue, queuedKeys, activeKeys, pc, key>>
        BY <1>1, <3>1 DEF Enqueue
      <4>2. \A j \in Keys : j # k => latest'[j] = latest[j]
        BY <1>1 DEF Enqueue, TypeOK
      <4>3. \A j \in Keys : Holds(j)' <=> Holds(j)
        BY <4>1 DEF Holds
      <4> QED BY <3>1, <4>1, <4>2, <4>3 DEF Marks
    <3>2. CASE k \notin queuedKeys \cup activeKeys
      <4>1. /\ queue' = Append(queue, k)
            /\ queuedKeys' = queuedKeys \cup {k}
            /\ UNCHANGED <<activeKeys, pc, key>>
        BY <1>1, <3>2 DEF Enqueue
      <4>2. k \notin Range(queue) /\ ~ Holds(k)
        BY <3>2 DEF Marks
      <4>3. Range(queue') = Range(queue) \cup {k} /\ IsInjective(queue')
        BY <4>1, <4>2, AppendDistinct DEF TypeOK, Marks
      <4>4. \A j \in Keys : Holds(j)' <=> Holds(j)
        BY <4>1 DEF Holds
      <4>5. \A j \in Keys : j # k => latest'[j] = latest[j]
        BY <1>1 DEF Enqueue, TypeOK
      <4> QED BY <4>1, <4>2, <4>3, <4>4, <4>5 DEF Marks
    <3> QED BY <3>1, <3>2
  <2>3. NoValueIsLost'
    <3>1. /\ sent' = [sent EXCEPT ![k] = @ + 1]
          /\ latest' = [latest EXCEPT ![k] = @ \cup {sent[k] + 1}]
          /\ handed' = handed
      BY <1>1 DEF Enqueue
    <3>2. 1..(sent[k] + 1) = 1..sent[k] \cup {sent[k] + 1} /\ sent[k] + 1 \notin 1..sent[k]
      BY DEF TypeOK
    <3>3. handed[k] \cup latest[k] = 1..sent[k] /\ handed[k] \cap latest[k] = {}
      BY DEF NoValueIsLost
    <3>4. sent'[k] = sent[k] + 1 /\ latest'[k] = latest[k] \cup {sent[k] + 1}
      BY <3>1 DEF TypeOK
    <3>5. \A j \in Keys : j # k => sent'[j] = sent[j] /\ latest'[j] = latest[j]
      BY <3>1 DEF TypeOK
    <3>6. ASSUME NEW j \in Keys
          PROVE  /\ handed'[j] \cup latest'[j] = 1..sent'[j]
                 /\ handed'[j] \cap latest'[j] = {}
      <4>1. CASE j = k
        <5>1. handed[k] \cup (latest[k] \cup {sent[k] + 1}) = 1..(sent[k] + 1)
          BY <3>2, <3>3
        <5>2. handed[k] \cap (latest[k] \cup {sent[k] + 1}) = {}
          BY <3>2, <3>3
        <5> QED BY <5>1, <5>2, <4>1, <3>1, <3>4
      <4>2. CASE j # k
        BY <4>2, <3>1, <3>5 DEF NoValueIsLost
      <4> QED BY <4>1, <4>2
    <3> QED BY <3>6 DEF NoValueIsLost
  <2> QED BY <2>1, <2>2, <2>3
<1>2. CASE Take
  <2>1. /\ Tail(queue) \in Seq(Keys) /\ Head(queue) \in Keys
        /\ Range(queue) = Range(Tail(queue)) \cup {Head(queue)}
        /\ IsInjective(Tail(queue)) /\ Head(queue) \notin Range(Tail(queue))
    BY <1>2, TailDistinct DEF Take, TypeOK, Marks
  <2>2. TypeOK'  BY <1>2, <2>1 DEF Take, TypeOK, state
  <2>3. Marks'
    BY <1>2, <2>1 DEF Take, TypeOK, Marks, Holds, state
  <2>4. NoValueIsLost'  BY <1>2 DEF Take, NoValueIsLost, state
  <2> QED BY <2>2, <2>3, <2>4
<1>3. CASE Begin
  <2>1. key \in Keys  BY <1>3 DEF Begin, Marks, TypeOK
  <2>2. TypeOK'
    BY <1>3, <2>1 DEF Begin, CallProcess, Return, TypeOK
  <2>3. Marks'
    <3>1. \A j \in Keys : j # key => latest'[j] = latest[j]
      BY <1>3, <2>1 DEF Begin, CallProcess, Return, TypeOK
    <3>2. latest'[key] = {}
      BY <1>3, <2>1 DEF Begin, CallProcess, Return, TypeOK
    <3>3. Holds(key) /\ key \notin Range(queue)
      BY <1>3, <2>1 DEF Begin, Marks, Holds
    <3>4. queue' = queue /\ queuedKeys' = queuedKeys \ {key} /\ activeKeys = {}
      BY <1>3 DEF Begin, Marks
    <3>5. \A j \in Keys : ~ Holds(j)'
      BY <1>3 DEF Begin, CallProcess, Return, Holds
    <3>6. CASE latest[key] = {}
      BY <1>3, <2>1, <3>1, <3>2, <3>3, <3>4, <3>5, <3>6 DEF Begin, Return, Marks, Holds
    <3>7. CASE latest[key] # {}
      BY <1>3, <2>1, <3>1, <3>2, <3>3, <3>4, <3>5, <3>7 DEF Begin, CallProcess, Marks, Holds
    <3> QED BY <3>6, <3>7
  <2>4. NoValueIsLost'
    BY <1>3, <2>1 DEF Begin, CallProcess, Return, TypeOK, NoValueIsLost
  <2> QED BY <2>2, <2>3, <2>4
<1>4. CASE Process
  BY <1>4 DEF Process, state, TypeOK, Marks, Holds, NoValueIsLost
<1>5. CASE Repeat
  <2>1. key \in Keys /\ activeKeys = {key}  BY <1>5 DEF Repeat, Marks, TypeOK
  <2>2. TypeOK'
    BY <1>5, <2>1 DEF Repeat, CallProcess, Return, TypeOK
  <2>3. Marks'
    <3>1. \A j \in Keys : j # key => latest'[j] = latest[j]
      BY <1>5, <2>1 DEF Repeat, CallProcess, Return, TypeOK
    <3>2. latest'[key] = {}
      BY <1>5, <2>1 DEF Repeat, CallProcess, Return, TypeOK
    <3>3. \A j \in Keys : ~ Holds(j) /\ ~ Holds(j)'
      BY <1>5 DEF Repeat, CallProcess, Return, Holds
    <3>4. UNCHANGED <<queue, queuedKeys>>
      BY <1>5 DEF Repeat
    <3>5. CASE latest[key] = {}
      BY <1>5, <2>1, <3>1, <3>2, <3>3, <3>4, <3>5 DEF Repeat, Return, Marks
    <3>6. CASE latest[key] # {}
      BY <1>5, <2>1, <3>1, <3>2, <3>3, <3>4, <3>6 DEF Repeat, CallProcess, Marks
    <3> QED BY <3>5, <3>6
  <2>4. NoValueIsLost'
    BY <1>5, <2>1 DEF Repeat, CallProcess, Return, TypeOK, NoValueIsLost
  <2> QED BY <2>2, <2>3, <2>4
<1>6. CASE Cleanup
  <2>1. key \in Keys /\ activeKeys = {key}  BY <1>6 DEF Cleanup, Marks, TypeOK
  <2>2. TypeOK'
    BY <1>6, <2>1 DEF Cleanup, Return, TypeOK
  <2>3. Marks'
    BY <1>6, <2>1 DEF Cleanup, Return, Marks, Holds, TypeOK
  <2>4. NoValueIsLost'
    BY <1>6 DEF Cleanup, NoValueIsLost
  <2> QED BY <2>2, <2>3, <2>4
<1>7. CASE Requeue
  <2>1. key \in Keys  BY <1>7 DEF Requeue, Marks, TypeOK
  <2>2. Holds(key) /\ key \notin Range(queue)
    BY <1>7, <2>1 DEF Requeue, Marks, Holds
  <2>3. /\ queue' \in Seq(Keys)
        /\ Range(queue') = Range(queue) \cup {key}
        /\ IsInjective(queue')
    BY <1>7, <2>1, <2>2, AppendDistinct DEF Requeue, TypeOK, Marks
  <2>4. TypeOK'
    BY <1>7, <2>3 DEF Requeue, Return, TypeOK, state
  <2>5. Marks'
    BY <1>7, <2>1, <2>2, <2>3 DEF Requeue, Return, Marks, Holds, state
  <2>6. NoValueIsLost'
    BY <1>7 DEF Requeue, NoValueIsLost, state
  <2> QED BY <2>4, <2>5, <2>6
<1>8. CASE UNCHANGED vars
  BY <1>8 DEF vars, state, TypeOK, Marks, Holds, NoValueIsLost
<1> QED
  BY <1>1, <1>2, <1>3, <1>4, <1>5, <1>6, <1>7, <1>8 DEF Next, WorkerStep

(***************************************************************************)
(* The inductive invariant: where each mark comes from, and that no value  *)
(* is lost or handed to process twice.                                     *)
(***************************************************************************)
THEOREM WorkerInvariant == Spec => []WorkerInv
BY WorkerInvInit, WorkerInvNext, PTL DEF Spec

(***************************************************************************)
(* A key whose value waits is on the queue or in the fiber's hands.        *)
(***************************************************************************)
THEOREM WaitingKeysAreReachable == Spec => []WaitingIsReachable
<1>1. WorkerInv => WaitingIsReachable
  BY DEF WorkerInv, Marks, Holds, WaitingIsReachable
<1> QED BY <1>1, WorkerInvariant, PTL

(***************************************************************************)
(* When drainKey returns, process was called with all values of the key,   *)
(* and has returned from all calls.                                        *)
(***************************************************************************)
THEOREM DrainIsComplete == Spec => []DrainWaitsForAll
<1>1. WorkerInv => DrainWaitsForAll
  BY DEF WorkerInv, TypeOK, Marks, NoValueIsLost, Drained, DrainWaitsForAll
<1> QED BY <1>1, WorkerInvariant, PTL

(***************************************************************************)
(* The worker implements the mailbox: an enqueue is a Put, each call of    *)
(* process a Run, the end of a key a Finish, and the rest does not show.   *)
(***************************************************************************)
THEOREM WorkerImplementsMailbox == Spec => ImplementsMailbox
<1>1. Init => Mailbox!Init
  BY DEF Init, Mailbox!Init
<1>2. WorkerInv /\ [Next]_vars => [Mailbox!Next]_<<sent, latest, activeKeys>>
  <2> SUFFICES ASSUME WorkerInv, [Next]_vars
               PROVE  [Mailbox!Next]_<<sent, latest, activeKeys>>
    OBVIOUS
  <2>1. ASSUME NEW k \in Keys, Enqueue(k) PROVE Mailbox!Next
    BY <2>1 DEF Enqueue, Mailbox!Next, Mailbox!Put
  <2>2. CASE Take  BY <2>2 DEF Take, state
  <2>3. CASE Begin
    <3>1. key \in Keys /\ activeKeys = {}
      BY <2>3 DEF Begin, WorkerInv, TypeOK, Marks
    <3>2. CASE latest[key] = {}
      BY <2>3, <3>2 DEF Begin
    <3>3. CASE latest[key] # {}
      BY <2>3, <3>1, <3>3 DEF Begin, CallProcess, Mailbox!Next, Mailbox!Run
    <3> QED BY <3>2, <3>3
  <2>4. CASE Process  BY <2>4 DEF Process, state
  <2>5. CASE Repeat
    <3>1. key \in Keys /\ activeKeys = {key}
      BY <2>5 DEF Repeat, WorkerInv, TypeOK, Marks
    <3>2. CASE latest[key] = {}
      BY <2>5, <3>1, <3>2 DEF Repeat, Mailbox!Next, Mailbox!Finish
    <3>3. CASE latest[key] # {}
      BY <2>5, <3>1, <3>3 DEF Repeat, CallProcess, Mailbox!Next, Mailbox!Run
    <3> QED BY <3>2, <3>3
  <2>6. CASE Cleanup
    BY <2>6 DEF Cleanup, WorkerInv, Marks, Mailbox!Next, Mailbox!Finish
  <2>7. CASE Requeue  BY <2>7 DEF Requeue, state
  <2>8. CASE UNCHANGED vars  BY <2>8 DEF vars, state
  <2> QED
    BY <2>1, <2>2, <2>3, <2>4, <2>5, <2>6, <2>7, <2>8 DEF Next, WorkerStep
<1> QED BY <1>1, <1>2, WorkerInvariant, PTL DEF Spec, ImplementsMailbox, Mailbox!Spec
=============================================================================
