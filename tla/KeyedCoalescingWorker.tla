------------------------- MODULE KeyedCoalescingWorker -------------------------
(***************************************************************************)
(* The worker of packages/shared that keeps only the latest value of each  *)
(* key; the terminal manager persists histories with it.  One fiber takes  *)
(* keys from a queue.  A take and the change of the shared state after it  *)
(* are two transactions, and so are the cleanup of a failed key and the    *)
(* offer that queues it again; callers enqueue between any two of them.    *)
(*                                                                         *)
(* The n-th value of a key is n, and merging keeps the values merged, so   *)
(* that a lost or repeated one shows.                                      *)
(***************************************************************************)
EXTENDS Integers, Sequences, Functions

CONSTANTS Keys,
          None,
          MaxSends,   \* bound: values enqueued under a key
          MayFail     \* process may fail

ASSUME WorkerAssumption ==
  /\ MaxSends \in Nat
  /\ MayFail \in BOOLEAN
  /\ None \notin Keys

VARIABLES
  queue,       \* TxQueue of keys
  latest,      \* latestByKey, {} for no entry
  queuedKeys,
  activeKeys,
  pc,          \* where the fiber is
  key,         \* the key it took
  sent,        \* per key, how many values were enqueued
  handed       \* per key, the values process was called with

state == <<latest, queuedKeys, activeKeys>>
vars  == <<queue, state, pc, key, sent, handed>>

Init ==
  /\ queue = <<>>
  /\ latest = [k \in Keys |-> {}]
  /\ queuedKeys = {}
  /\ activeKeys = {}
  /\ pc = "idle"
  /\ key = None
  /\ sent = [k \in Keys |-> 0]
  /\ handed = [k \in Keys |-> {}]

\* enqueue: state and offer are one transaction.
Enqueue(k) ==
  /\ sent[k] < MaxSends
  /\ sent' = [sent EXCEPT ![k] = @ + 1]
  /\ latest' = [latest EXCEPT ![k] = @ \cup {sent[k] + 1}]
  /\ IF k \in queuedKeys \cup activeKeys
     THEN UNCHANGED <<queue, queuedKeys>>
     ELSE /\ queuedKeys' = queuedKeys \cup {k}
          /\ queue' = Append(queue, k)
  /\ UNCHANGED <<activeKeys, pc, key, handed>>

-----------------------------------------------------------------------------
Take ==
  /\ pc = "idle" /\ queue # <<>>
  /\ key' = Head(queue)
  /\ queue' = Tail(queue)
  /\ pc' = "taken"
  /\ UNCHANGED <<state, sent, handed>>

Return ==
  /\ pc' = "idle"
  /\ key' = None

\* process is called with all that has been merged under the key.
CallProcess ==
  /\ handed' = [handed EXCEPT ![key] = @ \cup latest[key]]
  /\ latest' = [latest EXCEPT ![key] = {}]
  /\ pc' = "processing"
  /\ UNCHANGED key

\* Mutant of Begin: the key is not marked active.
BeginUnmarked ==
  /\ pc = "taken"
  /\ queuedKeys' = queuedKeys \ {key}
  /\ CallProcess
  /\ UNCHANGED <<queue, activeKeys, sent>>

\* The transaction after the take.
Begin ==
  /\ pc = "taken"
  /\ queuedKeys' = queuedKeys \ {key}
  /\ IF latest[key] = {}
     THEN Return /\ UNCHANGED <<latest, activeKeys, handed>>
     ELSE CallProcess /\ activeKeys' = activeKeys \cup {key}
  /\ UNCHANGED <<queue, sent>>

Process ==
  /\ pc = "processing"
  /\ \/ pc' = "processed"
     \/ MayFail /\ pc' = "failed"
  /\ UNCHANGED <<queue, state, key, sent, handed>>

\* Mutant of Repeat: what was enqueued during the call is left for later.
RepeatNever ==
  /\ pc = "processed"
  /\ activeKeys' = activeKeys \ {key}
  /\ Return
  /\ UNCHANGED <<queue, latest, queuedKeys, sent, handed>>

\* The transaction after process: again, or the key is done.
Repeat ==
  /\ pc = "processed"
  /\ IF latest[key] = {}
     THEN Return /\ activeKeys' = activeKeys \ {key} /\ UNCHANGED <<latest, handed>>
     ELSE CallProcess /\ UNCHANGED activeKeys
  /\ UNCHANGED <<queue, queuedKeys, sent>>

\* Mutant of Cleanup: the key stays marked active.
CleanupKeepsMark ==
  /\ pc = "failed"
  /\ Return
  /\ UNCHANGED <<queue, state, sent, handed>>

\* cleanupFailedKey
Cleanup ==
  /\ pc = "failed"
  /\ activeKeys' = activeKeys \ {key}
  /\ IF latest[key] # {} /\ key \notin queuedKeys
     THEN /\ queuedKeys' = queuedKeys \cup {key}
          /\ pc' = "requeue"
          /\ UNCHANGED key
     ELSE Return /\ UNCHANGED queuedKeys
  /\ UNCHANGED <<queue, latest, sent, handed>>

Requeue ==
  /\ pc = "requeue"
  /\ queue' = Append(queue, key)
  /\ Return
  /\ UNCHANGED <<state, sent, handed>>

WorkerStep == Take \/ Begin \/ Process \/ Repeat \/ Cleanup \/ Requeue

Next == WorkerStep \/ \E k \in Keys : Enqueue(k)

Spec == Init /\ [][Next]_vars

\* The fiber is forked under Effect.forever, and every call of process ends.
FairSpec == Spec /\ WF_vars(WorkerStep)

\* What drainKey waits for.
Drained(k) == latest[k] = {} /\ k \notin queuedKeys /\ k \notin activeKeys
-----------------------------------------------------------------------------
TypeOK ==
  /\ queue \in Seq(Keys)
  /\ latest \in [Keys -> SUBSET Nat]
  /\ queuedKeys \subseteq Keys
  /\ activeKeys \subseteq Keys
  /\ pc \in {"idle", "taken", "processing", "processed", "failed", "requeue"}
  /\ key \in Keys \cup {None}
  /\ sent \in [Keys -> Nat]
  /\ handed \in [Keys -> SUBSET Nat]

(***************************************************************************)
(* Every value enqueued is handed to process or still waits, never both:   *)
(* none is lost and none handed twice, whatever is enqueued while the      *)
(* fiber is between two of its transactions.                               *)
(***************************************************************************)
NoValueIsLost ==
  \A k \in Keys : /\ handed[k] \cup latest[k] = 1..sent[k]
                  /\ handed[k] \cap latest[k] = {}

(***************************************************************************)
(* A key whose value waits is on the queue, or in the fiber's hands: the   *)
(* marks in queuedKeys and activeKeys that spare an offer are never stale. *)
(***************************************************************************)
WaitingIsReachable ==
  \A k \in Keys : latest[k] # {} => k \in Range(queue) \/ key = k

(***************************************************************************)
(* When drainKey returns, process was called with all values enqueued, and *)
(* no call of it is under way for the key.                                 *)
(***************************************************************************)
DrainWaitsForAll ==
  \A k \in Keys : Drained(k) =>
    /\ handed[k] = 1..sent[k]
    /\ ~ (pc \in {"processing", "processed", "failed"} /\ key = k)

(***************************************************************************)
(* The worker implements the mailbox: the marks, the queue, the failures   *)
(* and the requeueing do not show in it.                                   *)
(***************************************************************************)
Mailbox == INSTANCE KeyedMailbox WITH pending <- latest, busy <- activeKeys
ImplementsMailbox == Mailbox!Spec

(***************************************************************************)
(* drainKey returns: once no more is enqueued, every key is drained.       *)
(***************************************************************************)
EveryKeyIsDrained == \A k \in Keys : [](sent[k] = MaxSends => <>Drained(k))

-----------------------------------------------------------------------------
\* The fiber holds a key that is still marked as queued.
Holds(k) == pc \in {"taken", "requeue"} /\ key = k

(***************************************************************************)
(* Where each mark comes from; with the types and NoValueIsLost it is      *)
(* inductive.  A key is queued once, or in the fiber's hands.              *)
(***************************************************************************)
Marks ==
  /\ key = None <=> pc = "idle"
  /\ activeKeys = IF pc \in {"processing", "processed", "failed"} THEN {key} ELSE {}
  /\ IsInjective(queue)
  /\ \A k \in Keys :
       /\ k \in queuedKeys <=> k \in Range(queue) \/ Holds(k)
       /\ ~ (k \in Range(queue) /\ Holds(k))
       /\ latest[k] # {} => k \in queuedKeys \/ k \in activeKeys

WorkerInv == TypeOK /\ Marks /\ NoValueIsLost
=============================================================================
