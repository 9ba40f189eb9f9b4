----------------------------- MODULE KeyedMailbox -----------------------------
(***************************************************************************)
(* What a keyed coalescing worker promises: a value put under a key waits  *)
(* until a run of that key takes all that waits there, and there is one    *)
(* run at a time.                                                          *)
(***************************************************************************)
EXTENDS Integers

CONSTANTS Keys,
          MaxSends   \* bound: values put under a key

VARIABLES sent,     \* per key, how many values were put: 1, 2, ...
          pending,  \* per key, the values that wait
          busy      \* the key being run

Init ==
  /\ sent = [k \in Keys |-> 0]
  /\ pending = [k \in Keys |-> {}]
  /\ busy = {}

Put(k) ==
  /\ sent[k] < MaxSends
  /\ sent' = [sent EXCEPT ![k] = @ + 1]
  /\ pending' = [pending EXCEPT ![k] = @ \cup {sent[k] + 1}]
  /\ UNCHANGED busy

\* A run takes everything; the next run of a key may follow at once.
Run(k) ==
  /\ busy \subseteq {k}
  /\ pending[k] # {}
  /\ busy' = {k}
  /\ pending' = [pending EXCEPT ![k] = {}]
  /\ UNCHANGED sent

Finish ==
  /\ busy' = {}
  /\ UNCHANGED <<sent, pending>>

Next == Finish \/ \E k \in Keys : Put(k) \/ Run(k)

Spec == Init /\ [][Next]_<<sent, pending, busy>>
=============================================================================
