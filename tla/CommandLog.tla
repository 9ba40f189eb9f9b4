------------------------------ MODULE CommandLog ------------------------------
(***************************************************************************)
(* What the orchestration engine promises: commands are decided one at a   *)
(* time against the state the whole log describes, an accepted command     *)
(* appends all its events at once and for good, and no command id is ever  *)
(* decided again once its verdict is recorded.                             *)
(***************************************************************************)
EXTENDS Naturals, Sequences

CONSTANTS Commands,        \* records with an id
          EventsAfter(_,_) \* the events a command adds to a log; none: refused

VARIABLES log,        \* the committed events
          receipts    \* per command id, the recorded verdict

logVars == <<log, receipts>>

Verdict(status, n) == [status |-> status, sequence |-> n]

Init ==
  /\ log = <<>>
  /\ receipts = [id \in {c.id : c \in Commands} |-> Verdict("none", 0)]

Accept(c) ==
  /\ receipts[c.id].status = "none"
  /\ EventsAfter(log, c) # <<>>
  /\ log' = log \o EventsAfter(log, c)
  /\ receipts' = [receipts EXCEPT ![c.id] =
                    Verdict("accepted", Len(log) + Len(EventsAfter(log, c)))]

Reject(c) ==
  /\ receipts[c.id].status = "none"
  /\ EventsAfter(log, c) = <<>>
  /\ receipts' = [receipts EXCEPT ![c.id] = Verdict("rejected", Len(log))]
  /\ UNCHANGED log

Next == \E c \in Commands : Accept(c) \/ Reject(c)

Spec == Init /\ [][Next]_logVars
=============================================================================
