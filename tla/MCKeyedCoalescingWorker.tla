----------------------- MODULE MCKeyedCoalescingWorker -----------------------
(* Two keys with three values each, for TLC. *)
EXTENDS KeyedCoalescingWorker

CONSTANTS keyA, keyB

MCKeys == {keyA, keyB}
=============================================================================
