---------------------- MODULE MCDomainEventSubscription ----------------------
(* A client that subscribes while up to five events are committed, for TLC. *)
EXTENDS DomainEventSubscription
=============================================================================
