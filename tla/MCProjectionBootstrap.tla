------------------------- MODULE MCProjectionBootstrap -------------------------
(* A thread of two turns over a crash and an upgrade, for TLC. *)
EXTENDS ProjectionBootstrap

\* Migration 13 introduced proposed plans, migration 5 all projections.
MCUpgrades == {{"threadProposedPlans"}, Projectors}
=============================================================================
