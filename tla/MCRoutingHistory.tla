-------------------------- MODULE MCRoutingHistory --------------------------
(* Small instances of RoutingHistory: those of MCRoutingEngine. *)
EXTENDS RoutingHistory, MCRoutingEngine

=============================================================================
