---------------------------- MODULE MCEventQueue ----------------------------
(* A small instance of EventQueue: two publishers, two progress snapshots  *)
(* and two critical events, four queue entries.                            *)
EXTENDS EventQueue, TLC

MCProgress == {"progress1", "progress2"}
MCEvent == MCProgress \cup {"result", "terminal"}
=============================================================================
