---------------------------- MODULE MCConfigWatcher ----------------------------
(* ConfigWatcher for TLC: two ports, three edits, three modification times *)
(* and two starts of the server.                                           *)
EXTENDS ConfigWatcher

MCPort == {6060, 7070}
=============================================================================
