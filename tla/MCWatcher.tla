------------------------------ MODULE MCWatcher ------------------------------
(* Watcher with a few publications and events. *)
EXTENDS Watcher
=============================================================================
