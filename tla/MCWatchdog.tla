------------------------------- MODULE MCWatchdog -------------------------------
(***************************************************************************)
(* Two sessions of one pane, a hang of each, and resets of the counter.    *)
(***************************************************************************)
EXTENDS Watchdog
================================================================================
