---------------------------- MODULE MCScheduler ----------------------------
(* Scheduler with the values of its constants for TLC. *)
EXTENDS Scheduler

CONSTANTS boot, other

MCPageCtx == {boot, other}
MCOneCtx == {boot}
MCSwitchingCalls == {"SetPageContext", "CreateTask", "Exit"}
MCBlockingCalls == {"CreateTask", "ReadStream"}
=============================================================================
