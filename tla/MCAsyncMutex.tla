---------------------------- MODULE MCAsyncMutex ----------------------------
(* AsyncMutex for TLC. *)
EXTENDS AsyncMutex
=============================================================================
