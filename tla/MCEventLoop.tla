---------------------------- MODULE MCEventLoop ----------------------------
(* The event loop with few callers, events and seconds, for TLC. *)
EXTENDS EventLoop
=============================================================================
