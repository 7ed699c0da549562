---------------------------- MODULE MCEventLoop ----------------------------
(* TLC instance of EventLoop; liveness is checked in the same run, so there *)
(* is no symmetry.                                                          *)
EXTENDS EventLoop
=============================================================================
