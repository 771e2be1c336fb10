---------------------------- MODULE MCDaemonLock ----------------------------
(* Instance of DaemonLock for TLC. *)
EXTENDS DaemonLock

CONSTANTS h1, h2, r1, r2

=============================================================================
