-------------------------- MODULE MCDaemonRouting --------------------------
(* DaemonRouting for TLC.                                                  *)
EXTENDS DaemonRouting, TLC
=============================================================================
