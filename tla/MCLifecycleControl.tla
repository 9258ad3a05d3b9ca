-------------------------- MODULE MCLifecycleControl --------------------------
(* LifecycleControl for TLC: its constants are numbers, given in the .cfg.     *)
EXTENDS LifecycleControl, TLC
=============================================================================
