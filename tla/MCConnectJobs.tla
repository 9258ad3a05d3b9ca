---------------------------- MODULE MCConnectJobs ----------------------------
(* ConnectJobs for TLC: transfers for two jobs, so that a retry meets an      *)
(* accepted job and a second job meets a busy provider.                       *)
EXTENDS ConnectJobs, TLC

\* A user takes up a run while store and disk are sound: what fails and what he does are not mixed.
UsersWithoutFaults == faulty => desk = {} /\ moved = {}
=============================================================================
