--------------------------- MODULE MCGatewayLedger ---------------------------
(***************************************************************************)
(* Instances of GatewayLedger for TLC. Callers, ids and answers are         *)
(* interchangeable, so states are explored up to renaming them.             *)
(***************************************************************************)
EXTENDS GatewayLedger, TLC

Interchangeable == Permutations(Callers) \cup Permutations(Ids) \cup Permutations(Answers)
                   \cup Permutations(Inputs)
=============================================================================
