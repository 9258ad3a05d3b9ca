--------------------------- MODULE MCOcrExchange ---------------------------
(***************************************************************************)
(* Instances of OcrExchange for TLC: consumers and results are             *)
(* interchangeable.                                                        *)
(***************************************************************************)
EXTENDS OcrExchange, TLC

Interchangeable == Permutations(Consumers) \cup Permutations(Results)
=============================================================================
