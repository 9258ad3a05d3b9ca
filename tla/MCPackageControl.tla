--------------------------- MODULE MCPackageControl ---------------------------
(* PackageControl for TLC: its constants are numbers, given in the .cfg.       *)
EXTENDS PackageControl, TLC

\* A package that was installed anew before left a receipt; that is told apart only by the receipt
\* of the next such installation, so it is tried with nobody logged in at the start.
FewStarts == Init /\ (install = None \/ \A u \in Users : session[u] = 0 /\ link[u])
MCSpec == FewStarts /\ [][Next]_vars /\ Fairness
=============================================================================
