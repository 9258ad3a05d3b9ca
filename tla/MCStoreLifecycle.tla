--------------------------- MODULE MCStoreLifecycle ---------------------------
EXTENDS StoreLifecycle, TLC

MCHome == [t \in Thread |-> IF t \in {"d1", "d2"} THEN "desktop" ELSE "service"]

\* One thread of the desktop gives commands, the other does everything else; the service attaches no
\* gateway and has no requests. What is cut off is what a thread begins, never a step that fairness
\* asks for.
FewCalls == /\ th["d1"].op # "command"
            /\ th["d2"].op \in {"none", "command"}
            /\ th["s1"].op \in {"none", "provider"}
MCSpec == Init /\ [][Next /\ FewCalls']_vars /\ Fairness
===============================================================================
