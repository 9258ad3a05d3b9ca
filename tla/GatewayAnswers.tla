--------------------------- MODULE GatewayAnswers ---------------------------
(***************************************************************************)
(* What the request ledger promises about one model step of a run, whatever *)
(* the network, the gateway and crashes do: the step gets at most one       *)
(* answer, every caller that gets one gets that one, and the gateway is     *)
(* told to forget it only after it is durable here.                         *)
(***************************************************************************)
CONSTANTS Answers, NoAnswer

VARIABLES answer,     \* the durable answer of the step
          delivered,  \* the answers callers were given
          released    \* may the gateway delete its copy?

Init == answer = NoAnswer /\ delivered = {} /\ released = FALSE

Settle == /\ answer = NoAnswer
          /\ answer' \in Answers
          /\ UNCHANGED <<delivered, released>>

Deliver == /\ answer # NoAnswer
           /\ delivered' = delivered \cup {answer}
           /\ UNCHANGED <<answer, released>>

Release == /\ answer # NoAnswer
           /\ released' = TRUE
           /\ UNCHANGED <<answer, delivered>>

Next == Settle \/ Deliver \/ Release

Spec == Init /\ [][Next]_<<answer, delivered, released>>
=============================================================================
