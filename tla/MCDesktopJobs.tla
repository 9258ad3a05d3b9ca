--------------------------- MODULE MCDesktopJobs ---------------------------
(***************************************************************************)
(* Instances of DesktopJobs for TLC.                                       *)
(***************************************************************************)
EXTENDS DesktopJobs, TLC

Interchangeable == Permutations(Runs)

\* Bound: one document ingested; the other runs are its child, its retries, its correction.
OneRoot ==
  Cardinality({r \in Runs : run[r].document = r /\ run[r].source # "ocr"}) <= 1

\* Bound: only a run that ended at once, in its first stage, is retried or corrected; a failure
\* in a later stage differs in nothing the threads look at.
EarlySource ==
  \A s \in Runs :
    (\E r \in Runs : s \in {retryOf[r], correctionOf[r]}) => run[s].version <= 5

Small == OneRoot /\ EarlySource

\* Bound, for three runs: a scanned document and its child or retry go through all stages and
\* may die on the way; a native one does not die, and a third run, of a document that has not
\* died either, only finds the others parsing.
Lineage ==
  /\ Small
  /\ (\E r \in Runs : Exists(r) /\ run[r].source = "native") => crashes = 0
  /\ Cardinality({r \in Runs : Exists(r)}) > 2 =>
        crashes = 0 /\ \A r \in Runs : run[r].version <= 5 /\ run[r].source # "native"

\* For liveness the bound is a bound on what the user does, who owes no step: one document,
\* no retries, and none of the direct stage commands, which hold no claim. Fair steps are
\* never cut off by it. Run ids being interchangeable, the document is always the same one.
Root == CHOOSE r \in Runs : TRUE
FewCommands ==
  /\ ui.cmd # "direct"
  /\ \A r \in Runs : retryOf[r] = NoRun /\ (run[r].source = "scanned" => r = Root)

\* The process starts for the first time, or after it died during an OCR handoff.
DiedInHandoff(root, child, phase) ==
  LET states == Ingestion \o <<"Parsing", "Parsed">> IN
  /\ run = [r \in Runs |-> IF r = root THEN NewRow(states, root, "scanned") ELSE NoRow]
  /\ log = [r \in Runs |-> IF r = root THEN EventsThrough(states) ELSE <<>>]
  /\ artifacts = [r \in Runs |-> IF r = root THEN {1} ELSE {}]
  /\ attempt = [r \in Runs |-> FALSE]
  /\ \E p \in Profiles : profile = [r \in Runs |-> IF r = root THEN p ELSE NoProfile]
  /\ retryOf = [r \in Runs |-> NoRun] /\ correctionOf = [r \in Runs |-> NoRun]
  /\ handoff = [r \in Runs |-> IF r = root THEN [phase |-> phase, child |-> child]
                                          ELSE NoHandoff]
  /\ up = FALSE /\ crashes = 0
  /\ active = [r \in Runs |-> "none"] /\ worker = [r \in Runs |-> Idle]
  /\ ui = NoCommand /\ recovery = NoRecovery

LiveInit ==
  \/ JobsInit
  \/ \E child \in Runs \ {Root}, phase \in OpenPhases : DiedInHandoff(Root, child, phase)

LiveSpec == LiveInit /\ [][JobsNext /\ FewCommands']_allVars /\ Fairness
=============================================================================
