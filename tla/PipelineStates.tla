--------------------------- MODULE PipelineStates ---------------------------
(***************************************************************************)
(* The pure part of the pipeline: the states a run can be in, the order of *)
(* its stages, the transition relation of StateMachine, and the tables of  *)
(* contracts.rs that classify states.                                      *)
(*                                                                         *)
(* A stage is its position in PipelineStage: 0 is Ingest, 1 Parse,         *)
(* 2 Normalize, 3 Structure, 4 Chunk, 5 Analyze, 6 Synthesize, 7 Verify.   *)
(* The reserved VisualAnalysis states are left out: no edge leads to them. *)
(***************************************************************************)
EXTENDS Naturals

\* The stages that start from a persisted checkpoint (every one but Ingest).
Stages == 1..7

\* The state a run is in while a stage works on it.
ActiveState(i) ==
  CASE i = 0 -> "Ingesting"
    [] i = 1 -> "Parsing"
    [] i = 2 -> "Normalizing"
    [] i = 3 -> "Structuring"
    [] i = 4 -> "Chunking"
    [] i = 5 -> "Analyzing"
    [] i = 6 -> "Synthesizing"
    [] i = 7 -> "Verifying"

\* The stable state a stage leaves behind, with the stage's artifact persisted.
Checkpoint(i) ==
  CASE i = 0 -> "Ingested"
    [] i = 1 -> "Parsed"
    [] i = 2 -> "Normalized"
    [] i = 3 -> "Structured"
    [] i = 4 -> "Chunked"
    [] i = 5 -> "Analyzed"
    [] i = 6 -> "Synthesized"
    [] i = 7 -> "Verified"

\* IMPLEMENTED_ACTIVE_STATES, and the states active_stage maps to a stage.
ActiveStates == {ActiveState(i) : i \in 0..7}

Checkpoints == {Checkpoint(i) : i \in 0..7}

Successful == {"Complete", "CompleteWithWarnings"}

Terminal == Successful \cup {"Failed", "Cancelled"}

\* "Absent" stands for a run id the store has no row for.
RunStates == {"Absent", "Received", "Cancelling"}
               \cup ActiveStates \cup Checkpoints \cup Terminal

\* PipelineState::can_request_cancellation.
CanRequestCancellation(s) == s \in ActiveStates \cup Checkpoints

\* The stage a state belongs to: the stage at work in an active state, the stage
\* that comes next in a checkpoint, and Verify once everything else is done.
\* This is stage_for_run of the desktop on every state it is asked about.
StageOf(s) ==
  CASE s \in {"Ingesting"} -> 0
    [] s \in {"Ingested", "Parsing"} -> 1
    [] s \in {"Parsed", "Normalizing"} -> 2
    [] s \in {"Normalized", "Structuring"} -> 3
    [] s \in {"Structured", "Chunking"} -> 4
    [] s \in {"Chunked", "Analyzing"} -> 5
    [] s \in {"Analyzed", "Synthesizing"} -> 6
    [] OTHER -> 7

\* The forward edge out of a state that is neither terminal nor a stage boundary
\* with a choice: the linear chain of is_valid_transition.
Forward ==
  {<<"Received", "Ingesting">>, <<"Cancelling", "Cancelled">>}
    \cup {<<ActiveState(i), Checkpoint(i)>> : i \in 0..7}
    \cup {<<Checkpoint(i-1), ActiveState(i)>> : i \in Stages}
    \cup {<<Checkpoint(7), s>> : s \in Successful}

\* The restart edges of an admitted OCR child: active stage back to its checkpoint.
Rewind == {<<ActiveState(i), Checkpoint(i-1)>> : i \in Stages}

\* StateMachine::is_valid_transition.
ValidTransition(from, to) ==
  /\ from \notin Terminal \cup {"Absent"}
  /\ \/ to \in {"Failed", "Cancelling"}
     \/ <<from, to>> \in Forward \cup Rewind
=============================================================================
