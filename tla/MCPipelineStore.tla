--------------------------- MODULE MCPipelineStore ---------------------------
(***************************************************************************)
(* Instances of PipelineStore for TLC. Run ids and profiles are            *)
(* interchangeable, so states are explored up to renaming them.            *)
(***************************************************************************)
EXTENDS PipelineStore, TLC

Interchangeable == Permutations(Runs) \cup Permutations(Profiles)

\* Bound: the number of documents ingested; the other runs are their children, retries and
\* corrections.
FewRoots ==
  Cardinality({r \in Runs : run[r].document = r /\ run[r].source # "ocr"}) <= 2

\* Bound: two runs go through a whole pipeline with its rewind; more than two, of at most two
\* ingested documents, through their first stages.
Lineage ==
  Cardinality({r \in Runs : Exists(r)}) > 2 => FewRoots /\ \A r \in Runs : run[r].version <= 6
=============================================================================
