SPECIFICATION Spec
CONSTANT MaxRevision = 12
INVARIANTS
  MergeNeedsVerdict
  PausedCanResume
  NoChangeWasClaimed
PROPERTIES
  ResumeRestores
  ImplementsDiagram
\* A finished run, and one whose revision is exhausted, accepts no event.
CHECK_DEADLOCK FALSE
