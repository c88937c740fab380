\* Every way through every routine, and function bodies against the reference.
CONSTANTS
  Programs <- ParsedPrograms
  Extensions <- GNU
  C99 = TRUE
  MAX_DEPTH_OF_STMTS = 100
  MAX_DEPTH_OF_EXPRS = 4
SPECIFICATION Spec
INVARIANTS
  TypeOK
  BacktrackersMatchCallStack
  MarksAreBehind
  NoDelayOutlivesItsList
  JumpsAreDiagnosedExactly
  AmbiguitiesAreRetainedOnce
PROPERTIES
  SpeculationIsSound
CHECK_DEADLOCK FALSE
