\* A conditional expression without its colon.
CONSTANTS
  Programs <- ConditionalWithoutColon
  Extensions <- GNU
  C99 = TRUE
  MAX_DEPTH_OF_STMTS = 100
  MAX_DEPTH_OF_EXPRS = 1000
SPECIFICATION Spec
INVARIANT
  NoErrorOmitted
CHECK_DEADLOCK FALSE
