\* A storage class among the members of a struct.
CONSTANTS
  Programs <- StaticMember
  Extensions <- GNU
  C99 = TRUE
  MAX_DEPTH_OF_STMTS = 100
  MAX_DEPTH_OF_EXPRS = 1000
SPECIFICATION Spec
PROPERTY
  ParseReturns
CHECK_DEADLOCK FALSE
