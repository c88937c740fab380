\* Every short sequence of tokens.
CONSTANTS
  Programs <- Soups
  Extensions <- GNU
  C99 = TRUE
  MAX_DEPTH_OF_STMTS = 100
  MAX_DEPTH_OF_EXPRS = 1000
SPECIFICATION Spec
INVARIANTS
  RecoveriesAreReported
PROPERTIES
  ParseReturns
CHECK_DEADLOCK FALSE
