SPECIFICATION Spec
CONSTANT Programs <- Parenthesized
\* The program ends when the compilation is destroyed.
CHECK_DEADLOCK FALSE
INVARIANT EveryDeclaratorIsFound
