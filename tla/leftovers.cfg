SPECIFICATION Spec
CONSTANT Programs <- Leftovers
\* The program ends when the compilation is destroyed.
CHECK_DEADLOCK FALSE
INVARIANT TwoDataTypesAreWritten
