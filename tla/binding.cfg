SPECIFICATION Spec
CONSTANT Programs <- Compiled
\* The program ends when the compilation is destroyed, and is not defined any more
\* once the top of an empty stack was used.
CHECK_DEADLOCK FALSE
INVARIANTS
    StacksAreBalanced
    StacksAreRestored
    SymbolsAsWritten
    ConstraintsAreReported
    DeclaratorsAreFound
    ModelsOfLinkedTrees
PROPERTY ModelsStay
