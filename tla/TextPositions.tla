---------------------------- MODULE TextPositions ----------------------------
(***************************************************************************)
(* From an offset to a line and a column: SyntaxTree::computePosition over *)
(* what the lexer relayed to the tree, the starts of the lines, the line   *)
(* directives and the marks of expansions.  Lines are counted from 0.      *)
(***************************************************************************)
EXTENDS Integers, Lexer

\* startOfLineOffsets_: 0, and what follows each newline the lexer reached.
LineStarts ==
    LET newlines == NewlinesBefore(IF at < End THEN at + 1 ELSE End)
        nth == [k \in 1..Cardinality(newlines) |->
                    CHOOSE j \in newlines : Cardinality({i \in newlines : i < j}) = k - 1]
    IN  <<0>> \o [k \in DOMAIN nth |-> Offset(nth[k]) + 1]

\* std::lower_bound in a sequence of offsets: the first index, from 1, of one
\* that is not less; past the end when there is none.
LowerBound(offsets, offset) ==
    CHOOSE k \in 1..(Len(offsets) + 1) :
        /\ \A i \in 1..(k - 1) : offsets[i] < offset
        /\ k <= Len(offsets) => offsets[k] >= offset

SearchForLineno(offset) ==
    LET k == LowerBound(LineStarts, offset)
    IN  IF k > Len(LineStarts) THEN Len(LineStarts) - 1
        ELSE IF k = 1 THEN 0 ELSE k - 2

SearchForColumn(offset, line) == IF offset = 0 THEN 0 ELSE offset - LineStarts[line + 1]

(* Mutant: a directive has force over the line before it.                  *)
SearchForLineDirective_Next(offset) ==
    LET k == LowerBound([i \in DOMAIN directives |-> directives[i].offset], offset)
    IN  directives[IF k > Len(directives) THEN Len(directives) ELSE k]

SearchForLineDirective(offset) ==
    LET k == LowerBound([i \in DOMAIN directives |-> directives[i].offset], offset)
    IN  directives[IF k = 1 THEN 1 ELSE k - 1]

ComputePosition(offset) ==
    IF offset \in DOMAIN marks THEN <<marks[offset][1], marks[offset][2] + 1>>
    ELSE LET line == SearchForLineno(offset)
             directive == SearchForLineDirective(offset)
         IN  <<line - (SearchForLineno(directive.offset) + 1) + directive.lineno,
               SearchForColumn(offset, line)>>
=============================================================================
