------------------------------ MODULE Unparsing ------------------------------
(***************************************************************************)
(* The Unparser over the lexer: the tokens read from a text are written    *)
(* out again, as Unparser::terminal writes each, and the text that results *)
(* is read in turn.  What the unparser is for is that nothing changes.     *)
(***************************************************************************)
EXTENDS TextPositions

CONSTANT Inputs     \* the texts to be read, each with its options

\* A text is of units with at least a character.
ASSUME InputsAssumption ==
    \A input \in Inputs :
        /\ input.text \in Seq(STRING)
        /\ \A i \in 1..Len(input.text) : Units(input.text[i]) \in Nat \ {0}

VARIABLES
    pass,   \* 1 while the given text is read, 2 while the written one is
    given   \* the tokens of the first pass

unparsing == <<pass, given>>

\* The kinds with a lexeme, whose text is the value of the token.
Valued ==
    {Identifier, IntegerConstant, FloatingConstant, ImaginaryIntegerConstant,
     ImaginaryFloatingConstant, StringLiteral, CharacterConstant}
    \cup {StringKind[p] : p \in DOMAIN StringKind}
    \cup {CharacterKind[p] : p \in DOMAIN CharacterKind}
    \cup {RawStringKind[p] : p \in DOMAIN RawStringKind}

\* SyntaxToken::valueText: the lexeme, as far as the text goes; or the name of
\* the kind.
ValueText(token) ==
    IF token.kind \in Valued
    THEN SubSeq(text, token.low, IF token.high < End THEN token.high ELSE Len(text))
    ELSE token.kind

(* Mutant: nothing is written between two tokens of a line.                *)
Terminal_NoBlank(token) ==
    IF token.kind = EndOfFile THEN <<>>
    ELSE ValueText(token)
         \o (IF token.kind \in {<<"}">>, <<"{">>, <<";">>} THEN <<"\n">> ELSE <<>>)

\* Unparser::terminal.
Terminal(token) ==
    IF token.kind = EndOfFile THEN <<>>
    ELSE ValueText(token)
         \o (IF token.kind \in {<<"}">>, <<"{">>, <<";">>} THEN <<"\n">> ELSE <<" ">>)

Written ==
    LET written[n \in 0..Len(tokens)] ==
            IF n = 0 THEN <<>> ELSE written[n - 1] \o Terminal(tokens[n])
    IN  written[Len(tokens)]

\* What is kept of a token, to be compared.
Seen(token) == [kind |-> token.kind, value |-> ValueText(token)]

Unparse ==
    /\ pc = "done" /\ pass = 1
    /\ pass' = 2
    /\ given' = [i \in DOMAIN tokens |-> Seen(tokens[i])]
    /\ text' = Written
    /\ at' = 0 /\ within' = FALSE /\ lexing' = TRUE /\ tk' = Fresh
    /\ pc' = "token" /\ hash' = 0 /\ lineno' = 0 /\ skip' = 0
    /\ expansions' = <<>> /\ expansionIdx' = 0
    /\ braces' = <<>> /\ tokens' = <<>> /\ matching' = <<>> /\ comments' = <<>>
    /\ directives' = <<[offset |-> 0, lineno |-> 1]>> /\ marks' = <<>>
    /\ diagnostics' = <<>>
    /\ UNCHANGED options

Init ==
    /\ \E input \in Inputs : text = input.text /\ options = input.options
    /\ Start
    /\ pass = 1 /\ given = <<>>

Next == (Lex /\ UNCHANGED unparsing) \/ Unparse

allVars == <<vars, unparsing>>

Spec == Init /\ [][Next]_allVars /\ WF_allVars(Next)

-----------------------------------------------------------------------------

\* Every variable of the lexer stays in its type.
TypeOK ==
    /\ at \in 0..End /\ within \in BOOLEAN /\ lexing \in BOOLEAN
    /\ tk.from \in 0..End /\ tk.to \in 0..End
    /\ pc \in {"token", "hash", "number", "file", "rest", "mark", "skip", "data",
               "generated", "colon", "column", "done"}
    /\ lineno \in Nat /\ skip \in 0..3
    /\ expansionIdx \in 0..Len(expansions)
    /\ \A i \in DOMAIN braces : braces[i] \in 1..(Len(tokens) + 1)
    /\ DOMAIN matching \subseteq 1..Len(tokens)
    /\ \A i \in DOMAIN diagnostics : diagnostics[i] \in 0..Len(tokens)

(* Lexer.cpp:141: the tokens of the tree are in the order of the text, no   *)
(* character is in two of them, and none but the end of the file is without*)
(* a character.  The end of the file is the last token, and is there when  *)
(* lex() returns, whatever stopped it.                                     *)
TokensInOrder ==
    /\ \A i \in DOMAIN tokens :
        /\ tokens[i].from \in 1..tokens[i].to /\ tokens[i].to \in 1..at
        /\ tokens[i].from = tokens[i].to => tokens[i].kind = EndOfFile
        /\ tokens[i].kind = EndOfFile => pc = "done" /\ i = Len(tokens)
        /\ \A j \in DOMAIN tokens : i < j => tokens[i].to <= tokens[j].from
    /\ pc = "done" => tokens # <<>> /\ tokens[Len(tokens)].kind = EndOfFile

\* The openings less the closings between two tokens.
Count(brace, i, j) == Cardinality({k \in i..j : tokens[k].kind = brace})
Excess(i, j) == Count(<<"{">>, i, j) - Count(<<"}">>, i, j)

Openings == {i \in DOMAIN tokens : tokens[i].kind = <<"{">>}

(* Lexer.cpp:218: the match of an opening brace is the closing brace that  *)
(* balances it, or the index past the last token when none does.           *)
BracesMatch ==
    pc = "done" =>
        /\ DOMAIN matching = Openings
        /\ \A i \in Openings :
            LET j == matching[i]
            IN  /\ j \in 1..(Len(tokens) + 1)
                /\ j \in DOMAIN tokens => Excess(i, j) = 0
                /\ \A k \in i..(j - 1) : Excess(i, k) # 0

-----------------------------------------------------------------------------
(* Positions.                                                              *)

\* The given text was read.
Read1 == pc = "done" /\ pass = 1

PhysicalLine(i) == Cardinality(NewlinesBefore(i))
ColumnOf(i) ==
    Offset(i) - (IF NewlinesBefore(i) = {} THEN 0
                 ELSE 1 + Offset(CHOOSE j \in NewlinesBefore(i) :
                                    \A k \in NewlinesBefore(i) : k <= j))
PlaceOf(offset) == CHOOSE i \in 1..End : Offset(i) = offset

\* The line directive a place is under: the last one before it.
InForce(i) ==
    LET before == {k \in DOMAIN directives : k = 1 \/ directives[k].offset < Offset(i)}
    IN  directives[CHOOSE k \in before : \A m \in before : m <= k]

(* SyntaxTree.cpp:351: a token is where the text has it: as many lines     *)
(* after its line directive as there are newlines between, and at its      *)
(* column.  (For tokens, and directives, that do not begin a line: for     *)
(* those searchForLineno finds the line before.)                           *)
PositionsInTheText ==
    Read1 =>
        \A k \in DOMAIN tokens :
            LET i == tokens[k].from
                d == InForce(i)
                place == PlaceOf(d.offset)
            IN  /\ ColumnOf(i) > 0 /\ Offset(i) \notin DOMAIN marks
                /\ d.offset > 0 => ColumnOf(place) > 0
                => ComputePosition(Offset(i)) =
                    <<PhysicalLine(i) - PhysicalLine(place) - 1 + d.lineno, ColumnOf(i)>>
=============================================================================
