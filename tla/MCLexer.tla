------------------------------ MODULE MCLexer ------------------------------
(***************************************************************************)
(* The lexer, and the unparser behind it, over short texts of a few        *)
(* alphabets (Soups) and over a corpus of texts.                           *)
(***************************************************************************)
EXTENDS Unparsing

CONSTANTS
    Length,        \* the longest soup
    Suite          \* "texts" or "spellings": which texts are read

Texts(alphabet, n) == UNION {[1..m -> alphabet] : m \in 1..n}

\* Directives, joined lines and digraphs.
DirectiveSoups == Texts({"#", "%", ":", "\\", "\n", " ", "a"}, Length + 1)
\* Punctuators, three of the same alphabet at most.
PunctuatorSoups ==
    Texts(Punctuation, Length - 1)
    \cup Texts({"<", ">", "=", "-", "&", "|", "."}, Length)
\* Numbers and their suffixes.
NumberSoups == Texts({"0", "1", "8", "x", ".", "e", "u", "l", "i", "+"}, Length)
\* Literals, comments and escapes.
LiteralSoups ==
    Texts({"u", "8", "R", "L", "\"", "'", "\\", "\n", "/", "*"}, Length)
    \cup {<<"R", "\"">> \o t : t \in Texts({"a", "(", ")", "\"", " "}, Length + 2)}
\* Braces.
BraceSoups == Texts({"{", "}", "a"}, Length + 2)

ReservedWords == {entry.word : entry \in Keywords \cup OperatorNames}

Line(n) == <<"#", " ", n, " ", "\"", "f", "\"">>
BeginMark(data) == <<"#", " ", "expansion", " ", "begin", " ", "0", ",", "3", " ">> \o data
EndMark == <<"\n", "#", " ", "expansion", " ", "end", "\n">>

\* Line directives, marks of expansions (the example at isPPGenerated of
\* SyntaxToken.h among them), comments, and the words of the tables.
Corpus ==
    { <<" ">> \o Line("7") \o <<"\n", " ", "a", "\n", "\n", " ", "b", "4-byte", " ", "c">>,
      Line("7") \o <<"\n", " ", "a", "\n", " ">> \o Line("3") \o <<"\n", " ", "b">>,
      <<" ", "#", " ", "line", " ", "7", " ", "\"", "f", "\"", "\n", " ", "a", ";", "\n", "b">>,
      <<"#", " ", "line", " ", "7", " ", "a", "\n", "b">>,
      <<"a", "\n">> \o BeginMark(<<"1", ":", "4", " ", "~", "1", " ", "1", ":", "7", "\n">>)
            \o <<"1", "+", "2", ";">> \o EndMark \o <<"a", ";">>,
      BeginMark(<<"~", "2", "\n">>) \o <<"a">> \o EndMark \o <<"b">> \o
            BeginMark(<<"~", "1", "\n">>) \o <<"c", " ", "d">> \o EndMark,
      BeginMark(<<"a", "\n">>), BeginMark(<<"~", "2">>),
      <<"#", " ", "expansion", " ", "a", "\n", "b">>,
      <<"a", "/", "*", ".", ".", ".", "*", "/", "b">>,
      <<"/", "*", "!", "<", " ", "*", "*", "/", "a", "/", "/", "!", "\\", "\n", "b">>,
      <<"\"", "a", "\\", " ", "\n", " ", "b", "\\", "\"", "\"", ";">>,
      <<"u", "8", "R", "\"", "(", ")", "\"", "L", "a", "2-byte", "$">>,
      <<"@", "a">> }
    \cup {<<w, " ", "a">> : w \in ReservedWords}

Given ==
    CASE Suite = "texts" ->
            DirectiveSoups \cup PunctuatorSoups \cup NumberSoups \cup LiteralSoups
            \cup BraceSoups \cup Corpus
      [] Suite = "spellings" ->
            PunctuatorNames \cup {<<w>> : w \in KeywordNames}

\* The options that decide what the word w is, or the names of what it may be; and
\* their combinations, with all the others on and with all of them off.
EveryOption == C11 \cup MacroTranslations \cup AllExtensions
Meanings(w) == {entry \in Keywords \cup OperatorNames : entry.word = w}
Needs(w) == UNION {entry.needs : entry \in Meanings(w)}
Deciding(w) ==
    Needs(w) \cup UNION {Needs(Head(entry.kind)) : entry \in Meanings(w)}
    \cup {"Translate_operatorNames"}
Combinations(w) ==
    {o \in {on \cup others : on \in SUBSET Deciding(w),
                             others \in {{}, EveryOption \ Deciding(w)}} :
        "C11" \in o => "C99" \in o}

\* The options: the defaults; the defaults with comments kept, for the texts
\* that have a slash; every combination that a reserved word may depend on.
OptionsFor(t) ==
    CASE Suite = "spellings" -> {EveryOption}
      [] Suite = "texts" /\ \E i \in DOMAIN t : t[i] = "/" ->
            {DefaultOptions, DefaultOptions \cup {"KeepComments"}}
      [] Suite = "texts" /\ t[1] \in ReservedWords -> {DefaultOptions} \cup Combinations(t[1])
      [] Suite = "texts" /\ \E i \in DOMAIN t : t[i] \in {"i", "x"} -> {DefaultOptions, C89}
      [] OTHER -> {DefaultOptions}

InputsGiven == UNION {{[text |-> t, options |-> o] : o \in OptionsFor(t)} : t \in Given}

-----------------------------------------------------------------------------

Read2 == pc = "done" /\ pass = 2

(* Lines as the standard joins them: a newline behind a backslash, with    *)
(* only blanks between, ends no line.                                      *)
Joined(j) ==
    \E k \in 1..(j - 1) : /\ Char(k) = "\\"
                          /\ \A m \in (k + 1)..(j - 1) : Char(m) \in InnerBlanks
LogicalLine(i) == Cardinality({j \in NewlinesBefore(i) : ~Joined(j)})
Ignored == Blanks \cup {"\\"}
HeadsLine(i) ==
    /\ Char(i) \notin Ignored
    /\ \A j \in 1..(i - 1) : LogicalLine(j) = LogicalLine(i) => Char(j) \in Ignored \ {"\n"}
IsHash(i) ==
    \/ Char(i) = "#" /\ Char(i + 1) # "#"
    \/ Char(i) = "%" /\ Char(i + 1) = ":"
OnDirective(i) ==
    \E h \in 1..i : HeadsLine(h) /\ IsHash(h) /\ LogicalLine(h) = LogicalLine(i)

\* A text without comments, literals, marks, or question marks that stop it.
(* (Of a hash behind a joined line the lexer says it is joined, and so not  *)
(* the first of a line: Lexer.cpp:401.)                                    *)
Plain ==
    /\ \A i \in 1..Len(text) : text[i] \notin Quotes \cup {"expansion"}
    /\ \A i \in 1..(Len(text) - 1) :
            SubSeq(text, i, i + 1) \notin {<<"/", "/">>, <<"/", "*">>, <<"?", "?">>}

(* Lexer.cpp:267, 368 and the loop at 205: a directive is a logical line   *)
(* whose first token is a hash, and no more.  Every other character that is*)
(* not a blank is in one token of the tree; none of a directive is.        *)
NothingIsLost ==
    Read1 /\ Plain =>
        \A i \in 1..Len(text) :
            Cardinality({k \in DOMAIN tokens : tokens[k].from <= i /\ i < tokens[k].to})
            = IF Char(i) \in Ignored \/ OnDirective(i) THEN 0 ELSE 1

\* The keywords that are reserved under an option, while an alias of theirs is
\* reserved without it: __inline__ is inline in C89, where inline is no keyword.
Unnamed ==
    LET without(option, kinds) == IF option \in options THEN {} ELSE kinds
    IN  without("C99", {<<"inline">>})
        \cup without("C11", {<<"_Alignof">>, <<"_Alignas">>})
        \cup without("ExtGNU_AlternateKeywords", {<<"__attribute__">>})

(* Unparser.cpp:39: what is written of the tokens is read as the same      *)
(* tokens, under the same options: no two of them run together, and the    *)
(* name of a keyword written for its alias is that keyword, if the options *)
(* reserve it as well.  (Not for what is no token of a program, and not    *)
(* for the prefixed and raw literals, whose lexeme is not what was read.)  *)
Literals == {StringLiteral, CharacterConstant}
Writable ==
    \A i \in DOMAIN given :
        /\ given[i].kind \notin CommentKinds \cup {Error, <<"#">>} \cup Unnamed
        /\ given[i].kind \in Valued =>
                given[i].kind \in Literals \cup
                    {Identifier, IntegerConstant, FloatingConstant,
                     ImaginaryIntegerConstant, ImaginaryFloatingConstant}
WrittenIsReadBack ==
    Read2 /\ Writable =>
        /\ Len(tokens) = Len(given)
        /\ \A i \in DOMAIN given :
            /\ tokens[i].kind = given[i].kind
            /\ given[i].kind \notin Literals => ValueText(tokens[i]) = given[i].value

(* Lexer.cpp:182: the marks of an expansion hold up to the mark of its     *)
(* end.                                                                    *)
MarkBefore(word, i) == {j \in 1..(i - 1) : text[j] = word /\ j > 2 /\ text[j - 2] = "expansion"}
ExpandedWithinMarks ==
    Read1 =>
        \A k \in DOMAIN tokens : tokens[k].expanded =>
            \E b \in MarkBefore("begin", tokens[k].from) :
                \A e \in MarkBefore("end", tokens[k].from) : e < b

-----------------------------------------------------------------------------
(* Positions.                                                              *)

(* LinePosition.h:47, "The character position within the line": a token is *)
(* not beyond the end of the line it is said to be in.                     *)
PositionsWithinLines ==
    Read1 /\ Len(directives) = 1 =>
        \A k \in 1..(Len(tokens) - 1) :
            LET position == ComputePosition(Offset(tokens[k].from))
                line == {i \in 1..Len(text) : PhysicalLine(i) = position[1] /\ Char(i) # "\n"}
            IN  position[2] <= Cardinality(line)

-----------------------------------------------------------------------------

(* SyntaxToken.cpp:33 against Lexer.cpp and Keywords.cpp: the name of a    *)
(* kind, written as a text, is read as that kind when every option is on.  *)
NamesAreRead ==
    Read1 /\ text \in PunctuatorNames \cup {<<w>> : w \in KeywordNames} =>
        [i \in DOMAIN tokens |-> tokens[i].kind] = <<text, EndOfFile>>

(* Lexer.cpp:141: every text is read to its end, whatever its directives.  *)
(* (Not the text of a mark whose data hold another token: see              *)
(* AtUnknownData.)                                                         *)
LexReturns == <>(Read2 \/ AtUnknownData)

\* As the comment at Lexer.cpp:166 has it: what is not generated is data.
LexAlwaysReturns == <>Read2
=============================================================================
