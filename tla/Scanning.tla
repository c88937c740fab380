------------------------------ MODULE Scanning ------------------------------
(***************************************************************************)
(* How far the lexer reads from a place of the text: the scanning routines *)
(* of Lexer.cpp (lexIdentifier, lexIntegerOrFloatingConstant,              *)
(* lexUntilQuote, lexRawStringLiteral, lexSingleLineComment, lexBackslash  *)
(* and those they call), as functions of the text.                         *)
(*                                                                         *)
(* A text is a sequence of units.  A unit is one character, or a whole     *)
(* word given as one unit ("int", "expansion"); no text spells such a word *)
(* letter by letter.  A code point of several bytes is a unit named in     *)
(* CodePoints.                                                             *)
(***************************************************************************)
EXTENDS Naturals, Sequences, FiniteSets, Keywords

VARIABLES
    text,     \* the source text
    options   \* the parse options that are on, "KeepComments" and "None" (the
              \* TreatmentOfIdentifiers that classifies nothing) included

NUL == "NUL"

End == Len(text) + 1

\* What the lexer sees at a place: the newline it starts on, the text, and
\* the terminator behind it.
Char(i) == IF i = 0 THEN "\n" ELSE IF i < End THEN text[i] ELSE NUL

Blanks == {" ", "\t", "\n"}
InnerBlanks == Blanks \ {"\n"}
Digits == {"0", "1", "2", "3", "4", "5", "6", "7", "8", "9"}
Octals == Digits \ {"8", "9"}
HexDigits == Digits \cup {"a", "b", "c", "d", "e", "f", "A", "B", "C", "D", "E", "F"}
Quotes == {"\"", "'"}
CodePoints == {"2-byte", "3-byte", "4-byte"}
Punctuation ==
    {"{", "}", "[", "]", "(", ")", "#", ";", ":", ".", "?", "+", "-", "*", "/", "%",
     "^", "&", "|", "~", "!", "=", "<", ">", ","}
Stray == {"@"}

\* Letters, and words given as one unit.
IsAlpha(c) ==
    c \notin Blanks \cup Digits \cup Quotes \cup CodePoints \cup Punctuation \cup Stray
             \cup {"\\", "_", "$", NUL}
IsAlnum(c) == IsAlpha(c) \/ c \in Digits
StartsIdentifier(c) == IsAlpha(c) \/ c \in {"_", "$"} \cup CodePoints
ContinuesIdentifier(c) == StartsIdentifier(c) \/ c \in Digits

-----------------------------------------------------------------------------
(* Places, in UTF-16 code units and in lines.                              *)

Units(c) ==
    CASE c \in {"2-byte", "3-byte"} -> 1
      [] c = "4-byte" -> 2
      [] OTHER -> Len(c)

\* offset_ at a place: the code units before it.
Offset(i) ==
    LET before[j \in 1..End] == IF j = 1 THEN 0 ELSE before[j - 1] + Units(text[j - 1])
    IN  before[i]

NewlinesBefore(i) == {j \in 1..(i - 1) : Char(j) = "\n"}

-----------------------------------------------------------------------------

\* The first place from i on where P holds of the character.
First(i, P(_)) ==
    CHOOSE j \in i..End : P(Char(j)) /\ \A k \in i..(j - 1) : ~P(Char(k))

Skip(chars, i) == First(i, LAMBDA c : c \notin chars)

(* Lexer::lexBackslash, from the backslash: the character after it is      *)
(* taken with it; a newline, even after blanks, takes the blanks that      *)
(* follow it too.                                                          *)
AfterBackslash(i) ==
    LET next == i + 1
        line == Skip(InnerBlanks, next)
    IN  IF Char(next) \notin Blanks \cup {NUL} THEN next + 1
        ELSE IF Char(line) = "\n" THEN Skip(InnerBlanks, line + 1)
        ELSE line

\* The place where a scan that stops at `stops' and steps over escapes ends.
Until(stops, i) ==
    LET scan[j \in 0..End] ==
            IF Char(j) \in stops \cup {NUL} THEN j
            ELSE IF Char(j) = "\\" THEN scan[AfterBackslash(j)]
            ELSE scan[j + 1]
    IN  scan[i]

\* A token, or a comment, that was read: its kind, the place after it, and
\* the first and the last place of its lexeme.
Read(kind, end, low, high) == [kind |-> kind, end |-> end, low |-> low, high |-> high]

Error == <<"#error#">>

-----------------------------------------------------------------------------
(* Comments: what follows "//" and what follows the opening of a block.    *)

Comment == <<"<comment>">>
DocComment == <<"<documentation comment>">>
BlockComment == <<"<multiline comment>">>
BlockDocComment == <<"<documentation multiline comment>">>
Omission == <<"<psychec marker>">>

LineCommentAt(i) ==
    LET doc == Char(i) \in {"/", "!"}
    IN  Read(IF doc THEN DocComment ELSE Comment,
             Until({"\n"}, IF doc THEN i + 1 ELSE i), i, i)

\* Where a block comment ends: after the first "*/".
AfterBlock(i) ==
    IF \E j \in i..End : Char(j) = "*" /\ Char(j + 1) = "/"
    THEN 2 + CHOOSE j \in i..End :
                /\ Char(j) = "*" /\ Char(j + 1) = "/"
                /\ \A k \in i..(j - 1) : ~(Char(k) = "*" /\ Char(k + 1) = "/")
    ELSE End

BlockCommentAt(i) ==
    LET body == IF Char(i + 1) = "<" THEN i + 2 ELSE i + 1
        kind == IF Char(body) \in Blanks \cup {NUL} THEN BlockDocComment ELSE BlockComment
    IN  CASE Char(i) = "*" /\ Char(i + 1) = "/" -> Read(BlockComment, i + 2, i, i)
          [] Char(i) \in {"*", "!"} /\ ~(Char(i) = "*" /\ Char(i + 1) = "/") ->
                Read(kind, AfterBlock(body), i, i)
          [] Char(i) = "." -> Read(Omission, AfterBlock(Skip({"."}, i)), i, i)
          [] OTHER -> Read(BlockComment, AfterBlock(i), i, i)

-----------------------------------------------------------------------------
(* Character constants and string literals.                                *)

\* Lexer::lexUntilQuote from the place after the opening quote.  The lexeme
\* starts `prefix' characters before the quote and has as many characters
\* after the place where the scan stopped.
QuotedAt(i, quote, kind, prefix) ==
    LET stop == Until({quote, "\n"}, i)
    IN  Read(kind, IF Char(stop) = quote THEN stop + 1 ELSE stop,
             i - 1 - prefix, stop + prefix)

StringKind ==
    [L |-> <<"<L string literal>">>, u |-> <<"<u string literal>">>,
     U |-> <<"<U string literal>">>, u8 |-> <<"<u8 string literal>">>]

CharacterKind ==
    [L |-> <<"<L character constant>">>, u |-> <<"<u character constant>">>,
     U |-> <<"<U character constant>">>]

RawStringKind ==
    [L |-> <<"<LR string literal>">>, u |-> <<"<uR string literal>">>,
     U |-> <<"<UR string literal>">>, R |-> <<"<R string literal>">>,
     u8 |-> <<"<u8R string literal>">>]

StringLiteral == <<"<string literal>">>
CharacterConstant == <<"<character constant>">>

StringAt(i, prefix) == QuotedAt(i, "\"", StringKind[prefix], 1)

\* Only the prefixes L, u and U make a kind, and a lexeme, of their own.
CharacterAt(i, prefix) ==
    IF prefix \in DOMAIN CharacterKind THEN QuotedAt(i, "'", CharacterKind[prefix], 1)
    ELSE QuotedAt(i, "'", CharacterConstant, 0)

\* Lexer::lexRawStringLiteral from the place after the quote: up to the quote
\* that follows a parenthesis and the delimiter; up to what cannot be in a
\* delimiter; or to the end of the text.
RawStringAt(i, prefix) ==
    LET open == First(i, LAMBDA c : c \in {"(", ")", "\\", NUL} \cup Blanks)
        size == open - i
        Closes(j) == /\ Char(j) = "\"" /\ j - size - 1 > open
                     /\ Char(j - size - 1) = ")"
                     /\ SubSeq(text, j - size, j - 1) = SubSeq(text, i, open - 1)
        stop == CASE Char(open) = "(" /\ (\E j \in open..End : Closes(j)) ->
                        CHOOSE j \in open..End :
                            Closes(j) /\ \A k \in open..(j - 1) : ~Closes(k)
                  [] Char(open) = "(" /\ ~(\E j \in open..End : Closes(j)) -> End
                  [] Char(open) = ")" -> open + 1
                  [] OTHER -> open
    IN  Read(RawStringKind[prefix], IF Char(stop) = "\"" THEN stop + 1 ELSE stop, i, stop - 1)
=============================================================================
