------------------------------ MODULE Lexemes ------------------------------
(***************************************************************************)
(* The tokens of the language: numbers, words and punctuators.             *)
(***************************************************************************)
EXTENDS Scanning

(* Constants: Lexer::lexIntegerOrFloatingConstant.                         *)

IntegerConstant == <<"<integer constant>">>
FloatingConstant == <<"<floating constant>">>
ImaginaryIntegerConstant == <<"<imaginary integer constant>">>
ImaginaryFloatingConstant == <<"<imaginary floating constant>">>

\* Where one of the suffixes u and l (or ll) ends.
OneSuffix(i) == IF Char(i) \in {"l", "L"} /\ Char(i + 1) = Char(i) THEN i + 2 ELSE i + 1

\* At most two of them, one of each, in any order.
IntegerSuffix(i) ==
    LET other == IF Char(i) \in {"u", "U"} THEN {"l", "L"} ELSE {"u", "U"}
        after == OneSuffix(i)
    IN  IF Char(i) \notin {"u", "U", "l", "L"} THEN i
        ELSE IF Char(after) \in other THEN OneSuffix(after)
        ELSE after

FloatingSuffix(i) == IF Char(i) \in {"f", "l", "F", "L"} THEN i + 1 ELSE i

\* A number that was read, and whether it is imaginary.
ReadNumber(kind, end, low, imaginary) ==
    [kind |-> kind, end |-> end, low |-> low, high |-> end - 1, imaginary |-> imaginary]

(* The suffixes of a number: an "i" or "j" before or after those of its    *)
(* kind.  Letters or digits that remain make the whole of it an error.     *)
Suffixed(low, i, integer) ==
    LET Suffix(j) == IF integer THEN IntegerSuffix(j) ELSE FloatingSuffix(j)
        real == IF integer THEN IntegerConstant ELSE FloatingConstant
        imaginary == IF integer THEN ImaginaryIntegerConstant ELSE ImaginaryFloatingConstant
        first == Char(i) \in {"i", "j"}
        after == IF first THEN Suffix(i + 1) ELSE Suffix(i)
        last == ~first /\ Char(after) \in {"i", "j"}
        end == IF last THEN after + 1 ELSE after
    IN  IF IsAlnum(Char(end)) \/ Char(end) = "_"
        THEN LET rest == First(end, LAMBDA c : ~IsAlnum(c) /\ c # "_")
             IN  ReadNumber(Error, rest, low, first \/ last)
        ELSE ReadNumber(IF first \/ last THEN imaginary ELSE real, end, low, first \/ last)

IntegerAt(low, i) == Suffixed(low, i, TRUE)

FloatingAt(low, i) == Suffixed(low, i, FALSE)

Exponent(i, letters) ==
    IF Char(i) \notin letters THEN i
    ELSE Skip(Digits, IF Char(i + 1) \in {"+", "-"} THEN i + 2 ELSE i + 1)

FractionAt(low, i) == FloatingAt(low, Exponent(Skip(Digits, i), {"e", "E"}))

HexNumberAt(i) ==
    LET dot == Skip(HexDigits, i + 2)
    IN  IF Char(dot) = "." THEN FloatingAt(i, Exponent(Skip(HexDigits, dot + 1), {"p", "P"}))
        ELSE IntegerAt(i, dot)

DecimalAt(i) ==
    LET stop == Skip(Digits, i + 1)
    IN  CASE Char(stop) = "." -> FractionAt(i, stop + 1)
          [] Char(stop) \in {"e", "E"} -> FloatingAt(i, Exponent(stop, {"e", "E"}))
          [] OTHER -> IntegerAt(i, stop)

NumberAt(i) ==
    LET next == Char(i + 1)
    IN  CASE Char(i) = "0" /\ next \in {"x", "X"} -> HexNumberAt(i)
          [] Char(i) = "0" /\ next \in {"b", "B"} -> IntegerAt(i, Skip({"0", "1"}, i + 2))
          [] Char(i) = "0" /\ next \in Octals -> IntegerAt(i, Skip(Octals, i + 1))
          [] OTHER -> DecimalAt(i)

\* The features of a number that the dialect or the extensions lack, each of
\* which is diagnosed.
Incompatibilities(number) ==
    LET dot == Skip(HexDigits, number.low + 2)
    IN  {d \in {"IncompatibleLanguageDialect"} :
            /\ Char(number.low) = "0" /\ Char(number.low + 1) \in {"x", "X"}
            /\ Char(dot) = "." /\ "C99" \notin options}
        \cup {d \in {"IncompatibleLanguageExtension"} :
                number.imaginary /\ "ExtGNU_Complex" \notin options}

-----------------------------------------------------------------------------
(* Words: Lexer::lexIdentifier, and what the letters L, u, U and R may     *)
(* begin.                                                                  *)

IdentifierAt(i) ==
    LET end == First(i, LAMBDA c : ~ContinuesIdentifier(c))
        whole == end = i + 1
        kind == IF whole /\ "None" \notin options THEN Classify(text[i], options) ELSE Identifier
        operator == IF whole THEN ClassifyOperator(text[i], options) ELSE Identifier
    IN  Read(IF kind = Identifier THEN operator ELSE kind, end, i, end - 1)

Prefixes == {"L", "u", "U", "R"}

WordAt(i) ==
    LET c == Char(i)
    IN  CASE c \in Prefixes \ {"R"} /\ Char(i + 1) = "\"" -> StringAt(i + 2, c)
          [] c = "R" /\ Char(i + 1) = "\"" -> RawStringAt(i + 2, c)
          [] c \in Prefixes /\ Char(i + 1) = "'" -> CharacterAt(i + 2, c)
          [] c \in Prefixes \ {"R"} /\ Char(i + 1) = "R" /\ Char(i + 2) = "\"" ->
                RawStringAt(i + 3, c)
          [] c = "u" /\ Char(i + 1) = "8" /\ Char(i + 2) = "\"" -> StringAt(i + 3, "u8")
          [] c = "u" /\ Char(i + 1) = "8" /\ Char(i + 2) = "'" -> CharacterAt(i + 3, "u8")
          [] c = "u" /\ Char(i + 1) = "8" /\ Char(i + 2) = "R" /\ Char(i + 3) = "\"" ->
                RawStringAt(i + 4, "u8")
          [] OTHER -> IdentifierAt(i)

-----------------------------------------------------------------------------
(* Punctuators: each case of the switch of yylex_core reads as many        *)
(* characters as it can, and every beginning of a spelling is a spelling.  *)

\* Those whose kind is what they spell.
OwnPunctuators ==
    {<<c>> : c \in Punctuation} \cup {<<c, c>> : c \in {"#", "+", "-", "&", "|", "=", "<", ">"}}
    \cup {<<c, "=">> : c \in {"+", "-", "*", "/", "%", "^", "&", "|", "!", "<", ">"}}
    \cup {<<"-", ">">>, <<".", ".", ".">>, <<"<", "<", "=">>}

\* Those that are another token: the digraphs and the trigraphs, two dots, and
\* the assignment by a right shift, whose kind is overwritten by that of the
\* shift.  Two question marks that begin no trigraph leave the kind 0, that of
\* the end of the file.
EndOfFile == <<"EOF">>

Respelled(kind, spellings) == {[spelling |-> s, kind |-> kind] : s \in spellings}
RespelledPunctuators ==
    Respelled(<<"]">>, {<<":", ">">>, <<"?", "?", ")">>})
    \cup Respelled(<<"[">>, {<<"<", ":">>, <<"?", "?", "(">>})
    \cup Respelled(<<"}">>, {<<"%", ">">>, <<"?", "?", ">">>})
    \cup Respelled(<<"{">>, {<<"<", "%">>, <<"?", "?", "<">>})
    \cup Respelled(<<"#">>, {<<"%", ":">>})
    \cup Respelled(EndOfFile, {<<"?", "?">>})
    \cup Respelled(Error, {<<".", ".">>})
    \cup Respelled(<<">", ">">>, {<<">", ">", "=">>})

\* The punctuators of tokenNames.
PunctuatorNames == OwnPunctuators \cup {<<">", ">", "=">>}

Punctuators == {[spelling |-> s, kind |-> s] : s \in OwnPunctuators} \cup RespelledPunctuators
Spellings == {punctuator.spelling : punctuator \in Punctuators}

PunctuatorAt(i) ==
    LET n == CHOOSE m \in 1..3 :
                /\ SubSeq(text, i, i + m - 1) \in Spellings
                /\ i + m <= End
                /\ \A k \in (m + 1)..3 : /\ i + k <= End
                                         => SubSeq(text, i, i + k - 1) \notin Spellings
        read == CHOOSE punctuator \in Punctuators : punctuator.spelling = SubSeq(text, i, i + n - 1)
    IN  Read(read.kind, i + n, i, i + n - 1)

-----------------------------------------------------------------------------

\* The token that begins at a place that is neither a blank, a backslash, a
\* comment nor the end of the text: the switch of yylex_core.
TokenAt(i) ==
    CASE Char(i) = "\"" -> QuotedAt(i + 1, "\"", StringLiteral, 0)
      [] Char(i) = "'" -> QuotedAt(i + 1, "'", CharacterConstant, 0)
      [] Char(i) = "." /\ Char(i + 1) \in Digits -> FractionAt(i, i + 1)
      [] Char(i) \in Punctuation /\ ~(Char(i) = "." /\ Char(i + 1) \in Digits) -> PunctuatorAt(i)
      [] StartsIdentifier(Char(i)) -> WordAt(i)
      [] Char(i) \in Digits -> NumberAt(i)
      [] OTHER -> Read(Error, i + 1, i, i)
=============================================================================
