------------------------------- MODULE MCParser -------------------------------
(***************************************************************************)
(* Instances of Parser.  A program is a sequence of token kinds; what an   *)
(* identifier or a constant spells does not matter to the parser.          *)
(***************************************************************************)
EXTENDS Parser, FiniteSetsExt

I == "Identifier"
N == "IntegerConstant"
S == "StringLiteral"

GNU == {"ExtGNU_Asm", "ExtGNU_StatementExpressions", "ExtGNU_InternalBuiltins",
        "ExtGNU_CompoundLiterals", "ExtGNU_DesignatedInitializers",
        "ExtGNU_AttributeSpecifiersLLVM"}
NoExtensions == {}

File(s) == s \o <<"EOF">>
Body(s) == File(<<"int", I, "(", ")", "{">> \o s \o <<"}">>)
InBodies(stmts) == {Body(s) : s \in stmts}

(* Every sequence of up to n tokens of an alphabet.                        *)
Soup(Alphabet, n) == UNION {[1 .. k -> Alphabet] : k \in 0 .. n}

-----------------------------------------------------------------------------
(* A program for each way through each routine.                            *)

Expressions ==
  {<<I>>, <<N>>, <<S, S>>, <<"__func__">>, <<"(", I, ")">>, <<"(", N, ")">>,
   <<I, "+", N>>, <<I, "+", I, "+", I, "+", I, "+", I, "+", I>>,
   <<I, "+", I, "*", I>>, <<I, "*", I, "+", I>>,
   <<I, "=", I, "=", N>>, <<N, "+", I, "=", I>>, <<I, "?", N, ":", N>>,
   <<I, "?", I, ":", I, "?", I, ":", I>>, <<I, "?", ":", N>>,
   <<I, "?", I, I>>, <<I, "?", ")", ":", I>>,
   <<I, ",", I>>, <<I, "||", I, "&&", I, "|", I, "^", I, "&", I, "==", I,
                    "<", I, "<<", I>>,
   <<I, "(", ")">>, <<I, "(", N, ",", I, ")">>, <<I, "(", I, ")">>,
   <<I, "[", N, "]">>, <<I, ".", I, "->", I, "++">>, <<I, ".", N>>,
   <<"++", I>>, <<"-", I>>, <<"!", I>>, <<"__extension__", N>>,
   <<"sizeof", I>>, <<"sizeof", "(", I, ")">>, <<"sizeof", "(", "int", ")">>,
   <<"sizeof", "(", I, "*", ")">>, <<"_Alignof", "(", I, "+", I, ")">>,
   <<"(", I, ")", "-", I>>, <<"(", I, ")", "!", I>>, <<"(", "int", ")", I>>,
   <<"(", I, "*", ")", "-", I>>, <<"(", I, "[", N, "]", ")", "-", N>>,
   <<"(", I, "(", "(", I, ")", ")", ")">>,
   <<"(", "int", ")", "{", N, "}">>, <<"(", I, ")", "{", N, "}", ".", I>>,
   <<"++", "(", I, ")", "{", N, "}">>, <<"++", "(", I, ")", "{", "?", "}">>,
   <<"++", "(", I, "+", N, ")">>, <<"++", "(", "int", ")", "{", N, "}">>,
   <<"++", "(", "int", ")", N>>, <<"++", "(", N, ")">>,
   <<"++", "(", I, ")">>,
   <<"(", "{", I, ";", "}", ")">>, <<"(", "{", "}">>,
   <<"_Generic", "(", I, ",", "int", ":", N, ",", "default", ":", N, ")">>,
   <<"va_arg", "(", I, ",", "int", ")">>,
   <<"offsetof", "(", "int", ",", I, ".", I, "[", N, "]", ")">>,
   <<"offsetof", "(", "int", ",", N, ")">>,
   <<"offsetof", "(", "int", ",", I, ".", N, ")">>,
   <<"__builtin_choose_expr", "(", N, ",", I, ",", I, ")">>,
   <<"__builtin_choose_expr", "(", I, ",", I, ",", I, ")">>,
   <<"__real__", I>>, <<")">>, <<I, "=", "(", "{", "break", ";", "}", ")">>}

Statements ==
  {<<";">>, <<"{", "}">>, <<I, "*", I, ";">>, <<I, I, ";">>, <<"int", I, ";">>,
   <<"typeof", "(", I, ")", I, ";">>, <<"__extension__", "int", I, ";">>,
   <<"__extension__", I, "=", N, ";">>, <<"__extension__", ";">>,
   <<"__extension__", "if", "(", I, ")", ";">>,
   <<"_Static_assert", "(", N, ",", S, ")", ";">>, <<"_Static_assert", ";">>,
   <<"if", "(", I, ")", ";", "else", ";">>, <<"if", ")", ";">>,
   <<"switch", "(", I, ")", "{", "case", N, ":", "default", ":", "break", ";",
     "}">>,
   <<"case", N, ":", "default", ":", ";">>, <<"default", ";">>,
   <<"while", "(", I, ")", "continue", ";">>, <<"continue", ";">>,
   <<"while", "(", I, ")", "switch", "(", I, ")", "continue", ";">>,
   <<"switch", "(", I, ")", "while", "(", I, ")", "break", ";">>,
   <<"do", "break", ";", "while", "(", I, ")", ";">>, <<"do", "do", "}">>,
   <<"for", "(", I, "=", N, ";", I, ";", I, "++", ")", ";">>,
   <<"for", "(", I, I, ";", ";", ")", ";">>,
   <<"for", "(", "int", I, ";", ";", ")", ";">>, <<"for", N, ";">>,
   <<"for", "(", "__extension__", ";", ";", ")", ";">>,
   <<"for", "(", I, ";", I, I, ")", ";">>, <<"for", "(", I, ";", I>>,
   <<"goto", I, ";">>, <<"goto", N, ";">>, <<I, ":", "return", ";">>,
   <<"return", I, ";">>, <<"break", ";">>, <<N, ")", "struct">>,
   <<"if", "(", N, I, N, "struct", I, ";">>,
   <<"asm", "volatile", "(", S, ":", S, "(", I, ")", ":", "[", I, "]", S,
     "(", I, ")", ":", S, ":", I, ")", ";">>,
   <<"asm", "goto", "(", S, ":", ":", ":", ":", I, ",", N, ")", ";">>,
   <<"asm", "(", S, ":", S, "(", I, ")", ",", I, ")", ";">>,
   <<"asm", "(", S, ":", ")", ";">>,
   <<"{", "{", "{", "{", "}", "}", "}", "}">>, <<"}">>, <<"{">>}

Declarators ==
  {<<I>>, <<"*", "const", I>>, <<"(", I, ")">>, <<I, "[", "]">>,
   <<I, "[", N, "]", "[", I, "]">>, <<I, "[", "*", "]">>,
   <<I, "[", "static", N, "]">>, <<I, "[", ")", "]">>,
   <<I, "(", ")">>, <<I, "(", "int", I, ",", "int", ",", "...", ")">>,
   <<I, "(", "int", "...", ")">>, <<I, "(", "...", ")">>,
   <<I, "(", I, ",", I, ")">>, <<I, "(", ";", ")">>,
   <<I, "(", "int", "(", "*", ")", "(", "int", ")", ")">>,
   <<I, "(", "int", "(", "int", ")", ")">>, <<I, "(", "int", "(", ")", ")">>,
   <<I, "(", "int", "(", I, ")", ",", "int", "[", N, "]", ")">>,
   <<I, "(", "int", I, "[", "*", "]", ")">>,
   <<I, "(", "int", I, "[", "static", "const", N, "]", ")">>,
   <<I, "(", "int", I, "[", "static", N, "]", ")">>,
   <<I, "(", "int", I, "[", "const", "*", "]", ")">>,
   <<I, "(", "int", I, "[", "const", "static", N, "]", ")">>,
   <<I, "(", "int", I, "[", "const", N, "]", ")">>,
   <<"*", "asm", "(", S, ")", I>>, <<"*", "asm", "(", I>>,
   <<"*", "__attribute__", "(", "(", ")", ")", I>>,
   <<I, "asm", "(", S, ")", "__attribute__", "(", "(", I, ")", ")">>,
   <<I, "asm", "(", S, ")">>, <<I, "(", ")", "_omission">>,
   <<I, "__attribute__", "(", "(", "const", ",", I, "(", I, ")", ")", ")">>,
   <<I, "__attribute__", "(", "(", I, "(", I, ",", I, "=", N, "=", N, ")",
     ")", ")", "__attribute__", "(", "(", N, ")", ")">>,
   <<I, "__attribute__", "(", "(", I, "(", I, ",", I, "=", N, N, ",", I, "=",
     S, ",", I, ")", ")", ")">>,
   <<I, "__attribute__", "(", "(", I, I, ")", ")">>,
   <<"(", "*", I, ")", "(", ")">>, <<"?">>}

Initializers ==
  {<<I>>, <<"{", "}">>, <<"{", N, ",", N, "}">>, <<"{", N, ",", "}">>,
   <<"{", ",", "}">>, <<"{", ",", N, "}">>, <<"{", "{", N, "}", "}">>,
   <<"{", ".", I, "=", N, ",", "[", N, "]", ".", I, N, "}">>,
   <<"{", "?", "+", "}">>, <<"{", "?">>, <<"{", ".", N, "}">>}

Specifiers ==
  {<<>>, <<"int">>, <<"static", "const", I>>, <<I, "int">>,
   <<"unsigned", "long">>,
   <<"_Atomic", "(", "int", ")">>, <<"_Atomic", "int">>, <<"inline", "void">>,
   <<"_Alignas", "(", N, ")", "int">>, <<"typeof", "(", "int", ")">>,
   <<"__attribute__", "(", "(", ")", ")", "int">>,
   <<"_Forall", "(", I, ")">>, <<"struct", I>>, <<"enum", "{", I, "}">>,
   <<"enum", I, "{", I, "=", N, ",", I, "}">>, <<"enum", "{", "}">>,
   <<"enum", "{", N, "}">>, <<"struct", ";">>,
   <<"struct", I, "{", "int", I, ":", N, ",", I, ";", "}", "const">>,
   <<"struct", "{", "int", ":", N, ";", "__extension__", I, I, ";", "int", ";",
     "_Static_assert", "(", N, ",", S, ")", ";", ";", "const", I, ";",
     "_Alignas", "(", N, ")", "int", I, "__attribute__", "(", "(", ")", ")",
     ":", N, "__attribute__", "(", "(", ")", ")", ";", "}">>,
   <<"struct", "{", "int", ":", N, ":", N, "__attribute__", "(", "(", ")", ")",
     ";", "}">>,
   <<"struct", "{", "int", ":", N, "__attribute__", "(", "(", ")", ")", ";",
     "}">>,
   <<"struct", "{", "int", ":", ";", "}">>,
   <<"union", "{", "int", I, N, ",", "int", I, N, "}">>,
   <<"union", "{", "int", I, N, ";">>, <<"union", "{", "int", I, N, "struct",
     I, ";", "}">>,
   <<"struct", "__attribute__", "(", "(", ")", ")", I, "{", "}">>}

Declarations ==
  {<<";">>, <<"asm", "(", S, ")", ";">>, <<"asm", "(", I, ")", ";">>,
   <<"__extension__", "int", I, ";">>, <<"__extension__", ")", ";">>,
   <<"_Template", "int", I, ";">>, <<"_Template", ")", ";">>,
   <<"_Static_assert", "(", N, ",", S, ")", ";">>,
   <<"int", I, ",", I, ";">>, <<"int", ";">>, <<"struct", I, ";">>,
   <<"int", I, "(", ")", "=", N, "+", ";">>, <<"int", I, "(", ")", "=", I>>,
   <<"int", I, "=", N, "{">>, <<"int", I, N, ";", "int", I, ";">>,
   <<"int", I, N, "struct", I, ";">>, <<"int", I, N, "+", "}">>,
   <<"int", I, "(", I, ",", I, ")", "int", I, ",", I, ";", "int", I, ";",
     "{", "}">>,
   <<"int", I, "(", I, ")", I, I, ";", "{", "break", ";">>,
   <<"int", I, I, ";", "{", "}">>, <<"int", I, "(", ")", "int", I, "{", "}">>,
   <<"int", "(", "*", I, "(", ")", ")", "(", ")", "=", N, ";">>,
   <<"int", "(", "*", I, ")", "(", ")", "=", N, ";">>,
   <<I, "(", "*", I, ")", "(", ")", ";">>, <<"static", I, ",", I, ";">>,
   <<I, "(", "int", I, ")", "{", "}">>, <<I, "[", N, "]", ";">>,
   <<"const", I, "__attribute__", "(", "(", ")", ")", ";">>,
   <<I, "(", I, ",", I, ")", "int", I, ";", I, I, ";", "{", "}">>,
   <<"const", I, ")", ";">>, <<"const", I, "=", I, ",", I, ";">>}

Corpus ==
  InBodies({e \o <<";">> : e \in Expressions}) \cup InBodies(Statements)
    \cup {File(<<"int">> \o d \o <<";">>) : d \in Declarators}
    \cup {File(<<"int", I, "=">> \o i \o <<";">>) : i \in Initializers}
    \cup {File(s \o <<I, ";">>) : s \in Specifiers}
    \cup {File(d) : d \in Declarations}

-----------------------------------------------------------------------------
(* Every short sequence of tokens, most of them ill-formed, where the      *)
(* parser tries, gives up, skips and goes on.                              *)

StatementSoup == Soup({I, "*", "(", ")", ";", "=", ","}, 4)
ControlSoup == Soup({I, "if", "else", "do", "(", ")", ";", "{", "}"}, 3)
DeclarationSoup == Soup({"int", I, "*", "(", ")", ",", ";", "{"}, 4)
MemberSoup == Soup({"int", I, ":", N, "}", ";"}, 4)
EnumeratorSoup == Soup({I, "=", ",", N, "}", ";"}, 4)

Soups ==
  InBodies(StatementSoup \cup ControlSoup)
    \cup {File(s) : s \in DeclarationSoup}
    \cup {File(<<"struct", I, "{">> \o s) : s \in MemberSoup}
    \cup {File(<<"enum", I, "{">> \o s) : s \in EnumeratorSoup}

-----------------------------------------------------------------------------
(* Programs that the parser mistreats.                                     *)

ConditionalWithoutColon == InBodies({<<I, "?", I, I, N, ";">>})
StaticMember == {File(<<"struct", I, "{", "static", "int", I, ";", "}", ";">>)}
NotAnAsmOperand ==
  InBodies({<<"asm", "(", S, ":", S, "(", I, ")", ",", I, ")", ";">>})
Nested == InBodies({<<"{", "{", "{", "}", "}", "}">>})

=============================================================================
