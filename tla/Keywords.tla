------------------------------ MODULE Keywords ------------------------------
(***************************************************************************)
(* How the lexer tells a keyword, or the name of an operator, from an      *)
(* identifier: Lexer::classify and Lexer::classifyOperator, which dispatch *)
(* on the length of a word to one function per length.  Each function is   *)
(* a table here, from the words of that length to the kind of the token    *)
(* and to the options that must all be on for the word to be reserved.     *)
(*                                                                         *)
(* The kind of a token is written as the entry of tokenNames at that kind, *)
(* a sequence of the units that a source text is made of: <<"int">> for    *)
(* Keyword_int, <<">", ">">> for GreaterThanGreaterThanToken.  So an alias *)
(* of SyntaxKind.h (KeywordAlias___const = Keyword_const) is a word whose  *)
(* kind is another word.                                                   *)
(***************************************************************************)
EXTENDS TLC

\* Words that are the keyword they spell, when every option of `needs' is on.
Own(words, needs) == {[word |-> w, kind |-> <<w>>, needs |-> needs] : w \in words}

\* Words that stand for the token of another spelling.
Alias(words, kind, needs) == {[word |-> w, kind |-> kind, needs |-> needs] : w \in words}

-----------------------------------------------------------------------------
(* The parse options as the set of those that are on.  A dialect is the    *)
(* set of standards it includes: C11 includes C99.                         *)

C89 == {}
C99 == {"C99"}
C11 == {"C99", "C11"}

MacroTranslations ==
    {"Translate_operatorNames", "Translate_alignas_AsKeyword",
     "Translate_alignof_AsKeyword", "Translate_va_arg_AsKeyword",
     "Translate_offsetof_AsKeyword", "Translate_bool_AsKeyword"}

\* LanguageExtensions(): every bit on, but the generics of Psyche, nullptr
\* and the boolean literals.
LanguageExtensions ==
    {"ExtGNU_AlternateKeywords", "ExtGNU_Complex", "ExtGNU_FunctionNames",
     "ExtGNU_InternalBuiltins", "NULLAsBuiltin"}

AllExtensions == LanguageExtensions \cup {"ExtPSY_Generics", "CPP_nullptr", "NativeBooleans"}

DefaultOptions == C11 \cup MacroTranslations \cup LanguageExtensions

-----------------------------------------------------------------------------

Classify2 == Own({"do", "if"}, {})

Classify3 == Own({"asm", "for", "int"}, {})

Classify4 ==
    Own({"auto", "case", "char", "else", "enum", "goto", "long", "void"}, {})
    \cup Alias({"bool"}, <<"_Bool">>, {"Translate_bool_AsKeyword"})
    \cup Own({"NULL"}, {"NULLAsBuiltin"})
    \cup Own({"true"}, {"NativeBooleans"})

Classify5 ==
    Own({"break", "const", "float", "short", "union", "while"}, {})
    \cup Alias({"__asm"}, <<"asm">>, {})
    \cup Own({"_Bool"}, {"Translate_bool_AsKeyword"})
    \cup Own({"false"}, {"NativeBooleans"})

Classify6 ==
    Own({"double", "extern", "return", "signed", "sizeof", "static", "struct", "switch"}, {})
    \cup Own({"inline"}, {"C99"})
    \cup Alias({"typeof"}, <<"__typeof__">>, {})
    \cup Own({"va_arg"}, {"Translate_va_arg_AsKeyword"})

\* The words of seven letters that begin with an underscore, and the others.
Classify7_Reserved ==
    Alias({"__asm__"}, <<"asm">>, {})
    \cup Alias({"__const"}, <<"const">>, {})
    \cup Own({"_Atomic"}, {"C11"})
    \cup Own({"_Forall", "_Exists"}, {"ExtPSY_Generics"})

Classify7 ==
    Alias({"alignas"}, <<"_Alignas">>, {"C11", "Translate_alignas_AsKeyword"})
    \cup Alias({"alignof"}, <<"_Alignof">>, {"C11", "Translate_alignof_AsKeyword"})
    \cup Own({"default", "typedef", "wchar_t"}, {})
    \cup Own({"nullptr"}, {"CPP_nullptr"})

\* The words of eight letters that begin with an underscore, and the others.
Classify8_Reserved ==
    Alias({"__inline"}, <<"inline">>, {"ExtGNU_AlternateKeywords"})
    \cup Alias({"__typeof"}, <<"__typeof__">>, {"ExtGNU_AlternateKeywords"})
    \cup Alias({"__signed"}, <<"signed">>, {"ExtGNU_AlternateKeywords"})
    \cup Own({"__imag__", "__real__"}, {"ExtGNU_AlternateKeywords", "ExtGNU_Complex"})
    \cup Own({"__func__"}, {"ExtGNU_AlternateKeywords", "C99"})
    \cup Own({"__thread"}, {"ExtGNU_AlternateKeywords"})
    \cup Own({"_Alignas", "_Alignof", "_Generic"}, {"C11"})
    \cup Own({"_Complex"}, {"C99"})

Classify8 ==
    Own({"continue", "char16_t", "char32_t", "register", "restrict", "unsigned",
         "volatile"}, {})
    \cup Own({"offsetof"}, {"Translate_offsetof_AsKeyword"})

Classify9 ==
    Own({"_Noreturn"}, {"C11"})
    \cup Alias({"__const__"}, <<"const">>, {})
    \cup Alias({"__alignof"}, <<"_Alignof">>, {"ExtGNU_AlternateKeywords"})
    \cup Alias({"__alignas"}, <<"_Alignas">>, {"ExtGNU_AlternateKeywords"})
    \cup Own({"_Template"}, {"ExtPSY_Generics"})

Classify10 ==
    Alias({"__inline__"}, <<"inline">>, {})
    \cup Alias({"__restrict"}, <<"restrict">>, {})
    \cup Own({"__typeof__"}, {})
    \cup Alias({"__signed__"}, <<"signed">>, {"ExtGNU_AlternateKeywords"})
    \cup Alias({"__volatile"}, <<"volatile">>, {})

Classify11 ==
    Alias({"__attribute"}, <<"__attribute__">>, {})
    \cup Alias({"__alignof__"}, <<"_Alignof">>, {})
    \cup Own({"__complex__"}, {"ExtGNU_Complex"})

\* The function for 12 letters also compares with thread_local, past the end
\* of the word: one of its letters would have to follow the word, so no word
\* is ever that keyword.
Classify12 ==
    Alias({"__volatile__"}, <<"volatile">>, {"ExtGNU_AlternateKeywords"})
    \cup Alias({"__restrict__"}, <<"restrict">>, {"ExtGNU_AlternateKeywords"})
    \cup Own({"__FUNCTION__"}, {"ExtGNU_AlternateKeywords", "ExtGNU_FunctionNames"})

Classify13 ==
    Own({"__attribute__", "__extension__"}, {"ExtGNU_AlternateKeywords"})
    \cup Own({"_Thread_local"}, {"C11"})

Classify14 == Own({"_Static_assert"}, {"C11"})

\* __builtin_tgmath is also compared with, in an "else if" that repeats the
\* condition of its "if": it is never reached.
Classify16 == Own({"__builtin_va_arg"}, {"ExtGNU_InternalBuiltins"})

Classify18 == Own({"__builtin_offsetof"}, {"ExtGNU_InternalBuiltins"})

Classify19 == Own({"__PRETTY_FUNCTION__"}, {"ExtGNU_FunctionNames"})

Classify21 == Own({"__builtin_choose_expr"}, {"ExtGNU_InternalBuiltins"})

Keywords ==
    Classify2 \cup Classify3 \cup Classify4 \cup Classify5 \cup Classify6 \cup Classify7_Reserved
    \cup Classify7 \cup Classify8_Reserved \cup Classify8 \cup Classify9 \cup Classify10
    \cup Classify11 \cup Classify12 \cup Classify13 \cup Classify14 \cup Classify16
    \cup Classify18 \cup Classify19 \cup Classify21

\* The macros of <iso646.h>, by length of the word.
ClassifyOperator2 == Alias({"or"}, <<"|", "|">>, {})

ClassifyOperator3 ==
    Alias({"and"}, <<"&", "&">>, {}) \cup Alias({"not"}, <<"!">>, {}) \cup Alias({"xor"}, <<"^">>, {})

ClassifyOperator5 ==
    Alias({"bitor"}, <<"|">>, {}) \cup Alias({"compl"}, <<"~">>, {})
    \cup Alias({"or_eq"}, <<"|", "=">>, {})

ClassifyOperator6 ==
    Alias({"and_eq"}, <<"&", "=">>, {}) \cup Alias({"bitand"}, <<"&">>, {})
    \cup Alias({"not_eq"}, <<"!", "=">>, {}) \cup Alias({"xor_eq"}, <<"^", "=">>, {})

OperatorNames ==
    ClassifyOperator2 \cup ClassifyOperator3 \cup ClassifyOperator5 \cup ClassifyOperator6

-----------------------------------------------------------------------------

\* The words of tokenNames: the keywords, by the text a token of each shows.
KeywordNames ==
    {"auto", "break", "case", "char", "const", "continue", "default", "do", "double",
     "else", "enum", "extern", "float", "for", "goto", "if", "inline", "int", "long",
     "register", "restrict", "return", "short", "signed", "static", "struct", "switch",
     "typedef", "union", "unsigned", "void", "volatile", "while", "sizeof", "wchar_t",
     "_Bool", "_Complex", "__func__", "_Alignas", "_Alignof", "_Atomic", "_Generic",
     "_Noreturn", "_Static_assert", "_Thread_local", "char16_t", "char32_t", "false",
     "true", "NULL", "nullptr", "__attribute__", "__thread", "__typeof__",
     "__extension__", "asm", "__builtin_va_arg", "__builtin_offsetof",
     "__builtin_tgmath", "__builtin_choose_expr", "__FUNCTION__", "__PRETTY_FUNCTION__",
     "__complex__", "__real__", "__imag__", "va_arg", "offsetof", "_Template",
     "_Forall", "_Exists"}

Identifier == <<"<identifier>">>

\* The kind `word' has in a table under the options: that of an identifier
\* when the table lacks it or an option it needs is off.
KindIn(table, word, options) ==
    LET found == {entry \in table : entry.word = word /\ entry.needs \subseteq options}
    IN  IF found = {} THEN Identifier ELSE (CHOOSE entry \in found : TRUE).kind

Classify(word, options) == KindIn(Keywords, word, options)

ClassifyOperator(word, options) ==
    IF "Translate_operatorNames" \in options THEN KindIn(OperatorNames, word, options)
    ELSE Identifier
=============================================================================
