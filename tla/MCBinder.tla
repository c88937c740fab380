------------------------------- MODULE MCBinder -------------------------------
(***************************************************************************)
(* Compilations of small files, put together bottom-up: a part is a table  *)
(* of nodes whose root is the first one.  What a file declares is read off *)
(* its tree once more, by recursion over the declarators, as the language  *)
(* says it; the binder's stacks have to come to the same.                  *)
(***************************************************************************)
EXTENDS Compilation, SequencesExt, FiniteSetsExt, TLC

Shifted(ns, d) == [i \in DOMAIN ns |-> ns[i] + d]
ShiftBy(part, d) ==
    [i \in DOMAIN part |-> [part[i] EXCEPT !.specs = Shifted(@, d), !.kids = Shifted(@, d)]]
RECURSIVE Before(_, _)
Before(parts, i) == IF i = 1 THEN 1 ELSE Before(parts, i - 1) + Len(parts[i - 1])

Part(kind, text, specs, kids) ==
    LET parts == specs \o kids
        at(i) == Before(parts, i) + 1
    IN  <<[kind |-> kind, text |-> text, specs |-> [i \in DOMAIN specs |-> at(i)],
           kids |-> [i \in DOMAIN kids |-> at(Len(specs) + i)]]>>
        \o FlattenSeq([i \in DOMAIN parts |-> ShiftBy(parts[i], at(i) - 1)])
Leaf(kind, text) == Part(kind, text, <<>>, <<>>)

-----------------------------------------------------------------------------
(* What the parser makes of specifiers and declarators.                    *)

Keyword(k) == Leaf("BuiltinTypeSpecifier", k)
int == <<Keyword("int")>>
char == <<Keyword("char")>>
const == Leaf("TypeQualifier", "const")
extern == Leaf("StorageClass", "extern")
T == Leaf("TypedefName", "T")
Tag(kind, tag) == Leaf(kind, tag)
Name(x) == Leaf("IdentifierDeclarator", x)
NoName == Leaf("AbstractDeclarator", "")
Ptr(d) == Part("PointerDeclarator", "", <<>>, <<d>>)
ConstPtr(d) == Part("PointerDeclarator", "", <<const>>, <<d>>)
Arr(d) == Part("ArrayOrFunctionDeclarator", "", <<>>, <<d, Leaf("SubscriptSuffix", "")>>)
Fun(d, params) ==
    Part("ArrayOrFunctionDeclarator", "", <<>>, <<d, Part("ParameterSuffix", "", <<>>, params)>>)
Paren(d) == Part("ParenthesizedDeclarator", "", <<>>, <<d>>)
Bits(d) == Part("BitfieldDeclarator", "", <<>>, <<d, Leaf("IntegerConstantExpression", "")>>)
NoBits == Leaf("BitfieldDeclarator", "")

\* With members a specifier stands for itself only in parameters and type names;
\* elsewhere the parser makes a type declaration of it.
StructOfM ==
    Part("StructTypeSpecifier", "s", <<>>,
         <<Part("FieldDeclaration", "", int, <<Leaf("IdentifierDeclarator", "m")>>)>>)

Declare(specs, decltors) == Part("VariableAndOrFunctionDeclaration", "", specs, decltors)
Field(specs, decltors) == Part("FieldDeclaration", "", specs, decltors)
Param(specs, decltor) == Part("ParameterDeclaration", "", specs, <<decltor>>)
Define(specs, decltor, stmts) == Part("FunctionDefinition", "", specs, <<decltor>> \o stmts)
Struct(tag, members) == Part("StructDeclaration", tag, <<>>, members)
Union(tag, members) == Part("UnionDeclaration", tag, <<>>, members)
Enum(tag, names) ==
    Part("EnumDeclaration", tag, <<>>,
         [i \in DOMAIN names |-> Leaf("EnumeratorDeclaration", names[i])])
AsSpecifier(declaration) == Part("TypeDeclarationAsSpecifier", "", <<>>, <<declaration>>)
Incomplete == Leaf("IncompleteDeclaration", "")
File(decls) == Part("TranslationUnit", "", <<>>, decls)

Local(declaration) == Part("DeclarationStatement", "", <<>>, <<declaration>>)
Block(stmts) == Part("CompoundStatement", "", <<>>, stmts)
SizeOf(specs, decltor) ==
    Part("ExpressionStatement", "", <<>>,
         <<Part("TypeTraitExpression", "", <<>>,
                <<Part("TypeNameAsTypeReference", "", <<>>,
                       <<Part("TypeName", "", specs, <<decltor>>)>>)>>)>>)

-----------------------------------------------------------------------------
(* Files.                                                                  *)

Single(set) == {<<d>> : d \in set}

\* Lists of specifiers: those that the binder puts together right, and others.
PlainSpecs ==
    {int, char, <<Keyword("long"), Keyword("int")>>, <<Keyword("int"), Keyword("long")>>,
     <<Keyword("int"), Keyword("unsigned")>>, <<Keyword("char"), Keyword("signed")>>,
     <<Keyword("unsigned")>>, <<Keyword("short"), Keyword("unsigned")>>, <<Keyword("double")>>,
     <<const>> \o int, int \o <<const>>, <<extern>> \o int, <<const>>, <<T>>, <<const, T>>,
     <<Tag("StructTypeSpecifier", "s")>>, <<const, Tag("UnionTypeSpecifier", "u")>>,
     <<Tag("EnumTypeSpecifier", "e")>>, <<AsSpecifier(Enum("e", <<"A", "B">>))>>,
     <<AsSpecifier(Struct("s", <<Field(int, <<Name("m")>>)>>)), const>>}
OtherSpecs ==
    {int \o int, char \o int, <<Keyword("long"), Keyword("long")>>,
     <<Keyword("unsigned"), Keyword("char")>>, <<Keyword("double"), Keyword("long")>>,
     <<Tag("StructTypeSpecifier", "s")>> \o int}

\* Declarators around x that make one type of another, or none.
Parameters ==
    {<<>>, <<Param(int, NoName)>>, <<Param(int, Name("a")), Param(char, Name("b"))>>}
Derived(x) ==
    {Ptr(x), ConstPtr(x), Arr(x), Ptr(Paren(x)), Paren(Arr(x))} \cup {Fun(x, ps) : ps \in Parameters}
Once(x) == {x, Paren(x)} \cup Derived(x)
\* And that make two.
Twice(x) ==
    {Fun(Paren(Ptr(Fun(x, <<Param(int, Name("a"))>>))), <<Param(char, NoName)>>)} \cup
    UNION {Derived(Paren(d)) : d \in {Ptr(x), Arr(x), Fun(x, <<Param(int, Name("a"))>>)}}
Inside(x) == Once(x) \cup Twice(x) \cup {NoName, Ptr(NoName)}
Rich(x) ==
    {Fun(x, <<Param(s, d)>>) : s \in {int, <<const>> \o char}, d \in Inside(Name("a"))}
    \cup {Fun(x, <<Param(<<StructOfM>>, Name("a"))>>)}

\* The parser takes T for the declared name in `T (x[1])', and no prototype for a
\* call of the function x where a type is missing.
IsRead(s, d) ==
    /\ T \in Range(s) => d # Paren(Arr(Name("x")))
    /\ s = <<const>> => d # Fun(Name("x"), <<Param(int, NoName)>>)
Typed(specs, decltors) ==
    {Declare(c[1], <<c[2]>>) : c \in {c \in specs \X decltors : IsRead(c[1], c[2])}}

Members ==
    {Field(int, <<d>>) : d \in {Name("m"), Ptr(Name("m")), Arr(Name("m")), Bits(Name("m")), NoBits}}
    \cup {Field(char, <<Name("m"), Ptr(Name("n"))>>),
          Field(<<AsSpecifier(Struct("t", <<Field(int, <<Name("n")>>)>>))>>, <<Name("m")>>),
          Struct("t", <<Field(int, <<Name("n")>>)>>)}
Types ==
    {Struct("s", <<>>), Enum("e", <<"A">>), Enum("e", <<"A", "B">>)}
    \cup {Struct("s", <<m>>) : m \in Members} \cup {Union("u", <<m>>) : m \in Members}
    \cup {Struct("s", <<m, Field(int, <<Name("o")>>)>>) : m \in Members}

Variables ==
    Typed(PlainSpecs, Once(Name("x")))
    \cup {Declare(int, <<d, e>>) : d \in Once(Name("x")), e \in Once(Name("y"))}
    \cup {Declare(int, <<d>>) : d \in Twice(Name("x")) \cup Rich(Name("x"))}
    \cup {Declare(s, <<Name("x")>>) : s \in OtherSpecs}
Returning ==
    {Define(int, Fun(d, ps), <<>>) : d \in {Name("f"), Paren(Name("f"))}, ps \in Parameters}
    \cup {Define(int, Ptr(Fun(Name("f"), ps)), <<>>) : ps \in Parameters}
Bodies ==
    {<<Local(Declare(int, <<Name("x")>>))>>, <<Block(<<Local(Declare(char, <<Name("x")>>))>>)>>,
     <<SizeOf(int, NoName)>>, <<SizeOf(<<StructOfM>>, NoName)>>,
     <<Block(<<>>)>>, <<Leaf("ReturnStatement", ""), Leaf("ReturnStatement", "")>>}
Definitions ==
    Returning \cup {Define(s, Fun(Name("f"), <<Param(int, Name("a"))>>), b) :
                        s \in {int, <<Keyword("void")>>}, b \in Bodies}

Others == {Incomplete, Leaf("StaticAssertDeclaration", "")}
Declarations == Variables \cup Types \cup Definitions \cup Others

\* A text may be a statement.
Roots == {Block(<<Local(Declare(int, <<Name("x")>>))>>), SizeOf(int, NoName)}

\* What may stand before or behind another declaration.
Witness == Declare(int, <<Name("z")>>)
First ==
    Types \cup Others \cup Returning
    \cup Typed({int, <<T>>, <<Tag("StructTypeSpecifier", "s")>>},
                Once(Name("x")) \cup {Ptr(Ptr(Name("x"))), Ptr(Fun(Name("x"), <<>>))})
Files ==
    {File(<<>>)} \cup {File(<<d>>) : d \in Declarations}
    \cup {File(<<d, Witness>>) : d \in First} \cup {File(<<d, e>>) : d \in First, e \in First}
    \cup Roots

OneFile == Single(Files)
Small ==
    {File(<<Witness>>), File(<<Struct("s", <<Field(int, <<Name("m")>>)>>)>>),
     File(<<Declare(int, <<Ptr(Ptr(Name("x")))>>)>>)}
TwoFiles == {<<f, g>> : f \in Small, g \in Small}
Compiled == OneFile \cup TwoFiles
Leftovers == Single({File(<<d, Witness>>) : d \in First})
\* int *(x);
Parenthesized == Single({File(<<Declare(int, <<Ptr(Paren(Name("x")))>>)>>)})

-----------------------------------------------------------------------------
(* What the tree f declares.                                               *)

Kids(f, n) == Range(f[n].kids)
NodesOf(f, kinds) == {n \in DOMAIN f : f[n].kind \in kinds}
HasDeclarators == DeclaratorDeclarations \cup {"ParameterDeclaration", "FunctionDefinition"}

Term(kind, named, name, of) ==
    [kind |-> kind, named |-> named, name |-> name, of |-> of, const |-> FALSE, params |-> <<>>,
     decay |-> "none"]

\* C11 6.7.2: what the keywords of a list make, in whatever order.
Standard(keywords) ==
    CASE keywords = {"char", "signed"} -> "Char_S"
      [] keywords = {"short", "unsigned"} -> "Short_U"
      [] keywords \in {{"unsigned"}, {"int", "unsigned"}} -> "Int_U"
      [] keywords \in {{"long"}, {"long", "int"}} -> "Long"
      [] OTHER -> Alone[CHOOSE k \in keywords : TRUE]

\* The type that the specifiers of the declaration n denote.
TypeSpecs(f, n) ==
    SelectSeq(f[n].specs, LAMBDA s : f[s].kind \notin {"TypeQualifier", "StorageClass"})
Denoted(f, n) ==
    LET specs == TypeSpecs(f, n)
        s == f[specs[1]]
        base == IF specs = <<>> THEN Term("Named", "Builtin", "Int", <<>>)
                ELSE CASE s.kind = "BuiltinTypeSpecifier" ->
                            Term("Named", "Builtin", Standard({f[i].text : i \in Range(specs)}), <<>>)
                       [] s.kind = "TypedefName" -> Term("Named", "Synonym", s.text, <<>>)
                       [] s.kind = "TypeDeclarationAsSpecifier" ->
                            Term("Named", Choice(f[s.kids[1]].kind), f[s.kids[1]].text, <<>>)
                       [] OTHER -> Term("Named", Choice(s.kind), s.text, <<>>)
    IN  [base EXCEPT !.const = \E i \in Range(f[n].specs) : f[i].kind = "TypeQualifier"]

IsFunction(f, d) ==
    f[d].kind = "ArrayOrFunctionDeclarator" /\ f[f[d].kids[2]].kind = "ParameterSuffix"
IsArray(f, d) == f[d].kind = "ArrayOrFunctionDeclarator" /\ ~IsFunction(f, d)
ParametersOf(f, d) == IF IsFunction(f, d) THEN f[f[d].kids[2]].kids ELSE <<>>

\* The declarators from d to the innermost.
RECURSIVE Chain(_, _)
Chain(f, d) ==
    IF f[d].kids = <<>> \/ f[d].kind = "IdentifierDeclarator" THEN <<d>>
    ELSE <<d>> \o Chain(f, f[d].kids[1])
Innermost(f, d) == Last(Chain(f, d))
IsNameless(f, d) == f[Innermost(f, d)].kind = "BitfieldDeclarator"
Derivations(f, d) ==
    Cardinality({n \in Range(Chain(f, d)) :
                    f[n].kind \in {"PointerDeclarator", "ArrayOrFunctionDeclarator"}})

\* C11 6.7.6: the types along d, from the one that the specifiers denote to that
\* of what it declares; a parameter's is adjusted.
Adjusted(type) ==
    CASE type.kind = "Array" -> [Term("Pointer", "none", "", type.of) EXCEPT !.decay = "array"]
      [] type.kind = "Function" -> [Term("Pointer", "none", "", <<type>>) EXCEPT !.decay = "function"]
      [] OTHER -> type
RECURSIVE Along(_, _, _)
Declared(f, n, d) == Last(Along(f, Chain(f, d), Denoted(f, n)))
TypeOfParameter(f, p) == Adjusted(Declared(f, p, f[p].kids[1]))
Made(f, d, of) ==
    CASE f[d].kind = "PointerDeclarator" ->
            [Term("Pointer", "none", "", <<of>>) EXCEPT !.const = f[d].specs # <<>>]
      [] IsArray(f, d) -> Term("Array", "none", "", <<of>>)
      [] IsFunction(f, d) ->
            [Term("Function", "none", "", <<of>>) EXCEPT
                !.params = [i \in DOMAIN ParametersOf(f, d) |->
                                TypeOfParameter(f, ParametersOf(f, d)[i])]]
      [] OTHER -> of
Along(f, chain, of) ==
    IF Len(chain) = 1 THEN <<of>> ELSE <<of>> \o Along(f, Tail(chain), Made(f, chain[1], of))

\* The symbols that the node n declares, in the one that holds it, and in the
\* scope that `opener' opens.
Reading(node, kind, name, type, holder, opener) ==
    [node |-> node, kind |-> kind, name |-> name, type |-> type, holder |-> holder,
     opener |-> opener]
RECURSIVE Readings(_, _, _, _)
ByDeclarator(f, n, d, holder, opener) ==
    LET it == Innermost(f, d)
        type == Declared(f, n, d)
        kind == CASE f[n].kind = "ParameterDeclaration" -> "Parameter"
                  [] f[n].kind # "ParameterDeclaration" /\ type.kind = "Function" -> "Function"
                  [] f[n].kind = "FieldDeclaration" /\ type.kind # "Function" -> "Field"
                  [] OTHER -> "Variable"
    IN  {Reading(it, kind, f[it].text, <<IF kind = "Parameter" THEN Adjusted(type) ELSE type>>,
                 holder, opener) : once \in IF IsNameless(f, d) THEN {} ELSE {1}}
        \cup UNION {UNION {Readings(f, p, it, c) : p \in Range(ParametersOf(f, c))} :
                        c \in Range(Chain(f, d))}
Readings(f, n, holder, opener) ==
    CASE f[n].kind = "TranslationUnit" ->
            {Reading(n, "Library", "", <<>>, Null, Null)}
            \cup UNION {Readings(f, k, n, n) : k \in Kids(f, n)}
      [] f[n].kind \in TypeDeclarations ->
            {Reading(n, f[n].kind, f[n].text, <<>>, holder, opener)}
            \cup UNION {Readings(f, k, n, opener) : k \in Kids(f, n)}
      [] f[n].kind = "EnumeratorDeclaration" ->
            {Reading(n, "Enumerator", f[n].text, <<Term("Named", "Builtin", "Int", <<>>)>>, holder,
                     opener)}
      [] f[n].kind \in DeclaratorDeclarations \cup {"ParameterDeclaration"} ->
            UNION {Readings(f, k, holder, opener) : k \in Range(f[n].specs)}
            \cup UNION {ByDeclarator(f, n, d, holder, opener) : d \in Kids(f, n)}
      [] f[n].kind = "FunctionDefinition" -> ByDeclarator(f, n, f[n].kids[1], holder, opener)
      [] f[n].kind = "TypeDeclarationAsSpecifier" -> Readings(f, f[n].kids[1], holder, opener)
      [] OTHER -> {}

-----------------------------------------------------------------------------
(* The files that are bound as they are read.  Left out is what the binder *)
(* does not get right: a second type that a declarator makes stays on the  *)
(* stack (and is the type of what is declared next), a body shares the     *)
(* stack with the type that its function returns, the members of a struct  *)
(* in a list of parameters become parameters, and of the lists of more     *)
(* than one keyword some are not known.                                    *)

KnownLists ==
    {<<"int">>, <<"char">>, <<"double">>, <<"unsigned">>, <<"long", "int">>, <<"int", "long">>,
     <<"int", "unsigned">>, <<"char", "signed">>, <<"short", "unsigned">>, <<"void">>}
IsKnownList(f, n) ==
    LET specs == TypeSpecs(f, n)
    IN  \/ Len(specs) <= 1
        \/ /\ \A s \in Range(specs) : f[s].kind = "BuiltinTypeSpecifier"
           /\ [i \in DOMAIN specs |-> f[specs[i]].text] \in KnownLists

DeclaratorsOf(f, n) == IF f[n].kind = "FunctionDefinition" THEN {f[n].kids[1]} ELSE Kids(f, n)
InParameters(f, n) == f[n].kind = "ParameterDeclaration"

\* Nothing is left on the stacks, but by the declarators that are excused.
Plain(f, excused) ==
    /\ f[1].kind = "TranslationUnit"
    /\ NodesOf(f, {"DeclarationStatement", "TypeName"}) = {}
    /\ \A n \in NodesOf(f, HasDeclarators) :
          /\ IsKnownList(f, n)
          /\ \A s \in Range(f[n].specs) : f[s].kind \in TypeSpecifiers => f[s].kids = <<>>
          /\ \A d \in DeclaratorsOf(f, n) :
                InParameters(f, n) \/ d \in excused \/ Derivations(f, d) <= 1

\* The last declarator of a file leaves what nobody finds.
LastDeclarators(f) ==
    IF f[1].kids = <<>> THEN {}
    ELSE LET n == Last(f[1].kids)
         IN  IF f[n].kind \in DeclaratorDeclarations THEN {Last(f[n].kids)}
             ELSE IF f[n].kind = "FunctionDefinition" THEN {f[n].kids[1]} ELSE {}

Bound == unit # Null /\ todo = <<>>

\* When the tree was visited the stacks are as they were, with the symbol of the
\* library, which is not popped, and no empty stack was ever used.
\* (Binder.cpp:52-67; its last assertions are commented out.)
StacksAreRestored ==
    unit # Null /\ Plain(tree, {}) =>
        /\ outcome = "defined"
        /\ todo = <<>> =>
              /\ scopes = <<Null>> /\ Len(syms) = 2 /\ symDEFs[syms[1]].kind = "Library"
              /\ tySyms = <<>> /\ pendingFunTySyms = <<>>

RECURSIVE Unfolded(_)
Unfolded(i) ==
    LET type == symUSEs[i]
    IN  [kind |-> type.kind, named |-> type.named, name |-> type.name,
         of |-> IF type.of = Null THEN <<>> ELSE <<Unfolded(type.of)>>, const |-> type.const,
         params |-> [k \in DOMAIN type.params |-> Unfolded(type.params[k])], decay |-> type.decay]
Own == {i \in DOMAIN symDEFs : symDEFs[i].tree = unit}

\* The declarator of a definition whose suffix opens the scope of its body.
IsOfDefinition(f, d) == \E n \in NodesOf(f, {"FunctionDefinition"}) : d \in Range(Chain(f, f[n].kids[1]))
KindOfScope(f, opener) ==
    CASE f[opener].kind = "TranslationUnit" -> "File"
      [] IsOfDefinition(f, opener) -> "Block"
      [] OTHER -> "FunctionPrototype"

\* The symbols are those that the text declares: their kinds, names and types,
\* what holds them, and who shares a scope with whom.  (Binder_Declarators.cpp:
\* 42-367, Binder_Specifiers.cpp:42-310.)
SymbolsAsWritten ==
    Bound /\ Plain(tree, LastDeclarators(tree)) =>
        LET readings == Readings(tree, 1, Null, Null)
            at(n) == CHOOSE r \in readings : r.node = n
        IN  /\ Cardinality(Own) = Cardinality(readings)
            /\ \A i \in Own :
                  LET sym == symDEFs[i]
                  IN  /\ Reading(sym.node, sym.kind, sym.name,
                                IF sym.type = Null THEN <<>> ELSE <<Unfolded(sym.type)>>,
                                IF sym.containing = Null THEN Null ELSE symDEFs[sym.containing].node,
                                at(sym.node).opener) \in readings
                      /\ \A j \in Own :
                            sym.scope = symDEFs[j].scope
                                <=> at(sym.node).opener = at(symDEFs[j].node).opener
                      /\ sym.scope # Null =>
                            scopeTable[sym.scope] = KindOfScope(tree, at(sym.node).opener)

\* What the constraints of C11 6.7, 6.7.2 and 6.7.6.3 forbid in the text.
Forbidden(f) ==
    {<<n, "UselessDeclaration">> : n \in NodesOf(f, {"IncompleteDeclaration"})}
    \cup {<<n, "TypeSpecifierMissingDefaultsToInt">> :
            n \in {m \in NodesOf(f, HasDeclarators) : TypeSpecs(f, m) = <<>>}}
    \cup UNION {UNION {
            LET chain == Chain(f, d)
                types == Along(f, chain, Denoted(f, n))
                returning(kind) == {chain[i] : i \in {j \in DOMAIN chain :
                                        IsFunction(f, chain[j]) /\ types[j].kind = kind}}
            IN  (returning("Function") \X {"FunctionReturningFunction"})
                \cup (returning("Array") \X {"FunctionReturningArray"})
            : d \in DeclaratorsOf(f, n)} : n \in NodesOf(f, HasDeclarators)}

\* What the text violates is diagnosed where it does, and nothing else.
\* (ConstraintsInDeclarators.cpp, ConstraintsInTypeSpecifiers.cpp:76-182.)
ConstraintsAreReported ==
    Bound /\ Plain(tree, LastDeclarators(tree)) =>
        {<<d.node, d.id>> : d \in {e \in diagnostics : e.tree = unit}} = Forbidden(tree)

LeadsToItsSymbol(t, d) ==
    LET found == declaredSymbol(t, d)
    IN  found # Null /\ symDEFs[found].node = Innermost(files[t], d)
DeclaringDeclarators(f) ==
    {d \in UNION {DeclaratorsOf(f, n) : n \in NodesOf(f, HasDeclarators)} : ~IsNameless(f, d)}
Modelled == {t \in Trees : HasModel(t) /\ Plain(files[t], LastDeclarators(files[t]))}
Hides(f, d) ==
    \E i, j \in DOMAIN Chain(f, d) :
        i < j /\ f[Chain(f, d)[i]].kind # "ParenthesizedDeclarator"
              /\ f[Chain(f, d)[j]].kind = "ParenthesizedDeclarator"

\* A declarator of a tree with a model leads to the symbol that was declared for
\* it, if it declares something (a bit-field without a name does not) and has no
\* other in parentheses inside it.
\* (SemanticModel.cpp:208-220, SyntaxUtilities.cpp:29-63.)
DeclaratorsAreFound ==
    unit = Null =>
        \A t \in Modelled : \A d \in DeclaringDeclarators(files[t]) :
            ~Hides(files[t], d) => LeadsToItsSymbol(t, d)

\* `The Symbol declared by DeclaratorSyntax node' is what declaredSymbol returns,
\* and where it finds none it asserts that none was expected, which is never so:
\* every declarator that declares something leads to its symbol.
\* (SemanticModel.h:80, SemanticModel.cpp:43-44, 213-216.)
EveryDeclaratorIsFound ==
    unit = Null =>
        \A t \in Modelled :
            \A d \in DeclaringDeclarators(files[t]) : LeadsToItsSymbol(t, d)

\* `two or more data types in declaration specifiers' is said of declarations
\* whose specifiers have two.  (ConstraintsInTypeSpecifiers.cpp:57.)
TwoDataTypesAreWritten ==
    \A d \in diagnostics :
        d.id = "TwoOrMoreDataTypesInDeclarationSpecifiers" =>
            \E n \in NodesOf(files[d.tree], HasDeclarators) :
                d.node \in Range(files[d.tree][n].specs) /\ Len(TypeSpecs(files[d.tree], n)) > 1
=============================================================================
