------------------------------- MODULE Binder -------------------------------
(***************************************************************************)
(* Binder: the visitor that declares the symbols of a tree and makes their *)
(* types.  It is driven by stacks: a specifier pushes a type, a pointer, an*)
(* array or a function pushes one made of the type on top, the innermost   *)
(* declarator pushes a symbol, and whoever visited the declarator gives the*)
(* symbol on top the type on top.                                          *)
(*                                                                         *)
(* `todo' is the stack of calls, seen as what is left to do: the visit of a*)
(* node, or one of the steps that a handler takes after such a visit.  The *)
(* stacks of the code have their top at index 1.                           *)
(***************************************************************************)
EXTENDS BoundTrees

VARIABLES
    todo,              \* the calls to be made
    scopes,            \* scopes_
    stashedScope,      \* stashedScope_
    syms,              \* syms_
    tySyms,            \* tySyms_
    pendingFunTySyms,  \* pendingFunTySyms_
    swapped,           \* the stacks that calls of visitors hold instead of tySyms_
    declSyms,          \* the model's table from nodes to symbols
    outcome            \* "undefined" once the top of an empty stack was used,
                       \* "destroyed" once the compilation is

stacks == <<scopes, stashedScope, syms, tySyms, pendingFunTySyms>>
binder == <<todo, stacks, swapped, declSyms, outcome>>
binding == <<unit, assembly, diagnostics, binder>>

At(n) == tree[n]
Do(op, n) == [op |-> op, node |-> n]
Visit(n) == Do("visit", n)
Each(op, ns) == [i \in DOMAIN ns |-> Do(op, ns[i])]
Visits(ns) == Each("visit", ns)
Step(op) == Do(op, Null)
typeSymAtTopAndPopIt == "typeSymAtTopAndPopIt"

Running(op) == outcome = "defined" /\ todo # <<>> /\ Head(todo).op = op
here == Head(todo).node
Visiting(kinds) == Running("visit") /\ At(here).kind \in kinds
Leave(calls) == todo' = calls \o Tail(todo) /\ UNCHANGED <<unit, outcome>>
Proceed(calls) == Leave(calls) /\ UNCHANGED swapped

\* The top of an empty stack, or a null pointer, is used.
Undefined ==
    /\ outcome' = "undefined"
    /\ UNCHANGED <<unit, assembly, diagnostics, todo, stacks, swapped, declSyms>>

Diagnose(id) == diagnostics' = diagnostics \cup {[tree |-> unit, node |-> here, id |-> id]}

\* makeSymAndPushIt, with nameSymAtTop, and storeDeclaredSym: the first symbol
\* of a node is the one that is found again.
MakeSymAndPushIt(kind, name) ==
    /\ symDEFs' = Append(symDEFs, Symbol(kind, here, name, Head(scopes), Head(syms)))
    /\ syms' = <<Len(symDEFs) + 1>> \o syms
    /\ declSyms' = [n \in DOMAIN declSyms \cup {here} |->
                        IF n \in DOMAIN declSyms THEN declSyms[n] ELSE Len(symDEFs) + 1]

\* makeTySymAndPushIt, upon a stack of types.
MakeTySymAndPushIt(type, upon) ==
    /\ symUSEs' = Append(symUSEs, type)
    /\ tySyms' = <<Len(symUSEs) + 1>> \o upon

MakeTySym(type) ==
    /\ MakeTySymAndPushIt(type, tySyms)
    /\ UNCHANGED <<scopeTable, symDEFs, scopes, stashedScope, syms, declSyms>>

TopType == symUSEs[Head(tySyms)]

-----------------------------------------------------------------------------
(* Scopes.                                                                 *)

Opens == [openFile |-> "File", openBlock |-> "Block", openFunctionPrototype |-> "FunctionPrototype"]

\* openScope.  (The scope is put under the scope on top after it was pushed, and
\* so under itself.)
openScope(op) ==
    /\ Running(op)
    /\ scopeTable' = Append(scopeTable, Opens[op])
    /\ scopes' = <<Len(scopeTable) + 1>> \o scopes
    /\ Proceed(<<>>)
    /\ UNCHANGED <<symDEFs, symUSEs, diagnostics, stashedScope, syms, tySyms, pendingFunTySyms,
                   declSyms>>

closeScope ==
    /\ Running("closeScope")
    /\ scopes' = Tail(scopes)
    /\ Proceed(<<>>)
    /\ UNCHANGED <<assembly, diagnostics, stashedScope, syms, tySyms, pendingFunTySyms, declSyms>>

closeScopeAndStashIt ==
    /\ Running("closeScopeAndStashIt")
    /\ stashedScope' = Head(scopes) /\ scopes' = Tail(scopes)
    /\ Proceed(<<>>)
    /\ UNCHANGED <<assembly, diagnostics, syms, tySyms, pendingFunTySyms, declSyms>>

\* reopenStashedScope and morphFrom_FunctionPrototype_to_Block: the body of a
\* function is in the scope of its parameters.
reopenStashedScope ==
    /\ Running("reopenStashedScope")
    /\ scopes' = <<stashedScope>> \o scopes
    /\ scopeTable' = [scopeTable EXCEPT ![stashedScope] = "Block"]
    /\ Proceed(<<>>)
    /\ UNCHANGED <<symDEFs, symUSEs, diagnostics, stashedScope, syms, tySyms, pendingFunTySyms,
                   declSyms>>

-----------------------------------------------------------------------------
(* Declarations.                                                           *)

visitTranslationUnit ==
    /\ Visiting({"TranslationUnit"})
    /\ MakeSymAndPushIt("Library", "")
    /\ Proceed(<<Step("openFile")>> \o Visits(At(here).kids) \o <<Step("closeScope")>>)
    /\ UNCHANGED <<scopeTable, symUSEs, diagnostics, scopes, stashedScope, tySyms,
                   pendingFunTySyms>>

visitIncompleteDeclaration ==
    /\ Visiting({"IncompleteDeclaration"})
    /\ Diagnose("UselessDeclaration")
    /\ Proceed(<<>>)
    /\ UNCHANGED <<assembly, stacks, declSyms>>

TypeDeclarations == {"StructDeclaration", "UnionDeclaration", "EnumDeclaration"}

\* The members are visited with the type on top of the containers.
visitTypeDeclaration ==
    /\ Visiting(TypeDeclarations)
    /\ MakeSymAndPushIt(At(here).kind, At(here).text)
    /\ Proceed(Visits(At(here).kids) \o <<Step("popSym")>>)
    /\ UNCHANGED <<scopeTable, symUSEs, diagnostics, scopes, stashedScope, tySyms,
                   pendingFunTySyms>>

popSym ==
    /\ Running("popSym")
    /\ syms # <<>>
    /\ syms' = Tail(syms)
    /\ Proceed(<<>>)
    /\ UNCHANGED <<assembly, diagnostics, scopes, stashedScope, tySyms, pendingFunTySyms, declSyms>>

IsQualifier(n) == At(n).kind = "TypeQualifier"
DeclaratorDeclarations == {"VariableAndOrFunctionDeclaration", "FieldDeclaration"}

\* Mutant: the type that the specifiers pushed is left by a member.
AtDeclarators_MemberLeavesType(n) ==
    LET declarators == At(n).kids
    IN  [i \in 1..(2 * Len(declarators)) |->
            IF i % 2 = 1 THEN Visit(declarators[(i + 1) \div 2]) ELSE Step(typeSymAtTopAndPopIt)]
        \o (IF At(n).kind = "FieldDeclaration" THEN <<>> ELSE <<Step("popTySym")>>)

\* visitDeclaration_AtDeclarators_COMMON: every declarator in turn is given its
\* type; then the type of the specifiers is popped.
AtDeclarators(n) ==
    LET declarators == At(n).kids
    IN  [i \in 1..(2 * Len(declarators)) |->
            IF i % 2 = 1 THEN Visit(declarators[(i + 1) \div 2]) ELSE Step(typeSymAtTopAndPopIt)]
        \o <<Step("popTySym")>>

AtParameter(n) == <<Visit(At(n).kids[1]), Step(typeSymAtTopAndPopIt)>>

\* Mutant: the scope of the parameters is not opened again for the body.
AtDefinition_ScopeStaysClosed(n) ==
    <<Visit(At(n).kids[1]), Step(typeSymAtTopAndPopIt)>>
    \o Visits(Tail(At(n).kids)) \o <<Step("closeScope"), Step("popTySym")>>

\* The children of a definition are the declarator and the statements of the
\* body, which opens no scope of its own.
AtDefinition(n) ==
    <<Visit(At(n).kids[1]), Step(typeSymAtTopAndPopIt), Step("reopenStashedScope")>>
    \o Visits(Tail(At(n).kids)) \o <<Step("closeScope"), Step("popTySym")>>

\* visitDeclaration_AtSpecifiers_COMMON: the qualifiers come last.
visitDeclaration ==
    /\ Visiting(DeclaratorDeclarations \cup {"ParameterDeclaration", "FunctionDefinition"})
    /\ Proceed(Each("visitIfNotTypeQualifier", At(here).specs) \o <<Do("defaultToInt", here)>>
               \o Each("visitIfTypeQualifier", At(here).specs)
               \o CASE At(here).kind = "ParameterDeclaration" -> AtParameter(here)
                    [] At(here).kind = "FunctionDefinition" -> AtDefinition(here)
                    [] OTHER -> AtDeclarators(here))
    /\ UNCHANGED <<assembly, diagnostics, stacks, declSyms>>

\* Of the specifiers, one that is what is looked for is visited.
visitIf ==
    /\ \/ Running("visitIfTypeQualifier") /\ Proceed(IF IsQualifier(here) THEN <<Visit(here)>> ELSE <<>>)
       \/ Running("visitIfNotTypeQualifier") /\ Proceed(IF IsQualifier(here) THEN <<>> ELSE <<Visit(here)>>)
    /\ UNCHANGED <<assembly, diagnostics, stacks, declSyms>>

defaultToInt ==
    /\ Running("defaultToInt")
    /\ IF tySyms = <<>>
       THEN MakeTySym(Builtin("Int")) /\ Diagnose("TypeSpecifierMissingDefaultsToInt")
       ELSE UNCHANGED <<assembly, diagnostics, scopes, stashedScope, syms, tySyms, declSyms>>
    /\ Proceed(<<>>)
    /\ UNCHANGED pendingFunTySyms

\* The type of an enumerator is int.
visitEnumeratorDeclaration ==
    /\ Visiting({"EnumeratorDeclaration"})
    /\ MakeTySym(Builtin("Int"))
    /\ Proceed(<<Do("declare", here), Step(typeSymAtTopAndPopIt), Step("popTySym")>>)
    /\ UNCHANGED <<diagnostics, pendingFunTySyms>>

popTySym ==
    /\ Running("popTySym")
    /\ tySyms # <<>>
    /\ tySyms' = Tail(tySyms)
    /\ Proceed(<<>>)
    /\ UNCHANGED <<assembly, diagnostics, scopes, stashedScope, syms, pendingFunTySyms, declSyms>>

-----------------------------------------------------------------------------
(* Specifiers.                                                             *)

visitBuiltinTypeSpecifier ==
    /\ Visiting({"BuiltinTypeSpecifier"})
    /\ tySyms = <<>>
    /\ MakeTySym(Builtin(Alone[At(here).text]))
    /\ Proceed(<<>>)
    /\ UNCHANGED <<diagnostics, pendingFunTySyms>>

\* ConstraintsInTypeSpecifiers::specify, which patches the type on top.  (What is
\* read of a type whose builtin kind was not set may be anything.)
specify ==
    /\ Visiting({"BuiltinTypeSpecifier"})
    /\ tySyms # <<>> /\ TopType.kind = "Named"
    /\ \E old \in IF TopType.builtin = Unset THEN BuiltinKinds ELSE {TopType.builtin} :
            LET new == combine(At(here).text, old)
            IN  /\ symUSEs' = IF new = old THEN symUSEs
                              ELSE [symUSEs EXCEPT ![Head(tySyms)].builtin = new,
                                                   ![Head(tySyms)].name = new]
                /\ IF IsSecondDataType(At(here).text, old)
                   THEN Diagnose("TwoOrMoreDataTypesInDeclarationSpecifiers")
                   ELSE UNCHANGED diagnostics
    /\ Proceed(<<>>)
    /\ UNCHANGED <<scopeTable, symDEFs, stacks, declSyms>>

visitTypedefName ==
    /\ Visiting({"TypedefName"})
    /\ IF tySyms = <<>> THEN MakeTySym(Synonym(At(here).text))
       ELSE UNCHANGED <<assembly, scopes, stashedScope, syms, tySyms, declSyms>>
    /\ Proceed(<<>>)
    /\ UNCHANGED <<diagnostics, pendingFunTySyms>>

TypeSpecifiers == {"StructTypeSpecifier", "UnionTypeSpecifier", "EnumTypeSpecifier"}
Choice(kind) ==
    CASE kind \in {"StructTypeSpecifier", "StructDeclaration"} -> "Structure"
      [] kind \in {"UnionTypeSpecifier", "UnionDeclaration"} -> "Union"
      [] OTHER -> "Enumeration"

\* A specifier has members of its own in a parameter and in a type name; elsewhere
\* the parser makes a type declaration of it.  Each is visited with a stack of types of its own.
visitTagTypeSpecifier ==
    /\ Visiting(TypeSpecifiers)
    /\ IF At(here).kids = <<>> THEN MakeTySym(Tagged(Choice(At(here).kind), At(here).text))
       ELSE UNCHANGED <<assembly, scopes, stashedScope, syms, tySyms, declSyms>>
    /\ Proceed(Each("visitApart", At(here).kids))
    /\ UNCHANGED <<diagnostics, pendingFunTySyms>>

visitTypeDeclarationAsSpecifier ==
    /\ Visiting({"TypeDeclarationAsSpecifier"})
    /\ Proceed(<<Visit(At(here).kids[1]), Do("makeTag", At(here).kids[1])>>)
    /\ UNCHANGED <<assembly, diagnostics, stacks, declSyms>>

makeTag ==
    /\ Running("makeTag")
    /\ MakeTySym(Tagged(Choice(At(here).kind), At(here).text))
    /\ Proceed(<<>>)
    /\ UNCHANGED <<diagnostics, pendingFunTySyms>>

\* SemanticsOfTypeQualifiers::qualify, of the type on top, for `const'.
visitTypeQualifier ==
    /\ Visiting({"TypeQualifier"})
    /\ symUSEs' = IF tySyms # <<>> /\ At(here).text = "const"
                  THEN [symUSEs EXCEPT ![Head(tySyms)].const = TRUE] ELSE symUSEs
    /\ Proceed(<<>>)
    /\ UNCHANGED <<scopeTable, symDEFs, diagnostics, stacks, declSyms>>

\* The stack of types is swapped for an empty one, and back.
visitApart ==
    /\ Running("visitApart")
    /\ tySyms' = <<>> /\ swapped' = <<tySyms>> \o swapped
    /\ Leave(<<Visit(here), Step("swapBack")>>)
    /\ UNCHANGED <<assembly, diagnostics, scopes, stashedScope, syms, pendingFunTySyms, declSyms>>

swapBack ==
    /\ Running("swapBack")
    /\ swapped # <<>>
    /\ tySyms' = Head(swapped) /\ swapped' = Tail(swapped)
    /\ Leave(<<>>)
    /\ UNCHANGED <<assembly, diagnostics, scopes, stashedScope, syms, pendingFunTySyms, declSyms>>

-----------------------------------------------------------------------------
(* Declarators.                                                            *)

visitPointerDeclarator ==
    /\ Visiting({"PointerDeclarator"})
    /\ tySyms # <<>>
    /\ MakeTySym(Pointer(Head(tySyms)))
    /\ Proceed(Visits(At(here).specs) \o Visits(At(here).kids))
    /\ UNCHANGED <<diagnostics, pendingFunTySyms>>

Suffix == At(At(here).kids[2]).kind

\* Mutant: the scope is open for the inner declarator, too.
AroundSuffix_ScopeFirst ==
    <<Step("openFunctionPrototype"), Visit(At(here).kids[1]), Visit(At(here).kids[2]),
      Step("closeScopeAndStashIt")>>

\* Both suffixes are visited in a scope of their own.
AroundSuffix ==
    <<Visit(At(here).kids[1]), Step("openFunctionPrototype"), Visit(At(here).kids[2]),
      Step("closeScopeAndStashIt")>>

visitArrayDeclarator ==
    /\ Visiting({"ArrayOrFunctionDeclarator"})
    /\ Suffix = "SubscriptSuffix"
    /\ tySyms # <<>>
    /\ MakeTySym(Array(Head(tySyms)))
    /\ Proceed(AroundSuffix)
    /\ UNCHANGED <<diagnostics, pendingFunTySyms>>

visitFunctionDeclarator ==
    /\ Visiting({"ArrayOrFunctionDeclarator"})
    /\ Suffix = "ParameterSuffix"
    /\ tySyms # <<>>
    /\ CASE TopType.kind = "Function" -> Diagnose("FunctionReturningFunction")
         [] TopType.kind = "Array" -> Diagnose("FunctionReturningArray")
         [] OTHER -> UNCHANGED diagnostics
    /\ MakeTySym(Function(Head(tySyms)))
    /\ pendingFunTySyms' = <<Len(symUSEs) + 1>> \o pendingFunTySyms
    /\ Proceed(AroundSuffix \o <<Step("popPendingFunTySym")>>)

popPendingFunTySym ==
    /\ Running("popPendingFunTySym")
    /\ pendingFunTySyms # <<>>
    /\ pendingFunTySyms' = Tail(pendingFunTySyms)
    /\ Proceed(<<>>)
    /\ UNCHANGED <<assembly, diagnostics, scopes, stashedScope, syms, tySyms, declSyms>>

visitParameterSuffix ==
    /\ Visiting({"ParameterSuffix"})
    /\ Proceed(Each("visitApart", At(here).kids))
    /\ UNCHANGED <<assembly, diagnostics, stacks, declSyms>>

Declaring == Running("declare") \/ Visiting({"IdentifierDeclarator", "AbstractDeclarator"})
ScopeAtTop == scopeTable[Head(scopes)]

\* determineContextAndMakeSym, in the scope of a file or block.
KindWithin(holder) ==
    CASE holder \in {"StructDeclaration", "UnionDeclaration"} -> "Field"
      [] holder = "EnumDeclaration" -> "Enumerator"
      [] OTHER -> "Variable"
Kind == IF TopType.kind = "Function" THEN "Function" ELSE KindWithin(symDEFs[Head(syms)].kind)

HasScopeAndType == Head(scopes) # Null /\ tySyms # <<>>
\* Outside a translation unit no symbol holds what is declared.
HasNoHolder ==
    ScopeAtTop # "FunctionPrototype" /\ TopType.kind # "Function" /\ Head(syms) = Null
declareSym ==
    /\ Declaring
    /\ HasScopeAndType /\ ~HasNoHolder
    /\ ScopeAtTop # "FunctionPrototype"
    /\ MakeSymAndPushIt(Kind, At(here).text)
    /\ Proceed(<<>>)
    /\ UNCHANGED <<scopeTable, symUSEs, diagnostics, scopes, stashedScope, tySyms,
                   pendingFunTySyms>>

\* In that of a prototype: a parameter that is an array or a function is
\* adjusted to a pointer.
declareParameter ==
    /\ Declaring
    /\ HasScopeAndType
    /\ ScopeAtTop = "FunctionPrototype"
    /\ CASE TopType.kind = "Array" ->
                MakeTySymAndPushIt([Pointer(tySyms[2]) EXCEPT !.decay = "array"], Tail(tySyms))
         [] TopType.kind = "Function" ->
                MakeTySymAndPushIt([Pointer(Head(tySyms)) EXCEPT !.decay = "function"], tySyms)
         [] OTHER -> UNCHANGED <<symUSEs, tySyms>>
    /\ MakeSymAndPushIt("Parameter", At(here).text)
    /\ Proceed(<<>>)
    /\ UNCHANGED <<scopeTable, diagnostics, scopes, stashedScope, pendingFunTySyms>>

Typeable == {"Function", "Variable", "Field", "Enumerator", "Parameter"}
HasTypeable == syms # <<>> /\ Head(syms) # Null /\ symDEFs[Head(syms)].kind \in Typeable

\* typeSymAtTopAndPopIt.  One type is popped, however many were pushed; where
\* there is no symbol, or no type, nothing is done.
typeSymAtTop ==
    /\ Running(typeSymAtTopAndPopIt)
    /\ IF HasTypeable /\ tySyms # <<>>
       THEN /\ symDEFs' = [symDEFs EXCEPT ![Head(syms)].type = Head(tySyms)]
            /\ symUSEs' = IF pendingFunTySyms = <<>> THEN symUSEs
                          ELSE [symUSEs EXCEPT ![Head(pendingFunTySyms)].params =
                                    Append(@, Head(tySyms))]
            /\ tySyms' = IF TopType.kind = "Named" THEN tySyms ELSE Tail(tySyms)
            /\ syms' = Tail(syms)
       ELSE UNCHANGED <<symDEFs, symUSEs, tySyms, syms>>
    /\ Proceed(<<>>)
    /\ UNCHANGED <<scopeTable, diagnostics, scopes, stashedScope, pendingFunTySyms, declSyms>>

-----------------------------------------------------------------------------
(* Statements and what else has no handler.                                *)

visitCompoundStatement ==
    /\ Visiting({"CompoundStatement"})
    /\ Proceed(<<Step("openBlock")>> \o Visits(At(here).kids) \o <<Step("closeScope")>>)
    /\ UNCHANGED <<assembly, diagnostics, stacks, declSyms>>

Handled ==
    {"TranslationUnit", "IncompleteDeclaration", "EnumeratorDeclaration", "ParameterDeclaration",
     "FunctionDefinition", "BuiltinTypeSpecifier", "TypedefName", "TypeDeclarationAsSpecifier",
     "TypeQualifier", "PointerDeclarator", "ArrayOrFunctionDeclarator", "ParameterSuffix",
     "IdentifierDeclarator", "AbstractDeclarator", "CompoundStatement"}
    \cup TypeDeclarations \cup DeclaratorDeclarations \cup TypeSpecifiers

\* SyntaxNode::visitChildren, for all other nodes.  A handler that visits its one
\* child (visitParenthesizedDeclarator, visitDeclarationStatement) does the same,
\* and one that visits none (visitSubscriptSuffix, visitStaticAssertDeclaration)
\* has none here.
visitChildren ==
    /\ Running("visit") /\ At(here).kind \notin Handled
    /\ Proceed(Visits(At(here).specs) \o Visits(At(here).kids))
    /\ UNCHANGED <<assembly, diagnostics, stacks, declSyms>>

\* The stack of types is empty or has no named type on top, or there is no scope
\* or no symbol on top.
UsesNothing ==
    /\ \/ Running("popTySym") /\ tySyms = <<>>
       \/ Visiting({"BuiltinTypeSpecifier"}) /\ tySyms # <<>> /\ TopType.kind # "Named"
       \/ Visiting({"PointerDeclarator", "ArrayOrFunctionDeclarator"}) /\ tySyms = <<>>
       \/ Declaring /\ ~HasScopeAndType
       \/ Declaring /\ HasScopeAndType /\ HasNoHolder
    /\ Undefined

-----------------------------------------------------------------------------

\* The constructor, and Binder::bind up to the visit of the root.
StartBinding(t) ==
    /\ unit' = t
    /\ todo' = <<Visit(1)>>
    /\ scopes' = <<Null>> /\ stashedScope' = Null /\ syms' = <<Null>>
    /\ tySyms' = <<>> /\ pendingFunTySyms' = <<>> /\ swapped' = <<>>
    /\ declSyms' = <<>>

Bind ==
    \/ \E op \in DOMAIN Opens : openScope(op)
    \/ closeScope \/ closeScopeAndStashIt \/ reopenStashedScope
    \/ visitTranslationUnit \/ visitIncompleteDeclaration \/ visitTypeDeclaration \/ popSym
    \/ visitDeclaration \/ visitIf \/ defaultToInt \/ visitEnumeratorDeclaration \/ popTySym
    \/ visitBuiltinTypeSpecifier \/ specify \/ visitTypedefName \/ visitTagTypeSpecifier
    \/ visitTypeDeclarationAsSpecifier \/ makeTag \/ visitTypeQualifier
    \/ visitApart \/ swapBack
    \/ visitPointerDeclarator \/ visitArrayDeclarator \/ visitFunctionDeclarator
    \/ popPendingFunTySym \/ visitParameterSuffix \/ declareSym \/ declareParameter \/ typeSymAtTop
    \/ visitCompoundStatement \/ visitChildren \/ UsesNothing

-----------------------------------------------------------------------------
(* What the stacks hold is what is left to do with them.                   *)

\* What Binder::bind asserts when the tree was visited, that no scope is left open
\* and the outermost one is there, and reopenStashedScope and the morphing behind
\* it, that the scope of a body is the one that the parameters were declared in,
\* which is not open any more.  On the way to it no stack but that of types is
\* popped when there is nothing on it that was pushed to be popped: the outermost
\* scope and the outermost symbol are never taken off.
\* (Binder.cpp:52-94, Binder_Declarators.cpp:141-207, Scope.cpp:42-47.)
StacksAreBalanced ==
    unit # Null /\ outcome = "defined" =>
        /\ Running("closeScope") => Len(scopes) > 1
        /\ Running("closeScopeAndStashIt") => Len(scopes) > 1 /\ ScopeAtTop = "FunctionPrototype"
        /\ Running("reopenStashedScope") =>
              /\ stashedScope # Null /\ scopeTable[stashedScope] = "FunctionPrototype"
              /\ \A i \in DOMAIN scopes : scopes[i] # stashedScope
        /\ Running("popSym") => Len(syms) > 1
        /\ Running("popPendingFunTySym") => pendingFunTySyms # <<>>
        /\ Running("swapBack") => swapped # <<>>
        /\ todo = <<>> =>
              /\ scopes = <<Null>> /\ pendingFunTySyms = <<>> /\ swapped = <<>>
              /\ syms # <<>> /\ syms[Len(syms)] = Null
=============================================================================
