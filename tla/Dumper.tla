------------------------------- MODULE Dumper -------------------------------
(***************************************************************************)
(* SyntaxDumper: the walk over a tree that hands over its tokens and its   *)
(* nodes in order, and what is built on it: the Unparser, which writes the *)
(* tokens, and the list of nodes that SyntaxNamePrinter prints and makes a *)
(* control-flow graph of.  Beside it, the other ways over a tree: the walk *)
(* of a visitor that does not handle a node itself, and the search for its *)
(* first and last token.                                                   *)
(*                                                                         *)
(* A node is a term, [kind, parts], where `parts' gives its present parts: *)
(* a token is TRUE, a list a sequence of terms; in a tree the nodes have   *)
(* the shape of their class at hand.  A place is a path from the root: the *)
(* index of a part in the shape, and in a list an odd number for an element*)
(* and the even number that follows for the delimiter behind it.  The order*)
(* of the text is the order of the paths.                                  *)
(***************************************************************************)
EXTENDS NodeShapes, Listing, FiniteSets

VARIABLES
    tree,     \* the tree that is walked
    todo,     \* what the calls of the walk have yet to do
    written   \* the tokens handed over, by place

dumping == <<tree, todo, written, dump>>

Node(kind, parts) == [kind |-> kind, parts |-> parts]

IndexOf(shape, field) == CHOOSE i \in DOMAIN shape : shape[i].field = field
PartOf(shape, field) == shape[IndexOf(shape, field)]

\* The tree of a term.
RECURSIVE Tree(_)
Tree(term) ==
    LET shape == Shape[term.kind]
        Value(part) ==
            CASE part.holds = "token" -> TRUE
              [] part.holds = "node" -> Tree(term.parts[part.field])
              [] OTHER -> [i \in DOMAIN term.parts[part.field] |-> Tree(term.parts[part.field][i])]
    IN  [kind |-> term.kind, shape |-> shape,
         parts |-> [f \in DOMAIN term.parts |-> Value(PartOf(shape, f))]]

\* The items of a part at a place: a token; a node; the elements of a list,
\* each with the delimiter behind it, but the last.
ItemsOf(node, place, field, delimited) ==
    LET index == IndexOf(node.shape, field)
        holds == node.shape[index].holds
        here == Append(place, index)
        value == node.parts[field]
        Token(p) == [is |-> "token", place |-> p]
        Call(t, p) == [is |-> "node", node |-> t, place |-> p]
    IN  CASE field \notin DOMAIN node.parts -> <<>>
          [] field \in DOMAIN node.parts /\ holds = "token" -> <<Token(here)>>
          [] field \in DOMAIN node.parts /\ holds = "node" -> <<Call(value, here)>>
          [] OTHER ->
                IF delimited
                THEN [j \in 1..(2 * Len(value) - 1) |->
                        IF j % 2 = 1 THEN Call(value[(j + 1) \div 2], Append(here, j))
                        ELSE Token(Append(here, j))]
                ELSE [j \in DOMAIN value |-> Call(value[j], Append(here, 2 * j - 1))]

RECURSIVE AllItems(_, _, _, _)
AllItems(node, place, fields, delimited) ==
    IF fields = <<>> THEN <<>>
    ELSE ItemsOf(node, place, Head(fields),
                 PartOf(node.shape, Head(fields)).holds = "separated"
                    /\ Head(fields) \in delimited)
         \o AllItems(node, place, Tail(fields), delimited)

-----------------------------------------------------------------------------
(* The visit functions: the parts in the order they are handed over.       *)

CommonVisits ==
    [ TypeName |-> <<"specs", "decltor">>,
      ExpressionAsTypeReference |-> <<"expr">>,
      TypeNameAsTypeReference |-> <<"openParen", "typeName", "closeParen">>,
      AmbiguousTypeNameOrExpressionAsTypeReference |-> <<"exprAsTyRef", "tyNameAsTyRef">>,
      AmbiguousCastOrBinaryExpression |-> <<"castExpr", "binExpr">>,
      AmbiguousExpressionOrDeclarationStatement |-> <<"declStmt", "exprStmt">> ]

traverseTypeDeclaration == <<"extKw", "typeSpec", "semicolon">>
DeclarationVisits ==
    [ TranslationUnit |-> <<"decls">>,
      IncompleteDeclaration |-> <<"extKw", "specs", "semicolon">>,
      StructOrUnionDeclaration |-> traverseTypeDeclaration,
      EnumDeclaration |-> traverseTypeDeclaration,
      EnumeratorDeclaration |-> <<"extKw", "ident", "attrs", "equals", "expr", "comma">>,
      VariableAndOrFunctionDeclaration |-> <<"extKw", "specs", "decltors", "semicolon">>,
      FieldDeclaration |-> <<"extKw", "specs", "decltors", "semicolon">>,
      ParameterDeclaration |-> <<"specs", "decltor">> ]

OtherDeclarationVisits ==
    [ StaticAssertDeclaration |->
        <<"staticAssertKw", "openParen", "expr", "comma", "strLit", "closeParen", "semicolon">>,
      FunctionDefinition |-> <<"extKw", "specs", "decltor", "extKR_params", "body">>,
      ExtGNU_AsmStatementDeclaration |->
        <<"extKw", "asm", "openParen", "strLit", "closeParen">>,
      ExtKR_ParameterDeclaration |-> <<"specs", "decltors", "semicolon">> ]

visitTrivialSpecifier == <<"spec">>
SpecifierVisits ==
    [ StorageClass |-> visitTrivialSpecifier, BuiltinTypeSpecifier |-> visitTrivialSpecifier,
      TypeQualifier |-> visitTrivialSpecifier, FunctionSpecifier |-> visitTrivialSpecifier,
      TagTypeSpecifier |->
        <<"kw", "attrs1", "tag", "openBrace", "decls", "closeBrace", "attrs2">>,
      AtomicTypeSpecifier |-> <<"atomicKw", "openParen", "typeName", "closeParen">>,
      TypedefName |-> <<"ident">>,
      AlignmentSpecifier |-> <<"alignasKw", "tyRef">>,
      ExtGNU_Typeof |-> <<"typeofKw", "tyRef">>,
      ExtGNU_AttributeSpecifier |->
        <<"attrKw", "openOuterParen", "openInnerParen", "attrs", "closeInnerParen",
          "closeOuterParen">>,
      ExtGNU_Attribute |-> <<"kwOrIdent", "openParen", "exprs", "closeParen">>,
      ExtGNU_AsmLabel |-> <<"asmKw", "openParen", "strLit", "closeParen">> ]

DeclaratorVisits ==
    [ ArrayOrFunctionDeclarator |->
        <<"attrs1", "innerDecltor", "suffix", "attrs2", "equals", "init">>,
      PointerDeclarator |->
        <<"attrs", "asterisk", "qualsAndAttrs", "innerDecltor", "equals", "init">>,
      ParenthesizedDeclarator |-> <<"openParen", "innerDecltor", "closeParen">>,
      IdentifierDeclarator |-> <<"ident", "attrs2", "equals", "init">>,
      SubscriptSuffix |->
        <<"openBracket", "qualsAndAttrs1", "staticKw", "qualsAndAttrs2", "expr", "asterisk",
          "closeBracket">>,
      ParameterSuffix |-> <<"openParen", "decls", "ellipsis", "closeParen">>,
      BitfieldDeclarator |-> <<"innerDecltor", "colon", "expr", "attrs">> ]

InitializerVisits ==
    [ ExpressionInitializer |-> <<"expr">>,
      BraceEnclosedInitializer |-> <<"openBrace", "initList", "closeBrace">>,
      DesignatedInitializer |-> <<"desigs", "equals", "init">>,
      FieldDesignator |-> <<"dot", "ident">>,
      ArrayDesignator |-> <<"openBracket", "expr", "closeBracket">>,
      OffsetOfDesignator |-> <<"ident", "desigs">> ]

PrimaryVisits ==
    [ IdentifierName |-> <<"extKw", "ident">>,
      PredefinedName |-> <<"extKw", "predef">>,
      ConstantExpression |-> <<"extKw", "constant">>,
      StringLiteralExpression |-> <<"extKw", "lit", "adjacent">>,
      ParenthesizedExpression |-> <<"extKw", "openParen", "expr", "closeParen">>,
      GenericSelectionExpression |->
        <<"extKw", "genericKw", "openParen", "expr", "comma", "assocs", "closeParen">>,
      GenericAssociation |-> <<"typeName_or_default", "colon", "expr">>,
      ExtGNU_EnclosedCompoundStatementExpression |-> <<"openParen", "stmt", "closeParen">>,
      ExtGNU_ComplexValuedExpression |-> <<"oprtr", "expr">> ]

OperationVisits ==
    [ PrefixUnaryExpression |-> <<"extKw", "oprtr", "expr">>,
      PostfixUnaryExpression |-> <<"extKw", "expr", "oprtr">>,
      MemberAccessExpression |-> <<"extKw", "expr", "oprtr", "identExpr">>,
      ArraySubscriptExpression |-> <<"extKw", "expr", "openBracket", "arg", "closeBracket">>,
      TypeTraitExpression |-> <<"extKw", "oprtr", "tyRef">>,
      CastExpression |-> <<"extKw", "openParen", "typeName", "closeParen", "expr">>,
      CallExpression |-> <<"expr", "openParen", "args", "closeParen">> ]

infix == <<"leftExpr", "oprtr", "rightExpr">>
OtherExpressionVisits ==
    [ VAArgumentExpression |->
        <<"kw", "openParen", "expr", "comma", "typeName", "closeParen">>,
      OffsetOfExpression |->
        <<"kw", "openParen", "typeName", "comma", "offsetOfDesignator", "closeParen">>,
      CompoundLiteralExpression |-> <<"openParen", "typeName", "closeParen", "init">>,
      BinaryExpression |-> infix, AssignmentExpression |-> infix, SequencingExpression |-> infix,
      ConditionalExpression |->
        <<"condExpr", "question", "whenTrueExpr", "colon", "whenFalseExpr">>,
      ExtGNU_ChooseExpression |->
        <<"kw", "openParen", "constExpr", "comma1", "expr1", "comma2", "expr2", "closeParen">> ]

\* Mutant: the else is written in front of its keyword.
StatementVisits_Swapped ==
    [ CompoundStatement |-> <<"openBrace", "stmts", "closeBrace">>,
      DeclarationStatement |-> <<"decl">>,
      ExpressionStatement |-> <<"expr", "semicolon">>,
      LabeledStatement |-> <<"label", "expr", "colon", "stmt">>,
      IfStatement |-> <<"ifKw", "openParen", "cond", "closeParen", "stmt", "elseStmt", "elseKw">>,
      SwitchStatement |-> <<"switchKw", "openParen", "cond", "closeParen", "stmt">>,
      WhileStatement |-> <<"whileKw", "openParen", "cond", "closeParen", "stmt">>,
      DoStatement |->
        <<"doKw", "stmt", "whileKw", "openParen", "cond", "closeParen", "semicolon">>,
      ForStatement |->
        <<"forKw", "openParen", "extKw", "initStmt", "cond", "semicolon", "expr", "closeParen",
          "stmt">> ]

StatementVisits ==
    [ CompoundStatement |-> <<"openBrace", "stmts", "closeBrace">>,
      DeclarationStatement |-> <<"decl">>,
      ExpressionStatement |-> <<"expr", "semicolon">>,
      LabeledStatement |-> <<"label", "expr", "colon", "stmt">>,
      IfStatement |-> <<"ifKw", "openParen", "cond", "closeParen", "stmt", "elseKw", "elseStmt">>,
      SwitchStatement |-> <<"switchKw", "openParen", "cond", "closeParen", "stmt">>,
      WhileStatement |-> <<"whileKw", "openParen", "cond", "closeParen", "stmt">>,
      DoStatement |->
        <<"doKw", "stmt", "whileKw", "openParen", "cond", "closeParen", "semicolon">>,
      ForStatement |->
        <<"forKw", "openParen", "extKw", "initStmt", "cond", "semicolon", "expr", "closeParen",
          "stmt">> ]

JumpVisits ==
    [ GotoStatement |-> <<"gotoKw", "ident", "semicolon">>,
      ContinueStatement |-> <<"continueKw", "semicolon">>,
      BreakStatement |-> <<"breakKw", "semicolon">>,
      ReturnStatement |-> <<"returnKw", "expr", "semicolon">>,
      ExtGNU_AsmStatement |->
        <<"asmKw", "asmQuals", "openParen", "strLit", "colon1", "outOprds", "colon2", "inOprds",
          "colon3", "clobs", "colon4", "labels", "closeParen", "semicolon">>,
      ExtGNU_AsmQualifier |-> <<"spec">>,
      ExtGNU_AsmOperand |->
        <<"openBracket", "identExpr", "closeBracket", "strLit", "openParen", "expr",
          "closeParen">> ]

Visits ==
    CommonVisits @@ DeclarationVisits @@ OtherDeclarationVisits @@ SpecifierVisits
    @@ DeclaratorVisits @@ InitializerVisits @@ PrimaryVisits @@ OperationVisits
    @@ OtherExpressionVisits @@ StatementVisits @@ JumpVisits

\* Mutant: the delimiters of arguments are forgotten.
Delimited_NoArguments == {"decltors", "decls", "exprs", "initList", "assocs",
                          "outOprds", "inOprds", "clobs", "labels"}

\* The lists whose delimiters are handed over: not those of an attribute
\* specifier.
Delimited == {"decltors", "decls", "exprs", "initList", "assocs", "args",
              "outOprds", "inOprds", "clobs", "labels"}

-----------------------------------------------------------------------------

(* The first and the last token.                                           *)

Nowhere == <<0>>

\* SyntaxNode::findValidToken: in the order it is given, the first token of the
\* first part that has one.
RECURSIVE firstToken(_, _), findValidToken(_, _, _)
firstToken(node, place) == findValidToken(node, place, Children(node.kind, node.shape))
findValidToken(node, place, fields) ==
    IF fields = <<>> THEN Nowhere
    ELSE LET items == ItemsOf(node, place, Head(fields), FALSE)
             found == IF items = <<>> THEN Nowhere
                      ELSE IF Head(items).is = "token" THEN Head(items).place
                      ELSE firstToken(Head(items).node, Head(items).place)
         IN  IF found # Nowhere THEN found ELSE findValidToken(node, place, Tail(fields))

\* SyntaxNode::lastToken: the same search, over the parts in reverse.
lastToken(node, place) ==
    LET fields == Children(node.kind, node.shape)
    IN  findValidToken(node, place, [i \in DOMAIN fields |-> fields[Len(fields) + 1 - i]])

-----------------------------------------------------------------------------

\* SyntaxNode::visitChildren: the children that are nodes, and no token; they
\* are visited, but not handed over.
ChildNodes(node, place) ==
    LET items == AllItems(node, place, Children(node.kind, node.shape), {})
        nodes == SelectSeq(items, LAMBDA item : item.is = "node")
    IN  [i \in DOMAIN nodes |-> [nodes[i] EXCEPT !.is = "child"]]

\* A visit function skips the children, having handed over the parts itself; a
\* class the dumper has none for has its children visited.
PartsOf(node, place) ==
    IF node.kind \in DOMAIN Visits
    THEN AllItems(node, place, Visits[node.kind], Delimited)
    ELSE ChildNodes(node, place)

AtLevel(items, level) == [i \in DOMAIN items |-> items[i] @@ [level |-> level]]

Start ==
    /\ todo = AtLevel(<<[is |-> "node", node |-> tree, place |-> <<>>]>>, 0)
    /\ written = <<>> /\ dump = <<>>

\* Unparser::terminal.
terminal ==
    /\ todo # <<>> /\ Head(todo).is = "token"
    /\ written' = Append(written, Head(todo).place)
    /\ todo' = Tail(todo)
    /\ UNCHANGED <<tree, dump>>

\* Of a node that is handed over its kind, its place, its level, and whether it
\* has a first and a last token.
Dumped(call) ==
    [kind |-> call.node.kind, place |-> call.place, level |-> call.level,
     hasTokens |-> /\ firstToken(call.node, call.place) # Nowhere
                   /\ lastToken(call.node, call.place) # Nowhere]

\* Mutant: what is in a node gets the level of the node.
nonterminal_SameLevel ==
    /\ todo # <<>> /\ Head(todo).is = "node"
    /\ LET call == Head(todo)
       IN  /\ dump' = Append(dump, Dumped(call))
           /\ todo' = AtLevel(PartsOf(call.node, call.place), call.level) \o Tail(todo)
    /\ UNCHANGED <<tree, written>>

\* SyntaxNamePrinter::nonterminal, and the visit of the node.
nonterminal ==
    /\ todo # <<>> /\ Head(todo).is = "node"
    /\ LET call == Head(todo)
       IN  /\ dump' = Append(dump, Dumped(call))
           /\ todo' = AtLevel(PartsOf(call.node, call.place), call.level + 1) \o Tail(todo)
    /\ UNCHANGED <<tree, written>>

\* Mutant: the level goes down a step with every visit.
visitChild_Deeper ==
    /\ todo # <<>> /\ Head(todo).is = "child"
    /\ LET call == Head(todo)
       IN  todo' = AtLevel(PartsOf(call.node, call.place), call.level + 1) \o Tail(todo)
    /\ UNCHANGED <<tree, written, dump>>

\* The visit of a child that was not handed over.
visitChild ==
    /\ todo # <<>> /\ Head(todo).is = "child"
    /\ LET call == Head(todo)
       IN  todo' = AtLevel(PartsOf(call.node, call.place), call.level) \o Tail(todo)
    /\ UNCHANGED <<tree, written, dump>>

Walk == terminal \/ nonterminal \/ visitChild
=============================================================================
