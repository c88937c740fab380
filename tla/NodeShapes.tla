----------------------------- MODULE NodeShapes -----------------------------
(***************************************************************************)
(* The classes of the nodes of the syntax tree: of each, its parts in the  *)
(* order of the text, and which of them it declares as its children        *)
(* (AST_CHILD_LST), which is what firstToken, lastToken and a visitor that *)
(* does not handle the node itself go through.                             *)
(***************************************************************************)
EXTENDS Naturals, Sequences, TLC

\* A part: a token, a node, a list of nodes, or a list with delimiters.
Part(field, holds, sort, when) ==
    [field |-> field, holds |-> holds, sort |-> sort, when |-> when]
T(field) == Part(field, "token", "", "")
N(field, sort) == Part(field, "node", sort, "")
L(field, sort) == Part(field, "list", sort, "")
S(field, sort) == Part(field, "separated", sort, "")

\* A part that may be absent; parts with the same reason are absent together.
Opt(part) == [part EXCEPT !.when = part.field]
With(reason, part) == [part EXCEPT !.when = reason]

\* MIXIN_GNUExtensionFlag, of declarations and expressions.
Ext == Opt(T("extKw"))

CommonShapes ==
    [ TypeName |-> <<L("specs", "Specifier"), N("decltor", "AbstractDeclarator")>>,
      ExpressionAsTypeReference |-> <<N("expr", "Expression")>>,
      TypeNameAsTypeReference |->
        <<T("openParen"), N("typeName", "TypeName"), T("closeParen")>>,
      AmbiguousTypeNameOrExpressionAsTypeReference |->
        <<N("exprAsTyRef", "Operand"), N("tyNameAsTyRef", "TypeNameAsTypeReference")>> ]

-----------------------------------------------------------------------------
(* Specifiers                                                              *)

Trivial == <<T("spec")>>
SpecifierShapes ==
    [ StorageClass |-> Trivial, BuiltinTypeSpecifier |-> Trivial,
      TypeQualifier |-> Trivial, FunctionSpecifier |-> Trivial,
      TagTypeSpecifier |->
        <<T("kw"), Opt(L("attrs1", "Attribute")), Opt(T("tag")), With("body", T("openBrace")),
          With("body", L("decls", "Member")), With("body", T("closeBrace")),
          Opt(L("attrs2", "Attribute"))>>,
      AtomicTypeSpecifier |->
        <<T("atomicKw"), T("openParen"), N("typeName", "TypeName"), T("closeParen")>>,
      AlignmentSpecifier |-> <<T("alignasKw"), N("tyRef", "TypeReference")>> ]

ExtensionSpecifierShapes ==
    [ ExtGNU_Typeof |-> <<T("typeofKw"), N("tyRef", "TypeReference")>>,
      ExtGNU_AttributeSpecifier |->
        <<T("attrKw"), T("openOuterParen"), T("openInnerParen"),
          Opt(S("attrs", "ExtGNU_Attribute")), T("closeInnerParen"), T("closeOuterParen")>>,
      ExtGNU_Attribute |->
        <<T("kwOrIdent"), With("args", T("openParen")), With("args", S("exprs", "Expression")),
          With("args", T("closeParen"))>>,
      ExtGNU_AsmLabel |->
        <<T("asmKw"), T("openParen"), N("strLit", "StringLiteral"), T("closeParen")>>,
      ExtPSY_QuantifiedTypeSpecifier |->
        <<T("quantifier"), T("openParen"), T("ident"), T("closeParen")>>,
      TypedefName |-> <<T("ident")>> ]

-----------------------------------------------------------------------------
(* Declarators                                                             *)

DeclaratorShapes ==
    [ IdentifierDeclarator |->
        <<Opt(L("attrs1", "Attribute")), T("ident"), Opt(L("attrs2", "Attribute")),
          With("init", T("equals")), With("init", N("init", "Initializer"))>>,
      ParenthesizedDeclarator |->
        <<T("openParen"), N("innerDecltor", "Declarator"), T("closeParen")>>,
      AbstractDeclarator |-> <<Opt(L("attrs", "Attribute"))>>,
      PointerDeclarator |->
        <<Opt(L("attrs", "Attribute")), T("asterisk"), Opt(L("qualsAndAttrs", "Qualifier")),
          N("innerDecltor", "Declarator"), With("init", T("equals")),
          With("init", N("init", "Initializer"))>>,
      ArrayOrFunctionDeclarator |->
        <<Opt(L("attrs1", "Attribute")), N("innerDecltor", "Declarator"), N("suffix", "Suffix"),
          Opt(L("attrs2", "Attribute")), With("init", T("equals")),
          With("init", N("init", "Initializer"))>> ]

SuffixShapes ==
    [ SubscriptSuffix |->
        <<T("openBracket"), Opt(L("qualsAndAttrs1", "Qualifier")), Opt(T("staticKw")),
          Opt(L("qualsAndAttrs2", "Qualifier")), Opt(N("expr", "Expression")),
          Opt(T("asterisk")), T("closeBracket")>>,
      ParameterSuffix |->
        <<T("openParen"), Opt(S("decls", "Parameter")), Opt(T("ellipsis")), T("closeParen"),
          Opt(T("psyOmit"))>>,
      BitfieldDeclarator |->
        <<Opt(N("innerDecltor", "Declarator")), T("colon"), N("expr", "Expression"),
          Opt(L("attrs", "Attribute"))>> ]

-----------------------------------------------------------------------------
(* Declarations                                                            *)

TypeDeclarationShape == <<Ext, N("typeSpec", "TagTypeSpecifier"), Opt(T("semicolon"))>>
DeclarationShapes ==
    [ TranslationUnit |-> <<Opt(L("decls", "Declaration"))>>,
      IncompleteDeclaration |-> <<Ext, Opt(L("specs", "Specifier")), T("semicolon")>>,
      StructOrUnionDeclaration |-> TypeDeclarationShape,
      EnumDeclaration |-> TypeDeclarationShape,
      TypeDeclarationAsSpecifier |-> <<N("typeDecl", "TypeDeclaration")>> ]

DeclaratorDeclarationShape ==
    <<Ext, L("specs", "Specifier"), S("decltors", "Declarator"), T("semicolon")>>
ValueDeclarationShapes ==
    [ EnumeratorDeclaration |->
        <<Ext, T("ident"), Opt(L("attrs", "Attribute")), With("value", T("equals")),
          With("value", N("expr", "Expression")), Opt(T("comma"))>>,
      VariableAndOrFunctionDeclaration |-> DeclaratorDeclarationShape,
      FieldDeclaration |->
        <<Ext, L("specs", "Specifier"), S("decltors", "MemberDeclarator"), T("semicolon")>> ]

OtherDeclarationShapes ==
    [ ParameterDeclaration |->
        <<Ext, L("specs", "Specifier"), N("decltor", "ParameterDeclarator")>>,
      StaticAssertDeclaration |->
        <<Ext, T("staticAssertKw"), T("openParen"), N("expr", "Expression"), T("comma"),
          N("strLit", "StringLiteral"), T("closeParen"), T("semicolon")>>,
      FunctionDefinition |->
        <<Ext, L("specs", "Specifier"), N("decltor", "Function"),
          Opt(L("extKR_params", "ExtKR_ParameterDeclaration")), N("body", "CompoundStatement")>>,
      ExtGNU_AsmStatementDeclaration |->
        <<Ext, T("asm"), T("openParen"), N("strLit", "StringLiteral"), T("closeParen")>>,
      ExtPSY_TemplateDeclaration |-> <<Ext, T("template"), N("decl", "Declaration")>>,
      ExtKR_ParameterDeclaration |-> DeclaratorDeclarationShape ]

InitializerShapes ==
    [ ExpressionInitializer |-> <<N("expr", "Expression")>>,
      BraceEnclosedInitializer |->
        <<T("openBrace"), S("initList", "Initializer"), T("closeBrace")>>,
      DesignatedInitializer |->
        <<L("desigs", "Designator"), T("equals"), N("init", "Initializer")>>,
      FieldDesignator |-> <<T("dot"), T("ident")>>,
      ArrayDesignator |-> <<T("openBracket"), N("expr", "Expression"), T("closeBracket")>>,
      OffsetOfDesignator |-> <<T("ident"), Opt(L("desigs", "Designator"))>> ]

-----------------------------------------------------------------------------
(* Expressions                                                             *)

PrimaryShapes ==
    [ ConstantExpression |-> <<Ext, T("constant")>>,
      StringLiteralExpression |-> <<Ext, T("lit"), Opt(N("adjacent", "StringLiteral"))>>,
      IdentifierName |-> <<Ext, T("ident")>>,
      PredefinedName |-> <<Ext, T("predef")>>,
      ParenthesizedExpression |->
        <<Ext, T("openParen"), N("expr", "Expression"), T("closeParen")>> ]

SelectionShapes ==
    [ GenericSelectionExpression |->
        <<Ext, T("genericKw"), T("openParen"), N("expr", "Expression"), T("comma"),
          S("assocs", "GenericAssociation"), T("closeParen")>>,
      GenericAssociation |->
        <<N("typeName_or_default", "TypeName"), T("colon"), N("expr", "Expression")>>,
      ExtGNU_EnclosedCompoundStatementExpression |->
        <<Ext, T("openParen"), N("stmt", "CompoundStatement"), T("closeParen")>> ]

PostfixShapes ==
    [ PostfixUnaryExpression |-> <<Ext, N("expr", "Expression"), T("oprtr")>>,
      PrefixUnaryExpression |-> <<Ext, T("oprtr"), N("expr", "Expression")>>,
      ArraySubscriptExpression |->
        <<Ext, N("expr", "Expression"), T("openBracket"), N("arg", "Expression"),
          T("closeBracket")>>,
      CallExpression |->
        <<Ext, N("expr", "Expression"), T("openParen"), Opt(S("args", "Expression")),
          T("closeParen")>> ]

MemberShapes ==
    [ MemberAccessExpression |->
        <<Ext, N("expr", "Expression"), T("oprtr"), N("identExpr", "IdentifierName")>>,
      CompoundLiteralExpression |->
        <<Ext, T("openParen"), N("typeName", "TypeName"), T("closeParen"),
          N("init", "BraceEnclosedInitializer")>>,
      TypeTraitExpression |-> <<Ext, T("oprtr"), N("tyRef", "TypeReference")>> ]

Infix == <<Ext, N("leftExpr", "Expression"), T("oprtr"), N("rightExpr", "Expression")>>
OperationShapes ==
    [ CastExpression |->
        <<Ext, T("openParen"), N("typeName", "TypeName"), T("closeParen"),
          N("expr", "Expression")>>,
      BinaryExpression |-> Infix, AssignmentExpression |-> Infix, SequencingExpression |-> Infix,
      ConditionalExpression |->
        <<Ext, N("condExpr", "Expression"), T("question"), Opt(N("whenTrueExpr", "Expression")),
          T("colon"), N("whenFalseExpr", "Expression")>> ]

BuiltinShapes ==
    [ AmbiguousCastOrBinaryExpression |->
        <<Ext, N("castExpr", "CastExpression"), N("binExpr", "BinaryExpression")>>,
      VAArgumentExpression |->
        <<Ext, T("kw"), T("openParen"), N("expr", "Expression"), T("comma"),
          N("typeName", "TypeName"), T("closeParen")>>,
      OffsetOfExpression |->
        <<Ext, T("kw"), T("openParen"), N("typeName", "TypeName"), T("comma"),
          N("offsetOfDesignator", "OffsetOfDesignator"), T("closeParen")>>,
      ExtGNU_ChooseExpression |->
        <<Ext, T("kw"), T("openParen"), N("constExpr", "Expression"), T("comma1"),
          N("expr1", "Expression"), T("comma2"), N("expr2", "Expression"), T("closeParen")>>,
      ExtGNU_ComplexValuedExpression |-> <<Ext, T("oprtr"), N("expr", "Expression")>> ]

-----------------------------------------------------------------------------
(* Statements                                                              *)

SimpleShapes ==
    [ LabeledStatement |->
        <<T("label"), Opt(N("expr", "Expression")), T("colon"), N("stmt", "Statement")>>,
      CompoundStatement |->
        <<T("openBrace"), Opt(L("stmts", "Statement")), T("closeBrace")>>,
      DeclarationStatement |-> <<N("decl", "Declaration")>>,
      ExpressionStatement |-> <<Opt(N("expr", "Expression")), T("semicolon")>>,
      AmbiguousExpressionOrDeclarationStatement |->
        <<N("declStmt", "DeclarationStatement"), N("exprStmt", "ExpressionStatement")>> ]

BranchShapes ==
    [ IfStatement |->
        <<T("ifKw"), T("openParen"), N("cond", "Expression"), T("closeParen"),
          N("stmt", "Statement"), With("else", T("elseKw")),
          With("else", N("elseStmt", "Statement"))>>,
      SwitchStatement |->
        <<T("switchKw"), T("openParen"), N("cond", "Expression"), T("closeParen"),
          N("stmt", "Statement")>> ]

LoopShapes ==
    [ WhileStatement |->
        <<T("whileKw"), T("openParen"), N("cond", "Expression"), T("closeParen"),
          N("stmt", "Statement")>>,
      DoStatement |->
        <<T("doKw"), N("stmt", "Statement"), T("whileKw"), T("openParen"),
          N("cond", "Expression"), T("closeParen"), T("semicolon")>>,
      ForStatement |->
        <<T("forKw"), T("openParen"), Opt(T("extKw")), N("initStmt", "ForInit"),
          Opt(N("cond", "Expression")), T("semicolon"), Opt(N("expr", "Expression")),
          T("closeParen"), N("stmt", "Statement")>> ]

JumpShapes ==
    [ GotoStatement |-> <<T("gotoKw"), T("ident"), T("semicolon")>>,
      ContinueStatement |-> <<T("continueKw"), T("semicolon")>>,
      BreakStatement |-> <<T("breakKw"), T("semicolon")>>,
      ReturnStatement |-> <<T("returnKw"), Opt(N("expr", "Expression")), T("semicolon")>> ]

AsmShapes ==
    [ ExtGNU_AsmOperand |->
        <<With("name", T("openBracket")), With("name", N("identExpr", "IdentifierName")),
          With("name", T("closeBracket")), N("strLit", "StringLiteral"), T("openParen"),
          N("expr", "Expression"), T("closeParen")>>,
      ExtGNU_AsmStatement |->
        <<T("asmKw"), Opt(L("asmQuals", "ExtGNU_AsmQualifier")), T("openParen"),
          N("strLit", "StringLiteral"),
          With("oprds", T("colon1")), With("oprds", S("outOprds", "ExtGNU_AsmOperand")),
          With("oprds", T("colon2")), With("oprds", S("inOprds", "ExtGNU_AsmOperand")),
          With("oprds", T("colon3")), With("oprds", S("clobs", "StringLiteral")),
          With("oprds", T("colon4")), With("oprds", S("labels", "IdentifierName")),
          T("closeParen"), T("semicolon")>>,
      ExtGNU_AsmQualifier |-> Trivial ]

\* Of each class, its parts in order.
Shape ==
    CommonShapes @@ SpecifierShapes @@ ExtensionSpecifierShapes @@ DeclaratorShapes
    @@ SuffixShapes @@ DeclarationShapes @@ ValueDeclarationShapes @@ OtherDeclarationShapes
    @@ InitializerShapes @@ PrimaryShapes @@ SelectionShapes @@ PostfixShapes @@ MemberShapes
    @@ OperationShapes @@ BuiltinShapes @@ SimpleShapes @@ BranchShapes @@ LoopShapes
    @@ JumpShapes @@ AsmShapes

Fields(shape) == [i \in DOMAIN shape |-> shape[i].field]

-----------------------------------------------------------------------------

\* Mutant: the base's children are put behind the class's own.
Children_OwnFirst(kind, shape) ==
    LET fields == Fields(shape)
    IN  IF fields # <<>> /\ fields[1] = "extKw" THEN Append(Tail(fields), "extKw") ELSE fields

\* childNodesAndTokens: what the class declares, behind what its base declares,
\* the extension keyword.  Not every class declares all that it has.
Children(kind, shape) ==
    CASE kind \in {"CastExpression", "ConditionalExpression", "AmbiguousCastOrBinaryExpression"} ->
            <<"extKw">>
      [] kind \in {"GotoStatement", "ExtGNU_AsmStatement", "ExtGNU_AsmOperand"} -> <<>>
      [] kind = "StringLiteralExpression" -> <<"extKw", "lit">>
      [] kind = "VAArgumentExpression" -> <<"extKw", "expr", "typeName">>
      [] kind = "ParameterSuffix" -> <<"openParen", "decls", "ellipsis", "closeParen">>
      [] kind = "BitfieldDeclarator" -> <<"innerDecltor", "colon", "expr", "expr">>
      [] OTHER -> Fields(shape)
=============================================================================
