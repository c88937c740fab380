------------------------------ MODULE MCReparser ------------------------------
(***************************************************************************)
(* Instances of Reparser.  Trees are put together bottom-up, in the shapes *)
(* that the parser gives them: a part is a table of nodes whose root is    *)
(* its first one, and the empty part is a child that is not there.         *)
(***************************************************************************)
EXTENDS Reparser, SequencesExt

Absent == <<>>

ShiftBy(part, d) ==
  [i \in 1 .. Len(part) |->
     [part[i] EXCEPT !.kids =
        [j \in 1 .. Len(part[i].kids) |->
           IF part[i].kids[j] = 0 THEN 0 ELSE part[i].kids[j] + d]]]

RECURSIVE Before(_, _)
Before(parts, i) == IF i = 1 THEN 1 ELSE Before(parts, i - 1) + Len(parts[i - 1])

Named(kind, name, parts) ==
  LET at(i) == Before(parts, i)
  IN  <<[kind |-> kind, name |-> name,
         kids |-> [i \in 1 .. Len(parts) |->
                     IF parts[i] = Absent THEN 0 ELSE at(i) + 1]]>>
      \o FlattenSeq([i \in 1 .. Len(parts) |-> ShiftBy(parts[i], at(i))])

Plain(kind, parts) == Named(kind, NoName, parts)
In(kind, parts) == {Plain(kind, <<p>>) : p \in parts}

-----------------------------------------------------------------------------
(* What the parser makes of x, 1, * x, (x) - e, x * y; x(y); sizeof(x).    *)

Id(x) == Named("IdentifierName", x, <<>>)
TypeId(x) == Named("TypedefName", x, <<>>)
Decl(x, init) == Named("IdentifierDeclarator", x, <<init>>)
One == Plain("ConstantExpression", <<>>)
Paren(e) == Plain("ParenthesizedExpression", <<e>>)
Expr(e) == Plain("ExpressionStatement", <<e>>)
VarDecl(spec, d) == Plain("VariableAndOrFunctionDeclaration", <<spec, d>>)
IntVar(x, init) == VarDecl(Plain("BuiltinTypeSpecifier", <<>>), Decl(x, init))
TypeUse(x) == VarDecl(TypeId(x), Decl("w", Absent))
DeclStmt(d) == Plain("DeclarationStatement", <<d>>)
Block(ss) == Plain("CompoundStatement", ss)

(* The operand on the right is one node, shared by the two readings.       *)
CastOrBinary(x, e) ==
  LET node(kind, name, kids) == [kind |-> kind, name |-> name, kids |-> kids]
  IN  <<node("AmbiguousCastOrBinaryExpression", x, <<2, 6>>),
        node("CastExpression", NoName, <<3, 5>>),
        node("TypeName", NoName, <<4>>),
        node("TypedefName", x, <<>>),
        node("PrefixUnaryExpression", NoName, <<9>>),
        node("BinaryExpression", NoName, <<7, 9>>),
        node("ParenthesizedExpression", NoName, <<8>>),
        node("IdentifierName", x, <<>>)>> \o ShiftBy(e, 8)

ProductOrPointer(x, y) ==
  Named("AmbiguousMultiplicationOrPointerDeclaration", x,
        <<DeclStmt(VarDecl(TypeId(x),
                           Plain("PointerDeclarator", <<Decl(y, Absent)>>))),
          Expr(Plain("BinaryExpression", <<Id(x), Id(y)>>))>>)

CallOrVariable(x, y) ==
  Named("AmbiguousCallOrVariableDeclaration", x,
        <<DeclStmt(VarDecl(TypeId(x),
                           Plain("ParenthesizedDeclarator", <<Decl(y, Absent)>>))),
          Expr(Plain("CallExpression", <<Id(x), Id(y)>>))>>)

SizeOf(x) ==
  Plain("TypeTraitExpression",
        <<Named("AmbiguousTypeNameOrExpressionAsTypeReference", x,
                <<Plain("TypeNameAsTypeReference",
                        <<Plain("TypeName", <<TypeId(x)>>)>>),
                  Plain("ExpressionAsTypeReference", <<Paren(Id(x))>>)>>)>>)

Root(part) == Plain("SyntaxTree", <<part>>)
File(decls) == Root(Plain("TranslationUnit", decls))
Function(body) ==
  Plain("FunctionDefinition",
        <<Plain("FunctionDeclarator", <<Decl("f", Absent)>>), body>>)

(* A text says of a name that it is a type, that it is not, both, nothing; *)
(* before or after the function that uses the name.                        *)
Evidence(x) == {<<>>, <<TypeUse(x)>>, <<IntVar(x, Absent)>>,
                <<TypeUse(x), IntVar(x, Absent)>>}
Texts(decls) ==
  {File(e \o d) : e \in Evidence("x"), d \in {<<d>> : d \in decls}}
    \cup {File(d \o e) : e \in Evidence("x"), d \in {<<d>> : d \in decls}}
Bodies(stmts) == {Function(Block(<<s>>)) : s \in stmts}

-----------------------------------------------------------------------------
(* Statements that hold ambiguous ones, in every place for a statement     *)
(* that a handler looks at.                                                *)
AmbiguousStmts == {ProductOrPointer("x", "y"), CallOrVariable("x", "y"),
                   ProductOrPointer("y", "x")}
Harmless == Expr(One)
Nested(ss) ==
  ss \cup
  UNION {{Block(<<s, ProductOrPointer("x", "y")>>),
          Plain("IfStatement", <<One, s, Harmless>>),
          Plain("IfStatement", <<One, Harmless, s>>),
          Plain("WhileStatement", <<Id("y"), s>>),
          Plain("DoStatement", <<One, s>>),
          Plain("SwitchStatement", <<One, Plain("LabeledStatement", <<One, s>>)>>),
          Plain("ForStatement", <<Harmless, One, One, s>>),
          Plain("ForStatement", <<Absent, One, One, s>>)} : s \in ss}
StatementTrees == Texts(Bodies(Nested(Nested(AmbiguousStmts))))
ShallowTrees == Texts(Bodies(Nested(AmbiguousStmts)))

(* Expressions that hold ambiguous ones, in every place for an expression  *)
(* that a handler looks at.                                                *)
AmbiguousExprs == {CastOrBinary("x", One), CastOrBinary("x", Id("y")),
                   CastOrBinary("x", CastOrBinary("y", One)), SizeOf("x")}
Around(es) ==
  UNION {{Paren(e), Plain("PrefixUnaryExpression", <<e>>),
          Plain("PostfixUnaryExpression", <<Paren(e)>>),
          Plain("BinaryExpression", <<e, One>>),
          Plain("BinaryExpression", <<One, e>>),
          Plain("AssignmentExpression", <<Id("y"), e>>),
          Plain("SequencingExpression", <<e, One>>),
          Plain("ConditionalExpression", <<e, One, One>>),
          Plain("ConditionalExpression", <<One, e, e>>),
          Plain("CastExpression",
                <<Plain("TypeName", <<Plain("BuiltinTypeSpecifier", <<>>)>>), e>>),
          Plain("CallExpression", <<Paren(e), One>>),
          Plain("ArraySubscriptExpression", <<Paren(e), One>>),
          Plain("MemberAccessExpression", <<Paren(e), Id("m")>>),
          Plain("VAArgumentExpression",
                <<e, Plain("TypeName", <<Plain("BuiltinTypeSpecifier", <<>>)>>)>>),
          Plain("ExtGNU_ChooseExpression", <<One, e, e>>),
          Plain("GenericSelectionExpression",
                <<e, Plain("GenericAssociation",
                           <<Plain("DefaultExpression", <<>>), e>>)>>),
          Plain("ExtGNU_EnclosedCompoundStatementExpression",
                <<Block(<<Expr(e)>>)>>)} : e \in es}
StatementsOf(e) ==
  {Expr(e), Plain("ReturnStatement", <<e>>),
   Plain("IfStatement", <<e, Harmless, Harmless>>),
   Plain("WhileStatement", <<e, Harmless>>),
   Plain("DoStatement", <<e, Harmless>>),
   Plain("SwitchStatement", <<e, Harmless>>),
   Plain("ForStatement", <<Expr(e), e, e, Harmless>>),
   Plain("ExtGNU_AsmStatement", <<Plain("ExtGNU_AsmOperand", <<One>>)>>)}
DeclarationsOf(e) ==
  {IntVar("w", Plain("ExpressionInitializer", <<e>>)),
   VarDecl(Plain("AlignmentSpecifier",
                 <<Plain("ExpressionAsTypeReference", <<e>>)>>), Decl("w", Absent)),
   VarDecl(Plain("ExtGNU_Typeof",
                 <<Plain("ExpressionAsTypeReference", <<e>>)>>), Decl("w", Absent)),
   VarDecl(Plain("BuiltinTypeSpecifier", <<>>),
           Plain("ArrayDeclarator", <<Decl("w", Absent),
                                      Plain("SubscriptSuffix", <<e>>)>>)),
   IntVar("w", Plain("BraceEnclosedInitializer",
                     <<Plain("DesignatedInitializer",
                             <<Plain("ArrayDesignator", <<e>>),
                               Plain("ExpressionInitializer", <<e>>)>>)>>)),
   Plain("StaticAssertDeclaration", <<e>>)}

ExpressionDecls ==
  Bodies(UNION {StatementsOf(e) : e \in AmbiguousExprs \cup Around(AmbiguousExprs)})
    \cup UNION {DeclarationsOf(e) : e \in AmbiguousExprs}
ExpressionTrees == Texts(ExpressionDecls)

-----------------------------------------------------------------------------
(* What the text says, by following every child of every node.             *)

RECURSIVE Spelled(_, _, _)
Spelled(t, n, kinds) ==
  IF n = Null THEN {}
  ELSE CASE t[n].kind \in AmbiguousExpressions ->
              Spelled(t, t[t[n].kids[ExpressionReading]].kids[2], kinds)
         [] t[n].kind \in AmbiguousStatements ->
              Spelled(t, t[t[t[n].kids[ExpressionReading]].kids[1]].kids[2], kinds)
         [] t[n].kind \in AmbiguousTypeReferences -> {}
         [] OTHER -> {t[n].name : k \in kinds \cap {t[n].kind}}
                       \cup UNION {Spelled(t, m, kinds) : m \in ToSet(t[n].kids)}

TypesIn(t) == Spelled(t, Holder, {"TypedefName"})
NamesIn(t) == Spelled(t, Holder, {"IdentifierName", "IdentifierDeclarator"})

(* The places of a tree that are not below an ambiguous node.              *)
RECURSIVE Places(_, _)
Places(t, n) ==
  IF n = Null \/ t[n].kind \in AmbiguousKinds THEN {}
  ELSE {[of |-> n, at |-> i] : i \in 1 .. Len(t[n].kids)}
         \cup UNION {Places(t, m) : m \in ToSet(t[n].kids)}

(* What should be in a place that held an ambiguous node.                  *)
Said(t, c) ==
  LET n == t[c.of].kids[c.at]
  IN  CASE t[n].name \in TypesIn(t) -> t[n].kids[TypeReading]
        [] t[n].name \in NamesIn(t) \ TypesIn(t) -> t[n].kids[ExpressionReading]
        [] OTHER -> n

(* The trees that the reparser is able to treat: with every child and      *)
(* every ambiguity where a handler looks for it, and no evidence for a     *)
(* reading as a binary expression or as the operand of sizeof, which the   *)
(* reparser never keeps.                                                   *)
NeedsBinary(t) ==
  \E n \in AmbiguousNodes(t) :
     /\ t[n].kind \in AmbiguousExpressions \cup AmbiguousTypeReferences
     /\ t[n].name \in NamesIn(t) \ TypesIn(t)
Resolvable == {t \in StatementTrees \cup ExpressionTrees : ~NeedsBinary(t)}
IsResolved == original \in Resolvable /\ IsDisambiguated

(* Every ambiguity, wherever it is and whatever is around it, is resolved  *)
(* as the rest of the text says, and only then.                            *)
DisambiguatedAsTheTextSays ==
  IsResolved =>
    \A c \in Places(tree, Holder) :
      tree[c.of].kids[c.at] = IF Ambiguous(original, c) THEN Said(original, c)
                              ELSE original[c.of].kids[c.at]

(* disambiguate() returns how many ambiguities are left in the tree.       *)
PendingIsWhatIsLeft ==
  IsResolved =>
    pendingAmbigs =
      Cardinality({c \in Places(tree, Holder) : Ambiguous(tree, c)})

-----------------------------------------------------------------------------
(* Trees with children that the parser leaves out, with other roots, and   *)
(* with ambiguities in places that no handler looks at.                    *)
Incomplete ==
  {Plain("IfStatement", <<One, Harmless, Absent>>),
   Plain("ReturnStatement", <<Absent>>),
   Plain("ForStatement", <<Absent, Absent, Absent, Harmless>>)}
IncompleteTrees ==
  {File(<<Function(Block(<<s, ProductOrPointer("x", "y")>>)), TypeUse("x")>>) :
     s \in Incomplete}

Roots == {Root(CastOrBinary("x", One)), Root(Paren(CastOrBinary("x", One))),
          Root(Block(<<CallOrVariable("x", "y")>>))}

Argument == Plain("CallExpression", <<Id("y"), CastOrBinary("x", One)>>)
Unvisited ==
  Bodies({Expr(Argument),
          Expr(Plain("ArraySubscriptExpression",
                     <<Id("y"), CastOrBinary("x", One)>>)),
          DeclStmt(IntVar("w", Plain("ExpressionInitializer",
                                     <<CastOrBinary("x", One)>>))),
          Plain("ForStatement", <<ProductOrPointer("x", "y"), One, One,
                                  Harmless>>)})
AllTrees == ShallowTrees \cup ExpressionTrees \cup IncompleteTrees \cup Roots
              \cup Texts(Unvisited)

ReparsedTrees == AllTrees \cup Resolvable

(* A translation unit with every child in its place is built, however its  *)
(* ambiguities are treated, wherever they are and whether or not they can  *)
(* be resolved (SyntaxTree.cpp, buildFor).                                 *)
CompleteUnitsAreBuilt ==
  original \notin IncompleteTrees \cup Roots => ReparseReturns

TheNames == {"f", "m", "w", "x", "y"}

===============================================================================
