----------------------------- MODULE NameCataloger -----------------------------
(***************************************************************************)
(* The visitor that catalogues the names of a tree before any ambiguity is *)
(* resolved.  What is inside an ambiguous node is left out, as it says     *)
(* nothing about its name; but the operand on the right of a binary        *)
(* expression, and the argument of a call, are the same in both readings.  *)
(***************************************************************************)
EXTENDS NameCatalog

Cataloguing(c) ==
  /\ stage = "cataloguing"
  /\ c = Head(todo)

(* The visitor is at the node n.                                           *)
AtNode(c, n) ==
  /\ Cataloguing(c)
  /\ c.how = "visit"
  /\ n = Child(c)
  /\ n # Null

(* SyntaxVisitor::visit passes over a child that is not there.             *)
Catalog_Null(c) ==
  /\ Cataloguing(c)
  /\ c.how = "visit"
  /\ Child(c) = Null
  /\ Calls(<<>>)
  /\ UNCHANGED <<tree, catalogVars, stage>>

Catalog_TranslationUnit(c, n) ==
  /\ AtNode(c, n)
  /\ tree[n].kind = "TranslationUnit"
  /\ createLevelAndEnter(n)
  /\ Calls(Append(VisitAll(n, "visit"), ExitLevel))
  /\ UNCHANGED <<tree, stage>>

Catalog_ExitLevel(c) ==
  /\ Cataloguing(c)
  /\ c.how = "exitLevel"
  /\ exitLevel
  /\ Calls(<<>>)
  /\ UNCHANGED <<tree, stage>>

(* Only a translation unit opens a level.  A name that is met without one  *)
(* is inserted through the null pointer of currentLevel.                   *)
Catalog_NoLevel(c, n) ==
  /\ AtNode(c, n)
  /\ tree[n].kind \in NamingKinds
  /\ ~HasLevel
  /\ stage' = "undefined"
  /\ UNCHANGED <<tree, todo, catalogVars>>

Catalog_TypedefName(c, n) ==
  /\ AtNode(c, n)
  /\ tree[n].kind = "TypedefName"
  /\ HasLevel
  /\ catalogTypeName(tree[n].name)
  /\ Calls(<<>>)
  /\ UNCHANGED <<tree, stage>>

(* An initializer is the only child of a declarator that is visited.       *)
Catalog_IdentifierDeclarator(c, n) ==
  /\ AtNode(c, n)
  /\ tree[n].kind = "IdentifierDeclarator"
  /\ HasLevel
  /\ catalogName(tree[n].name)
  /\ Calls(<<Visit(n, 1)>>)
  /\ UNCHANGED <<tree, stage>>

Catalog_IdentifierName(c, n) ==
  /\ AtNode(c, n)
  /\ tree[n].kind = "IdentifierName"
  /\ HasLevel
  /\ catalogName(tree[n].name)
  /\ Calls(<<>>)
  /\ UNCHANGED <<tree, stage>>

Catalog_AmbiguousTypeReference(c, n) ==
  /\ AtNode(c, n)
  /\ tree[n].kind \in AmbiguousTypeReferences
  /\ Calls(<<>>)
  /\ UNCHANGED <<tree, catalogVars, stage>>

Catalog_AmbiguousExpression(c, n) ==
  /\ AtNode(c, n)
  /\ tree[n].kind \in AmbiguousExpressions
  /\ Calls(<<Visit(tree[n].kids[ExpressionReading], 2)>>)
  /\ UNCHANGED <<tree, catalogVars, stage>>

(* The expression of the statement is a product or a call: the right       *)
(* operand is the second child of the one, the first argument of the       *)
(* other.                                                                  *)
Catalog_AmbiguousStatement(c, n) ==
  /\ AtNode(c, n)
  /\ tree[n].kind \in AmbiguousStatements
  /\ Calls(<<Visit(tree[tree[n].kids[ExpressionReading]].kids[1], 2)>>)
  /\ UNCHANGED <<tree, catalogVars, stage>>

(* Every other node: its children are visited.                             *)
Catalog_Children(c, n) ==
  /\ AtNode(c, n)
  /\ tree[n].kind \notin NamingKinds \cup AmbiguousKinds \cup {"TranslationUnit"}
  /\ Calls(visitChildren(n))
  /\ UNCHANGED <<tree, catalogVars, stage>>

CatalogStep == todo # <<>> /\
  \E c \in {Head(todo)} :
     \/ Catalog_Null(c)
     \/ Catalog_ExitLevel(c)
     \/ \E n \in {Child(c)} :
           \/ Catalog_TranslationUnit(c, n)
           \/ Catalog_NoLevel(c, n)
           \/ Catalog_TypedefName(c, n)
           \/ Catalog_IdentifierDeclarator(c, n)
           \/ Catalog_IdentifierName(c, n)
           \/ Catalog_AmbiguousTypeReference(c, n)
           \/ Catalog_AmbiguousExpression(c, n)
           \/ Catalog_AmbiguousStatement(c, n)
           \/ Catalog_Children(c, n)
================================================================================
