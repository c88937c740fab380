----------------------------- MODULE Disambiguator -----------------------------
(***************************************************************************)
(* The visitor that replaces ambiguous nodes by one of their readings, by  *)
(* correlation with the names of the catalog.                              *)
(*                                                                         *)
(* An ambiguous node is replaced in the place that holds it, so it must be *)
(* met by one of the three visitMaybeAmbiguous routines; the handlers say  *)
(* which of their children are given to these.                             *)
(***************************************************************************)
EXTENDS NameCatalog

VARIABLE pendingAmbigs

-----------------------------------------------------------------------------
(* The handlers.                                                           *)

MaybeExpression(n, at) == Call(n, "maybeAmbiguousExpression", at)
MaybeStatement(n, at) == Call(n, "maybeAmbiguousStatement", at)
MaybeTypeReference(n, at) == Call(n, "maybeAmbiguousTypeReference", at)

(* Kinds whose handlers make the same calls.                               *)
HandlesExpression ==
  {"StaticAssertDeclaration", "SubscriptSuffix", "ExpressionInitializer",
   "ArrayDesignator", "ParenthesizedExpression", "PrefixUnaryExpression",
   "PostfixUnaryExpression", "MemberAccessExpression",
   "ArraySubscriptExpression", "CallExpression", "VAArgumentExpression",
   "ExpressionStatement", "ReturnStatement", "ExtGNU_AsmOperand",
   "ExpressionAsTypeReference"}
HandlesExpressionAfterTypeName == {"CastExpression", "GenericAssociation"}
HandlesOperands ==
  {"BinaryExpression", "AssignmentExpression", "SequencingExpression"}
HandlesTypeReference ==
  {"AlignmentSpecifier", "ExtGNU_Typeof", "TypeTraitExpression"}
(* Mutant: a statement that has no handler.                              *)
HandlesExpressionAndStatement_NotDo == {"SwitchStatement", "WhileStatement"}
HandlesExpressionAndStatement ==
  {"SwitchStatement", "WhileStatement", "DoStatement"}
Skipped ==
  {"DeclarationStatement", "ExtGNU_ComplexValuedExpression"}
    \cup AmbiguousKinds

(* The calls of the handler of the node n.                                 *)
Handler(n) ==
  LET k == tree[n].kind
  IN  CASE k \in HandlesExpression -> <<MaybeExpression(n, 1)>>
        [] k \in HandlesExpressionAfterTypeName -> <<MaybeExpression(n, 2)>>
        [] k \in HandlesOperands ->
             <<MaybeExpression(n, 1), MaybeExpression(n, 2)>>
        [] k \in HandlesTypeReference -> <<MaybeTypeReference(n, 1)>>
        [] k \in HandlesExpressionAndStatement ->
             <<MaybeExpression(n, 1), MaybeStatement(n, 2)>>
        [] k \in Skipped -> <<>>
        [] k = "ConditionalExpression" ->
             <<MaybeExpression(n, 1), MaybeExpression(n, 2),
               MaybeExpression(n, 3)>>
        [] k = "ExtGNU_ChooseExpression" ->
             <<MaybeExpression(n, 2), MaybeExpression(n, 3)>>
        [] k = "GenericSelectionExpression" ->
             [VisitAll(n, "visit") EXCEPT ![1] = MaybeExpression(n, 1)]
        [] k = "LabeledStatement" -> <<MaybeStatement(n, 2)>>
        [] k = "IfStatement" ->
             <<MaybeExpression(n, 1), MaybeStatement(n, 2),
               MaybeStatement(n, 3)>>
        [] k = "ForStatement" ->
             <<Visit(n, 1), MaybeExpression(n, 2), MaybeExpression(n, 3),
               MaybeStatement(n, 4)>>
        [] k = "CompoundStatement" ->
             VisitAll(n, "maybeAmbiguousStatement")
        [] k = "TranslationUnit" -> Append(VisitAll(n, "visit"), ExitLevel)
        [] OTHER -> visitChildren(n)

(* A node has the children that its handler names.                         *)
HasChildren(t, n) ==
  LET k == t[n].kind
      arity == Len(t[n].kids)
  IN  /\ k \in HandlesExpression \cup HandlesTypeReference
               \cup {"IdentifierDeclarator", "GenericSelectionExpression"}
           => arity >= 1
      /\ k \in HandlesExpressionAfterTypeName \cup HandlesOperands
               \cup HandlesExpressionAndStatement \cup {"LabeledStatement"}
           => arity >= 2
      /\ k \in {"ConditionalExpression", "ExtGNU_ChooseExpression",
                "IfStatement"} => arity >= 3
      /\ k = "ForStatement" => arity >= 4
      /\ k \in AmbiguousExpressions =>
           Len(t[t[n].kids[ExpressionReading]].kids) >= 2
      /\ k \in AmbiguousStatements =>
           LET stmt == t[n].kids[ExpressionReading]
           IN  /\ Len(t[stmt].kids) >= 1
               /\ t[stmt].kids[1] # Null
               /\ Len(t[t[stmt].kids[1]].kids) >= 2

ASSUME ChildrenAssumption ==
  \A t \in Trees : \A n \in 1 .. Len(t) : HasChildren(t, n)

-----------------------------------------------------------------------------
(* SyntaxCorrelationDisambiguator: what the catalog says of an ambiguous   *)
(* node.  A name that is known both as a type and as something else is     *)
(* taken as a type.                                                        *)

(* Mutant: the set of names is asked first.                              *)
Disambiguation_NamesFirst(n) ==
  CASE containsName(tree[n].name) -> "expression"
    [] ~containsName(tree[n].name) /\ containsTypeName(tree[n].name) -> "type"
    [] OTHER -> "inconclusive"
Disambiguation(n) ==
  CASE containsTypeName(tree[n].name) -> "type"
    [] /\ ~containsTypeName(tree[n].name)
       /\ containsName(tree[n].name) -> "expression"
    [] OTHER -> "inconclusive"

(* The answers that the routine named how can act upon.  Of the answers    *)
(* "expression" it lists KeepExpressionStatement only, which just          *)
(* disambiguateStatement gives: after KeepBinaryExpression or              *)
(* KeepExpression it returns.                                              *)
ActsUpon(how) ==
  IF how = "maybeAmbiguousStatement" THEN {"type", "expression"} ELSE {"type"}

KindsFor(how) ==
  CASE how = "maybeAmbiguousExpression" -> AmbiguousExpressions
    [] how = "maybeAmbiguousStatement" -> AmbiguousStatements
    [] how = "maybeAmbiguousTypeReference" -> AmbiguousTypeReferences
    [] OTHER -> {}

ReadingFor(disambig) ==
  IF disambig = "type" THEN TypeReading ELSE ExpressionReading

Disambiguating(c) ==
  /\ stage = "disambiguating"
  /\ c = Head(todo)

IsMaybe(c) == c.how \notin {"visit", "exitLevel"}

(* The place holds an ambiguous node that the routine looks for.           *)
AtAmbiguity(c, n) ==
  /\ Disambiguating(c)
  /\ IsMaybe(c)
  /\ n = Child(c)
  /\ n # Null
  /\ tree[n].kind \in KindsFor(c.how)

(* The catalog is asked.                                                   *)
Asked(c, n) == AtAmbiguity(c, n) /\ HasLevel

(* The place is overwritten, and visited again with what it now holds.     *)
Keep(c, n) ==
  /\ Asked(c, n)
  /\ Disambiguation(n) \in ActsUpon(c.how)
  /\ tree' = [tree EXCEPT ![c.of].kids[c.at] =
                tree[n].kids[ReadingFor(Disambiguation(n))]]
  /\ Calls(<<Visit(c.of, c.at)>>)
  /\ UNCHANGED <<catalogVars, pendingAmbigs, stage>>

(* Mutant: not counted.                                                  *)
Inconclusive_NotCounted(c, n) ==
  /\ Asked(c, n)
  /\ Disambiguation(n) = "inconclusive"
  /\ Calls(<<>>)
  /\ UNCHANGED <<tree, catalogVars, pendingAmbigs, stage>>
Inconclusive(c, n) ==
  /\ Asked(c, n)
  /\ Disambiguation(n) = "inconclusive"
  /\ pendingAmbigs' = pendingAmbigs + 1
  /\ Calls(<<>>)
  /\ UNCHANGED <<tree, catalogVars, stage>>

(* PSY_ESCAPE_VIA_RETURN                                                   *)
Escape(c, n) ==
  /\ Asked(c, n)
  /\ Disambiguation(n) \notin ActsUpon(c.how) \cup {"inconclusive"}
  /\ Calls(<<>>)
  /\ UNCHANGED <<tree, catalogVars, pendingAmbigs, stage>>

(* The three routines look at the kind of the node before anything else:   *)
(* if there is no node, through a null pointer.                            *)
NullDereference(c) ==
  /\ Disambiguating(c)
  /\ IsMaybe(c)
  /\ Child(c) = Null
  /\ stage' = "undefined"
  /\ UNCHANGED <<tree, todo, catalogVars, pendingAmbigs>>

(* Mutant: a visit that looks at the node before it tests it.            *)
Disambiguate_Null_NotTested(c) ==
  /\ Disambiguating(c)
  /\ c.how = "visit"
  /\ Child(c) = Null
  /\ stage' = "undefined"
  /\ UNCHANGED <<tree, todo, catalogVars, pendingAmbigs>>
Disambiguate_Null(c) ==
  /\ Disambiguating(c)
  /\ c.how = "visit"
  /\ Child(c) = Null
  /\ Calls(<<>>)
  /\ UNCHANGED <<tree, catalogVars, pendingAmbigs, stage>>

(* A node that is not one of the ambiguous ones the routine looks for is   *)
(* visited.                                                                *)
Disambiguate_Node(c, n) ==
  /\ Disambiguating(c)
  /\ c.how # "exitLevel"
  /\ n = Child(c)
  /\ n # Null
  /\ tree[n].kind \notin KindsFor(c.how)
  /\ Calls(Handler(n))
  /\ IF tree[n].kind = "TranslationUnit" THEN enterLevel(n)
                                         ELSE UNCHANGED catalogVars
  /\ UNCHANGED <<tree, pendingAmbigs, stage>>

Disambiguate_ExitLevel(c) ==
  /\ Disambiguating(c)
  /\ c.how = "exitLevel"
  /\ exitLevel
  /\ Calls(<<>>)
  /\ UNCHANGED <<tree, pendingAmbigs, stage>>

(* Without a level the question to the catalog is put through a null       *)
(* pointer.                                                                *)
Disambiguate_NoLevel(c, n) ==
  /\ AtAmbiguity(c, n)
  /\ ~HasLevel
  /\ stage' = "undefined"
  /\ UNCHANGED <<tree, todo, catalogVars, pendingAmbigs>>

DisambiguateStep == todo # <<>> /\
  \E c \in {Head(todo)} :
     \/ NullDereference(c)
     \/ Disambiguate_Null(c)
     \/ Disambiguate_ExitLevel(c)
     \/ \E n \in {Child(c)} :
           \/ Keep(c, n)
           \/ Inconclusive(c, n)
           \/ Escape(c, n)
           \/ Disambiguate_NoLevel(c, n)
           \/ Disambiguate_Node(c, n)
================================================================================
