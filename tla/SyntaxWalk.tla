------------------------------ MODULE SyntaxWalk ------------------------------
(***************************************************************************)
(* Syntax trees, and the walk of a visitor over one of them.               *)
(*                                                                         *)
(* A tree is a table of nodes; a node has a kind, the name that it spells  *)
(* if it spells one, and its children, in the order in which the visitors  *)
(* name them.  Node 1 is the SyntaxTree object, whose only child is the    *)
(* root.  The two readings of an ambiguous node may share nodes.           *)
(*                                                                         *)
(* todo is the call stack of the visitors, seen as the calls left to make: *)
(* its head is the call made next.  A call is given a place of the tree, a *)
(* child of a node, rather than a node: the disambiguator writes to it.    *)
(***************************************************************************)
EXTENDS Naturals, Sequences, FiniteSets

CONSTANTS
  Trees,   \* the trees that the parser hands over
  Names,   \* what identifiers spell
  NoName   \* the name of a node that spells none

Null == 0
Holder == 1

AmbiguousExpressions == {"AmbiguousCastOrBinaryExpression"}
AmbiguousStatements == {"AmbiguousMultiplicationOrPointerDeclaration",
                        "AmbiguousCallOrVariableDeclaration"}
AmbiguousTypeReferences == {"AmbiguousTypeNameOrExpressionAsTypeReference"}
AmbiguousKinds ==
  AmbiguousExpressions \cup AmbiguousStatements \cup AmbiguousTypeReferences

(* The children of an ambiguous node: what it is if its name is a type,    *)
(* and what it is if its name is an expression.                            *)
TypeReading == 1
ExpressionReading == 2

(* Nodes whose class declares no child: a visitor that does not handle     *)
(* them goes no further.                                                   *)
Childless == AmbiguousExpressions \cup
  {"CastExpression", "ConditionalExpression", "ExtGNU_AsmStatement",
   "ExtGNU_AsmOperand"}

(* Nodes that spell a name.                                                *)
NamingKinds == {"TypedefName", "IdentifierDeclarator", "IdentifierName"}

Readings(t, n) == {t[n].kids[TypeReading], t[n].kids[ExpressionReading]}

Nodes == [kind : STRING, name : Names \cup {NoName}, kids : Seq(Nat)]

IsTree(t) ==
  /\ t \in Seq(Nodes)
  /\ Len(t) > 0
  /\ Len(t[Holder].kids) = 1
  /\ t[Holder].kind = "SyntaxTree"
  /\ \A n \in 1 .. Len(t) :
        /\ \A i \in 1 .. Len(t[n].kids) : t[n].kids[i] \in 0 .. Len(t)
        /\ t[n].kind \in AmbiguousKinds =>
              /\ Len(t[n].kids) = 2
              /\ Null \notin Readings(t, n)
              /\ t[n].name \in Names
        /\ t[n].kind \in NamingKinds => t[n].name \in Names
        /\ t[n].kind = "TranslationUnit" => t[Holder].kids[1] = n

ASSUME TreesAssumption == \A t \in Trees : IsTree(t)

VARIABLES
  original,  \* the tree that the parser made
  tree,      \* the tree now
  todo,      \* the calls left to make
  stage      \* how far SyntaxTree::buildFor is, see Reparser

Child(c) == tree[c.of].kids[c.at]

Ambiguous(t, c) ==
  /\ t[c.of].kids[c.at] # Null
  /\ t[t[c.of].kids[c.at]].kind \in AmbiguousKinds

(* The calls that a handler makes, for the node n that it handles.         *)
Call(n, how, at) == [how |-> how, of |-> n, at |-> at]
Visit(n, at) == Call(n, "visit", at)
VisitAll(n, how) == [i \in 1 .. Len(tree[n].kids) |-> Call(n, how, i)]
visitChildren(n) == IF tree[n].kind \in Childless THEN <<>>
                                                  ELSE VisitAll(n, "visit")

Hows == {"visit", "exitLevel", "maybeAmbiguousExpression",
         "maybeAmbiguousStatement", "maybeAmbiguousTypeReference"}
CallsOn(t) ==
  {c \in [how : Hows, of : 1 .. Len(t), at : Nat] :
     c.at \in 1 .. Len(t[c.of].kids)}

(* Marks the end of the handler of a translation unit.                     *)
ExitLevel == Call(Holder, "exitLevel", 1)

Calls(cs) == todo' = cs \o Tail(todo)
===============================================================================
