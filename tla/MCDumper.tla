------------------------------ MODULE MCDumper ------------------------------
(***************************************************************************)
(* The dumper over trees: every class with every choice of its optional    *)
(* parts, and in each of its parts every class that may stand there.       *)
(***************************************************************************)
EXTENDS Dumper, Functions, SequencesExt

CONSTANT Roots      \* the classes of the roots of the trees

Specifiers ==
    {"StorageClass", "BuiltinTypeSpecifier", "TypeQualifier", "FunctionSpecifier",
     "TagTypeSpecifier", "AtomicTypeSpecifier", "AlignmentSpecifier", "ExtGNU_Typeof",
     "TypedefName", "TypeDeclarationAsSpecifier", "ExtPSY_QuantifiedTypeSpecifier"}
Attributes == {"ExtGNU_AttributeSpecifier", "ExtGNU_AsmLabel"}
Declarators ==
    {"IdentifierDeclarator", "ParenthesizedDeclarator", "PointerDeclarator",
     "ArrayOrFunctionDeclarator"}
TypeDeclarations == {"StructOrUnionDeclaration", "EnumDeclaration"}
Declarations ==
    TypeDeclarations \cup
    {"IncompleteDeclaration", "VariableAndOrFunctionDeclaration", "StaticAssertDeclaration",
     "FunctionDefinition", "ExtGNU_AsmStatementDeclaration", "ExtPSY_TemplateDeclaration"}
Expressions ==
    {"ConstantExpression", "StringLiteralExpression", "IdentifierName", "PredefinedName",
     "ParenthesizedExpression", "GenericSelectionExpression",
     "ExtGNU_EnclosedCompoundStatementExpression", "ExtGNU_ComplexValuedExpression",
     "PrefixUnaryExpression", "PostfixUnaryExpression", "MemberAccessExpression",
     "ArraySubscriptExpression", "TypeTraitExpression", "CastExpression", "CallExpression",
     "VAArgumentExpression", "OffsetOfExpression", "CompoundLiteralExpression",
     "BinaryExpression", "AssignmentExpression", "SequencingExpression",
     "ConditionalExpression", "ExtGNU_ChooseExpression"}
Statements ==
    {"CompoundStatement", "DeclarationStatement", "ExpressionStatement", "LabeledStatement",
     "IfStatement", "SwitchStatement", "WhileStatement", "DoStatement", "ForStatement",
     "GotoStatement", "ContinueStatement", "BreakStatement", "ReturnStatement",
     "ExtGNU_AsmStatement"}

\* What may stand in a part, the first by default.
Sorts ==
    [ Specifier |-> [default |-> "BuiltinTypeSpecifier", all |-> Specifiers],
      Attribute |-> [default |-> "ExtGNU_AttributeSpecifier", all |-> Attributes],
      Qualifier |-> [default |-> "TypeQualifier",
                     all |-> {"TypeQualifier", "ExtGNU_AttributeSpecifier"}],
      Member |-> [default |-> "FieldDeclaration",
                  all |-> {"FieldDeclaration", "EnumeratorDeclaration",
                           "StaticAssertDeclaration"} \cup TypeDeclarations],
      Declarator |-> [default |-> "IdentifierDeclarator", all |-> Declarators],
      AbstractDeclarator |-> [default |-> "AbstractDeclarator",
                              all |-> {"AbstractDeclarator"} \cup Declarators],
      ParameterDeclarator |-> [default |-> "AbstractDeclarator",
                               all |-> {"AbstractDeclarator"} \cup Declarators],
      MemberDeclarator |-> [default |-> "IdentifierDeclarator",
                            all |-> {"BitfieldDeclarator"} \cup Declarators],
      Function |-> [default |-> "ArrayOrFunctionDeclarator",
                    all |-> {"ArrayOrFunctionDeclarator", "PointerDeclarator"}],
      Suffix |-> [default |-> "ParameterSuffix", all |-> {"ParameterSuffix", "SubscriptSuffix"}],
      Parameter |-> [default |-> "ParameterDeclaration", all |-> {"ParameterDeclaration"}],
      Initializer |-> [default |-> "ExpressionInitializer",
                       all |-> {"ExpressionInitializer", "BraceEnclosedInitializer",
                                "DesignatedInitializer"}],
      Designator |-> [default |-> "FieldDesignator", all |-> {"FieldDesignator", "ArrayDesignator"}],
      Declaration |-> [default |-> "VariableAndOrFunctionDeclaration", all |-> Declarations],
      TypeDeclaration |-> [default |-> "StructOrUnionDeclaration", all |-> TypeDeclarations],
      TypeReference |-> [default |-> "ExpressionAsTypeReference",
                         all |-> {"ExpressionAsTypeReference", "TypeNameAsTypeReference"}],
      Expression |-> [default |-> "IdentifierName", all |-> Expressions],
      Operand |-> [default |-> "ExpressionAsTypeReference", all |-> {"ExpressionAsTypeReference"}],
      StringLiteral |-> [default |-> "StringLiteralExpression", all |-> {"StringLiteralExpression"}],
      Statement |-> [default |-> "ExpressionStatement", all |-> Statements],
      ForInit |-> [default |-> "ExpressionStatement",
                   all |-> {"ExpressionStatement", "DeclarationStatement"}] ]

Default(sort) == IF sort \in DOMAIN Sorts THEN Sorts[sort].default ELSE sort
AllOf(sort) == IF sort \in DOMAIN Sorts THEN Sorts[sort].all ELSE {sort}

-----------------------------------------------------------------------------

Parts(kind) == Range(Shape[kind])
Reasons(kind) == {p.when : p \in Parts(kind)} \ {""}
Present(kind, reasons) == {p \in Parts(kind) : p.when \in reasons \cup {""}}

\* A node with some of its optional parts, each with the least that may stand
\* there, in a list twice.
RECURSIVE Least(_, _)
Least(kind, reasons) ==
    LET Value(part) ==
            CASE part.holds = "token" -> TRUE
              [] part.holds = "node" -> Least(Default(part.sort), {})
              [] OTHER -> LET one == Least(Default(part.sort), {}) IN <<one, one>>
        parts == Present(kind, reasons)
    IN  Node(kind, [f \in {p.field : p \in parts} |-> Value(CHOOSE p \in parts : p.field = f)])

\* The choices of optional parts: all subsets, or at most one left out or in.
SomeOf(kind) ==
    IF Cardinality(Reasons(kind)) <= 3 THEN SUBSET Reasons(kind)
    ELSE {r \in SUBSET Reasons(kind) :
            Cardinality(r) <= 1 \/ Cardinality(Reasons(kind) \ r) <= 1}

\* The node with one of its parts, or the first element of a list, replaced.
Place(node, part, value) ==
    [node EXCEPT !.parts[part.field] = IF part.holds = "node" THEN value
                                       ELSE [@ EXCEPT ![1] = value]]

Extremes(kinds) == UNION {{Least(k, {}), Least(k, Reasons(k))} : k \in kinds}
Nested(kind) ==
    LET full == Least(kind, Reasons(kind))
    IN  UNION { {Place(full, part, t) : t \in Extremes(AllOf(part.sort))} :
                part \in {p \in Parts(kind) : p.holds # "token"} }

Trees == UNION {{Least(k, r) : r \in SomeOf(k)} \cup Nested(k) : k \in Roots}

AllClasses == DOMAIN Shape
Init == (\E term \in Trees : tree = Tree(term)) /\ Start
Next == Walk
Spec == Init /\ [][Next]_dumping

-----------------------------------------------------------------------------

\* One place is before another in the text.
Precedes(p, q) ==
    \E i \in 1..Len(q) :
        /\ \A j \in 1..(i - 1) : j <= Len(p) /\ p[j] = q[j]
        /\ i > Len(p) \/ p[i] < q[i]

\* The tokens of a tree: of each node its own, delimiters among them.
RECURSIVE TokensOf(_, _)
TokensOf(node, place) ==
    LET items == Range(AllItems(node, place, Fields(node.shape), Range(Fields(node.shape))))
    IN  {item.place : item \in {i \in items : i.is = "token"}} \cup
        UNION {TokensOf(item.node, item.place) : item \in {i \in items : i.is = "node"}}

\* The classes of a tree.
RECURSIVE ClassesOf(_)
ClassesOf(node) ==
    {node.kind} \cup
    UNION {ClassesOf(item.node) :
            item \in {i \in Range(AllItems(node, <<>>, Fields(node.shape), {})) : i.is = "node"}}

Walked == todo = <<>>

\* A token that only an extension of C has: the keyword __extension__, what is
\* in or between attributes, and what is Psyche-C's own.
RECURSIVE Extended(_, _)
Extended(node, place) ==
    LET part == node.shape[place[1]]
        value == node.parts[part.field]
    IN  \/ node.kind \in {"ExtPSY_QuantifiedTypeSpecifier", "ExtPSY_TemplateDeclaration"}
        \/ part.field \in {"extKw", "psyOmit"}
        \/ part.sort \in {"Attribute", "ExtGNU_Attribute"}
        \/ part.holds = "node" /\ Extended(value, Tail(place))
        \/ /\ part.holds \in {"list", "separated"} /\ place[2] % 2 = 1
           /\ Extended(value[(place[2] + 1) \div 2], Tail(Tail(place)))

\* The classes that declare fewer children than they have (see Children).
Undeclared ==
    {k \in DOMAIN Shape : ~(Range(Fields(Shape[k])) \subseteq Range(Children(k, Shape[k])))}

-----------------------------------------------------------------------------
(* Properties                                                              *)

\* What is written is in the order of the text, and nothing is written twice,
\* whatever the class and whatever stands in its parts (SyntaxDumper's visits
\* name the parts one by one, in an order of their own).
WrittenInOrder ==
    \A i \in 2..Len(written) : i = Len(written) => Precedes(written[i - 1], written[i])

\* A program that uses no extension is written whole: what is lost on the way
\* stands in attributes, behind __extension__, or in what is Psyche-C's own.
OnlyExtensionsAreLost ==
    Walked => \A t \in TokensOf(tree, <<>>) \ Range(written) : Extended(tree, t)

\* The level of a node in the dump is the number of the nodes handed over that
\* it stands in, which is how the tree is printed and all that the control-flow
\* graph is made from (CUR_LEVEL, counted up and down around each visit).
LevelsFollowTheTree ==
    \A i \in {Len(dump)} \ {0} :
        dump[i].level =
            Cardinality({j \in 1..(i - 1) : IsStrictPrefix(dump[j].place, dump[i].place)})

\* In a tree of classes that declare all their children, the first token of the
\* node is the first of its tokens in the text: wherever the optional parts in
\* front of it are missing, and however deep it is in the first of the others.
FirstTokenIsFirst ==
    (dump = <<>> /\ ClassesOf(tree) \cap Undeclared = {}) =>
        LET tokens == TokensOf(tree, <<>>)
            first == firstToken(tree, <<>>)
        IN  IF tokens = {} THEN first = Nowhere
            ELSE first \in tokens /\ \A t \in tokens \ {first} : Precedes(first, t)

\* "The last token of this SyntaxNode." (SyntaxNode.h:80)
LastTokenIsLast ==
    (dump = <<>> /\ ClassesOf(tree) \cap Undeclared = {}) =>
        LET tokens == TokensOf(tree, <<>>)
            last == lastToken(tree, <<>>)
        IN  \A t \in tokens \ {last} : Precedes(t, last)
=============================================================================
