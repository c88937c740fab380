------------------------------ MODULE ParserTypes ------------------------------
(***************************************************************************)
(* The types of the parser's variables.  The names of the routines are     *)
(* listed: an entry of the call stack that no action runs would be a step  *)
(* of the parser that the model has lost.                                  *)
(***************************************************************************)
EXTENDS ParserDeclarations

MachineRoutines ==
  {"checkStatementParse", "match", "matchOrSkipTo", "orProceed", "orSkipPast",
   "orSkipTo"}

StatementRoutines ==
  {"AsmGotoLabel", "AsmOperand", "AsmQualifiers", "AsmStatement",
   "CompoundStatement", "CompoundStatement_AtFirst", "DeclarationStatement",
   "DeclarationStatement_End", "DoStatement", "ExpressionStatement",
   "ExpressionStatement_End", "ExtensionStatement_End", "ForStatement",
   "ForStatement_AtCondition", "ForStatement_AtExpression",
   "ForStatement_AtExtension", "ForStatement_AtInit",
   "ForStatement_AtSecondSemicolon", "ForStatement_AtStatement",
   "GotoStatement", "GotoStatement_AtLabel", "IfStatement",
   "IfStatement_AtElse", "JumpStatement", "LabeledStatement",
   "LabeledStatement_AtStatement", "maybeAmbiguateStatement",
   "ReturnStatement", "ReturnStatement_AtExpression", "Statement",
   "Statement_End", "SwitchStatement", "WhileStatement"}

ExpressionRoutines ==
  {"BecomesExpression", "Call_End", "CallArgument", "Cast",
   "Cast_AtCloseParen", "Cast_AtOperand", "Cast_End", "ChooseExpression",
   "ComplexValued", "CompoundLiteral_AtOpenBrace",
   "CompoundLiteral_AtOpenParen", "CompoundLiteral_Check",
   "CompoundLiteralOrCast", "Constant", "Expression", "FollowOfPrimary",
   "GenericAssociation", "GenericSelection", "IdentifierName",
   "maybeAmbiguateCastExpression", "MemberName", "OffsetOf",
   "Parenthesized", "Parenthesized_End", "ParenthesizedThenPostfix", "Postfix",
   "PrefixOfBinaryOperator_End", "StatementExpression", "StringLiteral",
   "StringLiteral_AtNext", "Unary", "VAArgument", "WhenTrue"}

DeclarationRoutines ==
  {"AbstractDeclarator", "AbstractDeclaratorSuffix",
   "AlignmentOrTypeofSpecifier", "ArraySuffix", "ArraySuffix_AtC99",
   "ArraySuffix_AtFollowOfQualifiers", "ArraySuffix_AtQualifiersAfterStatic",
   "ArraySuffix_AtStatic", "AsmLabel", "AsmLabel_Inverted",
   "AsmStatementDeclaration", "AtomicTypeSpecifier", "Attribute",
   "AttributeArgumentsLLVM", "AttributeList", "AttributeList_AtNext",
   "AttributesAfterLabel", "AttributeSpecifier", "AttributeSpecifierList",
   "AttributeSpecifierList_AtNext", "Bitfield_End", "BraceEnclosedInitializer",
   "BraceEnclosedInitializer_AtList", "ClearDelayedDiags",
   "Declaration_AtFollowOfSpecifiers", "DeclarationOrFunctionDefinition",
   "DeclarationSpecifiers", "Declarator", "Declarator_AtPointer",
   "DesignatedInitializer", "DesignatedInitializer_AtEquals", "DesignatorList",
   "DirectDeclarator", "DirectDeclaratorSuffix", "Enumerator",
   "Enumerator_AtComma", "Enumerator_AtValue", "ExternalDeclaration",
   "FieldDesignator", "FunctionBody", "ignoreDeclarator",
   "InitDeclarator_AtFollow", "InitDeclarator_AtInitializer",
   "InitDeclarators", "Initializer", "InitializerListItem",
   "KR_AtFollowOfDeclarator", "KR_AtNextParameter", "KR_Declarators",
   "KR_FunctionDefinition", "KR_ParameterDeclaration",
   "KR_ParameterDeclarationList", "LabelAndAttributes", "LabelThenAttributes",
   "LLVM_AtComma", "LLVM_AtEquals", "LLVM_AtInteger",
   "maybeAmbiguateTypeReference", "MaybeAttributes", "MaybeBitfield",
   "MemberDeclarations_End", "NotKR_FunctionDefinition", "OffsetOfDesignator",
   "ParameterDeclaration", "ParameterDeclaration_AtDeclarator",
   "ParameterDeclaration_AtFollowOfSpecifiers", "ParameterDeclarationList",
   "ParameterDeclarationList_AtComma", "ParameterDeclarationList_AtFollow",
   "ParameterDeclarationListAndOrEllipsis", "ParameterSuffix_End",
   "ParenthesizedTypeName", "ParenthesizedTypeNameOrExpression",
   "PointerDeclarator_End", "QuantifiedTypeSpecifier",
   "SpecifierQualifierList", "Specifiers_End", "StaticAssertDeclaration",
   "StructDeclaration", "StructDeclarator_AtFollow", "StructDeclarators",
   "SubscriptSuffix_End", "TagTypeSpecifier", "TagTypeSpecifier_AtTag",
   "TranslationUnit", "TypeName", "TypeName_AtDeclarator", "TypeName_End",
   "TypeQualifiersAndAttributes"}

Routines ==
  MachineRoutines \cup StatementRoutines \cup ExpressionRoutines
    \cup DeclarationRoutines

(* The routines whose argument is a routine that they call.                *)
HigherOrder ==
  {"CommaSeparatedItems", "CommaSeparatedItems_AtComma", "MemberDeclarations",
   "Specifiers_AtFollowOfTag", "AsmSection", "AsmSection_AtItems"}

(* The routines whose argument is a cutoff of precedence.                  *)
NAryRoutines ==
  {"NAryExpression", "NAryExpression_AtNext", "NAryExpression_AtOperator"}

(* The routines that end a Backtracker of their own, which is below them.  *)
Discarders == {"AtCloseParenOfAbstract", "TypeNameOfCompoundLiteral"}

MatchedTokens ==
  {"Identifier", "while", "=", ",", ":", ";", "(", ")", "[", "]", "{", "}"}
BinaryOperators ==
  AssignmentOperators
    \cup {",", "?", "||", "&&", "|", "^", "&", "==", "!=", ">", "<", "<=",
          ">=", "<<", ">>", "+", "-", "*", "/", "%"}
Arguments ==
  {""} \cup StatementContexts \cup Varieties \cup MatchedTokens
    \cup TagKeywords
Cutoffs == DOMAIN Precedence \cup BinaryOperators

NodeKinds ==
  ExpressionKinds \cup AmbiguityIds
    \cup {"", "TranslationUnit", "CompoundStatement", "Statement",
          "ExpressionStatement", "DeclarationStatement", "TypeName",
          "SoleTypedefName", "Specifier", "TypeSpecifier", "TypedefName",
          "TagSpecifier", "TagDeclaration", "Identifier", "Pointer", "Array",
          "Function", "Parenthesized", "Abstract", "Bitfield"}
Words == NodeKinds \cup BinaryOperators

PlainItem ==
  [do : Routines, a : Arguments, acc : Seq(Words)]
    \cup [do : HigherOrder, a : Routines, acc : Seq(Words)]
    \cup [do : NAryRoutines, a : Cutoffs, acc : Seq(Words)]
ScopeItem ==
  [do : {"Backtracker"}, a : Routines \cup {""}, acc : {<<>>}]
    \cup [do : {"~DiagnosticsReporterDelayer"}, a : DiagnosticIds, acc : {<<>>}]
DiscarderItem == [do : Discarders, a : {""}, acc : {<<>>}]
Item == PlainItem \cup ScopeItem \cup DiscarderItem

(* The routines with a PSY_ASSERT that can fail.                           *)
AssertedRoutines ==
  {"parseExtGNU_AsmOperand_AtFirst", "parseIdentifierName_AtFirst"}

Diagnostic == [id : DiagnosticIds, at : Nat]
Ambiguity == [id : AmbiguityIds, at : Nat]

(* A live Backtracker, begun at a token of this text.                      *)
Marker ==
  [refTkIdx : 1 .. Len(tks), level : Nat, omitted : SUBSET Diagnostic,
   ambiguities : SUBSET Ambiguity, recovered : BOOLEAN]

(* Every variable has its type; the cursor is at most one past the end.    *)
TypeOK ==
  /\ tks \in Programs
  /\ curTkIdx \in 1 .. Len(tks) + 1
  /\ todo \in Seq(Item)
  /\ node \in Seq(Words)
  /\ backtracker \in Seq(Marker)
  /\ diags \subseteq Diagnostic
  /\ delayedDiags \subseteq Diagnostic
  /\ omitted \subseteq Diagnostic
  /\ failedAsserts \subseteq AssertedRoutines
  /\ IDsForDelay \subseteq DiagnosticIds
  /\ retainedAmbiguityDiags \in Seq(Ambiguity)
  /\ ambiguities \subseteq Ambiguity
  /\ mode \in Modes
  /\ recovered \in BOOLEAN

=============================================================================
