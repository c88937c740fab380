-------------------------- MODULE ParserExpressions --------------------------
(***************************************************************************)
(* Parser_Expressions.cpp: one action per routine.  The node of an         *)
(* expression is its kind, as far as the parser looks at it: a plain name, *)
(* a name in parentheses, the two kinds of statement that may declare a    *)
(* variable, the prefix operators that may be binary, a cast and the kind  *)
(* of what it casts, or just an expression.                                *)
(***************************************************************************)
EXTENDS ParserStatements

ExpressionKinds ==
  {"IdentifierName", "ParenthesizedName", "ParenthesizedExpression",
   "MultiplyOfNames", "CallOfNameOnName", "PrefixOfBinaryOperator",
   "AmbiguousCast", "CastExpression", "Expression"}

Cast == Call("Cast")
Unary == Call("Unary")
Postfix == Call("Postfix")
TypeName == Call("TypeName")
FollowOfPrimary == Call("FollowOfPrimary")

Lacks(extension) == extension \notin Extensions

-----------------------------------------------------------------------------
(* Terminals.                                                              *)

parseExpression ==
  /\ Runs("Expression")
  /\ DepthControl(DEPTH_OF_EXPRS, 0,
                  <<CallIn("NAryExpression", "Sequencing")>>)

parseIdentifierName ==
  /\ Runs("IdentifierName")
  /\ \/ Peek = "Identifier" /\ Return(1, <<"IdentifierName">>)
     \/ Peek # "Identifier" /\ Fail("ExpectedTokenOfCategoryIdentifier")

Constants == {"IntegerConstant", "FloatingConstant", "CharacterConstant"}

parseConstant ==
  /\ Runs("Constant")
  /\ \/ Peek \in Constants /\ Return(1, <<"Expression">>)
     \/ Peek \notin Constants /\ Fail("ExpectedTokenOfCategoryConstant")

(* Adjacent string literals make one literal.                              *)
parseStringLiteral ==
  \/ /\ Runs("StringLiteral")
     /\ \/ /\ Peek = "StringLiteral"
           /\ Continue(1, <<Call("StringLiteral_AtNext")>>)
        \/ /\ Peek # "StringLiteral"
           /\ Fail("ExpectedTokenOfCategoryStringLiteral")
  \/ /\ Runs("StringLiteral_AtNext")
     /\ \/ Peek = "StringLiteral" /\ Continue(1, <<Head(todo)>>)
        \/ Peek # "StringLiteral" /\ Return(0, <<"Expression">>)

(* A node of the kind that does not depend on its operands.                *)
BecomesExpression ==
  Runs("BecomesExpression") /\ Return(0, <<"Expression">>)
AsExpression == Call("BecomesExpression")

-----------------------------------------------------------------------------
(* Primary expressions.                                                    *)

parseParenthesizedExpression_AtFirst ==
  \/ /\ Runs("Parenthesized")
     /\ Continue(1, <<Expression, Call("Parenthesized_End"),
                      MatchOrSkipTo(")")>>)
  \/ /\ Runs("Parenthesized_End")
     /\ Return(0, <<IF node = <<"IdentifierName">>
                      THEN "ParenthesizedName"
                      ELSE "ParenthesizedExpression">>)

(* The statements are outside of every loop and switch, and the outcome of *)
(* their parse is ignored.                                                 *)
parseExtGNU_StatementExpression_AtFirst ==
  /\ Runs("StatementExpression")
  /\ DiagnoseIf(Lacks("ExtGNU_StatementExpressions"), "ExpectedFeature")
  /\ Expand(1, <<CallIn("CompoundStatement_AtFirst", "None"), OrProceed,
                 MatchOrSkipTo(")"), AsExpression>>, node)

parseGenericSelectionExpression_AtFirst ==
  /\ Runs("GenericSelection")
  /\ Continue(1, <<Match("("), Assignment, Match(","),
                   CommaSeparatedItems("GenericAssociation"),
                   MatchOrSkipTo(")")>>)

parseGenericAssociation ==
  /\ Runs("GenericAssociation")
  /\ \/ /\ Peek = "default"
        /\ Continue(1, <<Match(":"), Assignment>>)
     \/ /\ Peek # "default"
        /\ Continue(0, <<TypeName, Match(":"), Assignment>>)

parseVAArgumentExpression_AtFirst ==
  /\ Runs("VAArgument")
  /\ DiagnoseIf(Lacks("ExtGNU_InternalBuiltins"), "ExpectedFeature")
  /\ Expand(1, <<Match("("), Assignment, Match(","), TypeName, Match(")"),
                 AsExpression>>, node)

parseOffsetOfExpression_AtFirst ==
  /\ Runs("OffsetOf")
  /\ DiagnoseIf(Lacks("ExtGNU_InternalBuiltins"), "ExpectedFeature")
  /\ Expand(1, <<Match("("), TypeName, Match(","), Call("OffsetOfDesignator"),
                 Match(")"), AsExpression>>, node)

parseExtGNU_ChooseExpression_AtFirst ==
  /\ Runs("ChooseExpression")
  /\ DiagnoseIf(Lacks("ExtGNU_InternalBuiltins"), "ExpectedFeature")
  /\ Expand(1, <<Match("("), Call("Constant"), Match(","), Assignment,
                 Match(","), Assignment, Match(")"), AsExpression>>, node)

parseExtGNU_ComplexValuedExpression_AtFirst ==
  /\ Runs("ComplexValued")
  /\ Continue(1, <<Assignment, AsExpression>>)

-----------------------------------------------------------------------------
(* Compound literals.                                                      *)

parseCompoundLiteral_AtOpenParen ==
  \/ /\ Runs("CompoundLiteral_AtOpenParen")
     /\ Continue(1, <<TypeName, Match(")"), Call("CompoundLiteral_Check")>>)
  \/ /\ Runs("CompoundLiteral_Check")
     /\ \/ Peek = "{" /\ Continue(0, <<Call("CompoundLiteral_AtOpenBrace")>>)
        \/ Peek # "{" /\ Fail("ExpectedToken")

parseCompoundLiteral_AtOpenBrace ==
  /\ Runs("CompoundLiteral_AtOpenBrace")
  /\ DiagnoseIf(~C99 /\ Lacks("ExtGNU_CompoundLiterals"), "ExpectedFeature")
  /\ Expand(0, <<Call("Initializer"), AsExpression, FollowOfPrimary>>, node)

(* `(' identifier: the type name must be followed by `)' and `{'.  From    *)
(* there on a failure is not backtracked, although the Backtracker lives.  *)
TypeNameOfCompoundLiteral ==
  /\ Runs("TypeNameOfCompoundLiteral")
  /\ \/ /\ Peek = ")" /\ PeekAt(2) = "{"
        /\ curTkIdx' = curTkIdx + 1
        /\ todo' = <<Call("CompoundLiteral_AtOpenBrace"), TryOr("")>>
                     \o Tail(Tail(todo))
        /\ mode' = mode
        /\ Frame
        /\ UNCHANGED <<node, ambigVars, diagVars>>
     \/ Peek = ")" /\ PeekAt(2) # "{" /\ FailSilently
     \/ Peek # ")" /\ FailSilently

-----------------------------------------------------------------------------
(* Postfix expressions.                                                    *)

FirstOfTypeName ==
  TypeQualifiers \cup {"_Alignas", "typeof"} \cup BuiltinTypeSpecifiers
    \cup TagKeywords

PrimaryRoutine ==
  [k \in {"va_arg", "offsetof", "__builtin_choose_expr", "__real__"} |->
     CASE k = "va_arg" -> "VAArgument"
       [] k = "offsetof" -> "OffsetOf"
       [] k = "__builtin_choose_expr" -> "ChooseExpression"
       [] k = "__real__" -> "ComplexValued"]

ParenthesizedThenPostfix == <<Call("Parenthesized"), FollowOfPrimary>>

parseExpressionWithPrecedencePostfix ==
  \/ /\ Runs("Postfix")
     /\ Peek = "("
     /\ \/ /\ PeekAt(2) \in FirstOfTypeName
           /\ Continue(0, <<Call("CompoundLiteral_AtOpenParen")>>)
        \/ /\ PeekAt(2) = "{"
           /\ Continue(0, <<Call("StatementExpression")>>)
        \/ /\ PeekAt(2) = "Identifier"
           /\ Try(1, <<TypeName, Call("TypeNameOfCompoundLiteral")>>,
                  "ParenthesizedThenPostfix", <<>>)
        \/ /\ PeekAt(2) \notin FirstOfTypeName \cup {"{", "Identifier"}
           /\ Continue(0, ParenthesizedThenPostfix)
  \/ /\ Runs("ParenthesizedThenPostfix")
     /\ Continue(0, ParenthesizedThenPostfix)
  \/ /\ Runs("Postfix")
     /\ Peek # "("
     /\ \/ /\ Peek = "Identifier"
           /\ Continue(0, <<Call("IdentifierName"), FollowOfPrimary>>)
        \/ /\ Peek \in Constants
           /\ Continue(0, <<Call("Constant"), FollowOfPrimary>>)
        \/ /\ Peek = "StringLiteral"
           /\ Continue(0, <<Call("StringLiteral"), FollowOfPrimary>>)
        \/ /\ Peek = "__func__"
           /\ Expand(1, <<FollowOfPrimary>>, <<"Expression">>)
           /\ UNCHANGED diagVars
        \/ /\ Peek = "_Generic"
           /\ Continue(0, <<Call("GenericSelection"), AsExpression,
                            FollowOfPrimary>>)
        \/ /\ Peek \in DOMAIN PrimaryRoutine
           /\ Continue(0, <<Call(PrimaryRoutine[Peek])>>)
        \/ /\ Peek \notin {"Identifier", "StringLiteral", "__func__",
                           "_Generic"} \cup Constants \cup DOMAIN PrimaryRoutine
           /\ Fail("ExpectedFIRSTofExpression")

(* The kind of the operand of the postfix operator is the entry's Acc.     *)
parsePostfixExpression_AtFollowOfPrimary ==
  \/ /\ Runs("FollowOfPrimary")
     /\ \/ /\ Peek = "["
           /\ Continue(1, <<Expression, MatchOrSkipTo("]"), AsExpression,
                            FollowOfPrimary>>)
        \/ /\ Peek = "(" /\ PeekAt(2) = ")"
           /\ Expand(2, <<FollowOfPrimary>>, <<"Expression">>)
           /\ UNCHANGED diagVars
        \/ /\ Peek = "(" /\ PeekAt(2) # ")"
           /\ Continue(1, <<CommaSeparatedItems("CallArgument"),
                            CallWith("Call_End", "", node),
                            MatchOrSkipTo(")"), FollowOfPrimary>>)
        \/ /\ Peek \in {".", "->"}
           /\ Continue(1, <<Call("MemberName"), FollowOfPrimary>>)
        \/ /\ Peek \in {"++", "--"}
           /\ Expand(1, <<FollowOfPrimary>>, <<"Expression">>)
           /\ UNCHANGED diagVars
        \/ /\ Peek \notin {"[", "(", ".", "->", "++", "--"}
           /\ Return(0, node)
  \/ /\ Runs("MemberName")
     /\ \/ Peek = "Identifier" /\ Return(1, <<"Expression">>)
        \/ Peek # "Identifier" /\ Fail("ExpectedFieldName")

parseCallArgument ==
  Runs("CallArgument") /\ Continue(0, <<Assignment>>)

Call_End ==
  /\ Runs("Call_End")
  /\ Return(0, <<IF Acc = <<"IdentifierName">> /\ node = <<"IdentifierName">>
                   THEN "CallOfNameOnName" ELSE "Expression">>)

-----------------------------------------------------------------------------
(* Unary and cast expressions.                                             *)

parseExpressionWithPrecedenceUnary ==
  /\ Runs("Unary")
  /\ \/ /\ Peek \in {"++", "--"}
        /\ Continue(1, <<Unary, AsExpression>>)
     \/ /\ Peek \in {"&", "*", "+", "-"}
        /\ Continue(1, <<Cast, Call("PrefixOfBinaryOperator_End")>>)
     \/ /\ Peek \in {"~", "!"}
        /\ Continue(1, <<Cast, AsExpression>>)
     \/ /\ Peek \in {"sizeof", "_Alignof"}
        /\ Continue(1, <<Call("ParenthesizedTypeNameOrExpression"),
                         AsExpression>>)
     \/ /\ Peek \notin {"++", "--", "&", "*", "+", "-", "~", "!",
                        "sizeof", "_Alignof"}
        /\ Continue(0, <<Postfix>>)

PrefixOfBinaryOperator_End ==
  Runs("PrefixOfBinaryOperator_End") /\ Return(0, <<"PrefixOfBinaryOperator">>)

parseExpressionWithPrecedenceCast ==
  /\ Runs("Cast")
  /\ \/ /\ Peek = "(" /\ PeekAt(2) \in FirstOfTypeName
        /\ Continue(0, <<Call("CompoundLiteralOrCast")>>)
     \/ /\ Peek = "(" /\ PeekAt(2) = "Identifier"
        /\ Try(0, <<Call("CompoundLiteralOrCast"),
                    Call("maybeAmbiguateCastExpression")>>, "Unary", <<>>)
     \/ /\ Peek = "(" /\ PeekAt(2) \notin FirstOfTypeName \cup {"Identifier"}
        /\ Continue(0, <<Unary>>)
     \/ Peek = "__extension__" /\ Continue(1, <<Cast>>)
     \/ Peek \notin {"(", "__extension__"} /\ Continue(0, <<Unary>>)

(* The cast of a prefix operator to a type that is nothing but a name may  *)
(* be a binary expression.                                                 *)
parseCompoundLiteralOrCastExpression_AtFirst ==
  \/ /\ Runs("CompoundLiteralOrCast")
     /\ Continue(1, <<TypeName, Call("Cast_AtCloseParen")>>)
  \/ /\ Runs("Cast_AtCloseParen")
     /\ Continue(0, <<Match(")"), CallWith("Cast_AtOperand", "", node)>>)
  \/ /\ Runs("Cast_AtOperand")
     /\ \/ Peek = "{" /\ Continue(0, <<Call("CompoundLiteral_AtOpenBrace")>>)
        \/ /\ Peek # "{"
           /\ Continue(0, <<Cast, CallWith("Cast_End", "", Acc)>>)
  \/ /\ Runs("Cast_End")
     /\ Return(0, <<IF /\ Acc = <<"SoleTypedefName">>
                       /\ node = <<"PrefixOfBinaryOperator">>
                      THEN "AmbiguousCast" ELSE "CastExpression">>)

maybeAmbiguateCastExpression ==
  /\ Runs("maybeAmbiguateCastExpression")
  /\ \/ /\ node = <<"AmbiguousCast">>
        /\ Ambiguate("AmbiguousCastOrBinaryExpression")
     \/ node # <<"AmbiguousCast">> /\ Return(0, node)

-----------------------------------------------------------------------------
(* N-ary expressions: precedence climbing.                                 *)

AssignmentOperators ==
  {"=", "+=", "-=", "*=", "/=", "%=", "<<=", ">>=", "&=", "^=", "|="}

(* NAryPrecedence: the levels that callers name; 0 is Undefined.           *)
Precedence ==
  [level \in {"Sequencing", "Assignment", "Conditional"} |->
     CASE level = "Sequencing" -> 1
       [] level = "Assignment" -> 2
       [] level = "Conditional" -> 3]

precedenceOf(tkK) ==
  CASE tkK = "," -> 1
    [] tkK \in AssignmentOperators -> 2
    [] tkK = "?" -> 3
    [] tkK = "||" -> 4
    [] tkK = "&&" -> 5
    [] tkK = "|" -> 6
    [] tkK = "^" -> 7
    [] tkK = "&" -> 8
    [] tkK \in {"==", "!="} -> 9
    [] tkK \in {">", "<", "<=", ">="} -> 10
    [] tkK \in {"<<", ">>"} -> 11
    [] tkK \in {"+", "-"} -> 12
    [] tkK \in {"*", "/", "%"} -> 13
    [] OTHER -> 0

isRightAssociative(tkK) == precedenceOf(tkK) \in {2, 3}

(* A cutoff is the name of a level or, in the recursive call, an operator  *)
(* of that level.                                                          *)
Cutoff(a) == IF a \in DOMAIN Precedence THEN Precedence[a] ELSE precedenceOf(a)

parseNAryExpression ==
  /\ Runs("NAryExpression")
  /\ Continue(0, <<Cast, CallIn("NAryExpression_AtOperator", Arg)>>)

(* Acc has the operators this activation has consumed so far.              *)
parseNAryExpression_AtOperator ==
  /\ Runs("NAryExpression_AtOperator")
  /\ \/ precedenceOf(Peek) < Cutoff(Arg) /\ Return(0, node)
     \/ /\ precedenceOf(Peek) >= Cutoff(Arg)
        /\ DEPTH_OF_EXPRS + Len(Acc) + 1 > MAX_DEPTH_OF_EXPRS
        /\ mode' = "thrown"
        /\ UNCHANGED <<tks, curTkIdx, todo, node, backtracker, diagVars,
                       IDsForDelay, ambigVars, recovered>>
     \/ /\ precedenceOf(Peek) >= Cutoff(Arg)
        /\ DEPTH_OF_EXPRS + Len(Acc) + 1 <= MAX_DEPTH_OF_EXPRS
        /\ Continue(1,
             (IF Peek = "?" THEN <<Call("WhenTrue"), Match(":"), OrProceed>>
                            ELSE <<>>)
               \o <<Cast, CallWith("NAryExpression_AtNext", Arg,
                                   <<Kind>> \o Append(Acc, Peek))>>)

(* The middle operand of a conditional: its parse is not checked, nor is   *)
(* the colon after it.                                                     *)
ConditionalExpression_WhenTrue ==
  /\ Runs("WhenTrue")
  /\ \/ /\ Peek = ":"
        /\ DiagnoseIf(Lacks("ExtGNU_StatementExpressions"), "ExpectedFeature")
        /\ Expand(0, <<>>, node)
     \/ /\ Peek # ":"
        /\ Continue(0, <<Expression, OrProceed>>)

(* The operand nextExpr was parsed: operators that bind it tighter, or as  *)
(* tight from the right, are consumed first.                               *)
NAryExpression_AtNext ==
  /\ Runs("NAryExpression_AtNext")
  /\ LET op == Acc[Len(Acc)]
         prevPrec == precedenceOf(op)
         precAhead == precedenceOf(Peek)
         bindsNext == \/ precAhead > prevPrec
                      \/ precAhead = prevPrec /\ isRightAssociative(Peek)
     IN \/ /\ bindsNext
           /\ Continue(0, <<CallIn("NAryExpression_AtOperator", Peek),
                            Head(todo)>>)
        \/ /\ ~bindsNext /\ precAhead = 2 /\ prevPrec > precAhead
           /\ FailSilently
        \/ /\ ~bindsNext /\ ~(precAhead = 2 /\ prevPrec > precAhead)
           /\ Expand(0, <<CallWith("NAryExpression_AtOperator", Arg,
                                   SubSeq(Acc, 2, Len(Acc)))>>,
                     <<IF /\ op = "*"
                          /\ Acc[1] = "IdentifierName"
                          /\ node = <<"IdentifierName">>
                         THEN "MultiplyOfNames" ELSE "Expression">>)
           /\ UNCHANGED diagVars

ExpressionsNext ==
  \/ parseExpression \/ parseIdentifierName \/ parseConstant
  \/ parseStringLiteral \/ BecomesExpression
  \/ parseParenthesizedExpression_AtFirst
  \/ parseExtGNU_StatementExpression_AtFirst
  \/ parseGenericSelectionExpression_AtFirst \/ parseGenericAssociation
  \/ parseVAArgumentExpression_AtFirst \/ parseOffsetOfExpression_AtFirst
  \/ parseExtGNU_ChooseExpression_AtFirst
  \/ parseExtGNU_ComplexValuedExpression_AtFirst
  \/ parseCompoundLiteral_AtOpenParen \/ parseCompoundLiteral_AtOpenBrace
  \/ TypeNameOfCompoundLiteral \/ parseExpressionWithPrecedencePostfix
  \/ parsePostfixExpression_AtFollowOfPrimary \/ parseCallArgument \/ Call_End
  \/ parseExpressionWithPrecedenceUnary \/ PrefixOfBinaryOperator_End
  \/ parseExpressionWithPrecedenceCast
  \/ parseCompoundLiteralOrCastExpression_AtFirst
  \/ maybeAmbiguateCastExpression
  \/ parseNAryExpression \/ parseNAryExpression_AtOperator
  \/ ConditionalExpression_WhenTrue \/ NAryExpression_AtNext

=============================================================================
