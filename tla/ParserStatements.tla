--------------------------- MODULE ParserStatements ---------------------------
(***************************************************************************)
(* Parser_Statements.cpp: one action per routine.  The argument of a       *)
(* statement routine is its StatementContext.  The node of a statement is  *)
(* its kind, followed by the kind of its expression if it has one.         *)
(***************************************************************************)
EXTENDS ParserMachine

StorageClasses ==
  {"typedef", "extern", "static", "auto", "register", "_Thread_local"}
TypeQualifiers == {"const", "volatile", "restrict", "_Atomic"}
FunctionSpecifiers == {"inline", "_Noreturn"}
BuiltinTypeSpecifiers ==
  {"void", "char", "short", "int", "long", "float", "double", "_Bool",
   "_Complex", "signed", "unsigned"}
TagKeywords == {"struct", "union", "enum"}
FirstOfDeclaration ==
  StorageClasses \cup TypeQualifiers \cup FunctionSpecifiers
    \cup BuiltinTypeSpecifiers \cup TagKeywords

-----------------------------------------------------------------------------
(* StatementContext and its operator+.                                     *)

StatementContexts == {"None", "Switch", "Loop", "SwitchAndLoop"}

(* Mutant: the innermost context replaces the one around it.               *)
Within_InnermostOnly(a, b) == b

Within(a, b) ==
  CASE a = "None" -> b
    [] a = "Switch" /\ b = "Loop" -> "SwitchAndLoop"
    [] a = "Loop" /\ b = "Switch" -> "SwitchAndLoop"
    [] OTHER -> a

InSwitch(stmtCtx) == stmtCtx \in {"Switch", "SwitchAndLoop"}
InLoop(stmtCtx) == stmtCtx \in {"Loop", "SwitchAndLoop"}

Statement(stmtCtx) == CallIn("Statement", stmtCtx)
Expression == Call("Expression")
Conditional == CallIn("NAryExpression", "Conditional")
Assignment == CallIn("NAryExpression", "Assignment")

(* checkStatementParse over a statement's parts.                           *)
Checked(items) == items \o <<OrIgnoreStatement>>

-----------------------------------------------------------------------------
(* parseStatement and its dispatch on the first token.                     *)

(* The routine each token leads to; the context goes with it.              *)
StatementRoutine ==
  [k \in {"{", "if", "switch", "case", "default", "while", "do", "for",
          "goto", "continue", "break", "return", "asm"} |->
     CASE k = "{" -> "CompoundStatement_AtFirst"
       [] k = "if" -> "IfStatement"
       [] k = "switch" -> "SwitchStatement"
       [] k \in {"case", "default"} -> "LabeledStatement"
       [] k = "while" -> "WhileStatement"
       [] k = "do" -> "DoStatement"
       [] k = "for" -> "ForStatement"
       [] k = "goto" -> "GotoStatement"
       [] k \in {"continue", "break"} -> "JumpStatement"
       [] k = "return" -> "ReturnStatement"
       [] k = "asm" -> "AsmStatement"]

(* The diagnostic of a label or jump that its context does not allow.      *)
Misplaced(k, stmtCtx) ==
  \/ k \in {"case", "default"} /\ ~InSwitch(stmtCtx)
  \/ k = "continue" /\ ~InLoop(stmtCtx)
  \/ k = "break" /\ stmtCtx = "None"

MisplacedId ==
  [k \in {"case", "default", "continue", "break"} |->
     CASE k = "case" -> "UnexpectedCaseLabelOutsideSwitch"
       [] k = "default" -> "UnexpectedDefaultLabelOutsideSwitch"
       [] k = "continue" -> "UnexpectedContinueOutsideLoop"
       [] k = "break" -> "UnexpectedBreakOutsideSwitchOrLoop"]

parseStatement ==
  /\ Runs("Statement")
  /\ \/ /\ Peek \in DOMAIN StatementRoutine
        /\ Expand(0, <<CallIn(StatementRoutine[Peek], Arg)>>, node)
        /\ DiagnoseIf(Misplaced(Peek, Arg), MisplacedId[Peek])
     \/ /\ Peek = "_Static_assert"
        /\ Continue(0, <<Call("StaticAssertDeclaration"),
                         Call("DeclarationStatement_End")>>)
     \/ /\ Peek \in FirstOfDeclaration \cup {"typeof"}
        /\ Continue(0, <<Call("DeclarationStatement")>>)
     \/ /\ Peek = "Identifier" /\ PeekAt(2) = ":"
        /\ Continue(0, <<CallIn("LabeledStatement", Arg)>>)
     \/ /\ Peek = "Identifier" /\ PeekAt(2) # ":"
        /\ Try(0, <<Call("ExpressionStatement"),
                    Call("maybeAmbiguateStatement")>>,
               "DeclarationStatement", <<>>)
     \/ /\ Peek = ";"
        /\ Return(1, <<"ExpressionStatement">>)
     \/ /\ Peek = "__extension__"
        /\ Continue(1, <<Statement(Arg), Call("ExtensionStatement_End")>>)
     \/ /\ Peek \notin DOMAIN StatementRoutine \cup FirstOfDeclaration
             \cup {"typeof", "_Static_assert", "Identifier", ";",
                   "__extension__"}
        /\ Continue(0, <<Call("ExpressionStatement")>>)

(* What parseStatement does with the statement after `__extension__'.      *)
ExtensionStatement_End ==
  /\ Runs("ExtensionStatement_End")
  /\ \/ node = <<"ExpressionStatement">> /\ NullNode
     \/ Kind = "ExpressionStatement" /\ Len(node) > 1 /\ Return(0, node)
     \/ Kind = "DeclarationStatement" /\ Return(0, node)
     \/ /\ Kind \notin {"ExpressionStatement", "DeclarationStatement"}
        /\ Fail("UnexpectedGNUExtensionFlag")

parseDeclarationStatement ==
  \/ /\ Runs("DeclarationStatement")
     /\ Continue(0, <<Call("DeclarationOrFunctionDefinition"),
                      Call("DeclarationStatement_End")>>)
  \/ /\ Runs("DeclarationStatement_End")
     /\ Return(0, <<"DeclarationStatement">>)

(* Mutant: `f(x)' is not taken for ambiguous.                              *)
maybeAmbiguateStatement_NotCalls ==
  /\ Runs("maybeAmbiguateStatement")
  /\ \/ /\ node[2] = "MultiplyOfNames"
        /\ Ambiguate("AmbiguousExpressionOrDeclarationStatement")
     \/ /\ node[2] # "MultiplyOfNames"
        /\ Return(0, node)

(* Only `x * y' and `f(x)' over plain names are ambiguous.                 *)
maybeAmbiguateStatement ==
  /\ Runs("maybeAmbiguateStatement")
  /\ \/ /\ node[2] \in {"MultiplyOfNames", "CallOfNameOnName"}
        /\ Ambiguate("AmbiguousExpressionOrDeclarationStatement")
     \/ /\ node[2] \notin {"MultiplyOfNames", "CallOfNameOnName"}
        /\ Return(0, node)

parseExpressionStatement ==
  \/ /\ Runs("ExpressionStatement")
     /\ Peek = ";"
     /\ Return(1, <<"ExpressionStatement">>)
  \/ /\ Runs("ExpressionStatement")
     /\ Peek # ";"
     /\ Continue(0, <<Expression, Call("ExpressionStatement_End"),
                      MatchOrSkipTo(";")>>)
  \/ /\ Runs("ExpressionStatement_End")
     /\ Return(0, <<"ExpressionStatement", Kind>>)

-----------------------------------------------------------------------------
(* Compound statement: a DepthControl around a loop.  A statement that     *)
(* fails makes the loop skip to the next `}'.                              *)

parseCompoundStatement_AtFirst ==
  /\ Runs("CompoundStatement_AtFirst")
  /\ DepthControl(DEPTH_OF_STMTS, 1, <<CallIn("CompoundStatement", Arg)>>)

CompoundStatement_Loop ==
  /\ Runs("CompoundStatement")
  /\ \/ Peek = "EOF" /\ Fail("ExpectedToken")
     \/ Peek = "}" /\ Return(1, <<"CompoundStatement">>)
     \/ /\ Peek \notin {"EOF", "}"}
        /\ Continue(0, <<Statement(Arg), CallIn("CompoundStatement", Arg)>>)

CompoundStatement_SkipsToCloseBrace ==
  /\ Unwinds("CompoundStatement")
  /\ InTokens
  /\ \/ Peek \in {"}", "EOF"} /\ Recover(0, <<Head(todo)>>)
     \/ Peek \notin {"}", "EOF"} /\ SkipToken

-----------------------------------------------------------------------------
(* Selection, iteration, labels and jumps.                                 *)

ParenthesizedCondition == <<Match("("), Expression, Match(")")>>

parseIfStatement_AtFirst ==
  \/ /\ Runs("IfStatement")
     /\ Continue(1, Checked(ParenthesizedCondition \o <<Statement(Arg)>>)
                    \o <<CallIn("IfStatement_AtElse", Arg)>>)
  \/ /\ Runs("IfStatement_AtElse")
     /\ \/ /\ Peek = "else"
           /\ Continue(1, Checked(<<Statement(Arg)>>)
                          \o <<Call("Statement_End")>>)
        \/ Peek # "else" /\ Return(0, <<"Statement">>)

(* The node of a statement whose parts have just been parsed.              *)
Statement_End == Runs("Statement_End") /\ Return(0, <<"Statement">>)
End == Call("Statement_End")

parseSwitchStatement_AtFirst ==
  /\ Runs("SwitchStatement")
  /\ Continue(1, Checked(ParenthesizedCondition
                           \o <<Statement(Within(Arg, "Switch"))>>) \o <<End>>)

parseWhileStatement_AtFirst ==
  /\ Runs("WhileStatement")
  /\ Continue(1, Checked(ParenthesizedCondition
                           \o <<Statement(Within(Arg, "Loop"))>>) \o <<End>>)

parseDoStatement_AtFirst ==
  /\ Runs("DoStatement")
  /\ Continue(1, Checked(<<Statement(Within(Arg, "Loop")), Match("while")>>
                           \o ParenthesizedCondition
                           \o <<Match(";")>>) \o <<End>>)

parseLabeledStatement_AtFirst ==
  LET labeled == CallIn("LabeledStatement_AtStatement", Arg)
  IN \/ /\ Runs("LabeledStatement")
        /\ \/ Peek = "Identifier" /\ Continue(2, <<labeled>>)
           \/ Peek = "default" /\ Continue(1, <<Match(":"), labeled>>)
           \/ Peek = "case" /\ Continue(1, <<Conditional, Match(":"), labeled>>)
     \/ /\ Runs("LabeledStatement_AtStatement")
        /\ Continue(0, Checked(<<Statement(Arg)>>) \o <<End>>)

(* The header of a `for': a failure in it skips to the close parenthesis.  *)
OrSkipHeader == OrSkipTo(")")

parseForStatement_AtFirst ==
  \/ /\ Runs("ForStatement")
     /\ Continue(1, <<Match("("), Call("ForStatement_AtExtension"),
                      OrSkipHeader, CallIn("ForStatement_AtStatement", Arg)>>)
  \/ /\ Runs("ForStatement_AtExtension")
     /\ Continue(IF Peek = "__extension__" THEN 1 ELSE 0,
                 <<Call("ForStatement_AtInit"),
                   Call("ForStatement_AtCondition"),
                   Call("ForStatement_AtSecondSemicolon"),
                   Call("ForStatement_AtExpression")>>)
  \/ /\ Runs("ForStatement_AtStatement")
     /\ Continue(0, Checked(<<Statement(Within(Arg, "Loop"))>>) \o <<End>>)

ForStatement_AtInit ==
  /\ Runs("ForStatement_AtInit")
  /\ \/ /\ Peek \in FirstOfDeclaration
        /\ Continue(0, <<Call("DeclarationStatement")>>)
     \/ /\ Peek = "Identifier"
        /\ Try(0, <<Call("ExpressionStatement"),
                    Call("maybeAmbiguateStatement")>>,
               "DeclarationStatement", <<>>)
     \/ /\ Peek \notin FirstOfDeclaration \cup {"Identifier"}
        /\ Continue(0, <<Call("ExpressionStatement")>>)

ForStatement_AtCondition ==
  /\ Runs("ForStatement_AtCondition")
  /\ \/ Peek = ";" /\ Continue(0, <<>>)
     \/ Peek # ";" /\ Continue(0, <<Expression>>)

(* The second semicolon is consumed without a look at it.                  *)
ForStatement_AtSecondSemicolon ==
  /\ Runs("ForStatement_AtSecondSemicolon")
  /\ Continue(1, <<>>)

ForStatement_AtExpression ==
  /\ Runs("ForStatement_AtExpression")
  /\ \/ Peek = ")" /\ Continue(1, <<>>)
     \/ Peek # ")" /\ Continue(0, <<Expression, Match(")")>>)

parseGotoStatement_AtFirst ==
  /\ Runs("GotoStatement")
  /\ Continue(1, Checked(<<Call("GotoStatement_AtLabel"), Match(";")>>)
                 \o <<End>>)

GotoStatement_AtLabel ==
  /\ Runs("GotoStatement_AtLabel")
  /\ \/ Peek = "Identifier" /\ Continue(1, <<>>)
     \/ Peek # "Identifier" /\ Fail("ExpectedTokenOfCategoryIdentifier")

(* parseContinueStatement_AtFirst and parseBreakStatement_AtFirst.         *)
parseJumpStatement_AtFirst ==
  /\ Runs("JumpStatement")
  /\ Continue(1, Checked(<<Match(";")>>) \o <<End>>)

parseReturnStatement_AtFirst ==
  \/ /\ Runs("ReturnStatement")
     /\ Continue(1, <<Call("ReturnStatement_AtExpression"), End>>)
  \/ /\ Runs("ReturnStatement_AtExpression")
     /\ \/ Peek = ";" /\ Continue(1, <<>>)
        \/ Peek # ";" /\ Continue(0, Checked(<<Expression, Match(";")>>))

-----------------------------------------------------------------------------
(* GNU asm statements.                                                     *)

parseExtGNU_AsmStatement ==
  /\ Runs("AsmStatement")
  /\ DiagnoseIf("ExtGNU_Asm" \notin Extensions, "ExpectedFeature")
  /\ Expand(1, Checked(<<Call("AsmQualifiers"), Match("("),
                         Call("StringLiteral"),
                         CallIn("AsmSection", "AsmOperand"),
                         CallIn("AsmSection", "AsmOperand"),
                         CallIn("AsmSection", "StringLiteral"),
                         CallIn("AsmSection", "AsmGotoLabel"),
                         Match(")"), Match(";")>>) \o <<End>>, node)

parseExtGNU_AsmQualifiers ==
  /\ Runs("AsmQualifiers")
  /\ \/ Peek \in {"volatile", "inline", "goto"}
        /\ Continue(1, <<Call("AsmQualifiers")>>)
     \/ Peek \notin {"volatile", "inline", "goto"} /\ Continue(0, <<>>)

(* An optional `:' and the optional list of items after it.                *)
FirstOfAsmItem ==
  [item \in {"AsmOperand", "StringLiteral", "AsmGotoLabel"} |->
     CASE item = "AsmOperand" -> {"StringLiteral", "["}
       [] item = "StringLiteral" -> {"StringLiteral"}
       [] item = "AsmGotoLabel" -> {"Identifier"}]

AsmSection ==
  \/ /\ Runs("AsmSection")
     /\ \/ Peek = ":" /\ Continue(1, <<CallIn("AsmSection_AtItems", Arg)>>)
        \/ Peek # ":" /\ Continue(0, <<>>)
  \/ /\ Runs("AsmSection_AtItems")
     /\ \/ /\ Peek \in FirstOfAsmItem[Arg]
           /\ Continue(0, <<CommaSeparatedItems(Arg)>>)
        \/ Peek \notin FirstOfAsmItem[Arg] /\ Continue(0, <<>>)

parseExtGNU_AsmOperand_AtFirst ==
  /\ Runs("AsmOperand")
  /\ LET operand == <<Call("StringLiteral"), Match("("), Expression,
                      Match(")")>>
     IN \/ /\ Peek = "["
           /\ Continue(1, <<Call("IdentifierName"), Match("]")>> \o operand)
        \/ Peek = "StringLiteral" /\ Continue(0, operand)
        \/ /\ Peek \notin {"[", "StringLiteral"}
           /\ ReturnFalse(0)
           /\ assertFails("parseExtGNU_AsmOperand_AtFirst")

parseExtGNU_AsmGotoLabel_AtFirst ==
  /\ Runs("AsmGotoLabel")
  /\ \/ Peek = "Identifier" /\ Return(1, <<"IdentifierName">>)
     \/ /\ Peek # "Identifier"
        /\ Expand(0, <<>>, node)
        /\ assertFails("parseIdentifierName_AtFirst")

StatementsNext ==
  \/ parseStatement \/ ExtensionStatement_End \/ parseDeclarationStatement
  \/ maybeAmbiguateStatement \/ parseExpressionStatement
  \/ parseCompoundStatement_AtFirst \/ CompoundStatement_Loop
  \/ CompoundStatement_SkipsToCloseBrace
  \/ parseIfStatement_AtFirst \/ Statement_End
  \/ parseSwitchStatement_AtFirst \/ parseWhileStatement_AtFirst
  \/ parseDoStatement_AtFirst \/ parseLabeledStatement_AtFirst
  \/ parseForStatement_AtFirst \/ ForStatement_AtInit
  \/ ForStatement_AtCondition \/ ForStatement_AtSecondSemicolon
  \/ ForStatement_AtExpression
  \/ parseGotoStatement_AtFirst \/ GotoStatement_AtLabel
  \/ parseJumpStatement_AtFirst \/ parseReturnStatement_AtFirst
  \/ parseExtGNU_AsmStatement \/ parseExtGNU_AsmQualifiers \/ AsmSection
  \/ parseExtGNU_AsmOperand_AtFirst \/ parseExtGNU_AsmGotoLabel_AtFirst

=============================================================================
