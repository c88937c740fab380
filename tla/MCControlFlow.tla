--------------------------- MODULE MCControlFlow ---------------------------
(***************************************************************************)
(* Graphs of small functions: every nesting of two ifs and loops, with     *)
(* their branches with and without braces, and jumps at every place.       *)
(***************************************************************************)
EXTENDS ControlFlow

CONSTANT Files      \* the texts that are read, as trees

\* The parts of a program.
name == Node("IdentifierName", [ident |-> TRUE])
call == Node("CallExpression", [expr |-> name, openParen |-> TRUE, closeParen |-> TRUE])
Simply(expr) == Node("ExpressionStatement", [expr |-> expr, semicolon |-> TRUE])
run == Simply(name)
return == Node("ReturnStatement", [returnKw |-> TRUE, semicolon |-> TRUE])
break == Node("BreakStatement", [breakKw |-> TRUE, semicolon |-> TRUE])
continue == Node("ContinueStatement", [continueKw |-> TRUE, semicolon |-> TRUE])
Block(stmts) ==
    Node("CompoundStatement", [openBrace |-> TRUE, closeBrace |-> TRUE] @@
            (IF stmts = <<>> THEN <<>> ELSE [stmts |-> stmts]))
Head1(kw) == (kw :> TRUE) @@ [openParen |-> TRUE, closeParen |-> TRUE]
If(s) == Node("IfStatement", Head1("ifKw") @@ [cond |-> name, stmt |-> s])
IfElse(s, t) ==
    Node("IfStatement",
        Head1("ifKw") @@ [cond |-> name, stmt |-> s, elseKw |-> TRUE, elseStmt |-> t])
While(s) == Node("WhileStatement", Head1("whileKw") @@ [cond |-> call, stmt |-> s])
Switch(s) == Node("SwitchStatement", Head1("switchKw") @@ [cond |-> name, stmt |-> s])
Do(s) ==
    Node("DoStatement",
        Head1("doKw") @@ [stmt |-> s, whileKw |-> TRUE, cond |-> name, semicolon |-> TRUE])
For(s) ==
    Node("ForStatement",
        Head1("forKw") @@ [initStmt |-> run, cond |-> name, semicolon |-> TRUE, expr |-> name,
                           stmt |-> s])

Function(stmts) ==
    Node("FunctionDefinition",
        [specs |-> <<Node("BuiltinTypeSpecifier", [spec |-> TRUE])>>,
         decltor |-> Node("ArrayOrFunctionDeclarator",
            [innerDecltor |-> Node("IdentifierDeclarator", [ident |-> TRUE]),
             suffix |-> Node("ParameterSuffix", [openParen |-> TRUE, closeParen |-> TRUE])]),
         body |-> Block(stmts)])
Unit(decls) == Node("TranslationUnit", [decls |-> decls])

-----------------------------------------------------------------------------

Jumps == {run, return, break, continue}
Branches(stmts) ==
    stmts \cup {Block(<<>>)} \cup UNION {{Block(<<s>>), Block(<<run, s>>), Block(<<s, run>>)} :
                                            s \in stmts}

Once == Branches(Jumps)
Whiles(stmts) == {While(s) : s \in stmts}
Ifs(stmts) == {If(s) : s \in stmts}
IfElses(stmts, others) == {IfElse(s, t) : s \in stmts, t \in others}
Inner == Whiles(Once) \cup Ifs(Once) \cup IfElses(Once, {run, break, Block(<<run>>), Block(<<>>)})
Twice == Branches(Inner)
Outer == Whiles(Twice) \cup Ifs(Twice) \cup IfElses({run, Block(<<run>>)}, Twice)

\* A function ends behind the statement, or with another.
Bodies(stmts) == UNION {{<<s>>, <<s, run>>} : s \in stmts}
Nestings == {Unit(<<Function(b)>>) : b \in Bodies(Inner \cup Outer)}

\* One statement behind another, in a function and in a loop.
Rowed ==
    {run, break, continue, While(run), While(Block(<<run, break>>)), While(Block(<<If(break), run>>)),
     If(run), If(Block(<<run, break>>)), If(Block(<<If(run), run>>)), IfElse(run, Block(<<run>>)),
     IfElse(Block(<<run>>), return), IfElse(While(run), Block(<<run>>))}
Rows ==
    {Unit(<<Function(b)>>) :
        b \in UNION {{<<s, t>>, <<s, t, run>>, <<While(Block(<<s, t>>))>>,
                      <<While(Block(<<s, t, run>>)), run>>} : s \in Rowed, t \in Rowed}}

\* The statements whose kind has no part in the graph, one function behind
\* another, and a statement in the initializer of a variable.
Case(s) == Node("LabeledStatement", [label |-> TRUE, expr |-> name, colon |-> TRUE, stmt |-> s])
Plainly ==
    {run, Simply(call), return, break, continue, Block(<<>>), Block(<<run, break>>),
     Block(<<If(continue), run>>), Block(<<While(run), break>>)}
Others ==
    UNION {{For(s), Do(s), Switch(Block(<<Case(run), s>>)), Switch(Block(<<Case(s), Case(run)>>)),
            If(Do(s)), While(Block(<<Switch(s), run>>)), For(Block(<<Do(s), run>>))} :
            s \in Plainly}
Ended == {<<>>, <<run>>, <<While(run)>>, <<If(Block(<<run, Simply(call)>>))>>, <<return>>,
          <<IfElse(run, If(run)), run>>, <<While(Block(<<If(break), While(run)>>))>>}
Outside ==
    Node("VariableAndOrFunctionDeclaration",
        [specs |-> <<Node("BuiltinTypeSpecifier", [spec |-> TRUE])>>, semicolon |-> TRUE,
         decltors |-> <<Node("IdentifierDeclarator",
            [ident |-> TRUE, equals |-> TRUE,
             init |-> Node("ExpressionInitializer",
                [expr |-> Node("ExtGNU_EnclosedCompoundStatementExpression",
                    [openParen |-> TRUE, stmt |-> Block(<<run>>), closeParen |-> TRUE])])])>>])
Various ==
    {Unit(<<Function(b)>>) : b \in Bodies(Others)}
    \cup {Unit(<<Function(b), Function(c)>>) : b \in Ended, c \in Ended}
    \cup {Unit(<<Outside>>), Unit(<<Function(<<run>>), Outside>>)}

AllFiles == Nestings \cup Rows \cup Various

Init == (\E file \in Files : tree = Tree(file)) /\ Start /\ StartFlow
Spec == Init /\ [][Next]_vars

-----------------------------------------------------------------------------
(* What the manual says of the jumps: a statement goes to the next; an if  *)
(* also to its else or out of the if, which the end of its first branch    *)
(* does too; a loop also out of it; the end of its body and a continue go  *)
(* to the loop; a break goes out of it.                                    *)

StmtPlace(stmt, place) == Append(place, IndexOf(stmt.shape, "stmt"))
ElsePlace(stmt, place) == Append(place, IndexOf(stmt.shape, "elseStmt"))
ElementPlace(block, place, i) == place \o <<IndexOf(block.shape, "stmts"), 2 * i - 1>>
StmtsOf(block) == IF "stmts" \in DOMAIN block.parts THEN block.parts.stmts ELSE <<>>

\* The first statement of a statement; what is behind it, when it is empty.
RECURSIVE Entry(_, _, _)
Entry(stmt, place, behind) ==
    IF stmt.kind # "CompoundStatement" THEN place
    ELSE IF StmtsOf(stmt) = <<>> THEN behind
    ELSE LET stmts == StmtsOf(stmt)
             After[i \in 1..(Len(stmts) + 1)] ==
                IF i > Len(stmts) THEN behind
                ELSE Entry(stmts[i], ElementPlace(stmt, place, i), After[i + 1])
         IN  After[1]

End == <<>>
Jump(place, next, false) == {[place |-> place, next |-> next, false |-> false]}

\* The jumps of a statement, of what is behind it, and of the loop it is in.
RECURSIVE JumpsOf(_, _, _, _, _)
JumpsOf(stmt, place, behind, loop, out) ==
    CASE stmt.kind = "CompoundStatement" ->
            LET stmts == StmtsOf(stmt)
                After[i \in 1..(Len(stmts) + 1)] ==
                    IF i > Len(stmts) THEN behind
                    ELSE Entry(stmts[i], ElementPlace(stmt, place, i), After[i + 1])
            IN  UNION {JumpsOf(stmts[i], ElementPlace(stmt, place, i), After[i + 1], loop, out) :
                        i \in DOMAIN stmts}
      [] stmt.kind = "IfStatement" ->
            LET then == StmtPlace(stmt, place)
                hasElse == "elseStmt" \in DOMAIN stmt.parts
                else == stmt.parts.elseStmt
            IN  Jump(place, Entry(stmt.parts.stmt, then, behind),
                     IF hasElse THEN Entry(else, ElsePlace(stmt, place), behind) ELSE behind)
                \cup JumpsOf(stmt.parts.stmt, then, behind, loop, out)
                \cup (IF hasElse THEN JumpsOf(else, ElsePlace(stmt, place), behind, loop, out) ELSE {})
      [] stmt.kind = "WhileStatement" ->
            LET body == StmtPlace(stmt, place)
            IN  Jump(place, Entry(stmt.parts.stmt, body, place), behind)
                \cup JumpsOf(stmt.parts.stmt, body, place, place, behind)
      [] stmt.kind = "BreakStatement" -> Jump(place, out, End)
      [] stmt.kind = "ContinueStatement" -> Jump(place, loop, End)
      [] stmt.kind = "ReturnStatement" -> Jump(place, End, End)
      [] OTHER -> Jump(place, behind, End)

BodyPlace(i) ==
    <<1, 2 * i - 1, IndexOf(tree.parts.decls[i].shape, "body")>>
JumpsOfFile ==
    UNION {JumpsOf(tree.parts.decls[i].parts.body, BodyPlace(i), End, End, End) :
            i \in DOMAIN tree.parts.decls}

\* The jumps of the graph.
PlaceOf(n) == IF n = Null THEN End ELSE flow.nodes[n].place
Statements == {n \in DOMAIN flow.nodes : flow.nodes[n].kind # "FunctionDefinition"}
JumpsOfGraph ==
    {[place |-> flow.nodes[n].place, next |-> PlaceOf(flow.nodes[n].nextNode),
      false |-> PlaceOf(flow.nodes[n].nextFalseNode)] : n \in Statements}

Read == todo = <<>> /\ at > Len(dump)

-----------------------------------------------------------------------------

Branching == {"IfStatement", "WhileStatement"}
LastOf(stmt) ==
    IF stmt.kind # "CompoundStatement" THEN stmt
    ELSE IF StmtsOf(stmt) = <<>> THEN Block(<<>>) ELSE Last(StmtsOf(stmt))

\* The programs whose graph is right: behind every if and every loop stands
\* another statement of the same block; the first branch of an if does not end
\* with a jump back or out of the function, a loop's body not with the latter; no
\* loop stands behind a break inside of a loop; and no jump right behind a loop.
RECURSIVE Plain(_, _), Broken(_), Looped(_)
Broken(stmt) ==
    \/ stmt.kind = "BreakStatement"
    \/ stmt.kind = "CompoundStatement" /\ \E i \in DOMAIN StmtsOf(stmt) : Broken(StmtsOf(stmt)[i])
    \/ /\ stmt.kind = "IfStatement"
       /\ Broken(stmt.parts.stmt) \/ ("elseStmt" \in DOMAIN stmt.parts /\ Broken(stmt.parts.elseStmt))
Looped(stmt) ==
    \/ stmt.kind = "WhileStatement"
    \/ stmt.kind = "CompoundStatement" /\ \E i \in DOMAIN StmtsOf(stmt) : Looped(StmtsOf(stmt)[i])
    \/ /\ stmt.kind = "IfStatement"
       /\ Looped(stmt.parts.stmt) \/ ("elseStmt" \in DOMAIN stmt.parts /\ Looped(stmt.parts.elseStmt))
Plain(stmt, inLoop) ==
    CASE stmt.kind = "CompoundStatement" ->
            /\ LastOf(stmt).kind \notin Branching
            /\ \A i \in DOMAIN StmtsOf(stmt) : Plain(StmtsOf(stmt)[i], inLoop)
            /\ \A i, j \in DOMAIN StmtsOf(stmt) :
                    i < j /\ inLoop => ~(Broken(StmtsOf(stmt)[i]) /\ Looped(StmtsOf(stmt)[j]))
      [] stmt.kind = "IfStatement" ->
            /\ LastOf(stmt.parts.stmt).kind \notin
                    Branching \cup {"ReturnStatement", "ContinueStatement"}
            /\ Plain(stmt.parts.stmt, inLoop)
            /\ "elseStmt" \in DOMAIN stmt.parts =>
                    /\ stmt.parts.elseStmt.kind \notin Branching
                    /\ Plain(stmt.parts.elseStmt, inLoop)
      [] stmt.kind = "WhileStatement" ->
            /\ LastOf(stmt.parts.stmt).kind \notin Branching \cup {"ReturnStatement"}
            /\ Plain(stmt.parts.stmt, TRUE)
      [] stmt.kind \in {"BreakStatement", "ContinueStatement"} -> inLoop
      [] OTHER -> stmt.kind \in {"ExpressionStatement", "ReturnStatement"}
JumpBehindLoop ==
    \E j, l \in DOMAIN dump :
        /\ dump[j].kind \in {"BreakStatement", "ContinueStatement"}
        /\ dump[l].kind \in Loops
        /\ l < j /\ ~Within(dump[j], dump[l])
        /\ \A m \in (l + 1)..(j - 1) :
                dump[m].kind \in StatementKinds => Within(dump[m], dump[l])
IsPlain ==
    /\ ~JumpBehindLoop
    /\ \A i \in DOMAIN tree.parts.decls :
            /\ tree.parts.decls[i].kind = "FunctionDefinition"
            /\ Plain(tree.parts.decls[i].parts.body, FALSE)

-----------------------------------------------------------------------------
(* Properties                                                              *)

\* "sequential", "false", "break", "continue" and "loop" jumps go where the manual
\* says, in the programs that are plain.
GraphOfTheText == (Read /\ IsPlain) => JumpsOfGraph = JumpsOfFile

\* The node at a place.
RECURSIVE NodeAt(_, _)
NodeAt(node, place) ==
    IF place = <<>> THEN node
    ELSE LET part == node.shape[place[1]]
             value == node.parts[part.field]
         IN  IF part.holds = "node" THEN NodeAt(value, Tail(place))
             ELSE NodeAt(value[(place[2] + 1) \div 2], Tail(Tail(place)))

\* In those, a statement is marked for a call when its own text, without that
\* of the statements in it, has one; but for the last, behind which no statement
\* sets the mark.
HasCall(stmt) ==
    \/ stmt.kind = "WhileStatement" /\ stmt.parts.cond.kind = "CallExpression"
    \/ stmt.kind = "ExpressionStatement" /\ stmt.parts.expr.kind = "CallExpression"
CallsAreMarked ==
    (Read /\ IsPlain) =>
        \A n \in Statements \ {flow.lastNode} :
            flow.nodes[n].hasCallExpr <=> HasCall(NodeAt(tree, flow.nodes[n].place))

\* "The continue statement by default jumps to the current while statement": the
\* manual, psychec4codeCfg, of the jumps that the graph has.
ContinuesGoBack ==
    Read =>
        \A n \in {m \in Statements : flow.nodes[m].kind = "ContinueStatement"} :
            LET loops == {m \in Statements :
                            /\ flow.nodes[m].kind \in Loops \cup {"DoStatement"}
                            /\ Within(flow.nodes[n], flow.nodes[m])}
                Innermost(m) == \A l \in loops \ {m} : Within(flow.nodes[m], flow.nodes[l])
            IN  \A m \in loops :
                    Innermost(m) /\ flow.nodes[m].kind # "DoStatement" => flow.nodes[n].nextNode = m
=============================================================================
