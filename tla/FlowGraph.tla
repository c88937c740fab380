------------------------------ MODULE FlowGraph ------------------------------
(***************************************************************************)
(* SyntaxNamePrinter::getCFG: the control-flow graph of the functions of a *)
(* file.  It is made in one pass over the list of nodes that the dumper    *)
(* leaves behind, from the kinds and the levels alone: which statement is  *)
(* where in which is not asked, but guessed from what was met before, kept *)
(* in stacks.                                                              *)
(*                                                                         *)
(* The list is any that a walk over a tree hands over, node by node; that  *)
(* of the dumper over a file is in ControlFlow.                            *)
(***************************************************************************)
EXTENDS Listing

VARIABLES
    at,     \* the index in the dump of the node that is read
    flow    \* what getCFG keeps: a record, see Empty

flowing == <<dump, at, flow>>

\* The kinds strictly between CompoundStatement and TypeName.
StatementKinds ==
    {"DeclarationStatement", "ExpressionStatement", "LabeledStatement", "IfStatement",
     "SwitchStatement", "WhileStatement", "DoStatement", "ForStatement", "GotoStatement",
     "ContinueStatement", "BreakStatement", "ReturnStatement", "ExtGNU_AsmStatement",
     "ExtGNU_AsmQualifier", "ExtGNU_AsmOperand"}

\* nonterminal, seen from here.
HandOver ==
    /\ dump' = Append(dump, dump'[Len(dump')])
    /\ IsListedAt(dump', Len(dump'))
    /\ UNCHANGED <<at, flow>>

-----------------------------------------------------------------------------

\* The graph's nodes are numbered as they are made; 0 is the null pointer, and
\* the node that lastNode is at first.
Null == 0

CFGNode(entry) ==
    [kind |-> entry.kind, level |-> entry.level, place |-> entry.place, isCondition |-> FALSE,
     hasCallExpr |-> FALSE, nextNode |-> Null, nextFalseNode |-> Null]

\* stmtNode is the statement whose turn it is, while the loops that it ends are
\* taken off.
Empty ==
    [nodes |-> <<>>, funcDefStack |-> <<>>, ifPairStack |-> <<>>, ifEndStmtStack |-> <<>>,
     loopPairStack |-> <<>>, breakStmtsStack |-> <<>>, lastNode |-> Null, stmtNode |-> Null,
     elseCompFlag |-> FALSE, callExprFlag |-> FALSE, undefined |-> FALSE]

Top(stack) == stack[Len(stack)]
Popped(stack) == SubSeq(stack, 1, Len(stack) - 1)

setNextNode(f, n, to) ==
    IF n = Null THEN f ELSE [f EXCEPT !.nodes[n].nextNode = to]
setNextFalseNode(f, n, to) == [f EXCEPT !.nodes[n].nextFalseNode = to]
LevelOf(f, n) == f.nodes[n].level
KindOf(f, n) == f.nodes[n].kind

-----------------------------------------------------------------------------
(* One statement, n, step by step.                                         *)

\* Mutant: the flag stays.
Marked_Kept(f) ==
    IF ~f.callExprFlag \/ f.lastNode = Null THEN f
    ELSE [f EXCEPT !.nodes[f.lastNode].hasCallExpr = TRUE]

Marked(f) ==
    IF ~f.callExprFlag THEN f
    ELSE [f EXCEPT !.nodes = IF f.lastNode = Null THEN @
                             ELSE [@ EXCEPT ![f.lastNode].hasCallExpr = TRUE],
                   !.callExprFlag = FALSE]

\* The node that is run after the one before, or first in the function.
Sequential(f, n) ==
    LET funcDef == Top(f.funcDefStack)
    IN  IF f.nodes[funcDef].nextNode = Null THEN setNextNode(f, funcDef, n)
        ELSE IF KindOf(f, f.lastNode) \notin {"ReturnStatement", "ContinueStatement"}
             THEN setNextNode(f, f.lastNode, n)
             ELSE f

\* The third node behind an if that is not inside of its branches, or the first
\* statement of a compound one, is where its condition goes when it is false.
FalseOfIf(f, n) ==
    LET if == Top(f.ifPairStack)
    IN  IF /\ f.ifPairStack # <<>>
           /\ f.elseCompFlag \/ (if.count = 0 /\ LevelOf(f, n) <= LevelOf(f, if.node) + 1)
        THEN [setNextFalseNode(f, if.node, n) EXCEPT
                !.ifEndStmtStack = Append(@, f.lastNode),
                !.ifPairStack[Len(f.ifPairStack)].count = -1,
                !.elseCompFlag = FALSE]
        ELSE f

\* The next that is no deeper than the if is where its first branch ends.
EndOfIf(f, n) ==
    LET if == Top(f.ifPairStack)
    IN  IF /\ f.ifPairStack # <<>> /\ f.ifEndStmtStack # <<>>
           /\ LevelOf(f, n) <= LevelOf(f, if.node)
        THEN [setNextNode(f, Top(f.ifEndStmtStack), n) EXCEPT
                !.ifPairStack = Popped(@), !.ifEndStmtStack = Popped(@)]
        ELSE f

\* Mutant: the if itself is not counted.
PushIf_Two(f, n) ==
    IF KindOf(f, n) # "IfStatement" THEN f
    ELSE [f EXCEPT !.nodes[n].isCondition = TRUE,
                   !.ifPairStack = Append(@, [node |-> n, count |-> 2])]

PushIf(f, n) ==
    IF KindOf(f, n) # "IfStatement" THEN f
    ELSE [f EXCEPT !.nodes[n].isCondition = TRUE,
                   !.ifPairStack = Append(@, [node |-> n, count |-> 3])]

\* A break is of the innermost loop; outside of any, the element behind an
\* empty vector is written.
Break(f, n) ==
    IF KindOf(f, n) # "BreakStatement" THEN f
    ELSE IF f.loopPairStack = <<>> THEN [f EXCEPT !.undefined = TRUE]
    ELSE [f EXCEPT !.loopPairStack[Len(f.loopPairStack)].hasBreak = TRUE,
                   !.breakStmtsStack[Len(f.breakStmtsStack)] = Append(@, n)]

Continue(f, n) ==
    IF KindOf(f, n) # "ContinueStatement" \/ f.loopPairStack = <<>> THEN f
    ELSE setNextNode(f, n, Top(f.loopPairStack).node)

\* All breaks of the innermost loop go to the statement behind it.
BreaksTo(f, n) ==
    LET row == Top(f.breakStmtsStack)
    IN  [f EXCEPT !.nodes = [b \in DOMAIN @ |->
                                IF b \in {row[i] : i \in DOMAIN row}
                                THEN [@[b] EXCEPT !.nextNode = n] ELSE @[b]],
                  !.breakStmtsStack = Popped(@)]

\* Mutant: a condition is not marked as one.
PushLoop_NoCondition(f, n) ==
    IF KindOf(f, n) \notin Loops THEN f
    ELSE [f EXCEPT !.loopPairStack = Append(@, [node |-> n, hasBreak |-> FALSE]),
                   !.breakStmtsStack = Append(@, <<>>)]

\* Mutant: the loop gets no row of breaks.
PushLoop_NoRow(f, n) ==
    IF KindOf(f, n) \notin Loops THEN f
    ELSE [f EXCEPT !.nodes[n].isCondition = TRUE,
                   !.loopPairStack = Append(@, [node |-> n, hasBreak |-> FALSE])]

\* Mutant: only a while is a loop.
PushLoop_WhileOnly(f, n) ==
    IF KindOf(f, n) # "WhileStatement" THEN f
    ELSE [f EXCEPT !.nodes[n].isCondition = TRUE,
                   !.loopPairStack = Append(@, [node |-> n, hasBreak |-> FALSE]),
                   !.breakStmtsStack = Append(@, <<>>)]

\* A loop that is no less deep than the statement ends before it.
Ends(f, n) == f.loopPairStack # <<>> /\ LevelOf(f, n) <= LevelOf(f, Top(f.loopPairStack).node)

EndLoop(f, n) ==
    LET loop == Top(f.loopPairStack)
        left == setNextNode(setNextFalseNode(f, loop.node, n), f.lastNode, loop.node)
    IN  [IF loop.hasBreak THEN BreaksTo(left, n) ELSE left EXCEPT !.loopPairStack = Popped(@)]

PushLoop(f, n) ==
    IF KindOf(f, n) \notin Loops THEN f
    ELSE [f EXCEPT !.nodes[n].isCondition = TRUE,
                   !.loopPairStack = Append(@, [node |-> n, hasBreak |-> FALSE]),
                   !.breakStmtsStack = Append(@, <<>>)]

\* The new statement, up to the loops that it ends.  One that is outside of all
\* functions reads behind an empty vector as well.
Statement(f, n) ==
    IF f.funcDefStack = <<>> THEN [f EXCEPT !.undefined = TRUE]
    ELSE LET ifs == PushIf(EndOfIf(FalseOfIf(Sequential(Marked(f), n), n), n), n)
             broken == Break(ifs, n)
         IN  IF broken.undefined THEN broken
             ELSE [Continue(broken, n) EXCEPT !.stmtNode = n]

-----------------------------------------------------------------------------

\* Behind every node of the dump: an if counts those that are not inside of its
\* branches; a call marks the statement before the next.
Counted(f, entry) ==
    LET top == Len(f.ifPairStack)
        if == f.ifPairStack[top]
        near == top # 0 /\ entry.level <= LevelOf(f, if.node) + 1
        less == [if EXCEPT !.count = if.count - 1]
    IN  [f EXCEPT
            !.elseCompFlag = f.elseCompFlag \/ (near /\ if.count = 0),
            !.ifPairStack = IF near /\ if.count > 0
                            THEN [f.ifPairStack EXCEPT ![top] = less] ELSE f.ifPairStack,
            !.callExprFlag = f.callExprFlag \/ entry.kind = "CallExpression"]

StartFlow == at = 1 /\ flow = Empty

\* The loop of getCFG is at a node, with or without its statement to go on with.
Reading(entry) ==
    /\ at <= Len(dump) /\ ~flow.undefined
    /\ entry = dump[at]
    /\ UNCHANGED dump

WithNode(entry) == [flow EXCEPT !.nodes = Append(flow.nodes, CFGNode(entry))]
New == Len(flow.nodes) + 1

ReadFunction(entry) ==
    /\ Reading(entry) /\ flow.stmtNode = Null
    /\ entry.kind = "FunctionDefinition" /\ entry.hasTokens
    /\ flow' = Counted([WithNode(entry) EXCEPT !.funcDefStack = Append(@, New)], entry)
    /\ at' = at + 1

ReadStatement(entry) ==
    /\ Reading(entry) /\ flow.stmtNode = Null
    /\ entry.kind \in StatementKinds /\ entry.hasTokens
    /\ flow' = Statement(WithNode(entry), New)
    /\ UNCHANGED at

\* The while loop over the loops, one by one.
LeaveLoop(entry) ==
    /\ Reading(entry) /\ flow.stmtNode # Null
    /\ Ends(flow, flow.stmtNode)
    /\ flow' = EndLoop(flow, flow.stmtNode)
    /\ UNCHANGED at

EndStatement(entry) ==
    /\ Reading(entry) /\ flow.stmtNode # Null
    /\ ~Ends(flow, flow.stmtNode)
    /\ LET read == PushLoop(flow, flow.stmtNode)
       IN  flow' = Counted([read EXCEPT !.lastNode = read.stmtNode, !.stmtNode = Null], entry)
    /\ at' = at + 1

PassOver(entry) ==
    /\ Reading(entry) /\ flow.stmtNode = Null
    /\ entry.kind \notin StatementKinds \cup {"FunctionDefinition"} \/ ~entry.hasTokens
    /\ flow' = Counted(flow, entry)
    /\ at' = at + 1

getCFG ==
    \E entry \in {dump[i] : i \in DOMAIN dump} :
        \/ ReadFunction(entry) \/ ReadStatement(entry) \/ PassOver(entry)
        \/ LeaveLoop(entry) \/ EndStatement(entry)

FlowSpec == dump = <<>> /\ StartFlow /\ [][HandOver \/ getCFG]_flowing

-----------------------------------------------------------------------------
(* Properties                                                              *)

(* SyntaxNamePrinter.cpp:261: the stacks hold what they are for: ifs with   *)
(* a count that can be counted down, loops in the graph, each deeper than  *)
(* the one it is on top of, and a row of breaks for each, so that the back *)
(* of the rows is there for every break (a row is left when its loop ends  *)
(* without a break, so there may be more rows than loops).  A function that*)
(* has a first statement is behind a last one, whose kind can be asked.    *)
StacksFit ==
    LET f == flow
    IN  /\ f.lastNode \in 0..Len(f.nodes)
        /\ f.stmtNode = Null /\ ~f.undefined => \A i \in DOMAIN f.funcDefStack :
                f.nodes[f.funcDefStack[i]].nextNode # Null => f.lastNode # Null
        /\ \A i \in DOMAIN f.ifPairStack :
                KindOf(f, f.ifPairStack[i].node) = "IfStatement" /\ f.ifPairStack[i].count \in -1..3
        /\ \A i, j \in DOMAIN f.loopPairStack :
                i < j => LevelOf(f, f.loopPairStack[i].node) < LevelOf(f, f.loopPairStack[j].node)
        /\ \A i \in DOMAIN f.loopPairStack : KindOf(f, f.loopPairStack[i].node) \in Loops
        /\ Len(f.loopPairStack) <= Len(f.breakStmtsStack)
        /\ \A r \in DOMAIN f.breakStmtsStack : \A i \in DOMAIN f.breakStmtsStack[r] :
                KindOf(f, f.breakStmtsStack[r][i]) = "BreakStatement"

(* SyntaxNamePrinter.cpp:221 and 261: the vectors are never read behind their *)
(* end but for a break that is in no loop (it may be in a switch or a do), *)
(* or a statement that is in no function.                                  *)
Around(e) == {dump[i].kind : i \in {j \in DOMAIN dump : Within(e, dump[j])}}
UndefinedOutsideOnly ==
    flow.undefined =>
        \/ dump[at].kind = "BreakStatement" /\ Around(dump[at]) \cap Loops = {}
        \/ "FunctionDefinition" \notin Around(dump[at])

\* A jump that is no deeper than a loop, with only deeper statements between.
\* The loop is still on the stack when the jump is added, which then ends it.
IsStatement(e) == e.kind \in StatementKinds /\ e.hasTokens
JumpEndsLoop ==
    \E l, j \in DOMAIN dump :
        /\ l < j /\ dump[l].kind \in Loops /\ dump[j].level <= dump[l].level
        /\ dump[j].kind \in {"BreakStatement", "ContinueStatement"} /\ IsStatement(dump[j])
        /\ \A m \in (l + 1)..(j - 1) : IsStatement(dump[m]) => dump[l].level < dump[m].level

\* The node that printCFG goes on with.
Printed(n) ==
    IF flow.nodes[n].isCondition THEN flow.nodes[n].nextFalseNode ELSE flow.nodes[n].nextNode

(* SyntaxNamePrinter.cpp:332: from every function printCFG comes to an end,*)
(* at the latest with all nodes printed, whatever is left in the stacks,   *)
(* be it in the next function: where no jump ends a loop.                  *)
PrintingEnds ==
    (at > Len(dump) /\ ~flow.undefined /\ ~JumpEndsLoop) =>
        \A i \in DOMAIN flow.funcDefStack :
            LET At[k \in 0..(Len(flow.nodes) + 1)] ==
                    IF k = 0 THEN flow.funcDefStack[i]
                    ELSE IF At[k - 1] = Null THEN Null ELSE Printed(At[k - 1])
            IN  At[Len(flow.nodes) + 1] = Null
=============================================================================
