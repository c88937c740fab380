------------------------- MODULE ControlFlowProofs -------------------------
(***************************************************************************)
(* What getCFG keeps in its stacks fits, whatever list of nodes is handed  *)
(* over, and the only reads behind their ends are those that the text calls*)
(* for: a break outside of loops, a statement outside of functions.  The   *)
(* graph that it makes of the list is printed in finitely many steps where *)
(* no jump ends a loop.                                                    *)
(***************************************************************************)
EXTENDS FlowGraph, SequenceTheorems, FiniteSetTheorems, WellFoundedInduction, TLAPS

Nodes ==
    [kind : STRING, level : Nat, place : Seq(Nat), isCondition : BOOLEAN,
     hasCallExpr : BOOLEAN, nextNode : Nat, nextFalseNode : Nat]
IfPairs == [node : Nat, count : -1..3]
LoopPairs == [node : Nat, hasBreak : BOOLEAN]
Flows ==
    [nodes : Seq(Nodes), funcDefStack : Seq(Nat), ifPairStack : Seq(IfPairs),
     ifEndStmtStack : Seq(Nat), loopPairStack : Seq(LoopPairs),
     breakStmtsStack : Seq(Seq(Nat)), lastNode : Nat, stmtNode : Nat,
     elseCompFlag : BOOLEAN, callExprFlag : BOOLEAN, undefined : BOOLEAN]

NodesOf(f) == 1..Len(f.nodes)

(* The stacks, one by one.                                                 *)
LastFits(f) == f.lastNode \in 0..Len(f.nodes) /\ f.stmtNode \in 0..Len(f.nodes)
FunctionsFit(f) == \A i \in DOMAIN f.funcDefStack : f.funcDefStack[i] \in NodesOf(f)
IfsFit(f) ==
    \A i \in DOMAIN f.ifPairStack :
        LET n == f.ifPairStack[i].node IN n \in NodesOf(f) /\ KindOf(f, n) = "IfStatement"
IfEndsFit(f) == \A i \in DOMAIN f.ifEndStmtStack : f.ifEndStmtStack[i] \in 0..Len(f.nodes)
LoopsFit(f) ==
    /\ \A i \in DOMAIN f.loopPairStack :
        LET n == f.loopPairStack[i].node IN n \in NodesOf(f) /\ KindOf(f, n) \in Loops
    /\ \A i, j \in DOMAIN f.loopPairStack :
        i < j => LevelOf(f, f.loopPairStack[i].node) < LevelOf(f, f.loopPairStack[j].node)
RowsFit(f) ==
    \A r \in DOMAIN f.breakStmtsStack : \A i \in DOMAIN f.breakStmtsStack[r] :
        LET n == f.breakStmtsStack[r][i] IN n \in NodesOf(f) /\ KindOf(f, n) = "BreakStatement"

Fits(f) ==
    /\ f \in Flows /\ LastFits(f) /\ FunctionsFit(f) /\ IfsFit(f) /\ IfEndsFit(f)
    /\ LoopsFit(f) /\ RowsFit(f) /\ Len(f.loopPairStack) <= Len(f.breakStmtsStack)

\* The nodes are the same ones, but for their links and marks.
Alike(f, g) ==
    /\ Len(g.nodes) = Len(f.nodes)
    /\ \A k \in NodesOf(f) : KindOf(g, k) = KindOf(f, k) /\ LevelOf(g, k) = LevelOf(f, k)

\* The stacks are the same.
SameStacks(f, g) ==
    /\ g.funcDefStack = f.funcDefStack /\ g.ifPairStack = f.ifPairStack
    /\ g.ifEndStmtStack = f.ifEndStmtStack /\ g.loopPairStack = f.loopPairStack
    /\ g.breakStmtsStack = f.breakStmtsStack /\ g.lastNode = f.lastNode
    /\ g.stmtNode = f.stmtNode

(* Nodes may be linked and marked.                                         *)
LEMMA AlikeFits ==
  ASSUME NEW f, NEW g, Fits(f), g \in Flows, Alike(f, g), SameStacks(f, g)
  PROVE  Fits(g)
<1>1. NodesOf(g) = NodesOf(f) /\ Len(g.nodes) = Len(f.nodes)
  BY DEF Alike, NodesOf
<1>2. LastFits(g)
  BY <1>1 DEF Fits, LastFits, SameStacks
<1>3. FunctionsFit(g)
  BY <1>1 DEF Fits, FunctionsFit, SameStacks
<1>4. IfsFit(g)
  BY <1>1 DEF Fits, IfsFit, SameStacks, Alike
<1>5. IfEndsFit(g)
  BY <1>1 DEF Fits, IfEndsFit, SameStacks
<1>6. LoopsFit(g)
  <2>1. ASSUME NEW i \in DOMAIN g.loopPairStack
        PROVE  /\ g.loopPairStack[i] = f.loopPairStack[i] /\ i \in DOMAIN f.loopPairStack
               /\ f.loopPairStack[i].node \in NodesOf(f)
               /\ KindOf(g, g.loopPairStack[i].node) \in Loops
               /\ LevelOf(g, g.loopPairStack[i].node) = LevelOf(f, f.loopPairStack[i].node)
    BY DEF Fits, LoopsFit, SameStacks, Alike
  <2> QED
    BY <1>1, <2>1 DEF Fits, LoopsFit
<1>7. RowsFit(g)
  BY <1>1 DEF Fits, RowsFit, SameStacks, Alike
<1> QED
  BY <1>2, <1>3, <1>4, <1>5, <1>6, <1>7 DEF Fits, SameStacks

(* What only reads the nodes, and a stack that a step leaves alone.        *)
LEMMA SameNodes ==
  ASSUME NEW g, NEW h, h.nodes = g.nodes
  PROVE  /\ NodesOf(h) = NodesOf(g) /\ Len(h.nodes) = Len(g.nodes)
         /\ \A n : KindOf(h, n) = KindOf(g, n) /\ LevelOf(h, n) = LevelOf(g, n)
BY DEF NodesOf, KindOf, LevelOf

LEMMA LastFitsAsBefore ==
  ASSUME NEW g, NEW h, Fits(g), h.nodes = g.nodes, h.lastNode = g.lastNode,
         h.stmtNode = g.stmtNode, h.funcDefStack = g.funcDefStack
  PROVE  LastFits(h) /\ FunctionsFit(h)
BY SameNodes, Zenon DEF Fits, LastFits, FunctionsFit

LEMMA LoopsFitAsBefore ==
  ASSUME NEW g, NEW h, Fits(g), h.nodes = g.nodes,
         h.loopPairStack = g.loopPairStack, h.breakStmtsStack = g.breakStmtsStack
  PROVE  /\ LoopsFit(h) /\ RowsFit(h)
         /\ Len(h.loopPairStack) <= Len(h.breakStmtsStack)
<1>0. LoopsFit(g) /\ RowsFit(g)
  BY DEF Fits
<1>1. LoopsFit(h)
  BY <1>0, SameNodes DEF LoopsFit
<1>2. RowsFit(h)
  BY <1>0, SameNodes DEF RowsFit
<1>3. Len(h.loopPairStack) <= Len(h.breakStmtsStack)
  BY DEF Fits
<1> QED
  BY <1>1, <1>2, <1>3

LEMMA LooksTheSame ==
  ASSUME NEW g, NEW h, h.nodes = g.nodes
  PROVE  Alike(g, h)
BY SameNodes, Zenon DEF Alike

LEMMA AlikeIsTransitive ==
  ASSUME NEW f, NEW g, NEW h, Alike(f, g), Alike(g, h)
  PROVE  Alike(f, h)
BY DEF Alike, NodesOf

(* Another list of nodes in place of the one.                              *)
LEMMA NodesReplaced ==
  ASSUME NEW f, Fits(f), NEW s \in Seq(Nodes), Len(s) = Len(f.nodes),
         \A k \in NodesOf(f) : s[k].kind = f.nodes[k].kind /\ s[k].level = f.nodes[k].level
  PROVE  LET g == [f EXCEPT !.nodes = s]
         IN  Fits(g) /\ Alike(f, g) /\ SameStacks(f, g) /\ g.undefined = f.undefined
<1> DEFINE g == [f EXCEPT !.nodes = s]
<1>0. f \in Flows
  BY DEF Fits
<1>1. g \in Flows /\ g.nodes = s
  BY <1>0 DEF Flows
<1>2. SameStacks(f, g) /\ g.undefined = f.undefined
  BY <1>0 DEF Flows, SameStacks
<1> HIDE DEF g
<1>3. Alike(f, g)
  BY <1>1 DEF Alike, KindOf, LevelOf
<1>4. Fits(g)
  BY <1>1, <1>2, <1>3, AlikeFits
<1> QED
  BY <1>2, <1>3, <1>4 DEF g

LEMMA NodeReplaced ==
  ASSUME NEW f, Fits(f), NEW n \in NodesOf(f), NEW node \in Nodes,
         node.kind = f.nodes[n].kind, node.level = f.nodes[n].level
  PROVE  LET g == [f EXCEPT !.nodes = [@ EXCEPT ![n] = node]]
         IN  Fits(g) /\ Alike(f, g) /\ SameStacks(f, g) /\ g.undefined = f.undefined
<1> DEFINE s == [f.nodes EXCEPT ![n] = node]
<1>1. f.nodes \in Seq(Nodes) /\ n \in 1..Len(f.nodes)
  BY DEF Fits, Flows, NodesOf
<1>2. s \in Seq(Nodes) /\ Len(s) = Len(f.nodes)
  BY <1>1, ExceptSeq
<1>3. \A k \in NodesOf(f) : s[k].kind = f.nodes[k].kind /\ s[k].level = f.nodes[k].level
  BY <1>1 DEF NodesOf
<1> HIDE DEF s
<1>4. LET g == [f EXCEPT !.nodes = s]
      IN  Fits(g) /\ Alike(f, g) /\ SameStacks(f, g) /\ g.undefined = f.undefined
  BY <1>2, <1>3, NodesReplaced
<1> QED
  BY <1>4 DEF s

LEMMA NodesAreNodes ==
  ASSUME NEW f, Fits(f), NEW n \in NodesOf(f)
  PROVE  f.nodes[n] \in Nodes
BY DEF Fits, Flows, NodesOf

Linked(f, g) == Fits(g) /\ Alike(f, g) /\ SameStacks(f, g) /\ g.undefined = f.undefined

LEMMA NextLinked ==
  ASSUME NEW f, Fits(f), NEW n \in 0..Len(f.nodes), NEW to \in Nat
  PROVE  Linked(f, setNextNode(f, n, to))
<1>1. CASE n = Null
  BY <1>1, AlikeFits DEF setNextNode, Linked, Alike, SameStacks
<1>2. CASE n # Null
  <2> DEFINE node == [f.nodes[n] EXCEPT !.nextNode = to]
  <2>1. n \in NodesOf(f)
    BY <1>2 DEF NodesOf, Null, Fits, Flows
  <2>2. node \in Nodes /\ node.kind = f.nodes[n].kind /\ node.level = f.nodes[n].level
    BY <2>1, NodesAreNodes DEF Nodes
  <2>3. setNextNode(f, n, to) = [f EXCEPT !.nodes = [@ EXCEPT ![n] = node]]
    BY <1>2 DEF setNextNode
  <2> HIDE DEF node
  <2> QED
    BY <2>1, <2>2, <2>3, NodeReplaced DEF Linked
<1> QED
  BY <1>1, <1>2

LEMMA FalseLinked ==
  ASSUME NEW f, Fits(f), NEW n \in NodesOf(f), NEW to \in Nat
  PROVE  Linked(f, setNextFalseNode(f, n, to))
<1> DEFINE node == [f.nodes[n] EXCEPT !.nextFalseNode = to]
<1>1. node \in Nodes /\ node.kind = f.nodes[n].kind /\ node.level = f.nodes[n].level
  BY NodesAreNodes DEF Nodes
<1>2. setNextFalseNode(f, n, to) = [f EXCEPT !.nodes = [@ EXCEPT ![n] = node]]
  BY DEF setNextFalseNode
<1> HIDE DEF node
<1> QED
  BY <1>1, <1>2, NodeReplaced DEF Linked

LEMMA ConditionMarked ==
  ASSUME NEW f, Fits(f), NEW n \in NodesOf(f)
  PROVE  Linked(f, [f EXCEPT !.nodes[n].isCondition = TRUE])
<1> DEFINE node == [f.nodes[n] EXCEPT !.isCondition = TRUE]
<1>1. node \in Nodes /\ node.kind = f.nodes[n].kind /\ node.level = f.nodes[n].level
  BY NodesAreNodes DEF Nodes
<1>2. [f EXCEPT !.nodes[n].isCondition = TRUE] = [f EXCEPT !.nodes = [@ EXCEPT ![n] = node]]
  OBVIOUS
<1> QED
  BY <1>1, <1>2, NodeReplaced DEF Linked

LEMMA MarkedFits ==
  ASSUME NEW f, Fits(f)
  PROVE  Linked(f, Marked(f))
<1> DEFINE n == f.lastNode
           node == [f.nodes[n] EXCEPT !.hasCallExpr = TRUE]
           s == IF n = Null THEN f.nodes ELSE [f.nodes EXCEPT ![n] = node]
           g == [f EXCEPT !.nodes = s]
           h == [g EXCEPT !.callExprFlag = FALSE]
<1>1. Linked(f, f)
  BY DEF Linked, Alike, SameStacks
<1>2. Linked(f, g)
  <2>1. CASE n = Null
    <3>1. g = f
      BY <2>1 DEF Fits, Flows
    <3> QED
      BY <1>1, <3>1
  <2>2. CASE n # Null
    <3>1. n \in NodesOf(f)
      BY <2>2 DEF Fits, Flows, LastFits, NodesOf, Null
    <3>2. node \in Nodes /\ node.kind = f.nodes[n].kind /\ node.level = f.nodes[n].level
      BY <3>1, NodesAreNodes DEF Nodes
    <3>3. g = [f EXCEPT !.nodes = [@ EXCEPT ![n] = node]]
      BY <2>2
    <3> HIDE DEF node, n, g
    <3> QED
      BY <3>1, <3>2, <3>3, NodeReplaced DEF Linked
  <2> QED
    BY <2>1, <2>2
<1>3. Linked(f, h)
  <2> HIDE DEF g
  <2>1. g \in Flows
    BY <1>2 DEF Linked, Fits
  <2>2. h \in Flows /\ h.nodes = g.nodes /\ SameStacks(g, h) /\ h.undefined = g.undefined
    BY <2>1 DEF Flows, SameStacks
  <2>3. Alike(g, h)
    BY <2>2 DEF Alike, KindOf, LevelOf
  <2>4. Fits(h)
    BY <1>2, <2>2, <2>3, AlikeFits DEF Linked
  <2>5. Alike(f, h)
    BY <1>2, <2>3, AlikeIsTransitive DEF Linked
  <2> QED
    BY <1>2, <2>2, <2>4, <2>5 DEF Linked, SameStacks
<1>4. Marked(f) = IF ~f.callExprFlag THEN f ELSE h
  BY DEF Marked, Fits, Flows
<1> QED
  BY <1>1, <1>3, <1>4

-----------------------------------------------------------------------------
(* One statement, step by step.                                            *)

\* The loops are the same ones.
SameLoops(f, g) ==
    /\ Len(g.loopPairStack) = Len(f.loopPairStack)
    /\ \A i \in 1..Len(f.loopPairStack) : g.loopPairStack[i].node = f.loopPairStack[i].node

\* What a step keeps that neither begins nor ends a loop.
Kept(f, g) ==
    /\ Fits(g) /\ Alike(f, g) /\ SameLoops(f, g) /\ g.funcDefStack = f.funcDefStack
    /\ g.undefined = f.undefined /\ g.stmtNode = f.stmtNode

LEMMA LinkedIsKept ==
  ASSUME NEW f, NEW g, Linked(f, g)
  PROVE  Kept(f, g)
BY DEF Linked, Kept, SameStacks, SameLoops

LEMMA NothingIsKept ==
  ASSUME NEW f, Fits(f)
  PROVE  Linked(f, f) /\ Kept(f, f)
BY DEF Linked, Kept, SameStacks, SameLoops, Alike

LEMMA KeptIsTransitive ==
  ASSUME NEW f, NEW g, NEW h, Kept(f, g), Kept(g, h)
  PROVE  Kept(f, h)
<1>1. Alike(f, h)
  BY AlikeIsTransitive DEF Kept
<1>2. SameLoops(f, h)
  BY DEF Kept, SameLoops
<1> QED
  BY <1>1, <1>2 DEF Kept

LEMMA TopIsIn ==
  ASSUME NEW S, NEW s \in Seq(S), s # <<>>
  PROVE  /\ Len(s) \in DOMAIN s /\ Len(s) \in Nat \ {0} /\ Top(s) \in S
         /\ Popped(s) \in Seq(S) /\ Len(Popped(s)) = Len(s) - 1
         /\ DOMAIN Popped(s) \subseteq DOMAIN s
         /\ \A i \in DOMAIN Popped(s) : Popped(s)[i] = s[i] /\ i < Len(s)
<1>1. Len(s) \in Nat \ {0} /\ DOMAIN s = 1..Len(s)
  BY EmptySeq
<1>2. /\ Popped(s) \in Seq(S) /\ Len(Popped(s)) = Len(s) - 1
      /\ \A i \in 1..(Len(s) - 1) : Popped(s)[i] = s[i]
  BY <1>1, SubSeqProperties DEF Popped
<1>3. DOMAIN Popped(s) = 1..(Len(s) - 1)
  BY <1>2
<1> QED
  BY <1>1, <1>2, <1>3 DEF Top

LEMMA PoppedIsIn ==
  ASSUME NEW S, NEW s \in Seq(S), s # <<>>
  PROVE  /\ Popped(s) \in Seq(S) /\ Len(Popped(s)) = Len(s) - 1
         /\ \A i \in DOMAIN Popped(s) : i \in DOMAIN s /\ Popped(s)[i] = s[i]
<1>1. /\ Popped(s) \in Seq(S) /\ Len(Popped(s)) = Len(s) - 1
      /\ DOMAIN Popped(s) \subseteq DOMAIN s
      /\ \A i \in DOMAIN Popped(s) : Popped(s)[i] = s[i]
  BY TopIsIn
<1> HIDE DEF Popped
<1> QED
  BY <1>1, Zenon

LEMMA SequentialFits ==
  ASSUME NEW f, Fits(f), NEW n \in NodesOf(f), f.funcDefStack # <<>>
  PROVE  Linked(f, Sequential(f, n))
<1> DEFINE funcDef == Top(f.funcDefStack)
<1>1. funcDef \in NodesOf(f)
  BY TopIsIn DEF Fits, Flows, FunctionsFit, Top
<1>2. funcDef \in 0..Len(f.nodes) /\ f.lastNode \in 0..Len(f.nodes) /\ n \in Nat
  BY <1>1 DEF NodesOf, Fits, LastFits
<1>3. Linked(f, setNextNode(f, funcDef, n)) /\ Linked(f, setNextNode(f, f.lastNode, n))
  BY <1>2, NextLinked
<1> QED
  BY <1>3, NothingIsKept DEF Sequential

LEMMA FalseOfIfFits ==
  ASSUME NEW f, Fits(f), NEW n \in NodesOf(f)
  PROVE  Kept(f, FalseOfIf(f, n))
<1> DEFINE if == Top(f.ifPairStack)
           g == setNextFalseNode(f, if.node, n)
           pair == [if EXCEPT !.count = -1]
           ends == Append(f.ifEndStmtStack, f.lastNode)
           pairs == [f.ifPairStack EXCEPT ![Len(f.ifPairStack)] = pair]
           h == [g EXCEPT !.ifEndStmtStack = ends, !.ifPairStack = pairs, !.elseCompFlag = FALSE]
<1>1. CASE f.ifPairStack # <<>>
  <2>0. f.ifPairStack \in Seq(IfPairs) /\ f.ifEndStmtStack \in Seq(Nat) /\ f.lastNode \in Nat
    BY DEF Fits, Flows
  <2>1. /\ Len(f.ifPairStack) \in DOMAIN f.ifPairStack /\ Len(f.ifPairStack) \in 1..Len(f.ifPairStack)
        /\ if \in IfPairs /\ if.node \in NodesOf(f)
    <3>1. Len(f.ifPairStack) \in DOMAIN f.ifPairStack /\ Len(f.ifPairStack) \in Nat \ {0} /\ if \in IfPairs
      BY <1>1, <2>0, TopIsIn
    <3>2. if.node \in NodesOf(f)
      BY <3>1 DEF Fits, IfsFit, Top
    <3> QED
      BY <3>1, <3>2
  <2>2. Linked(f, g)
    BY <2>1, FalseLinked DEF NodesOf
  <2>3. pair \in IfPairs /\ pair.node = if.node
    BY <2>1 DEF IfPairs
  <2>4. /\ pairs \in Seq(IfPairs) /\ Len(pairs) = Len(f.ifPairStack)
        /\ \A i \in 1..Len(f.ifPairStack) : pairs[i].node = f.ifPairStack[i].node
    <3> HIDE DEF pair
    <3>1. /\ pairs \in Seq(IfPairs) /\ Len(pairs) = Len(f.ifPairStack)
          /\ \A i \in 1..Len(f.ifPairStack) :
                pairs[i] = IF i = Len(f.ifPairStack) THEN pair ELSE f.ifPairStack[i]
      BY <2>0, <2>1, <2>3, ExceptSeq
    <3> QED
      BY <2>3, <3>1 DEF Top
  <2>5. /\ ends \in Seq(Nat) /\ Len(ends) = Len(f.ifEndStmtStack) + 1
        /\ \A i \in 1..Len(f.ifEndStmtStack) : ends[i] = f.ifEndStmtStack[i]
        /\ ends[Len(f.ifEndStmtStack) + 1] = f.lastNode
    BY <2>0, AppendProperties
  <2>6. Kept(f, h)
    <3> HIDE DEF g, ends, pairs
    <3>1. /\ Fits(g) /\ g \in Flows /\ g.ifPairStack = f.ifPairStack /\ g.ifEndStmtStack = f.ifEndStmtStack
          /\ g.lastNode = f.lastNode /\ Len(g.nodes) = Len(f.nodes)
      BY <2>2 DEF Linked, Fits, SameStacks, Alike
    <3>2. /\ h \in Flows /\ h.nodes = g.nodes /\ h.ifPairStack = pairs /\ h.ifEndStmtStack = ends
          /\ h.funcDefStack = g.funcDefStack /\ h.loopPairStack = g.loopPairStack
          /\ h.breakStmtsStack = g.breakStmtsStack /\ h.lastNode = g.lastNode
          /\ h.stmtNode = g.stmtNode /\ h.undefined = g.undefined
      BY <2>4, <2>5, <3>1 DEF Flows
    <3> HIDE DEF h
    <3>3. IfsFit(h)
      <4>1. ASSUME NEW i \in DOMAIN h.ifPairStack
            PROVE  /\ h.ifPairStack[i].node \in NodesOf(h)
                   /\ KindOf(h, h.ifPairStack[i].node) = "IfStatement"
        <5>1. i \in 1..Len(f.ifPairStack) /\ i \in DOMAIN g.ifPairStack
          <6>1. i \in 1..Len(pairs)
            BY <2>4, <3>2
          <6> QED
            BY <2>0, <2>4, <3>1, <6>1
        <5>2. h.ifPairStack[i].node = g.ifPairStack[i].node
          BY <2>4, <3>1, <3>2, <5>1, Zenon
        <5>3. /\ g.ifPairStack[i].node \in NodesOf(g)
              /\ KindOf(g, g.ifPairStack[i].node) = "IfStatement"
          BY <3>1, <5>1 DEF Fits, IfsFit
        <5>4. NodesOf(h) = NodesOf(g) /\ \A k : KindOf(h, k) = KindOf(g, k)
          BY <3>2, SameNodes, Zenon
        <5> QED
          BY <5>2, <5>3, <5>4
      <4> QED
        BY <4>1, Zenon DEF IfsFit
    <3>4. IfEndsFit(h)
      <4>1. ASSUME NEW i \in DOMAIN h.ifEndStmtStack
            PROVE  h.ifEndStmtStack[i] \in 0..Len(h.nodes)
        <5>1. Len(f.ifEndStmtStack) \in Nat /\ i \in 1..(Len(f.ifEndStmtStack) + 1)
          BY <2>0, <2>5, <3>2
        <5>2. CASE i \in 1..Len(f.ifEndStmtStack)
          <6>1. i \in DOMAIN g.ifEndStmtStack
            BY <2>0, <3>1, <5>2
          <6>2. h.ifEndStmtStack[i] = g.ifEndStmtStack[i]
            BY <2>5, <3>1, <3>2, <5>2, Zenon
          <6> QED
            BY <3>1, <3>2, <6>1, <6>2 DEF Fits, IfEndsFit
        <5>3. CASE i = Len(f.ifEndStmtStack) + 1
          BY <2>5, <3>1, <3>2, <5>3 DEF Fits, LastFits
        <5> QED
          BY <5>1, <5>2, <5>3
      <4> QED
        BY <4>1 DEF IfEndsFit
    <3>5. LastFits(h) /\ FunctionsFit(h) /\ LoopsFit(h) /\ RowsFit(h)
          /\ Len(h.loopPairStack) <= Len(h.breakStmtsStack)
      BY <3>1, <3>2, LastFitsAsBefore, LoopsFitAsBefore, Zenon
    <3>6. Fits(h)
      BY <3>2, <3>3, <3>4, <3>5 DEF Fits
    <3>7. Alike(g, h) /\ SameLoops(g, h)
      BY <3>2, LooksTheSame, SameNodes, Zenon DEF SameLoops
    <3>8. Kept(g, h)
      BY <3>2, <3>6, <3>7 DEF Kept
    <3> QED
      BY <2>2, <3>8, LinkedIsKept, KeptIsTransitive
  <2>7. FalseOfIf(f, n) = h \/ FalseOfIf(f, n) = f
    <3>1. [g EXCEPT !.ifEndStmtStack = Append(@, f.lastNode),
                    !.ifPairStack[Len(f.ifPairStack)].count = -1, !.elseCompFlag = FALSE] = h
      <4>1. g.ifPairStack = f.ifPairStack /\ g.ifEndStmtStack = f.ifEndStmtStack
        BY <2>2 DEF Linked, SameStacks
      <4>2. g \in Flows
        BY <2>2 DEF Linked, Fits
      <4> HIDE DEF g
      <4> QED
        BY <4>1, <4>2 DEF Top, Flows
    <3> QED
      BY <3>1 DEF FalseOfIf
  <2> QED
    BY <2>6, <2>7, NothingIsKept
<1>2. CASE f.ifPairStack = <<>>
  BY <1>2, NothingIsKept DEF FalseOfIf
<1> QED
  BY <1>1, <1>2

LEMMA EndOfIfFits ==
  ASSUME NEW f, Fits(f), NEW n \in NodesOf(f)
  PROVE  Kept(f, EndOfIf(f, n))
<1> DEFINE end == Top(f.ifEndStmtStack)
           g == setNextNode(f, end, n)
           pairs == Popped(f.ifPairStack)
           ends == Popped(f.ifEndStmtStack)
           h == [g EXCEPT !.ifPairStack = pairs, !.ifEndStmtStack = ends]
<1>0. f.ifPairStack \in Seq(IfPairs) /\ f.ifEndStmtStack \in Seq(Nat)
  BY DEF Fits, Flows
<1>1. CASE f.ifPairStack # <<>> /\ f.ifEndStmtStack # <<>>
  <2>1. end \in 0..Len(f.nodes)
    BY <1>0, <1>1, TopIsIn DEF Fits, IfEndsFit, Top
  <2>2. Linked(f, g)
    BY <2>1, NextLinked DEF NodesOf
  <2>3. /\ pairs \in Seq(IfPairs) /\ ends \in Seq(Nat)
        /\ \A i \in DOMAIN pairs : i \in DOMAIN f.ifPairStack /\ pairs[i] = f.ifPairStack[i]
        /\ \A i \in DOMAIN ends : i \in DOMAIN f.ifEndStmtStack /\ ends[i] = f.ifEndStmtStack[i]
    <3>1. /\ pairs \in Seq(IfPairs)
          /\ \A i \in DOMAIN pairs : i \in DOMAIN f.ifPairStack /\ pairs[i] = f.ifPairStack[i]
      BY <1>0, <1>1, PoppedIsIn, Zenon
    <3>2. /\ ends \in Seq(Nat)
          /\ \A i \in DOMAIN ends : i \in DOMAIN f.ifEndStmtStack /\ ends[i] = f.ifEndStmtStack[i]
      BY <1>0, <1>1, PoppedIsIn, Zenon
    <3> QED
      BY <3>1, <3>2, Zenon
  <2>4. Kept(f, h)
    <3> HIDE DEF g, ends, pairs
    <3>1. /\ Fits(g) /\ g \in Flows /\ g.ifPairStack = f.ifPairStack /\ g.ifEndStmtStack = f.ifEndStmtStack
          /\ Len(g.nodes) = Len(f.nodes)
      BY <2>2 DEF Linked, Fits, SameStacks, Alike
    <3>2. /\ h \in Flows /\ h.nodes = g.nodes /\ h.ifPairStack = pairs /\ h.ifEndStmtStack = ends
          /\ h.funcDefStack = g.funcDefStack /\ h.loopPairStack = g.loopPairStack
          /\ h.breakStmtsStack = g.breakStmtsStack /\ h.lastNode = g.lastNode
          /\ h.stmtNode = g.stmtNode /\ h.undefined = g.undefined
      BY <2>3, <3>1 DEF Flows
    <3> HIDE DEF h
    <3>3. IfsFit(h) /\ IfEndsFit(h)
      <4>1. NodesOf(h) = NodesOf(g) /\ \A k : KindOf(h, k) = KindOf(g, k)
        BY <3>2, SameNodes, Zenon
      <4>2. IfsFit(g) /\ IfEndsFit(g)
        BY <3>1 DEF Fits
      <4>3. IfsFit(h)
        BY <2>3, <3>1, <3>2, <4>1, <4>2 DEF IfsFit
      <4>4. IfEndsFit(h)
        BY <2>3, <3>1, <3>2, <4>2, Zenon DEF IfEndsFit
      <4> QED
        BY <4>3, <4>4
    <3>4. LastFits(h) /\ FunctionsFit(h) /\ LoopsFit(h) /\ RowsFit(h)
          /\ Len(h.loopPairStack) <= Len(h.breakStmtsStack)
      BY <3>1, <3>2, LastFitsAsBefore, LoopsFitAsBefore, Zenon
    <3>5. Fits(h)
      BY <3>2, <3>3, <3>4 DEF Fits
    <3>6. Alike(g, h) /\ SameLoops(g, h)
      BY <3>2, LooksTheSame, SameNodes, Zenon DEF SameLoops
    <3>7. Kept(g, h)
      BY <3>2, <3>5, <3>6 DEF Kept
    <3> QED
      BY <2>2, <3>7, LinkedIsKept, KeptIsTransitive
  <2>5. [g EXCEPT !.ifPairStack = Popped(@), !.ifEndStmtStack = Popped(@)] = h
    <3>1. g.ifPairStack = f.ifPairStack /\ g.ifEndStmtStack = f.ifEndStmtStack /\ g \in Flows
      BY <2>2 DEF Linked, SameStacks, Fits
    <3> HIDE DEF g
    <3> QED
      BY <3>1 DEF Flows
  <2> QED
    BY <2>4, <2>5, NothingIsKept DEF EndOfIf
<1>2. CASE ~(f.ifPairStack # <<>> /\ f.ifEndStmtStack # <<>>)
  BY <1>2, NothingIsKept DEF EndOfIf
<1> QED
  BY <1>1, <1>2

LEMMA PushIfFits ==
  ASSUME NEW f, Fits(f), NEW n \in NodesOf(f)
  PROVE  Kept(f, PushIf(f, n))
<1> DEFINE g == [f EXCEPT !.nodes[n].isCondition = TRUE]
           pair == [node |-> n, count |-> 3]
           pairs == Append(f.ifPairStack, pair)
           h == [g EXCEPT !.ifPairStack = pairs]
<1>0. f.ifPairStack \in Seq(IfPairs) /\ Len(f.ifPairStack) \in Nat /\ f \in Flows
  BY DEF Fits, Flows
<1>1. CASE KindOf(f, n) = "IfStatement"
  <2>1. Linked(f, g)
    BY ConditionMarked
  <2>2. pair \in IfPairs /\ pair.node = n
    BY DEF NodesOf, IfPairs
  <2>3. /\ pairs \in Seq(IfPairs) /\ Len(pairs) = Len(f.ifPairStack) + 1
        /\ \A i \in 1..Len(f.ifPairStack) : pairs[i] = f.ifPairStack[i]
        /\ pairs[Len(f.ifPairStack) + 1] = pair
    BY <1>0, <2>2, AppendProperties
  <2>4. Kept(f, h)
    <3> HIDE DEF g, pairs, pair
    <3>1. /\ Fits(g) /\ g \in Flows /\ g.ifPairStack = f.ifPairStack
          /\ n \in NodesOf(g) /\ KindOf(g, n) = "IfStatement"
      BY <1>1, <2>1 DEF Linked, Fits, SameStacks, Alike, NodesOf
    <3>2. /\ h \in Flows /\ h.nodes = g.nodes /\ h.ifPairStack = pairs
          /\ h.ifEndStmtStack = g.ifEndStmtStack
          /\ h.funcDefStack = g.funcDefStack /\ h.loopPairStack = g.loopPairStack
          /\ h.breakStmtsStack = g.breakStmtsStack /\ h.lastNode = g.lastNode
          /\ h.stmtNode = g.stmtNode /\ h.undefined = g.undefined
      BY <2>3, <3>1 DEF Flows
    <3> HIDE DEF h
    <3>3. IfsFit(h)
      <4>1. ASSUME NEW i \in DOMAIN h.ifPairStack
            PROVE  /\ h.ifPairStack[i].node \in NodesOf(h)
                   /\ KindOf(h, h.ifPairStack[i].node) = "IfStatement"
        <5>1. i \in 1..(Len(f.ifPairStack) + 1)
          BY <2>3, <3>2
        <5>2. CASE i \in 1..Len(f.ifPairStack)
          <6>1. i \in DOMAIN g.ifPairStack /\ h.ifPairStack[i] = g.ifPairStack[i]
            BY <1>0, <2>3, <3>1, <3>2, <5>2
          <6> QED
            BY <3>1, <3>2, <6>1 DEF Fits, IfsFit, KindOf, NodesOf
        <5>3. CASE i = Len(f.ifPairStack) + 1
          BY <2>2, <2>3, <3>1, <3>2, <5>3 DEF KindOf, NodesOf
        <5> QED
          BY <1>0, <5>1, <5>2, <5>3
      <4> QED
        BY <4>1 DEF IfsFit
    <3>4. LastFits(h) /\ FunctionsFit(h) /\ IfEndsFit(h) /\ LoopsFit(h) /\ RowsFit(h)
          /\ Len(h.loopPairStack) <= Len(h.breakStmtsStack)
      <4>1. LastFits(h) /\ FunctionsFit(h) /\ LoopsFit(h) /\ RowsFit(h)
            /\ Len(h.loopPairStack) <= Len(h.breakStmtsStack)
        BY <3>1, <3>2, LastFitsAsBefore, LoopsFitAsBefore, Zenon
      <4>2. IfEndsFit(h)
        BY <3>1, <3>2 DEF Fits, IfEndsFit
      <4> QED
        BY <4>1, <4>2
    <3>5. Fits(h)
      BY <3>2, <3>3, <3>4 DEF Fits
    <3>6. Alike(g, h) /\ SameLoops(g, h)
      BY <3>2, LooksTheSame, SameNodes, Zenon DEF SameLoops
    <3>7. Kept(g, h)
      BY <3>2, <3>5, <3>6 DEF Kept
    <3> QED
      BY <2>1, <3>7, LinkedIsKept, KeptIsTransitive
  <2>5. PushIf(f, n) = h
    BY <1>0, <1>1 DEF PushIf, Flows
  <2> QED
    BY <2>4, <2>5
<1>2. CASE KindOf(f, n) # "IfStatement"
  BY <1>2, NothingIsKept DEF PushIf
<1> QED
  BY <1>1, <1>2

LEMMA LoopsAndRows ==
  ASSUME NEW f, Fits(f), f.loopPairStack # <<>>
  PROVE  /\ f \in Flows /\ f.loopPairStack \in Seq(LoopPairs) /\ f.breakStmtsStack \in Seq(Seq(Nat))
         /\ f.breakStmtsStack # <<>>
         /\ Len(f.loopPairStack) \in 1..Len(f.loopPairStack)
         /\ Len(f.breakStmtsStack) \in 1..Len(f.breakStmtsStack)
         /\ Top(f.loopPairStack) \in LoopPairs /\ Top(f.loopPairStack).node \in NodesOf(f)
         /\ Top(f.breakStmtsStack) \in Seq(Nat)
<1>1. /\ f \in Flows /\ f.loopPairStack \in Seq(LoopPairs) /\ f.breakStmtsStack \in Seq(Seq(Nat))
      /\ Len(f.loopPairStack) <= Len(f.breakStmtsStack)
  BY DEF Fits, Flows
<1>2. /\ Len(f.loopPairStack) \in DOMAIN f.loopPairStack /\ Len(f.loopPairStack) \in Nat \ {0}
      /\ Top(f.loopPairStack) \in LoopPairs
  BY <1>1, TopIsIn
<1>3. f.breakStmtsStack # <<>>
  BY <1>1, <1>2
<1>4. Len(f.breakStmtsStack) \in Nat \ {0} /\ Top(f.breakStmtsStack) \in Seq(Nat)
  BY <1>1, <1>3, TopIsIn
<1>5. Top(f.loopPairStack).node \in NodesOf(f)
  BY <1>2 DEF Fits, LoopsFit, Top
<1> QED
  BY <1>1, <1>2, <1>3, <1>4, <1>5

(* Loops and rows of breaks that are replaced, and nothing else.           *)
OnlyLoops(f, h) ==
    /\ h \in Flows /\ h.nodes = f.nodes /\ h.ifPairStack = f.ifPairStack
    /\ h.ifEndStmtStack = f.ifEndStmtStack /\ h.funcDefStack = f.funcDefStack
    /\ h.lastNode = f.lastNode /\ h.stmtNode = f.stmtNode /\ h.undefined = f.undefined

LEMMA LoopsReplaced ==
  ASSUME NEW f, Fits(f), NEW h, OnlyLoops(f, h), LoopsFit(h), RowsFit(h),
         Len(h.loopPairStack) <= Len(h.breakStmtsStack)
  PROVE  /\ Fits(h) /\ Alike(f, h) /\ h.funcDefStack = f.funcDefStack
         /\ h.undefined = f.undefined /\ h.stmtNode = f.stmtNode
<1>1. LastFits(h) /\ FunctionsFit(h) /\ IfsFit(h) /\ IfEndsFit(h)
  BY DEF Fits, LastFits, FunctionsFit, IfsFit, IfEndsFit, KindOf, NodesOf, OnlyLoops
<1>2. Fits(h)
  BY <1>1 DEF Fits, OnlyLoops
<1>3. Alike(f, h)
  BY DEF Alike, KindOf, LevelOf, OnlyLoops
<1> QED
  BY <1>2, <1>3 DEF OnlyLoops

LEMMA BreakFits ==
  ASSUME NEW f, Fits(f), NEW n \in NodesOf(f),
         KindOf(f, n) = "BreakStatement" => f.loopPairStack # <<>>
  PROVE  Kept(f, Break(f, n))
<1> DEFINE loop == [Top(f.loopPairStack) EXCEPT !.hasBreak = TRUE]
           row == Append(Top(f.breakStmtsStack), n)
           loops == [f.loopPairStack EXCEPT ![Len(f.loopPairStack)] = loop]
           rows == [f.breakStmtsStack EXCEPT ![Len(f.breakStmtsStack)] = row]
           h == [f EXCEPT !.loopPairStack = loops, !.breakStmtsStack = rows]
<1>1. CASE KindOf(f, n) = "BreakStatement"
  <2>1. /\ f \in Flows /\ f.loopPairStack \in Seq(LoopPairs) /\ f.breakStmtsStack \in Seq(Seq(Nat))
        /\ Len(f.loopPairStack) \in 1..Len(f.loopPairStack)
        /\ Len(f.breakStmtsStack) \in 1..Len(f.breakStmtsStack)
        /\ Top(f.loopPairStack) \in LoopPairs /\ Top(f.breakStmtsStack) \in Seq(Nat)
    BY <1>1, LoopsAndRows
  <2>2. loop \in LoopPairs /\ loop.node = Top(f.loopPairStack).node
    BY <2>1 DEF LoopPairs
  <2>3. n \in Nat
    BY DEF NodesOf
  <2>4. /\ DOMAIN Top(f.breakStmtsStack) = 1..Len(Top(f.breakStmtsStack))
        /\ Len(Top(f.breakStmtsStack)) \in Nat /\ DOMAIN row = 1..(Len(Top(f.breakStmtsStack)) + 1)
        /\ row \in Seq(Nat) /\ Len(row) = Len(Top(f.breakStmtsStack)) + 1
        /\ \A i \in 1..Len(Top(f.breakStmtsStack)) : row[i] = Top(f.breakStmtsStack)[i]
        /\ row[Len(Top(f.breakStmtsStack)) + 1] = n
    BY <2>1, <2>3, AppendProperties
  <2>5. /\ loops \in Seq(LoopPairs) /\ Len(loops) = Len(f.loopPairStack)
        /\ DOMAIN loops = 1..Len(f.loopPairStack) /\ DOMAIN f.loopPairStack = 1..Len(f.loopPairStack)
        /\ \A i \in 1..Len(f.loopPairStack) : loops[i].node = f.loopPairStack[i].node
    <3> HIDE DEF loop
    <3>1. /\ loops \in Seq(LoopPairs) /\ Len(loops) = Len(f.loopPairStack)
          /\ \A i \in 1..Len(f.loopPairStack) :
                loops[i] = IF i = Len(f.loopPairStack) THEN loop ELSE f.loopPairStack[i]
      BY <2>1, <2>2, ExceptSeq
    <3> QED
      BY <2>2, <3>1 DEF Top
  <2>6. /\ rows \in Seq(Seq(Nat)) /\ Len(rows) = Len(f.breakStmtsStack)
        /\ \A i \in 1..Len(f.breakStmtsStack) :
                rows[i] = IF i = Len(f.breakStmtsStack) THEN row ELSE f.breakStmtsStack[i]
    <3> HIDE DEF row
    <3> QED
      BY <2>1, <2>4, ExceptSeq
  <2>7. LoopsFit(h)
    <3>1. h.loopPairStack = loops /\ h.nodes = f.nodes
      BY <2>1 DEF Flows
    <3> HIDE DEF h, loops
    <3>2. \A i \in DOMAIN h.loopPairStack :
            i \in DOMAIN f.loopPairStack /\ h.loopPairStack[i].node = f.loopPairStack[i].node
      BY <2>5, <3>1, Zenon
    <3>3. LoopsFit(f) /\ NodesOf(h) = NodesOf(f)
          /\ \A k : KindOf(h, k) = KindOf(f, k) /\ LevelOf(h, k) = LevelOf(f, k)
      BY <3>1, SameNodes DEF Fits
    <3> QED
      BY <3>2, <3>3 DEF LoopsFit
  <2>8. RowsFit(h)
    <3>1. h.breakStmtsStack = rows /\ h.nodes = f.nodes
      BY <2>1 DEF Flows
    <3> HIDE DEF h, rows, row
    <3>2. ASSUME NEW r \in DOMAIN h.breakStmtsStack, NEW i \in DOMAIN h.breakStmtsStack[r]
          PROVE  /\ h.breakStmtsStack[r][i] \in NodesOf(h)
                 /\ KindOf(h, h.breakStmtsStack[r][i]) = "BreakStatement"
      <4>1. r \in 1..Len(f.breakStmtsStack) /\ r \in DOMAIN f.breakStmtsStack
        <5>1. r \in 1..Len(rows)
          BY <2>6, <3>1
        <5> QED
          BY <2>1, <2>6, <5>1
      <4>2. CASE r # Len(f.breakStmtsStack)
        <5>1. h.breakStmtsStack[r] = f.breakStmtsStack[r]
          BY <2>6, <3>1, <4>1, <4>2, Zenon
        <5>2. RowsFit(f) /\ NodesOf(h) = NodesOf(f) /\ \A k : KindOf(h, k) = KindOf(f, k)
          BY <3>1, SameNodes DEF Fits
        <5> QED
          BY <4>1, <5>1, <5>2 DEF RowsFit
      <4>3. CASE r = Len(f.breakStmtsStack)
        <5>1. h.breakStmtsStack[r] = row /\ i \in 1..(Len(Top(f.breakStmtsStack)) + 1)
          <6>1. h.breakStmtsStack[r] = row
            BY <2>6, <3>1, <4>1, <4>3
          <6> QED
            BY <2>4, <6>1
        <5>2. CASE i = Len(Top(f.breakStmtsStack)) + 1
          BY <1>1, <2>4, <3>1, <5>1, <5>2 DEF KindOf, NodesOf
        <5>3. CASE i \in 1..Len(Top(f.breakStmtsStack))
          <6>1. /\ row[i] = f.breakStmtsStack[r][i] /\ i \in DOMAIN f.breakStmtsStack[r]
            BY <2>4, <4>3, <5>3 DEF Top
          <6> QED
            BY <3>1, <4>1, <5>1, <6>1 DEF Fits, RowsFit, KindOf, NodesOf
        <5>4. Len(Top(f.breakStmtsStack)) \in Nat
          BY <2>1
        <5> QED
          BY <5>1, <5>2, <5>3, <5>4
      <4> QED
        BY <4>2, <4>3
    <3> QED
      BY <3>2 DEF RowsFit
  <2>9. Len(loops) <= Len(rows)
    BY <2>5, <2>6 DEF Fits
  <2>10. Kept(f, h)
    <3> HIDE DEF loops, rows
    <3>0. OnlyLoops(f, h) /\ h.loopPairStack = loops /\ h.breakStmtsStack = rows
      BY <2>1, <2>5, <2>6 DEF OnlyLoops, Flows
    <3> HIDE DEF h
    <3>1. /\ Fits(h) /\ Alike(f, h) /\ h.funcDefStack = f.funcDefStack
          /\ h.undefined = f.undefined /\ h.stmtNode = f.stmtNode /\ h.loopPairStack = loops
      BY <2>7, <2>8, <2>9, <3>0, LoopsReplaced
    <3> QED
      BY <2>5, <3>1 DEF Kept, SameLoops
  <2>11. Break(f, n) = h
    BY <1>1, <2>1 DEF Break, Top, Flows
  <2> QED
    BY <2>10, <2>11
<1>2. CASE KindOf(f, n) # "BreakStatement"
  BY <1>2, NothingIsKept DEF Break
<1> QED
  BY <1>1, <1>2

LEMMA ContinueFits ==
  ASSUME NEW f, Fits(f), NEW n \in NodesOf(f)
  PROVE  Kept(f, Continue(f, n))
<1>1. CASE f.loopPairStack # <<>>
  <2>1. Top(f.loopPairStack).node \in Nat /\ n \in 0..Len(f.nodes)
    BY <1>1, LoopsAndRows DEF NodesOf
  <2> QED
    BY <2>1, NextLinked, LinkedIsKept, NothingIsKept DEF Continue
<1>2. CASE f.loopPairStack = <<>>
  BY <1>2, NothingIsKept DEF Continue
<1> QED
  BY <1>1, <1>2

-----------------------------------------------------------------------------
(* The loops that a statement ends, and the one it begins.                 *)

LEMMA BreaksToFits ==
  ASSUME NEW f, Fits(f), NEW n \in NodesOf(f), f.loopPairStack # <<>>
  PROVE  LET g == [f EXCEPT !.nodes = BreaksTo(f, n).nodes]
         IN  Linked(f, g) /\ BreaksTo(f, n) = [g EXCEPT !.breakStmtsStack = Popped(@)]
<1> DEFINE row == Top(f.breakStmtsStack)
           s == [b \in DOMAIN f.nodes |-> IF b \in {row[i] : i \in DOMAIN row}
                                          THEN [f.nodes[b] EXCEPT !.nextNode = n] ELSE f.nodes[b]]
           g == [f EXCEPT !.nodes = s]
<1>1. f \in Flows /\ f.nodes \in Seq(Nodes) /\ DOMAIN f.nodes = NodesOf(f) /\ n \in Nat
  BY DEF Fits, Flows, NodesOf
<1>2. \A b \in DOMAIN f.nodes :
        LET node == [f.nodes[b] EXCEPT !.nextNode = n]
        IN  /\ f.nodes[b] \in Nodes /\ node \in Nodes
            /\ node.kind = f.nodes[b].kind /\ node.level = f.nodes[b].level
  <2> TAKE b \in DOMAIN f.nodes
  <2>1. f.nodes[b] \in Nodes
    BY <1>1
  <2> QED
    BY <1>1, <2>1 DEF Nodes
<1>3. /\ \A b \in NodesOf(f) : s[b] \in Nodes /\ s[b].kind = f.nodes[b].kind /\ s[b].level = f.nodes[b].level
      /\ DOMAIN s = 1..Len(f.nodes)
  BY <1>1, <1>2 DEF NodesOf
<1> HIDE DEF row
<1>4. s \in Seq(Nodes) /\ Len(s) = Len(f.nodes)
  <2>1. Len(f.nodes) \in Nat /\ s = [b \in 1..Len(f.nodes) |-> s[b]]
    BY <1>1 DEF NodesOf
  <2> HIDE DEF s
  <2>2. \A b \in 1..Len(f.nodes) : s[b] \in Nodes
    BY <1>3 DEF NodesOf
  <2>3. s \in [1..Len(f.nodes) -> Nodes]
    BY <2>1, <2>2
  <2> QED
    BY <2>1, <2>3
<1>5. BreaksTo(f, n) = [g EXCEPT !.breakStmtsStack = Popped(@)] /\ BreaksTo(f, n).nodes = s
  BY <1>1 DEF BreaksTo, row, Flows
<1> HIDE DEF s
<1>6. Linked(f, g)
  BY <1>3, <1>4, NodesReplaced DEF Linked
<1> QED
  BY <1>5, <1>6

LEMMA EndLoopFits ==
  ASSUME NEW f, Fits(f), NEW n \in NodesOf(f), f.loopPairStack # <<>>
  PROVE  LET h == EndLoop(f, n)
         IN  /\ Fits(h) /\ Alike(f, h) /\ h.loopPairStack = Popped(f.loopPairStack)
             /\ h.funcDefStack = f.funcDefStack /\ h.undefined = f.undefined
             /\ h.stmtNode = f.stmtNode
<1> DEFINE loop == Top(f.loopPairStack)
           left == setNextNode(setNextFalseNode(f, loop.node, n), f.lastNode, loop.node)
           linked == IF loop.hasBreak THEN [left EXCEPT !.nodes = BreaksTo(left, n).nodes] ELSE left
           loops == Popped(f.loopPairStack)
           rows == IF loop.hasBreak THEN Popped(f.breakStmtsStack) ELSE f.breakStmtsStack
           h == [linked EXCEPT !.loopPairStack = loops, !.breakStmtsStack = rows]
<1>1. /\ f \in Flows /\ f.loopPairStack \in Seq(LoopPairs) /\ f.breakStmtsStack \in Seq(Seq(Nat))
      /\ f.breakStmtsStack # <<>> /\ loop \in LoopPairs /\ loop.node \in NodesOf(f)
  BY LoopsAndRows
<1> HIDE DEF loop
<1>2. Linked(f, left)
  <2> DEFINE g == setNextFalseNode(f, loop.node, n)
  <2>1. Linked(f, g)
    BY <1>1, FalseLinked DEF NodesOf
  <2>2. Fits(g) /\ f.lastNode \in 0..Len(g.nodes) /\ loop.node \in Nat
    BY <1>1, <2>1 DEF Linked, Fits, LastFits, Alike, NodesOf
  <2> HIDE DEF g
  <2>3. Linked(g, setNextNode(g, f.lastNode, loop.node))
    BY <2>2, NextLinked
  <2>4. Linked(f, setNextNode(g, f.lastNode, loop.node))
    BY <2>1, <2>3, AlikeIsTransitive DEF Linked, SameStacks
  <2> QED
    BY <2>4 DEF g
<1> HIDE DEF left
<1>3. /\ Fits(left) /\ left \in Flows /\ n \in NodesOf(left) /\ left.loopPairStack = f.loopPairStack
      /\ left.breakStmtsStack = f.breakStmtsStack
  BY <1>2 DEF Linked, SameStacks, Alike, NodesOf, Fits
<1>4. Linked(f, linked)
  <2>1. Linked(left, [left EXCEPT !.nodes = BreaksTo(left, n).nodes])
    BY <1>3, BreaksToFits
  <2>2. Linked(f, [left EXCEPT !.nodes = BreaksTo(left, n).nodes])
    BY <1>2, <2>1, AlikeIsTransitive DEF Linked, SameStacks
  <2> QED
    BY <1>2, <2>2
<1>5. EndLoop(f, n) = h
  <2>1. EndLoop(f, n) = [IF loop.hasBreak THEN BreaksTo(left, n) ELSE left
                            EXCEPT !.loopPairStack = Popped(@)]
    BY DEF EndLoop, loop, left
  <2>2. BreaksTo(left, n) = [[left EXCEPT !.nodes = BreaksTo(left, n).nodes]
                                EXCEPT !.breakStmtsStack = Popped(@)]
    BY <1>3, BreaksToFits
  <2>3. CASE loop.hasBreak
    <3>1. linked \in Flows /\ linked.loopPairStack = f.loopPairStack
          /\ linked.breakStmtsStack = f.breakStmtsStack
      BY <1>4 DEF Linked, Fits, SameStacks
    <3>2. BreaksTo(left, n) = [linked EXCEPT !.breakStmtsStack = Popped(@)]
      BY <2>2, <2>3
    <3> DEFINE cut == [linked EXCEPT !.breakStmtsStack = Popped(@)]
    <3>3. EndLoop(f, n) = [cut EXCEPT !.loopPairStack = Popped(@)]
      BY <2>1, <2>3, <3>2, Zenon
    <3> HIDE DEF linked, left, loop
    <3>4. cut = [linked EXCEPT !.breakStmtsStack = Popped(f.breakStmtsStack)]
          /\ cut.loopPairStack = f.loopPairStack
      BY <3>1 DEF Flows
    <3> QED
      BY <2>3, <3>1, <3>3, <3>4 DEF Flows
  <2>4. CASE ~loop.hasBreak
    BY <1>3, <2>1, <2>4 DEF Flows
  <2> QED
    BY <2>3, <2>4
<1>6. /\ loops \in Seq(LoopPairs) /\ Len(loops) = Len(f.loopPairStack) - 1
      /\ \A i \in DOMAIN loops : i \in DOMAIN f.loopPairStack /\ loops[i] = f.loopPairStack[i]
  BY <1>1, PoppedIsIn, Zenon
<1>7. /\ rows \in Seq(Seq(Nat)) /\ Len(loops) <= Len(rows)
      /\ \A i \in DOMAIN rows : i \in DOMAIN f.breakStmtsStack /\ rows[i] = f.breakStmtsStack[i]
  <2>1. /\ Popped(f.breakStmtsStack) \in Seq(Seq(Nat))
        /\ Len(Popped(f.breakStmtsStack)) = Len(f.breakStmtsStack) - 1
        /\ \A i \in DOMAIN Popped(f.breakStmtsStack) :
                i \in DOMAIN f.breakStmtsStack /\ Popped(f.breakStmtsStack)[i] = f.breakStmtsStack[i]
    BY <1>1, PoppedIsIn, Zenon
  <2>2. Len(f.loopPairStack) <= Len(f.breakStmtsStack)
        /\ Len(f.loopPairStack) \in Nat /\ Len(f.breakStmtsStack) \in Nat
    BY <1>1 DEF Fits
  <2> HIDE DEF loops
  <2> QED
    BY <1>1, <1>6, <2>1, <2>2
<1> HIDE DEF loops, rows, linked
<1>8. /\ Fits(linked) /\ linked \in Flows /\ linked.loopPairStack = f.loopPairStack
      /\ linked.breakStmtsStack = f.breakStmtsStack
  BY <1>4 DEF Linked, Fits, SameStacks
<1>9. LoopsFit(h) /\ RowsFit(h)
  <2>1. h.loopPairStack = loops /\ h.breakStmtsStack = rows /\ h.nodes = linked.nodes
    BY <1>8 DEF Flows
  <2> HIDE DEF h
  <2>2. \A i \in DOMAIN h.loopPairStack :
            i \in DOMAIN linked.loopPairStack /\ h.loopPairStack[i] = linked.loopPairStack[i]
    BY <1>6, <1>8, <2>1, Zenon
  <2>5. /\ LoopsFit(linked) /\ RowsFit(linked) /\ NodesOf(h) = NodesOf(linked)
        /\ \A k : KindOf(h, k) = KindOf(linked, k) /\ LevelOf(h, k) = LevelOf(linked, k)
    BY <1>8, <2>1, SameNodes DEF Fits
  <2>3. LoopsFit(h)
    BY <2>2, <2>5 DEF LoopsFit
  <2>4. RowsFit(h)
    BY <1>7, <1>8, <2>1, <2>5 DEF RowsFit
  <2> QED
    BY <2>3, <2>4
<1>0. OnlyLoops(linked, h) /\ h.loopPairStack = loops /\ h.breakStmtsStack = rows
  BY <1>6, <1>7, <1>8 DEF OnlyLoops, Flows
<1> HIDE DEF h
<1>10. /\ Fits(h) /\ Alike(linked, h) /\ h.funcDefStack = linked.funcDefStack
       /\ h.undefined = linked.undefined /\ h.stmtNode = linked.stmtNode /\ h.loopPairStack = loops
  BY <1>0, <1>7, <1>8, <1>9, LoopsReplaced
<1>11. Alike(f, h)
  BY <1>4, <1>10, AlikeIsTransitive DEF Linked
<1> QED
  BY <1>4, <1>5, <1>10, <1>11 DEF Linked, SameStacks, loops

LEMMA PushLoopFits ==
  ASSUME NEW f, Fits(f), NEW n \in NodesOf(f), ~Ends(f, n)
  PROVE  LET h == PushLoop(f, n)
         IN  /\ Fits(h) /\ Alike(f, h) /\ h.funcDefStack = f.funcDefStack
             /\ h.undefined = f.undefined /\ h.stmtNode = f.stmtNode
             /\ Len(f.loopPairStack) <= Len(h.loopPairStack)
             /\ \A i \in 1..Len(f.loopPairStack) : h.loopPairStack[i] = f.loopPairStack[i]
             /\ KindOf(f, n) \in Loops =>
                    /\ Len(h.loopPairStack) \in DOMAIN h.loopPairStack
                    /\ Top(h.loopPairStack).node = n
<1> DEFINE g == [f EXCEPT !.nodes[n].isCondition = TRUE]
           loop == [node |-> n, hasBreak |-> FALSE]
           loops == Append(f.loopPairStack, loop)
           rows == Append(f.breakStmtsStack, <<>>)
           h == [g EXCEPT !.loopPairStack = loops, !.breakStmtsStack = rows]
<1>1. CASE KindOf(f, n) \in Loops
  <2>1. /\ f \in Flows /\ f.loopPairStack \in Seq(LoopPairs) /\ f.breakStmtsStack \in Seq(Seq(Nat))
        /\ Len(f.loopPairStack) \in Nat /\ Len(f.breakStmtsStack) \in Nat
        /\ Len(f.loopPairStack) <= Len(f.breakStmtsStack) /\ n \in Nat
        /\ DOMAIN f.loopPairStack = 1..Len(f.loopPairStack)
        /\ DOMAIN f.breakStmtsStack = 1..Len(f.breakStmtsStack)
    BY DEF Fits, Flows, NodesOf
  <2>2. loop \in LoopPairs /\ loop.node = n
    BY <2>1 DEF LoopPairs
  <2> HIDE DEF loop
  <2>3. /\ loops \in Seq(LoopPairs) /\ Len(loops) = Len(f.loopPairStack) + 1
        /\ DOMAIN loops = 1..(Len(f.loopPairStack) + 1)
        /\ \A i \in 1..Len(f.loopPairStack) : loops[i] = f.loopPairStack[i]
        /\ loops[Len(f.loopPairStack) + 1] = loop
    BY <2>1, <2>2, AppendProperties
  <2>4. /\ rows \in Seq(Seq(Nat)) /\ Len(rows) = Len(f.breakStmtsStack) + 1
        /\ DOMAIN rows = 1..(Len(f.breakStmtsStack) + 1)
        /\ \A i \in 1..Len(f.breakStmtsStack) : rows[i] = f.breakStmtsStack[i]
        /\ rows[Len(f.breakStmtsStack) + 1] = <<>>
    <3>1. <<>> \in Seq(Nat)
      OBVIOUS
    <3> QED
      BY <2>1, <3>1, AppendProperties
  <2>5. Linked(f, g)
    BY ConditionMarked
  <2>6. PushLoop(f, n) = h
    BY <1>1, <2>1 DEF PushLoop, Flows, loop
  <2> HIDE DEF g, loops, rows
  <2>8. /\ Fits(g) /\ g \in Flows /\ Alike(f, g) /\ g.loopPairStack = f.loopPairStack
        /\ g.breakStmtsStack = f.breakStmtsStack /\ NodesOf(g) = NodesOf(f)
        /\ KindOf(g, n) \in Loops /\ LevelOf(g, n) = LevelOf(f, n)
    BY <1>1, <2>5 DEF Linked, Fits, SameStacks, Alike, NodesOf
  <2>7. OnlyLoops(g, h)
    BY <2>3, <2>4, <2>8 DEF OnlyLoops, Flows
  <2>9. h.loopPairStack = loops /\ h.breakStmtsStack = rows /\ h.nodes = g.nodes
    BY <2>8 DEF Flows
  <2> HIDE DEF h
  <2>10. ASSUME NEW i \in 1..Len(f.loopPairStack)
         PROVE  /\ loops[i].node \in NodesOf(g) /\ KindOf(g, loops[i].node) \in Loops
                /\ LevelOf(g, loops[i].node) < LevelOf(g, n)
    <3>1. /\ i \in DOMAIN g.loopPairStack /\ loops[i] = g.loopPairStack[i]
          /\ Len(f.loopPairStack) \in DOMAIN g.loopPairStack /\ Len(f.loopPairStack) # 0
      BY <2>1, <2>3, <2>8
    <3>2. /\ loops[i].node \in NodesOf(g) /\ KindOf(g, loops[i].node) \in Loops
          /\ Top(f.loopPairStack).node \in NodesOf(g)
      BY <2>8, <3>1 DEF Fits, LoopsFit, Top
    <3>3. LevelOf(g, n) \in Nat /\ LevelOf(g, loops[i].node) \in Nat
          /\ LevelOf(g, Top(f.loopPairStack).node) \in Nat
      BY <2>8, <3>2, NodesAreNodes DEF LevelOf, Nodes
    <3>4. LevelOf(g, Top(f.loopPairStack).node) < LevelOf(g, n)
      <4>1. f.loopPairStack # <<>>
        BY <3>1
      <4>2. LevelOf(f, Top(f.loopPairStack).node) = LevelOf(g, Top(f.loopPairStack).node)
        BY <2>8, <3>2 DEF Alike
      <4> QED
        BY <2>8, <3>3, <4>1, <4>2 DEF Ends
    <3>5. CASE i = Len(f.loopPairStack)
      BY <2>8, <3>1, <3>2, <3>4, <3>5 DEF Top
    <3>6. CASE i # Len(f.loopPairStack)
      <4>1. LevelOf(g, g.loopPairStack[i].node) < LevelOf(g, Top(f.loopPairStack).node)
        <5>1. i < Len(f.loopPairStack)
          BY <2>1, <3>6
        <5> QED
          BY <2>8, <3>1, <5>1 DEF Fits, LoopsFit, Top
      <4> QED
        BY <3>1, <3>2, <3>3, <3>4, <4>1
    <3> QED
      BY <3>5, <3>6
  <2>11. LoopsFit(h)
    <3>1. ASSUME NEW i \in DOMAIN h.loopPairStack
          PROVE  h.loopPairStack[i].node \in NodesOf(h) /\ KindOf(h, h.loopPairStack[i].node) \in Loops
      <4>1. i \in 1..Len(f.loopPairStack) \/ i = Len(f.loopPairStack) + 1
        BY <2>1, <2>3, <2>9
      <4>2. h.loopPairStack[i].node \in NodesOf(g) /\ KindOf(g, h.loopPairStack[i].node) \in Loops
        BY <2>2, <2>3, <2>8, <2>9, <2>10, <4>1
      <4> QED
        BY <2>9, <4>2 DEF KindOf, NodesOf
    <3>2. ASSUME NEW i \in DOMAIN h.loopPairStack, NEW j \in DOMAIN h.loopPairStack, i < j
          PROVE  LevelOf(h, h.loopPairStack[i].node) < LevelOf(h, h.loopPairStack[j].node)
      <4>1. i \in 1..Len(f.loopPairStack) /\ j \in 1..(Len(f.loopPairStack) + 1)
        BY <2>1, <2>3, <2>9, <3>2
      <4>2. CASE j = Len(f.loopPairStack) + 1
        <5>1. LevelOf(g, loops[i].node) < LevelOf(g, n) /\ loops[j].node = n
          BY <2>2, <2>3, <2>10, <4>1, <4>2
        <5> QED
          BY <2>9, <5>1 DEF LevelOf
      <4>3. CASE j \in 1..Len(f.loopPairStack)
        <5>1. i \in DOMAIN g.loopPairStack /\ j \in DOMAIN g.loopPairStack
          BY <2>1, <2>8, <4>1, <4>3
        <5>2. loops[i] = g.loopPairStack[i] /\ loops[j] = g.loopPairStack[j]
          BY <2>3, <2>8, <4>1, <4>3
        <5>3. LevelOf(g, g.loopPairStack[i].node) < LevelOf(g, g.loopPairStack[j].node)
          BY <2>8, <3>2, <5>1 DEF Fits, LoopsFit
        <5> QED
          BY <2>9, <5>2, <5>3 DEF LevelOf
      <4>4. j = Len(f.loopPairStack) + 1 \/ j \in 1..Len(f.loopPairStack)
        <5>1. Len(f.loopPairStack) \in Nat /\ j \in 1..(Len(f.loopPairStack) + 1)
          BY <2>1, <4>1
        <5> QED
          BY <5>1
      <4> QED
        BY <4>2, <4>3, <4>4
    <3> QED
      BY <3>1, <3>2 DEF LoopsFit
  <2>12. RowsFit(h)
    <3>1. ASSUME NEW r \in DOMAIN h.breakStmtsStack, NEW i \in DOMAIN h.breakStmtsStack[r]
          PROVE  r \in DOMAIN g.breakStmtsStack /\ h.breakStmtsStack[r] = g.breakStmtsStack[r]
      <4>1. r \in 1..Len(f.breakStmtsStack) \/ r = Len(f.breakStmtsStack) + 1
        BY <2>1, <2>4, <2>9
      <4>2. r # Len(f.breakStmtsStack) + 1
        BY <2>4, <2>9
      <4> QED
        BY <2>1, <2>4, <2>8, <2>9, <4>1, <4>2
    <3> QED
      BY <2>8, <2>9, <3>1 DEF Fits, RowsFit, KindOf, NodesOf
  <2>13. Len(loops) <= Len(rows)
    BY <2>1, <2>3, <2>4
  <2>14. /\ Fits(h) /\ Alike(g, h) /\ h.funcDefStack = g.funcDefStack
         /\ h.undefined = g.undefined /\ h.stmtNode = g.stmtNode
    BY <2>7, <2>8, <2>9, <2>11, <2>12, <2>13, LoopsReplaced
  <2>15. Alike(f, h)
    BY <2>8, <2>14, AlikeIsTransitive
  <2>16. /\ Len(f.loopPairStack) <= Len(h.loopPairStack)
         /\ \A i \in 1..Len(f.loopPairStack) : h.loopPairStack[i] = f.loopPairStack[i]
         /\ Len(h.loopPairStack) \in DOMAIN h.loopPairStack
         /\ Top(h.loopPairStack).node = n
    <3>1. Len(h.loopPairStack) = Len(f.loopPairStack) + 1
      BY <2>3, <2>9
    <3>2. Top(h.loopPairStack) = loop /\ Len(h.loopPairStack) \in DOMAIN h.loopPairStack
      BY <2>1, <2>3, <2>9, <3>1 DEF Top
    <3> QED
      BY <2>1, <2>2, <2>3, <2>9, <3>1, <3>2
  <2> QED
    BY <2>5, <2>6, <2>14, <2>15, <2>16 DEF Linked, SameStacks
<1>2. CASE KindOf(f, n) \notin Loops
  <2>1. f.loopPairStack \in Seq(LoopPairs)
    BY DEF Fits, Flows
  <2> QED
    BY <1>2, <2>1, NothingIsKept DEF PushLoop, Kept
<1> QED
  BY <1>1, <1>2

(* Behind a node: the countdown of the innermost if.                       *)
LEMMA CountedFits ==
  ASSUME NEW f, Fits(f), NEW entry
  PROVE  LET h == Counted(f, entry)
         IN  /\ Kept(f, h) /\ h.loopPairStack = f.loopPairStack
             /\ h.nodes = f.nodes /\ h.lastNode = f.lastNode
<1> DEFINE top == Len(f.ifPairStack)
           if == f.ifPairStack[top]
           near == top # 0 /\ entry.level <= LevelOf(f, if.node) + 1
           pair == [if EXCEPT !.count = if.count - 1]
           counts == near /\ if.count > 0
           pairs == IF counts THEN [f.ifPairStack EXCEPT ![top] = pair] ELSE f.ifPairStack
           flag == f.elseCompFlag \/ (near /\ if.count = 0)
           called == f.callExprFlag \/ entry.kind = "CallExpression"
           h == [f EXCEPT !.elseCompFlag = flag, !.ifPairStack = pairs, !.callExprFlag = called]
<1>1. f \in Flows /\ f.ifPairStack \in Seq(IfPairs) /\ top \in Nat /\ DOMAIN f.ifPairStack = 1..top
  BY DEF Fits, Flows
<1>2. flag \in BOOLEAN /\ called \in BOOLEAN
  BY <1>1, Zenon DEF Flows
<1>3. /\ pairs \in Seq(IfPairs) /\ DOMAIN pairs = DOMAIN f.ifPairStack
      /\ \A i \in DOMAIN pairs : pairs[i].node = f.ifPairStack[i].node
  <2>1. CASE counts
    <3>1. top \in 1..top /\ if \in IfPairs /\ if.count > 0
      BY <1>1, <2>1
    <3>2. pair \in IfPairs /\ pair.node = if.node
      BY <3>1 DEF IfPairs
    <3> HIDE DEF pair, counts, near
    <3>3. /\ pairs \in Seq(IfPairs) /\ Len(pairs) = top
          /\ \A i \in 1..top : pairs[i] = IF i = top THEN pair ELSE f.ifPairStack[i]
      BY <1>1, <2>1, <3>1, <3>2, ExceptSeq
    <3> HIDE DEF pairs
    <3>4. DOMAIN pairs = 1..top
      BY <3>3
    <3> QED
      BY <1>1, <3>2, <3>3, <3>4
  <2>2. CASE ~counts
    BY <1>1, <2>2
  <2> QED
    BY <2>1, <2>2
<1>4. Counted(f, entry) = h
  BY DEF Counted
<1> HIDE DEF flag, called, pairs
<1>5. /\ h \in Flows /\ h.nodes = f.nodes /\ h.ifPairStack = pairs
      /\ h.ifEndStmtStack = f.ifEndStmtStack /\ h.funcDefStack = f.funcDefStack
      /\ h.loopPairStack = f.loopPairStack /\ h.breakStmtsStack = f.breakStmtsStack
      /\ h.lastNode = f.lastNode /\ h.stmtNode = f.stmtNode /\ h.undefined = f.undefined
  BY <1>1, <1>2, <1>3 DEF Flows
<1> HIDE DEF h
<1>6. IfsFit(h)
  BY <1>3, <1>5 DEF Fits, IfsFit, KindOf, NodesOf
<1>7. LastFits(h) /\ FunctionsFit(h) /\ IfEndsFit(h) /\ LoopsFit(h) /\ RowsFit(h)
      /\ Len(h.loopPairStack) <= Len(h.breakStmtsStack)
  <2>1. LastFits(h) /\ FunctionsFit(h) /\ LoopsFit(h) /\ RowsFit(h)
        /\ Len(h.loopPairStack) <= Len(h.breakStmtsStack)
    BY <1>5, LastFitsAsBefore, LoopsFitAsBefore, Zenon
  <2>2. IfEndsFit(h)
    BY <1>5 DEF Fits, IfEndsFit
  <2> QED
    BY <2>1, <2>2
<1>8. Fits(h)
  BY <1>5, <1>6, <1>7 DEF Fits
<1>9. Alike(f, h) /\ SameLoops(f, h)
  BY <1>5 DEF Alike, SameLoops, KindOf, LevelOf
<1> QED
  BY <1>4, <1>5, <1>8, <1>9 DEF Kept

(* What is not in the stacks may be anything.                              *)
SameButLast(f, h) ==
    /\ h \in Flows /\ h.nodes = f.nodes /\ h.funcDefStack = f.funcDefStack
    /\ h.ifPairStack = f.ifPairStack /\ h.ifEndStmtStack = f.ifEndStmtStack
    /\ h.loopPairStack = f.loopPairStack /\ h.breakStmtsStack = f.breakStmtsStack

LEMMA LastReplaced ==
  ASSUME NEW f, Fits(f), NEW h, SameButLast(f, h), LastFits(h)
  PROVE  Fits(h) /\ Alike(f, h) /\ SameLoops(f, h)
<1>1. /\ FunctionsFit(h) /\ IfsFit(h) /\ IfEndsFit(h) /\ LoopsFit(h) /\ RowsFit(h)
      /\ Len(h.loopPairStack) <= Len(h.breakStmtsStack)
  <2>1. LoopsFit(h) /\ RowsFit(h) /\ Len(h.loopPairStack) <= Len(h.breakStmtsStack)
    BY LoopsFitAsBefore, Zenon DEF SameButLast
  <2>2. FunctionsFit(h) /\ IfEndsFit(h)
    BY DEF Fits, FunctionsFit, IfEndsFit, NodesOf, SameButLast
  <2>3. IfsFit(h)
    BY DEF Fits, IfsFit, KindOf, NodesOf, SameButLast
  <2> QED
    BY <2>1, <2>2, <2>3
<1>2. Fits(h)
  BY <1>1 DEF Fits, SameButLast
<1>3. Alike(f, h) /\ SameLoops(f, h)
  BY DEF Alike, SameLoops, KindOf, LevelOf, SameButLast
<1> QED
  BY <1>2, <1>3

(* A new statement: the steps one behind the other.                        *)
LEMMA StatementFits ==
  ASSUME NEW f, Fits(f), NEW n \in NodesOf(f), ~f.undefined
  PROVE  LET h == Statement(f, n)
         IN  /\ Fits(h) /\ Alike(f, h) /\ SameLoops(f, h) /\ h.funcDefStack = f.funcDefStack
             /\ h.undefined => /\ h.stmtNode = f.stmtNode
                               /\ \/ f.funcDefStack = <<>>
                                  \/ KindOf(f, n) = "BreakStatement" /\ f.loopPairStack = <<>>
             /\ ~h.undefined => h.stmtNode = n
<1> DEFINE Undefined(g) == [g EXCEPT !.undefined = TRUE]
           Turn(g) == [g EXCEPT !.stmtNode = n]
<1>1. ASSUME NEW g, Kept(f, g)
      PROVE  LET h == Undefined(g)
             IN  /\ Fits(h) /\ Alike(f, h) /\ SameLoops(f, h) /\ h.funcDefStack = f.funcDefStack
                 /\ h.undefined /\ h.stmtNode = f.stmtNode
  <2> DEFINE h == Undefined(g)
  <2>1. /\ SameButLast(g, h) /\ h.lastNode = g.lastNode /\ h.stmtNode = g.stmtNode
        /\ h.undefined
    BY <1>1 DEF Kept, Fits, Flows, SameButLast
  <2> HIDE DEF h
  <2>2. LastFits(h)
    BY <1>1, <2>1 DEF Kept, Fits, LastFits, SameButLast
  <2>3. Fits(h) /\ Alike(g, h) /\ SameLoops(g, h)
    BY <1>1, <2>1, <2>2, LastReplaced DEF Kept
  <2>4. Alike(f, h) /\ SameLoops(f, h)
    BY <1>1, <2>3, AlikeIsTransitive DEF Kept, SameLoops
  <2> QED
    BY <1>1, <2>1, <2>3, <2>4 DEF Kept, SameButLast, h
<1>2. ASSUME NEW g, Kept(f, g)
      PROVE  LET h == Turn(g)
             IN  /\ Fits(h) /\ Alike(f, h) /\ SameLoops(f, h) /\ h.funcDefStack = f.funcDefStack
                 /\ ~h.undefined /\ h.stmtNode = n
  <2> DEFINE h == Turn(g)
  <2>0. n \in Nat /\ n \in 0..Len(g.nodes)
    BY <1>2 DEF Kept, Alike, NodesOf
  <2>1. /\ SameButLast(g, h) /\ h.lastNode = g.lastNode /\ h.stmtNode = n
        /\ h.undefined = g.undefined
    BY <1>2, <2>0 DEF Kept, Fits, Flows, SameButLast
  <2> HIDE DEF h
  <2>2. LastFits(h)
    BY <1>2, <2>0, <2>1 DEF Kept, Fits, LastFits, SameButLast
  <2>3. Fits(h) /\ Alike(g, h) /\ SameLoops(g, h)
    BY <1>2, <2>1, <2>2, LastReplaced DEF Kept
  <2>4. Alike(f, h) /\ SameLoops(f, h)
    BY <1>2, <2>3, AlikeIsTransitive DEF Kept, SameLoops
  <2> QED
    BY <1>2, <2>1, <2>3, <2>4 DEF Kept, SameButLast, h
<1>3. CASE f.funcDefStack = <<>>
  <2>1. Statement(f, n) = Undefined(f)
    BY <1>3 DEF Statement
  <2> HIDE DEF Undefined
  <2> QED
    BY <1>1, <1>3, <2>1, NothingIsKept
<1>4. CASE f.funcDefStack # <<>>
  <2> DEFINE a == Marked(f)
             b == Sequential(a, n)
             c == FalseOfIf(b, n)
             d == EndOfIf(c, n)
             ifs == PushIf(d, n)
             broken == Break(ifs, n)
             g == Continue(broken, n)
  <2>1. Kept(f, a)
    BY MarkedFits, LinkedIsKept
  <2> HIDE DEF a
  <2>2. Kept(f, b)
    <3>1. Fits(a) /\ n \in NodesOf(a) /\ a.funcDefStack # <<>>
      BY <1>4, <2>1 DEF Kept, Alike, NodesOf
    <3> QED
      BY <2>1, <3>1, SequentialFits, LinkedIsKept, KeptIsTransitive
  <2> HIDE DEF b
  <2>3. Kept(f, c)
    <3>1. Fits(b) /\ n \in NodesOf(b)
      BY <2>2 DEF Kept, Alike, NodesOf
    <3> QED
      BY <2>2, <3>1, FalseOfIfFits, KeptIsTransitive
  <2> HIDE DEF c
  <2>4. Kept(f, d)
    <3>1. Fits(c) /\ n \in NodesOf(c)
      BY <2>3 DEF Kept, Alike, NodesOf
    <3> QED
      BY <2>3, <3>1, EndOfIfFits, KeptIsTransitive
  <2> HIDE DEF d
  <2>5. Kept(f, ifs)
    <3>1. Fits(d) /\ n \in NodesOf(d)
      BY <2>4 DEF Kept, Alike, NodesOf
    <3> QED
      BY <2>4, <3>1, PushIfFits, KeptIsTransitive
  <2>6. Statement(f, n) = IF broken.undefined THEN broken ELSE Turn(g)
    BY <1>4 DEF Statement, a, b, c, d
  <2> HIDE DEF ifs
  <2>7. Fits(ifs) /\ n \in NodesOf(ifs) /\ KindOf(ifs, n) = KindOf(f, n) /\ ~ifs.undefined
    BY <2>5 DEF Kept, Alike, NodesOf
  <2>8. (ifs.loopPairStack = <<>>) <=> (f.loopPairStack = <<>>)
    BY <2>5, EmptySeq DEF Kept, Fits, Flows, SameLoops
  <2>9. CASE KindOf(f, n) = "BreakStatement" /\ f.loopPairStack = <<>>
    <3>1. broken = Undefined(ifs)
      BY <2>7, <2>8, <2>9 DEF Break
    <3> HIDE DEF Undefined
    <3> QED
      BY <1>1, <2>5, <2>6, <2>9, <3>1
  <2>10. CASE ~(KindOf(f, n) = "BreakStatement" /\ f.loopPairStack = <<>>)
    <3>1. Kept(f, broken)
      BY <2>5, <2>7, <2>8, <2>10, BreakFits, KeptIsTransitive
    <3> HIDE DEF broken
    <3>2. Fits(broken) /\ n \in NodesOf(broken) /\ ~broken.undefined
      BY <3>1 DEF Kept, Alike, NodesOf
    <3>3. Kept(f, g)
      BY <3>1, <3>2, ContinueFits, KeptIsTransitive
    <3> HIDE DEF g, Turn
    <3> QED
      BY <1>2, <2>6, <3>2, <3>3
  <2> QED
    BY <2>9, <2>10
<1> QED
  BY <1>3, <1>4

(* The end of a statement: it is the last one.                             *)
LEMMA LastSet ==
  ASSUME NEW f, Fits(f)
  PROVE  LET h == [f EXCEPT !.lastNode = f.stmtNode, !.stmtNode = Null]
         IN  /\ Fits(h) /\ Alike(f, h) /\ h.loopPairStack = f.loopPairStack
             /\ h.funcDefStack = f.funcDefStack /\ h.undefined = f.undefined
             /\ h.lastNode = f.stmtNode /\ h.stmtNode = Null
<1> DEFINE h == [f EXCEPT !.lastNode = f.stmtNode, !.stmtNode = Null]
<1>1. /\ SameButLast(f, h) /\ h.lastNode = f.stmtNode /\ h.stmtNode = Null
      /\ h.undefined = f.undefined
  BY DEF Fits, Flows, SameButLast, Null
<1> HIDE DEF h
<1>2. LastFits(h)
  BY <1>1 DEF Fits, Flows, LastFits, SameButLast, Null
<1>3. Fits(h) /\ Alike(f, h)
  BY <1>1, <1>2, LastReplaced
<1> QED
  BY <1>1, <1>3 DEF SameButLast, h

(* A node that is added, and one that is a function's.                     *)
Added(f, g, node) ==
    /\ Fits(g) /\ Len(g.nodes) = Len(f.nodes) + 1 /\ Len(f.nodes) \in Nat
    /\ \A k \in NodesOf(f) : g.nodes[k] = f.nodes[k]
    /\ g.nodes[Len(f.nodes) + 1] = node
    /\ g.loopPairStack = f.loopPairStack /\ g.lastNode = f.lastNode
    /\ g.stmtNode = f.stmtNode /\ g.undefined = f.undefined

LEMMA NodeAdded ==
  ASSUME NEW f, Fits(f), NEW entry \in Entries
  PROVE  LET g == [f EXCEPT !.nodes = Append(f.nodes, CFGNode(entry))]
         IN  Added(f, g, CFGNode(entry)) /\ g.funcDefStack = f.funcDefStack
<1> DEFINE s == Append(f.nodes, CFGNode(entry))
           g == [f EXCEPT !.nodes = s]
<1>0. f \in Flows /\ f.nodes \in Seq(Nodes) /\ Len(f.nodes) \in Nat
  BY DEF Fits, Flows
<1>1. CFGNode(entry) \in Nodes
  BY DEF CFGNode, Nodes, Entries, Null
<1>2. /\ s \in Seq(Nodes) /\ Len(s) = Len(f.nodes) + 1
      /\ \A k \in 1..Len(f.nodes) : s[k] = f.nodes[k]
      /\ s[Len(f.nodes) + 1] = CFGNode(entry)
  BY <1>0, <1>1, AppendProperties
<1> HIDE DEF s
<1>3. /\ g \in Flows /\ g.nodes = s /\ SameStacks(f, g) /\ g.undefined = f.undefined
  BY <1>0, <1>2 DEF Flows, SameStacks
<1> HIDE DEF g
<1>4. \A k \in NodesOf(f) : k \in NodesOf(g) /\ g.nodes[k] = f.nodes[k]
  BY <1>0, <1>2, <1>3 DEF NodesOf
<1>5. LastFits(g) /\ FunctionsFit(g)
  BY <1>0, <1>2, <1>3, <1>4 DEF Fits, LastFits, FunctionsFit, SameStacks
<1>6. IfsFit(g)
  BY <1>3, <1>4 DEF Fits, IfsFit, SameStacks, KindOf
<1>7. IfEndsFit(g)
  BY <1>0, <1>2, <1>3 DEF Fits, IfEndsFit, SameStacks
<1>8. LoopsFit(g)
  <2>1. ASSUME NEW i \in DOMAIN g.loopPairStack
        PROVE  /\ i \in DOMAIN f.loopPairStack /\ g.loopPairStack[i] = f.loopPairStack[i]
               /\ g.loopPairStack[i].node \in NodesOf(g) /\ KindOf(g, g.loopPairStack[i].node) \in Loops
               /\ LevelOf(g, g.loopPairStack[i].node) = LevelOf(f, f.loopPairStack[i].node)
    BY <1>3, <1>4 DEF Fits, LoopsFit, SameStacks, KindOf, LevelOf
  <2> QED
    BY <2>1 DEF Fits, LoopsFit
<1>9. RowsFit(g)
  BY <1>3, <1>4 DEF Fits, RowsFit, SameStacks, KindOf
<1>10. Fits(g)
  BY <1>3, <1>5, <1>6, <1>7, <1>8, <1>9 DEF Fits, SameStacks
<1> QED
  BY <1>0, <1>2, <1>3, <1>4, <1>10 DEF Added, SameStacks, g, s

LEMMA FunctionAdded ==
  ASSUME NEW f, Fits(f), NEW entry \in Entries
  PROVE  LET new == Len(f.nodes) + 1
             g == [f EXCEPT !.nodes = Append(f.nodes, CFGNode(entry))]
             h == [g EXCEPT !.funcDefStack = Append(g.funcDefStack, new)]
         IN  /\ Added(f, h, CFGNode(entry)) /\ h.funcDefStack # <<>>
             /\ \A i \in DOMAIN h.funcDefStack :
                    \/ i \in DOMAIN f.funcDefStack /\ h.funcDefStack[i] = f.funcDefStack[i]
                    \/ h.funcDefStack[i] = new
<1> DEFINE new == Len(f.nodes) + 1
           g == [f EXCEPT !.nodes = Append(f.nodes, CFGNode(entry))]
           defs == Append(g.funcDefStack, new)
           h == [g EXCEPT !.funcDefStack = defs]
<1>1. Added(f, g, CFGNode(entry)) /\ g.funcDefStack = f.funcDefStack
  BY NodeAdded
<1> HIDE DEF g
<1>2. /\ g \in Flows /\ new \in NodesOf(g) /\ new \in Nat
      /\ g.funcDefStack \in Seq(Nat) /\ Len(g.funcDefStack) \in Nat
      /\ DOMAIN g.funcDefStack = 1..Len(g.funcDefStack)
  BY <1>1 DEF Added, Fits, Flows, NodesOf
<1>3. /\ defs \in Seq(Nat) /\ Len(defs) = Len(g.funcDefStack) + 1
      /\ DOMAIN defs = 1..(Len(g.funcDefStack) + 1)
      /\ \A i \in 1..Len(g.funcDefStack) : defs[i] = g.funcDefStack[i]
      /\ defs[Len(g.funcDefStack) + 1] = new
  BY <1>2, AppendProperties
<1> HIDE DEF defs
<1>4. \A i \in DOMAIN defs :
        \/ i \in DOMAIN g.funcDefStack /\ defs[i] = g.funcDefStack[i]
        \/ defs[i] = new
  <2> TAKE i \in DOMAIN defs
  <2>1. i \in 1..Len(g.funcDefStack) \/ i = Len(g.funcDefStack) + 1
    BY <1>2, <1>3
  <2> QED
    BY <1>2, <1>3, <2>1
<1>5. /\ h \in Flows /\ h.nodes = g.nodes /\ h.funcDefStack = defs
      /\ h.ifPairStack = g.ifPairStack /\ h.ifEndStmtStack = g.ifEndStmtStack
      /\ h.loopPairStack = g.loopPairStack /\ h.breakStmtsStack = g.breakStmtsStack
      /\ h.lastNode = g.lastNode /\ h.stmtNode = g.stmtNode /\ h.undefined = g.undefined
  BY <1>2, <1>3 DEF Flows
<1> HIDE DEF h
<1>6. FunctionsFit(h)
  <2>1. \A i \in DOMAIN h.funcDefStack : h.funcDefStack[i] \in NodesOf(g)
    BY <1>1, <1>2, <1>4, <1>5 DEF Added, Fits, FunctionsFit
  <2> QED
    BY <1>5, <2>1 DEF FunctionsFit, NodesOf
<1>7. /\ LastFits(h) /\ IfsFit(h) /\ IfEndsFit(h) /\ LoopsFit(h) /\ RowsFit(h)
      /\ Len(h.loopPairStack) <= Len(h.breakStmtsStack)
  <2>1. Fits(g)
    BY <1>1 DEF Added
  <2>2. /\ LoopsFit(h) /\ RowsFit(h) /\ Len(h.loopPairStack) <= Len(h.breakStmtsStack)
    BY <1>5, <2>1, LoopsFitAsBefore
  <2>3. LastFits(h)
    BY <1>5, <2>1 DEF Fits, LastFits
  <2>4. IfsFit(h)
    BY <1>5, <2>1 DEF Fits, IfsFit, KindOf, NodesOf
  <2>5. IfEndsFit(h)
    BY <1>5, <2>1 DEF Fits, IfEndsFit
  <2> QED
    BY <2>2, <2>3, <2>4, <2>5
<1>8. Fits(h)
  BY <1>5, <1>6, <1>7 DEF Fits
<1>9. defs # <<>>
  BY <1>2, <1>3
<1> QED
  BY <1>1, <1>4, <1>5, <1>8, <1>9 DEF Added, h, g, defs

-----------------------------------------------------------------------------
(* The inductive invariant.                                                *)

Listed == dump \in Seq(Entries) /\ \A j \in DOMAIN dump : IsListedAt(dump, j)
Reads == at \in 1..(Len(dump) + 1)

\* A statement that is not done with is the one at hand.
Turn ==
    flow.stmtNode # Null =>
        /\ ~flow.undefined /\ at \in DOMAIN dump /\ dump[at].kind \in StatementKinds
        /\ KindOf(flow, flow.stmtNode) = dump[at].kind
        /\ LevelOf(flow, flow.stmtNode) = dump[at].level

\* A function that has a first statement is behind a last one.
Begun ==
    flow.stmtNode = Null /\ ~flow.undefined => \A i \in DOMAIN flow.funcDefStack :
        flow.nodes[flow.funcDefStack[i]].nextNode # Null => flow.lastNode # Null

FunctionsKnown ==
    \A i \in 1..(at - 1) : dump[i].kind = "FunctionDefinition" => flow.funcDefStack # <<>>

\* A loop whose nodes are still read is on the stack.
Treated == IF flow.stmtNode = Null THEN at - 1 ELSE at
IsOpen(i) == dump[i].kind \in Loops /\ \A k \in (i + 1)..Treated : Within(dump[k], dump[i])
OnStack(f, level) ==
    \E l \in DOMAIN f.loopPairStack : LevelOf(f, f.loopPairStack[l].node) = level
LoopsKnown ==
    ~flow.undefined => \A i \in 1..(at - 1) : IsOpen(i) => OnStack(flow, dump[i].level)

Outside ==
    flow.undefined =>
        /\ at \in DOMAIN dump
        /\ \/ /\ dump[at].kind = "BreakStatement"
              /\ \A j \in DOMAIN dump : Within(dump[at], dump[j]) => dump[j].kind \notin Loops
           \/ \A j \in DOMAIN dump :
                Within(dump[at], dump[j]) => dump[j].kind # "FunctionDefinition"

IInv ==
    /\ Listed /\ Reads /\ Fits(flow) /\ Turn /\ Begun
    /\ FunctionsKnown /\ LoopsKnown /\ Outside

LEMMA NothingIsInItself ==
  ASSUME NEW e \in Entries
  PROVE  ~Within(e, e)
BY DEF Within, Entries

(* What encloses the node at hand was handed over before it, and the nodes *)
(* between them are in it.                                                 *)
LEMMA WhatIsAround ==
  ASSUME Listed, NEW i \in DOMAIN dump, NEW j \in DOMAIN dump, Within(dump[i], dump[j])
  PROVE  /\ j \in 1..(i - 1) /\ dump[j].level < dump[i].level
         /\ \A k \in (j + 1)..(i - 1) : Within(dump[k], dump[j])
<1>1. /\ dump \in Seq(Entries) /\ DOMAIN dump = 1..Len(dump) /\ Len(dump) \in Nat
      /\ IsListedAt(dump, i) /\ IsListedAt(dump, j)
  BY DEF Listed
<1>2. i # j
  BY <1>1, NothingIsInItself
<1>3. ~(i \in 1..(j - 1))
  BY <1>1 DEF IsListedAt
<1>4. j \in 1..(i - 1)
  <2>1. i \in 1..Len(dump) /\ j \in 1..Len(dump) /\ Len(dump) \in Nat
    BY <1>1
  <2> QED
    BY <1>2, <1>3, <2>1
<1> QED
  BY <1>1, <1>4 DEF IsListedAt

LEMMA OnStackKept ==
  ASSUME NEW f, NEW g, Fits(f), Fits(g), Alike(f, g), SameLoops(f, g),
         NEW level, OnStack(f, level)
  PROVE  OnStack(g, level)
<1>1. PICK l \in DOMAIN f.loopPairStack : LevelOf(f, f.loopPairStack[l].node) = level
  BY DEF OnStack
<1>2. /\ l \in 1..Len(f.loopPairStack) /\ l \in DOMAIN g.loopPairStack
      /\ f.loopPairStack[l].node \in NodesOf(f)
  <2>1. /\ DOMAIN f.loopPairStack = 1..Len(f.loopPairStack)
        /\ DOMAIN g.loopPairStack = 1..Len(g.loopPairStack)
    BY DEF Fits, Flows
  <2> QED
    BY <2>1 DEF SameLoops, Fits, LoopsFit
<1>3. LevelOf(g, g.loopPairStack[l].node) = level
  BY <1>1, <1>2 DEF SameLoops, Alike
<1> QED
  BY <1>2, <1>3 DEF OnStack

LEMMA BeforeOrAt ==
  ASSUME NEW a \in Nat, NEW b \in {a, a + 1}, NEW i \in 1..(b - 1)
  PROVE  i \in 1..(a - 1) \/ (i = a /\ b = a + 1)
OBVIOUS

(* The loops stay on the stack that may still be read from.                *)
LEMMA LoopsStay ==
  ASSUME Reads, LoopsKnown, ~flow.undefined, UNCHANGED dump,
         Treated \in Int, Treated' \in Int, Treated <= Treated',
         at' \in {at, at + 1},
         \A i \in 1..(at - 1) :
            IsOpen(i)' /\ OnStack(flow, dump[i].level) => OnStack(flow', dump[i].level),
         at' = at + 1 /\ dump[at].kind \in Loops => OnStack(flow', dump[at].level)
  PROVE  LoopsKnown'
<1> SUFFICES ASSUME NEW i \in 1..(at' - 1), IsOpen(i)'
             PROVE  OnStack(flow', dump[i].level)
  BY DEF LoopsKnown
<1>1. at \in Nat
  BY DEF Reads
<1>2. CASE i \in 1..(at - 1)
  <2>1. IsOpen(i)
    BY <1>1, <1>2 DEF IsOpen
  <2>2. OnStack(flow, dump[i].level)
    BY <1>2, <2>1 DEF LoopsKnown
  <2> QED
    BY <1>2, <2>2
<1>3. CASE i = at /\ at' = at + 1
  BY <1>3 DEF IsOpen
<1>4. i \in 1..(at - 1) \/ (i = at /\ at' = at + 1)
  BY <1>1, BeforeOrAt
<1> QED
  BY <1>2, <1>3, <1>4

LEMMA FunctionsStay ==
  ASSUME Reads, FunctionsKnown, UNCHANGED dump, at' \in {at, at + 1},
         flow.funcDefStack # <<>> => flow'.funcDefStack # <<>>,
         at' = at + 1 /\ dump[at].kind = "FunctionDefinition" => flow'.funcDefStack # <<>>
  PROVE  FunctionsKnown'
<1>1. at \in Nat
  BY DEF Reads
<1> SUFFICES ASSUME NEW i \in 1..(at' - 1), dump[i].kind = "FunctionDefinition"
             PROVE  flow'.funcDefStack # <<>>
  BY DEF FunctionsKnown
<1>2. CASE i \in 1..(at - 1)
  BY <1>2 DEF FunctionsKnown
<1>3. CASE i = at /\ at' = at + 1
  BY <1>3
<1>4. i \in 1..(at - 1) \/ (i = at /\ at' = at + 1)
  BY <1>1, BeforeOrAt
<1> QED
  BY <1>2, <1>3, <1>4

(* The node that is read.                                                  *)
LEMMA AtHand ==
  ASSUME IInv, NEW entry, Reading(entry)
  PROVE  /\ at \in DOMAIN dump /\ at \in Nat \ {0} /\ entry = dump[at] /\ entry \in Entries
         /\ entry.kind \in Loops \cup {"FunctionDefinition"} => entry.hasTokens
         /\ dump' = dump /\ ~flow.undefined /\ DOMAIN dump = 1..Len(dump) /\ Len(dump) \in Nat
<1>1. dump \in Seq(Entries) /\ Len(dump) \in Nat /\ DOMAIN dump = 1..Len(dump)
  BY DEF IInv, Listed
<1>2. at \in DOMAIN dump /\ at \in Nat \ {0}
  BY <1>1 DEF IInv, Reads, Reading
<1> QED
  BY <1>1, <1>2 DEF IInv, Listed, IsListedAt, Reading

-----------------------------------------------------------------------------
(* Every step keeps it.                                                    *)

LEMMA HandOverKeeps ==
  ASSUME IInv, HandOver
  PROVE  IInv'
<1> DEFINE last == dump'[Len(dump')]
<1>1. dump \in Seq(Entries) /\ Len(dump) \in Nat /\ DOMAIN dump = 1..Len(dump)
  BY DEF IInv, Listed
<1>2. last \in Entries /\ dump' = Append(dump, last) /\ at' = at /\ flow' = flow
  BY DEF HandOver, IsListedAt
<1> HIDE DEF last
<1>3. /\ dump' \in Seq(Entries) /\ Len(dump') = Len(dump) + 1
      /\ DOMAIN dump' = 1..(Len(dump) + 1) /\ dump'[Len(dump) + 1] = last
      /\ \A i \in 1..Len(dump) : dump'[i] = dump[i]
  BY <1>1, <1>2, AppendProperties
<1>4. Listed'
  <2>1. ASSUME NEW j \in DOMAIN dump'
        PROVE  IsListedAt(dump', j)
    <3>1. CASE j = Len(dump) + 1
      BY <1>3, <3>1 DEF HandOver
    <3>2. CASE j \in 1..Len(dump)
      <4>1. IsListedAt(dump, j)
        BY <1>1, <3>2 DEF IInv, Listed
      <4>2. \A i \in 1..j : dump'[i] = dump[i]
        BY <1>1, <1>3, <3>2
      <4>3. dump'[j] = dump[j]
        BY <1>3, <3>2
      <4>4. ASSUME NEW i \in 1..(j - 1)
            PROVE  /\ ~Within(dump'[i], dump'[j])
                   /\ Within(dump'[j], dump'[i]) =>
                        /\ dump'[i].level < dump'[j].level
                        /\ \A k \in (i + 1)..(j - 1) : Within(dump'[k], dump'[i])
        <5>1. dump'[i] = dump[i] /\ \A k \in (i + 1)..(j - 1) : dump'[k] = dump[k]
          BY <3>2, <4>2
        <5> QED
          BY <4>1, <4>3, <5>1 DEF IsListedAt
      <4> QED
        BY <4>1, <4>3, <4>4 DEF IsListedAt
    <3> QED
      BY <1>1, <1>3, <3>1, <3>2
  <2> QED
    BY <1>3, <2>1 DEF Listed
<1>5. Reads'
  BY <1>1, <1>2, <1>3 DEF IInv, Reads
<1>6. at - 1 \in Nat /\ \A i \in 1..(at - 1) : dump'[i] = dump[i] /\ i \in DOMAIN dump
  BY <1>1, <1>3 DEF IInv, Reads
<1>7. at \in DOMAIN dump => at \in DOMAIN dump' /\ dump'[at] = dump[at]
  BY <1>1, <1>3
<1>8. Turn' /\ Begun' /\ Fits(flow)'
  BY <1>2, <1>7 DEF IInv, Turn, Begun
<1>9. FunctionsKnown'
  BY <1>2, <1>6 DEF IInv, FunctionsKnown
<1>10. LoopsKnown'
  <2> SUFFICES ASSUME ~flow.undefined, NEW i \in 1..(at - 1), IsOpen(i)'
               PROVE  OnStack(flow, dump'[i].level)
    BY <1>2 DEF LoopsKnown
  <2>1. Treated' = Treated
    BY <1>2 DEF Treated
  <2>2. \A k \in (i + 1)..Treated : dump'[k] = dump[k]
    <3>1. flow.stmtNode # Null => at \in 1..Len(dump)
      BY <1>1 DEF IInv, Turn
    <3>2. Treated \in Int /\ Treated <= Len(dump)
      BY <1>1, <1>6, <3>1 DEF IInv, Reads, Treated
    <3> QED
      BY <1>1, <1>3, <3>2
  <2>3. IsOpen(i)
    BY <1>6, <2>1, <2>2 DEF IsOpen
  <2> QED
    BY <1>6, <2>3 DEF IInv, LoopsKnown
<1>11. Outside'
  <2> SUFFICES ASSUME flow.undefined
               PROVE  Outside'
    BY <1>2 DEF Outside
  <2>1. at \in DOMAIN dump /\ dump'[at] = dump[at] /\ at \in DOMAIN dump'
    BY <1>7 DEF IInv, Outside
  <2>2. ~Within(dump[at], last)
    <3>1. IsListedAt(dump', Len(dump)+1) /\ at \in 1..Len(dump)
      BY <1>1, <1>3, <2>1 DEF HandOver
    <3>2. ~Within(dump'[at], dump'[Len(dump) + 1])
      BY <1>1, <3>1 DEF IsListedAt
    <3> QED
      BY <1>3, <2>1, <3>2
  <2>3. \A j \in DOMAIN dump' : Within(dump'[at], dump'[j]) => j \in DOMAIN dump /\ dump'[j] = dump[j]
    <3> TAKE j \in DOMAIN dump'
    <3>1. j \in 1..Len(dump) \/ j = Len(dump) + 1
      BY <1>1, <1>3
    <3> QED
      BY <1>1, <1>3, <2>1, <2>2, <3>1
  <2> QED
    BY <1>2, <2>1, <2>3 DEF IInv, Outside
<1> QED
  BY <1>4, <1>5, <1>8, <1>9, <1>10, <1>11 DEF IInv

(* What is read at once, a function or what is none of a graph's, is behind *)
(* the reader at once.                                                     *)
LEMMA ReadAtOnce ==
  ASSUME IInv, NEW entry, Reading(entry), flow.stmtNode = Null, at' = at + 1,
         entry.kind \notin Loops, Fits(flow'), flow'.stmtNode = Null, ~flow'.undefined,
         flow.funcDefStack # <<>> => flow'.funcDefStack # <<>>,
         entry.kind = "FunctionDefinition" => flow'.funcDefStack # <<>>,
         \A level : OnStack(flow, level) => OnStack(flow', level),
         Begun'
  PROVE  IInv'
<1>1. /\ at \in DOMAIN dump /\ at \in Nat \ {0} /\ entry = dump[at] /\ dump' = dump /\ ~flow.undefined
      /\ DOMAIN dump = 1..Len(dump) /\ Len(dump) \in Nat
  BY AtHand
<1>2. Listed' /\ Reads'
  BY <1>1 DEF IInv, Listed, Reads
<1>3. Turn' /\ Outside'
  BY DEF Turn, Outside
<1>4. FunctionsKnown'
  BY <1>1, FunctionsStay DEF IInv
<1>5. Treated = at - 1 /\ Treated' = at
  BY <1>1 DEF Treated
<1>6. LoopsKnown'
  BY <1>1, <1>5, LoopsStay DEF IInv
<1> QED
  BY <1>2, <1>3, <1>4, <1>6 DEF IInv

LEMMA PassOverKeeps ==
  ASSUME IInv, NEW entry, PassOver(entry)
  PROVE  IInv'
<1>1. /\ Reading(entry) /\ flow.stmtNode = Null /\ at' = at + 1
      /\ flow' = Counted(flow, entry) /\ Fits(flow)
  BY DEF PassOver, IInv
<1>2. /\ Kept(flow, flow') /\ flow'.loopPairStack = flow.loopPairStack
      /\ flow'.nodes = flow.nodes /\ flow'.lastNode = flow.lastNode
  BY <1>1, CountedFits
<1>3. entry.kind \notin Loops /\ entry.kind # "FunctionDefinition" /\ ~flow.undefined
  BY <1>1, AtHand DEF PassOver, Loops, StatementKinds
<1>4. \A level : OnStack(flow, level) => OnStack(flow', level)
  BY <1>2 DEF OnStack, LevelOf
<1>5. Begun'
  BY <1>1, <1>2, <1>3 DEF IInv, Begun, Kept
<1> QED
  BY <1>1, <1>2, <1>3, <1>4, <1>5, ReadAtOnce DEF Kept

LEMMA ReadFunctionKeeps ==
  ASSUME IInv, NEW entry, ReadFunction(entry)
  PROVE  IInv'
<1> DEFINE f == [WithNode(entry) EXCEPT !.funcDefStack = Append(@, New)]
<1>1. /\ Reading(entry) /\ flow.stmtNode = Null /\ at' = at + 1
      /\ flow' = Counted(f, entry) /\ Fits(flow) /\ entry.kind = "FunctionDefinition"
  BY DEF ReadFunction, IInv
<1>2. entry \in Entries /\ ~flow.undefined
  BY <1>1, AtHand
<1>3. /\ Added(flow, f, CFGNode(entry)) /\ f.funcDefStack # <<>>
      /\ \A i \in DOMAIN f.funcDefStack :
            \/ i \in DOMAIN flow.funcDefStack /\ f.funcDefStack[i] = flow.funcDefStack[i]
            \/ f.funcDefStack[i] = New
  <2>1. f = [WithNode(entry) EXCEPT !.funcDefStack = Append(WithNode(entry).funcDefStack, New)]
    OBVIOUS
  <2> QED
    BY <1>1, <1>2, <2>1, FunctionAdded DEF WithNode, New
<1> HIDE DEF f
<1>4. /\ Kept(f, flow') /\ flow'.loopPairStack = f.loopPairStack
      /\ flow'.nodes = f.nodes /\ flow'.lastNode = f.lastNode
  BY <1>1, <1>3, CountedFits DEF Added
<1>5. entry.kind \notin Loops
  BY <1>1 DEF Loops
<1>6. \A level : OnStack(flow, level) => OnStack(flow', level)
  <2>1. \A l \in DOMAIN flow.loopPairStack : flow.loopPairStack[l].node \in NodesOf(flow)
    BY <1>1 DEF Fits, LoopsFit
  <2> QED
    BY <1>3, <1>4, <2>1 DEF OnStack, LevelOf, Added
<1>7. Begun'
  <2> SUFFICES ASSUME NEW i \in DOMAIN f.funcDefStack, f.nodes[f.funcDefStack[i]].nextNode # Null
               PROVE  flow.lastNode # Null
    BY <1>3, <1>4 DEF Begun, Kept, Added
  <2>1. f.nodes[New].nextNode = Null
    BY <1>3 DEF Added, New, CFGNode
  <2>2. i \in DOMAIN flow.funcDefStack /\ f.funcDefStack[i] = flow.funcDefStack[i]
    BY <1>3, <2>1
  <2>3. f.nodes[f.funcDefStack[i]] = flow.nodes[flow.funcDefStack[i]]
    BY <1>1, <1>3, <2>2 DEF Fits, FunctionsFit, Added
  <2> QED
    BY <1>1, <1>2, <2>2, <2>3 DEF IInv, Begun
<1>8. /\ Fits(flow') /\ flow'.stmtNode = Null /\ ~flow'.undefined /\ flow'.funcDefStack # <<>>
  BY <1>1, <1>2, <1>3, <1>4 DEF Kept, Added
<1> QED
  BY <1>1, <1>5, <1>6, <1>7, <1>8, ReadAtOnce

(* A statement is put into the graph, or is where the code has read behind *)
(* a vector.                                                               *)
LEMMA ReadStatementKeeps ==
  ASSUME IInv, NEW entry, ReadStatement(entry)
  PROVE  IInv'
<1> DEFINE f == WithNode(entry)
<1>1. /\ Reading(entry) /\ flow.stmtNode = Null /\ at' = at /\ flow' = Statement(f, New)
      /\ Fits(flow) /\ entry.kind \in StatementKinds
  BY DEF ReadStatement, IInv
<1>2. /\ at \in DOMAIN dump /\ at \in Nat \ {0} /\ entry = dump[at] /\ entry \in Entries
      /\ dump' = dump /\ ~flow.undefined /\ Listed
  BY <1>1, AtHand DEF IInv
<1>3. Added(flow, f, CFGNode(entry)) /\ f.funcDefStack = flow.funcDefStack
  BY <1>1, <1>2, NodeAdded DEF WithNode
<1> HIDE DEF f
<1>4. /\ Fits(f) /\ New \in NodesOf(f) /\ ~f.undefined /\ New # Null
      /\ KindOf(f, New) = entry.kind /\ LevelOf(f, New) = entry.level
  BY <1>2, <1>3 DEF Added, New, NodesOf, KindOf, LevelOf, CFGNode, Null
<1>5. /\ Fits(flow') /\ Alike(f, flow') /\ SameLoops(f, flow')
      /\ flow'.funcDefStack = f.funcDefStack
      /\ flow'.undefined => /\ flow'.stmtNode = Null
                            /\ \/ f.funcDefStack = <<>>
                               \/ entry.kind = "BreakStatement" /\ f.loopPairStack = <<>>
      /\ ~flow'.undefined => flow'.stmtNode = New
  BY <1>1, <1>3, <1>4, StatementFits DEF Added
<1>6. Listed' /\ Reads'
  BY <1>1, <1>2 DEF IInv, Listed, Reads
<1>7. Turn'
  <2> SUFFICES ASSUME flow'.stmtNode # Null
               PROVE  Turn'
    BY DEF Turn
  <2>1. ~flow'.undefined /\ flow'.stmtNode = New
    BY <1>5
  <2>2. KindOf(flow', New) = entry.kind /\ LevelOf(flow', New) = entry.level
    BY <1>4, <1>5 DEF Alike
  <2> QED
    BY <1>1, <1>2, <2>1, <2>2 DEF Turn
<1>8. Begun'
  BY <1>4, <1>5 DEF Begun
<1>9. FunctionsKnown'
  BY <1>1, <1>2, <1>3, <1>5 DEF IInv, FunctionsKnown
<1>10. LoopsKnown'
  <2> SUFFICES ASSUME ~flow'.undefined
               PROVE  LoopsKnown'
    BY DEF LoopsKnown
  <2>1. Treated = at - 1 /\ Treated' = at
    BY <1>1, <1>4, <1>5 DEF Treated
  <2>2. ASSUME NEW level, OnStack(flow, level)
        PROVE  OnStack(flow', level)
    <3>1. OnStack(f, level)
      <4>1. \A l \in DOMAIN flow.loopPairStack : flow.loopPairStack[l].node \in NodesOf(flow)
        BY <1>1 DEF Fits, LoopsFit
      <4> QED
        BY <1>3, <2>2, <4>1 DEF OnStack, LevelOf, Added
    <3> QED
      BY <1>4, <1>5, <3>1, OnStackKept
  <2> QED
    BY <1>1, <1>2, <2>1, <2>2, LoopsStay DEF IInv
<1>11. Outside'
  <2> SUFFICES ASSUME flow'.undefined
               PROVE  Outside'
    BY DEF Outside
  <2>1. CASE flow.funcDefStack = <<>>
    <3>1. ASSUME NEW j \in DOMAIN dump, Within(dump[at], dump[j])
          PROVE  dump[j].kind # "FunctionDefinition"
      BY <1>2, <2>1, <3>1, WhatIsAround DEF IInv, FunctionsKnown
    <3> QED
      BY <1>1, <1>2, <3>1 DEF Outside
  <2>2. CASE entry.kind = "BreakStatement" /\ flow.loopPairStack = <<>>
    <3>1. ASSUME NEW j \in DOMAIN dump, Within(dump[at], dump[j])
          PROVE  dump[j].kind \notin Loops
      <4>1. j \in 1..(at - 1) /\ \A k \in (j + 1)..(at - 1) : Within(dump[k], dump[j])
        BY <1>2, <3>1, WhatIsAround
      <4>2. Treated = at - 1
        BY <1>1 DEF Treated
      <4>3. ~OnStack(flow, dump[j].level)
        BY <2>2 DEF OnStack
      <4> QED
        BY <1>2, <4>1, <4>2, <4>3 DEF IInv, LoopsKnown, IsOpen
    <3> QED
      BY <1>1, <1>2, <2>2, <3>1 DEF Outside
  <2> QED
    BY <1>3, <1>5, <2>1, <2>2 DEF Added
<1> QED
  BY <1>5, <1>6, <1>7, <1>8, <1>9, <1>10, <1>11 DEF IInv

(* A loop that the statement ends is no deeper than it, so it is none that *)
(* the statement is in.                                                    *)
LEMMA LeaveLoopKeeps ==
  ASSUME IInv, NEW entry, LeaveLoop(entry)
  PROVE  IInv'
<1> DEFINE n == flow.stmtNode
<1>1. /\ Reading(entry) /\ n # Null /\ at' = at /\ flow' = EndLoop(flow, n) /\ Fits(flow)
      /\ flow.loopPairStack # <<>>
      /\ LevelOf(flow, n) <= LevelOf(flow, Top(flow.loopPairStack).node)
  BY DEF LeaveLoop, Ends, IInv
<1>2. /\ at \in DOMAIN dump /\ at \in Nat \ {0} /\ entry = dump[at] /\ entry \in Entries
      /\ dump' = dump /\ ~flow.undefined /\ Listed
  BY <1>1, AtHand DEF IInv
<1>3. n \in NodesOf(flow)
  BY <1>1 DEF Fits, Flows, LastFits, NodesOf, Null
<1>4. /\ Fits(flow') /\ Alike(flow, flow') /\ flow'.loopPairStack = Popped(flow.loopPairStack)
      /\ flow'.funcDefStack = flow.funcDefStack /\ ~flow'.undefined /\ flow'.stmtNode = n
  BY <1>1, <1>2, <1>3, EndLoopFits
<1>5. Listed' /\ Reads'
  BY <1>1, <1>2 DEF IInv, Listed, Reads
<1>6. Turn' /\ LevelOf(flow, n) = dump[at].level
  BY <1>1, <1>2, <1>3, <1>4 DEF IInv, Turn, Alike
<1>7. Begun' /\ Outside'
  BY <1>1, <1>4 DEF Begun, Outside
<1>8. FunctionsKnown'
  BY <1>1, <1>2, <1>4 DEF IInv, FunctionsKnown
<1>9. LoopsKnown'
  <2>1. Treated = at /\ Treated' = at
    BY <1>1, <1>4 DEF Treated
  <2>2. ASSUME NEW i \in 1..(at - 1), IsOpen(i)', OnStack(flow, dump[i].level)
        PROVE  OnStack(flow', dump[i].level)
    <3>1. i \in DOMAIN dump /\ at \in (i + 1)..at
      BY <1>2, <2>2 DEF Listed
    <3>2. Within(dump[at], dump[i])
      BY <1>2, <2>1, <2>2, <3>1 DEF IsOpen
    <3>3. dump[i].level < dump[at].level /\ dump[i].level \in Nat /\ dump[at].level \in Nat
      <4>1. dump[i] \in Entries /\ dump[at] \in Entries
        BY <1>2, <3>1 DEF Listed
      <4>2. dump[i].level < dump[at].level
        BY <1>2, <3>1, <3>2, WhatIsAround
      <4> QED
        BY <4>1, <4>2 DEF Entries
    <3>4. PICK l \in DOMAIN flow.loopPairStack :
            LevelOf(flow, flow.loopPairStack[l].node) = dump[i].level
      BY <2>2 DEF OnStack
    <3>5. flow.loopPairStack \in Seq(LoopPairs) /\ flow'.loopPairStack \in Seq(LoopPairs)
          /\ flow.loopPairStack[l].node \in NodesOf(flow)
          /\ LevelOf(flow, Top(flow.loopPairStack).node) \in Nat
      <4>1. Top(flow.loopPairStack).node \in NodesOf(flow)
        BY <1>1, LoopsAndRows
      <4> QED
        BY <1>1, <1>4, <4>1, NodesAreNodes DEF Fits, Flows, LoopsFit, LevelOf, Nodes
    <3>6. l # Len(flow.loopPairStack)
      BY <1>1, <1>6, <3>3, <3>4, <3>5 DEF Top
    <3>7. l \in DOMAIN flow'.loopPairStack /\ flow'.loopPairStack[l] = flow.loopPairStack[l]
      <4>1. /\ Len(flow.loopPairStack) \in Nat /\ l \in 1..Len(flow.loopPairStack)
            /\ DOMAIN flow'.loopPairStack = 1..Len(flow'.loopPairStack)
        BY <3>5
      <4>2. /\ Len(flow'.loopPairStack) = Len(flow.loopPairStack) - 1
            /\ \A m \in DOMAIN flow'.loopPairStack : flow'.loopPairStack[m] = flow.loopPairStack[m]
        BY <1>1, <1>4, <3>5, TopIsIn
      <4> QED
        BY <3>6, <4>1, <4>2
    <3> QED
      BY <1>4, <3>4, <3>5, <3>7 DEF OnStack, Alike
  <2> QED
    BY <1>1, <1>2, <2>1, <2>2, LoopsStay DEF IInv
<1> QED
  BY <1>4, <1>5, <1>6, <1>7, <1>8, <1>9 DEF IInv

LEMMA EndStatementKeeps ==
  ASSUME IInv, NEW entry, EndStatement(entry)
  PROVE  IInv'
<1> DEFINE n == flow.stmtNode
           read == PushLoop(flow, n)
           f == [read EXCEPT !.lastNode = read.stmtNode, !.stmtNode = Null]
<1>1. /\ Reading(entry) /\ n # Null /\ at' = at + 1 /\ flow' = Counted(f, entry) /\ Fits(flow)
      /\ ~Ends(flow, n)
  BY DEF EndStatement, IInv
<1>2. /\ at \in DOMAIN dump /\ at \in Nat \ {0} /\ entry = dump[at] /\ entry \in Entries
      /\ dump' = dump /\ ~flow.undefined /\ Listed /\ DOMAIN dump = 1..Len(dump) /\ Len(dump) \in Nat
  BY <1>1, AtHand DEF IInv
<1>3. n \in NodesOf(flow)
  BY <1>1 DEF Fits, Flows, LastFits, NodesOf, Null
<1>4. /\ Fits(read) /\ Alike(flow, read) /\ read.funcDefStack = flow.funcDefStack
      /\ ~read.undefined /\ read.stmtNode = n
      /\ Len(flow.loopPairStack) <= Len(read.loopPairStack)
      /\ \A i \in 1..Len(flow.loopPairStack) : read.loopPairStack[i] = flow.loopPairStack[i]
      /\ KindOf(flow, n) \in Loops =>
            /\ Len(read.loopPairStack) \in DOMAIN read.loopPairStack
            /\ Top(read.loopPairStack).node = n
  BY <1>1, <1>2, <1>3, PushLoopFits
<1> HIDE DEF read
<1>5. /\ Fits(f) /\ Alike(read, f) /\ f.loopPairStack = read.loopPairStack
      /\ f.funcDefStack = flow.funcDefStack /\ ~f.undefined /\ f.lastNode = n /\ f.stmtNode = Null
  BY <1>4, LastSet
<1> HIDE DEF f
<1>6. /\ Kept(f, flow') /\ flow'.loopPairStack = read.loopPairStack
      /\ flow'.nodes = f.nodes /\ flow'.lastNode = n
  BY <1>1, <1>5, CountedFits
<1>7. /\ Fits(flow') /\ Alike(flow, flow') /\ flow'.funcDefStack = flow.funcDefStack
      /\ ~flow'.undefined /\ flow'.stmtNode = Null
  BY <1>4, <1>5, <1>6, AlikeIsTransitive DEF Kept
<1>8. Listed' /\ Reads'
  BY <1>1, <1>2 DEF IInv, Listed, Reads
<1>9. Turn' /\ Begun' /\ Outside'
  BY <1>1, <1>6, <1>7 DEF Turn, Begun, Outside
<1>10. /\ KindOf(flow, n) = entry.kind /\ LevelOf(flow, n) = entry.level
       /\ entry.kind # "FunctionDefinition"
  BY <1>1, <1>2 DEF IInv, Turn, StatementKinds
<1>11. FunctionsKnown'
  BY <1>1, <1>2, <1>7, <1>10, FunctionsStay DEF IInv
<1>12. LoopsKnown'
  <2>1. Treated = at /\ Treated' = at
    BY <1>1, <1>2, <1>7 DEF Treated
  <2>2. ASSUME NEW level, OnStack(flow, level)
        PROVE  OnStack(flow', level)
    <3>1. PICK l \in DOMAIN flow.loopPairStack : LevelOf(flow, flow.loopPairStack[l].node) = level
      BY <2>2 DEF OnStack
    <3>2. flow.loopPairStack[l].node \in NodesOf(flow)
      BY <1>1, <3>1 DEF Fits, LoopsFit
    <3>3. l \in DOMAIN flow'.loopPairStack /\ flow'.loopPairStack[l] = flow.loopPairStack[l]
      <4>1. /\ l \in 1..Len(flow.loopPairStack) /\ Len(flow.loopPairStack) \in Nat
            /\ Len(flow'.loopPairStack) \in Nat
            /\ DOMAIN flow'.loopPairStack = 1..Len(flow'.loopPairStack)
        <5>1. flow.loopPairStack \in Seq(LoopPairs) /\ flow'.loopPairStack \in Seq(LoopPairs)
          BY <1>1, <1>7 DEF Fits, Flows
        <5> QED
          BY <5>1
      <4> QED
        BY <1>4, <1>6, <4>1
    <3> QED
      BY <1>7, <3>1, <3>2, <3>3 DEF OnStack, Alike
  <2>3. entry.kind \in Loops => OnStack(flow', entry.level)
    BY <1>3, <1>4, <1>6, <1>7, <1>10 DEF OnStack, Alike, Top
  <2> QED
    BY <1>1, <1>2, <2>1, <2>2, <2>3, LoopsStay DEF IInv
<1> QED
  BY <1>7, <1>8, <1>9, <1>11, <1>12 DEF IInv

-----------------------------------------------------------------------------

LEMMA EmptyFits ==
  ASSUME dump = <<>>, StartFlow
  PROVE  IInv
<1>1. Fits(Empty)
  BY DEF Empty, Fits, Flows, LastFits, FunctionsFit, IfsFit, IfEndsFit, LoopsFit, RowsFit,
         NodesOf, Null
<1> QED
  BY <1>1 DEF StartFlow, IInv, Listed, Reads, Turn, Begun, FunctionsKnown, LoopsKnown, Outside,
              Empty, Null

(* What getCFG keeps is the same kind of state behind every node, whatever *)
(* the list it reads, and a node that it reads is handed over before.      *)
THEOREM FlowInvariance == FlowSpec => []IInv
<1>1. dump = <<>> /\ StartFlow => IInv
  BY EmptyFits
<1>2. IInv /\ [HandOver \/ getCFG]_flowing => IInv'
  <2> SUFFICES ASSUME IInv, [HandOver \/ getCFG]_flowing
               PROVE  IInv'
    OBVIOUS
  <2>1. CASE HandOver
    BY <2>1, HandOverKeeps
  <2>2. CASE getCFG
    <3>1. PICK entry : \/ ReadFunction(entry) \/ ReadStatement(entry) \/ PassOver(entry)
                       \/ LeaveLoop(entry) \/ EndStatement(entry)
      BY <2>2 DEF getCFG
    <3> QED
      BY <3>1, ReadFunctionKeeps, ReadStatementKeeps, PassOverKeeps, LeaveLoopKeeps,
         EndStatementKeeps
  <2>3. CASE UNCHANGED flowing
    BY <2>3 DEF flowing, IInv, Listed, Reads, Turn, Begun, FunctionsKnown, LoopsKnown, IsOpen,
                Treated, Outside
  <2> QED
    BY <2>1, <2>2, <2>3
<1> QED
  BY <1>1, <1>2, PTL DEF FlowSpec

(* The ifs, loops and rows of breaks that getCFG keeps are nodes of those  *)
(* kinds, the loops ever deeper, and there is a row for every loop: what is*)
(* read at the back of a vector is there (SyntaxNamePrinter.cpp:261-328).  *)
THEOREM StacksAlwaysFit == FlowSpec => []StacksFit
<1>1. IInv => StacksFit
  <2> SUFFICES ASSUME IInv
               PROVE  StacksFit
    OBVIOUS
  <2>1. Fits(flow) /\ Begun
    BY DEF IInv
  <2>2. flow.lastNode \in 0..Len(flow.nodes) /\ Len(flow.loopPairStack) <= Len(flow.breakStmtsStack)
    BY <2>1 DEF Fits, LastFits
  <2>3. \A i \in DOMAIN flow.ifPairStack :
            /\ KindOf(flow, flow.ifPairStack[i].node) = "IfStatement"
            /\ flow.ifPairStack[i].count \in -1..3
    <3> TAKE i \in DOMAIN flow.ifPairStack
    <3>1. flow.ifPairStack \in Seq(IfPairs)
      BY <2>1 DEF Fits, Flows
    <3>2. flow.ifPairStack[i] \in IfPairs
      BY <3>1
    <3> QED
      BY <2>1, <3>2 DEF Fits, IfsFit, IfPairs
  <2>4. /\ \A i, j \in DOMAIN flow.loopPairStack :
                i < j => LevelOf(flow, flow.loopPairStack[i].node)
                            < LevelOf(flow, flow.loopPairStack[j].node)
        /\ \A i \in DOMAIN flow.loopPairStack : KindOf(flow, flow.loopPairStack[i].node) \in Loops
    BY <2>1 DEF Fits, LoopsFit
  <2>5. \A r \in DOMAIN flow.breakStmtsStack : \A i \in DOMAIN flow.breakStmtsStack[r] :
            KindOf(flow, flow.breakStmtsStack[r][i]) = "BreakStatement"
    BY <2>1 DEF Fits, RowsFit
  <2> QED
    BY <2>1, <2>2, <2>3, <2>4, <2>5 DEF StacksFit, Begun
<1> QED
  BY <1>1, FlowInvariance, PTL

(* In whatever list a walk hands over, getCFG reads behind the end of a    *)
(* vector only at a break that is in no while or for, or at a statement    *)
(* that is in no function (SyntaxNamePrinter.cpp:221 and 261).             *)
THEOREM OnlyOutsideIsUndefined == FlowSpec => []UndefinedOutsideOnly
<1>1. IInv => UndefinedOutsideOnly
  BY DEF IInv, Outside, UndefinedOutsideOnly, Around
<1> QED
  BY <1>1, FlowInvariance, PTL

-----------------------------------------------------------------------------
(* Where the jumps go: forward, or back to a loop that is left forward.    *)

Forward(f, k) ==
    LET to == f.nodes[k].nextFalseNode IN to = Null \/ to \in (k + 1)..Len(f.nodes)
BackTo(f, k, l) ==
    /\ l \in NodesOf(f) /\ KindOf(f, l) \in Loops /\ f.nodes[l].isCondition
    /\ f.nodes[l].nextFalseNode = Null \/ k < f.nodes[l].nextFalseNode
Onward(f, k) ==
    LET to == f.nodes[k].nextNode IN to = Null \/ to \in (k + 1)..Len(f.nodes) \/ BackTo(f, k, to)
Links(f) == \A k \in NodesOf(f) : Forward(f, k) /\ Onward(f, k)

\* Nothing but jumps to n from nodes before it is added.
Ties(f, g, n) ==
    /\ Len(g.nodes) = Len(f.nodes)
    /\ \A k \in NodesOf(f) :
        /\ KindOf(g, k) = KindOf(f, k)
        /\ f.nodes[k].isCondition => g.nodes[k].isCondition
        /\ \/ g.nodes[k].nextFalseNode = f.nodes[k].nextFalseNode
           \/ g.nodes[k].nextFalseNode = n /\ k < n /\ KindOf(f, k) \notin Loops
        /\ \/ g.nodes[k].nextNode = f.nodes[k].nextNode
           \/ g.nodes[k].nextNode = n /\ k < n

LEMMA NothingTied ==
  ASSUME NEW f, NEW g, NEW n, g.nodes = f.nodes
  PROVE  Ties(f, g, n)
BY DEF Ties, KindOf

LEMMA TiesAreTransitive ==
  ASSUME NEW f, NEW g, NEW h, NEW n, Ties(f, g, n), Ties(g, h, n)
  PROVE  Ties(f, h, n)
<1>1. NodesOf(g) = NodesOf(f) /\ Len(h.nodes) = Len(f.nodes)
  BY DEF Ties, NodesOf
<1>2. ASSUME NEW k \in NodesOf(f)
      PROVE  /\ KindOf(h, k) = KindOf(f, k)
             /\ f.nodes[k].isCondition => h.nodes[k].isCondition
             /\ \/ h.nodes[k].nextFalseNode = f.nodes[k].nextFalseNode
                \/ h.nodes[k].nextFalseNode = n /\ k < n /\ KindOf(f, k) \notin Loops
             /\ \/ h.nodes[k].nextNode = f.nodes[k].nextNode
                \/ h.nodes[k].nextNode = n /\ k < n
  BY <1>1, <1>2, Zenon DEF Ties
<1> QED
  BY <1>1, <1>2 DEF Ties

LEMMA TiedLinks ==
  ASSUME NEW f, NEW g, NEW n, Ties(f, g, n), Links(f), n = Len(f.nodes), n \in Nat
  PROVE  Links(g)
<1>1. NodesOf(g) = NodesOf(f) /\ NodesOf(f) = 1..n /\ Len(g.nodes) = n
  BY DEF Ties, NodesOf
<1> SUFFICES ASSUME NEW k \in NodesOf(f)
             PROVE  Forward(g, k) /\ Onward(g, k)
  BY <1>1 DEF Links
<1>2. /\ \/ g.nodes[k].nextFalseNode = f.nodes[k].nextFalseNode
         \/ g.nodes[k].nextFalseNode = n /\ k < n
      /\ \/ g.nodes[k].nextNode = f.nodes[k].nextNode
         \/ g.nodes[k].nextNode = n /\ k < n
      /\ Forward(f, k) /\ Onward(f, k)
  BY DEF Ties, Links
<1>3. k < n => n \in (k + 1)..n
  BY <1>1
<1>4. Forward(g, k)
  BY <1>1, <1>2, <1>3, Zenon DEF Forward
<1>5. ASSUME NEW l, BackTo(f, k, l)
      PROVE  BackTo(g, k, l)
  <2>1. /\ KindOf(g, l) = KindOf(f, l) /\ g.nodes[l].isCondition
        /\ g.nodes[l].nextFalseNode = f.nodes[l].nextFalseNode
    BY <1>5 DEF Ties, BackTo
  <2> QED
    BY <1>1, <1>5, <2>1 DEF BackTo
<1>6. Onward(g, k)
  BY <1>1, <1>2, <1>3, <1>5, Zenon DEF Onward
<1> QED
  BY <1>4, <1>6

(* One node is linked.                                                     *)
LEMMA NextIsSet ==
  ASSUME NEW f, Fits(f), NEW m \in 0..Len(f.nodes), NEW to \in Nat
  PROVE  LET g == setNextNode(f, m, to)
         IN  /\ Len(g.nodes) = Len(f.nodes)
             /\ \A k \in NodesOf(f) :
                    /\ KindOf(g, k) = KindOf(f, k)
                    /\ g.nodes[k].isCondition = f.nodes[k].isCondition
                    /\ g.nodes[k].nextFalseNode = f.nodes[k].nextFalseNode
                    /\ g.nodes[k].nextNode = IF k = m THEN to ELSE f.nodes[k].nextNode
<1> DEFINE g == setNextNode(f, m, to)
           node == [f.nodes[m] EXCEPT !.nextNode = to]
<1>1. f \in Flows /\ f.nodes \in Seq(Nodes) /\ Len(f.nodes) \in Nat
  BY DEF Fits, Flows
<1>2. CASE m = Null
  <2>1. g = f /\ m \notin NodesOf(f)
    BY <1>1, <1>2 DEF setNextNode, NodesOf, Null
  <2> QED
    BY <2>1
<1>3. CASE m # Null
  <2>1. m \in NodesOf(f)
    BY <1>1, <1>3 DEF NodesOf, Null
  <2>2. g.nodes = [f.nodes EXCEPT ![m] = node]
    BY <1>1, <1>3 DEF setNextNode, Flows
  <2>3. /\ node.kind = f.nodes[m].kind /\ node.isCondition = f.nodes[m].isCondition
        /\ node.nextFalseNode = f.nodes[m].nextFalseNode /\ node.nextNode = to /\ node \in Nodes
    BY <2>1, NodesAreNodes DEF Nodes
  <2> HIDE DEF g, node
  <2>4. Len(g.nodes) = Len(f.nodes) /\ \A k \in NodesOf(f) :
            g.nodes[k] = IF k = m THEN node ELSE f.nodes[k]
    BY <1>1, <2>1, <2>2, <2>3, ExceptSeq DEF NodesOf
  <2>5. ASSUME NEW k \in NodesOf(f)
        PROVE  /\ KindOf(g, k) = KindOf(f, k)
               /\ g.nodes[k].isCondition = f.nodes[k].isCondition
               /\ g.nodes[k].nextFalseNode = f.nodes[k].nextFalseNode
               /\ g.nodes[k].nextNode = IF k = m THEN to ELSE f.nodes[k].nextNode
    <3>1. CASE k = m
      BY <2>3, <2>4, <3>1 DEF KindOf
    <3>2. CASE k # m
      BY <2>4, <3>2 DEF KindOf
    <3> QED
      BY <3>1, <3>2
  <2> QED
    BY <2>4, <2>5 DEF g
<1> QED
  BY <1>2, <1>3

LEMMA FalseIsSet ==
  ASSUME NEW f, Fits(f), NEW m \in NodesOf(f), NEW to \in Nat
  PROVE  LET g == setNextFalseNode(f, m, to)
         IN  /\ Len(g.nodes) = Len(f.nodes)
             /\ \A k \in NodesOf(f) :
                    /\ KindOf(g, k) = KindOf(f, k)
                    /\ g.nodes[k].isCondition = f.nodes[k].isCondition
                    /\ g.nodes[k].nextNode = f.nodes[k].nextNode
                    /\ g.nodes[k].nextFalseNode = IF k = m THEN to ELSE f.nodes[k].nextFalseNode
<1> DEFINE g == setNextFalseNode(f, m, to)
           node == [f.nodes[m] EXCEPT !.nextFalseNode = to]
<1>1. f \in Flows /\ f.nodes \in Seq(Nodes) /\ Len(f.nodes) \in Nat
  BY DEF Fits, Flows
<1>2. g.nodes = [f.nodes EXCEPT ![m] = node]
  BY <1>1 DEF setNextFalseNode, Flows
<1>3. /\ node.kind = f.nodes[m].kind /\ node.isCondition = f.nodes[m].isCondition
      /\ node.nextNode = f.nodes[m].nextNode /\ node.nextFalseNode = to /\ node \in Nodes
  BY NodesAreNodes DEF Nodes
<1> HIDE DEF g, node
<1>4. Len(g.nodes) = Len(f.nodes) /\ \A k \in NodesOf(f) :
          g.nodes[k] = IF k = m THEN node ELSE f.nodes[k]
  BY <1>1, <1>2, <1>3, ExceptSeq DEF NodesOf
<1>5. ASSUME NEW k \in NodesOf(f)
      PROVE  /\ KindOf(g, k) = KindOf(f, k)
             /\ g.nodes[k].isCondition = f.nodes[k].isCondition
             /\ g.nodes[k].nextNode = f.nodes[k].nextNode
             /\ g.nodes[k].nextFalseNode = IF k = m THEN to ELSE f.nodes[k].nextFalseNode
  <2>1. CASE k = m
    BY <1>3, <1>4, <2>1 DEF KindOf
  <2>2. CASE k # m
    BY <1>4, <2>2 DEF KindOf
  <2> QED
    BY <2>1, <2>2
<1> QED
  BY <1>4, <1>5 DEF g

\* What the jumps of a statement are made of is before it.
Steps(f, g, n) ==
    /\ Ties(f, g, n)
    /\ g.loopPairStack = f.loopPairStack /\ g.breakStmtsStack = f.breakStmtsStack
    /\ g.lastNode = f.lastNode /\ g.funcDefStack = f.funcDefStack
EndsPrior(f, n) == \A i \in DOMAIN f.ifEndStmtStack : f.ifEndStmtStack[i] < n
IfsPrior(f, n) ==
    /\ \A i \in DOMAIN f.ifPairStack : f.ifPairStack[i].node < n
    /\ EndsPrior(f, n)

LEMMA StepsAreTransitive ==
  ASSUME NEW f, NEW g, NEW h, NEW n, Steps(f, g, n), Steps(g, h, n)
  PROVE  Steps(f, h, n)
<1>1. Ties(f, h, n)
  BY TiesAreTransitive DEF Steps
<1> QED
  BY <1>1 DEF Steps

LEMMA NoStep ==
  ASSUME NEW f, NEW n
  PROVE  Steps(f, f, n)
BY NothingTied DEF Steps

LEMMA NextTies ==
  ASSUME NEW f, Fits(f), NEW m \in 0..Len(f.nodes), NEW n \in Nat, m < n
  PROVE  LET g == setNextNode(f, m, n)
         IN  Steps(f, g, n) /\ SameStacks(f, g)
<1> DEFINE g == setNextNode(f, m, n)
<1>1. Linked(f, g)
  BY NextLinked
<1>2. Ties(f, g, n)
  <2>1. /\ Len(g.nodes) = Len(f.nodes)
        /\ \A k \in NodesOf(f) :
            /\ KindOf(g, k) = KindOf(f, k)
            /\ g.nodes[k].isCondition = f.nodes[k].isCondition
            /\ g.nodes[k].nextFalseNode = f.nodes[k].nextFalseNode
            /\ g.nodes[k].nextNode = IF k = m THEN n ELSE f.nodes[k].nextNode
    BY NextIsSet
  <2> HIDE DEF g
  <2> QED
    BY <2>1 DEF Ties
<1> HIDE DEF g
<1>3. Steps(f, g, n) /\ SameStacks(f, g)
  BY <1>1, <1>2 DEF Linked, SameStacks, Steps
<1> QED
  BY <1>3 DEF g

LEMMA FalseTies ==
  ASSUME NEW f, Fits(f), NEW m \in NodesOf(f), NEW n \in Nat, m < n, KindOf(f, m) \notin Loops
  PROVE  LET g == setNextFalseNode(f, m, n)
         IN  Steps(f, g, n) /\ SameStacks(f, g)
<1> DEFINE g == setNextFalseNode(f, m, n)
<1>1. Linked(f, g)
  BY FalseLinked
<1>2. Ties(f, g, n)
  <2>1. /\ Len(g.nodes) = Len(f.nodes)
        /\ \A k \in NodesOf(f) :
            /\ KindOf(g, k) = KindOf(f, k)
            /\ g.nodes[k].isCondition = f.nodes[k].isCondition
            /\ g.nodes[k].nextNode = f.nodes[k].nextNode
            /\ g.nodes[k].nextFalseNode = IF k = m THEN n ELSE f.nodes[k].nextFalseNode
    BY FalseIsSet
  <2> HIDE DEF g
  <2> QED
    BY <2>1 DEF Ties
<1> HIDE DEF g
<1>3. Steps(f, g, n) /\ SameStacks(f, g)
  BY <1>1, <1>2 DEF Linked, SameStacks, Steps
<1> QED
  BY <1>3 DEF g

LEMMA ConditionTies ==
  ASSUME NEW f, Fits(f), NEW m \in NodesOf(f), NEW n
  PROVE  LET g == [f EXCEPT !.nodes[m].isCondition = TRUE]
         IN  Steps(f, g, n) /\ g.nodes[m].isCondition
<1> DEFINE g == [f EXCEPT !.nodes[m].isCondition = TRUE]
           node == [f.nodes[m] EXCEPT !.isCondition = TRUE]
<1>1. f \in Flows /\ f.nodes \in Seq(Nodes) /\ Len(f.nodes) \in Nat
  BY DEF Fits, Flows
<1>2. g.nodes = [f.nodes EXCEPT ![m] = node]
  BY <1>1 DEF Flows
<1>3. /\ node.kind = f.nodes[m].kind /\ node.isCondition /\ node.nextNode = f.nodes[m].nextNode
      /\ node.nextFalseNode = f.nodes[m].nextFalseNode /\ node \in Nodes
  BY NodesAreNodes DEF Nodes
<1>4. Linked(f, g)
  BY ConditionMarked
<1> HIDE DEF g, node
<1>5. Len(g.nodes) = Len(f.nodes) /\ \A k \in NodesOf(f) :
          g.nodes[k] = IF k = m THEN node ELSE f.nodes[k]
  BY <1>1, <1>2, <1>3, ExceptSeq DEF NodesOf
<1>6. Ties(f, g, n)
  <2> SUFFICES ASSUME NEW k \in NodesOf(f)
               PROVE  /\ KindOf(g, k) = KindOf(f, k)
                      /\ f.nodes[k].isCondition => g.nodes[k].isCondition
                      /\ g.nodes[k].nextFalseNode = f.nodes[k].nextFalseNode
                      /\ g.nodes[k].nextNode = f.nodes[k].nextNode
    BY <1>5 DEF Ties
  <2>1. CASE k = m
    BY <1>3, <1>5, <2>1 DEF KindOf
  <2>2. CASE k # m
    BY <1>5, <2>2 DEF KindOf
  <2> QED
    BY <2>1, <2>2
<1>7. Steps(f, g, n) /\ g.nodes[m].isCondition
  BY <1>3, <1>4, <1>5, <1>6 DEF Linked, SameStacks, Steps
<1> QED
  BY <1>7 DEF g

LEMMA MarkedTies ==
  ASSUME NEW f, Fits(f), NEW n
  PROVE  Steps(f, Marked(f), n) /\ SameStacks(f, Marked(f))
<1> DEFINE g == Marked(f)
           m == f.lastNode
           node == [f.nodes[m] EXCEPT !.hasCallExpr = TRUE]
<1>1. f \in Flows /\ f.nodes \in Seq(Nodes) /\ Len(f.nodes) \in Nat /\ m \in 0..Len(f.nodes)
  BY DEF Fits, Flows, LastFits
<1>2. Linked(f, g)
  BY MarkedFits
<1>3. Ties(f, g, n)
  <2>1. CASE ~f.callExprFlag
    <3>1. g = f
      BY <2>1 DEF Marked
    <3> QED
      BY <3>1, NothingTied
  <2>2. CASE f.callExprFlag /\ m = Null
    <3>1. g.nodes = f.nodes
      BY <1>1, <2>2 DEF Marked, Flows
    <3> QED
      BY <3>1, NothingTied
  <2>3. CASE f.callExprFlag /\ m # Null
    <3>1. g.nodes = [f.nodes EXCEPT ![m] = node]
      BY <1>1, <2>3 DEF Marked, Flows
    <3>2. m \in NodesOf(f)
      BY <1>1, <2>3 DEF NodesOf, Null
    <3>3. /\ node.kind = f.nodes[m].kind /\ node.isCondition = f.nodes[m].isCondition
          /\ node.nextNode = f.nodes[m].nextNode
          /\ node.nextFalseNode = f.nodes[m].nextFalseNode /\ node \in Nodes
      BY <3>2, NodesAreNodes DEF Nodes
    <3> HIDE DEF g, node, m
    <3>4. Len(g.nodes) = Len(f.nodes) /\ \A k \in NodesOf(f) :
              g.nodes[k] = IF k = m THEN node ELSE f.nodes[k]
      BY <1>1, <3>1, <3>2, <3>3, ExceptSeq DEF NodesOf
    <3> SUFFICES ASSUME NEW k \in NodesOf(f)
                 PROVE  /\ KindOf(g, k) = KindOf(f, k)
                        /\ f.nodes[k].isCondition => g.nodes[k].isCondition
                        /\ g.nodes[k].nextFalseNode = f.nodes[k].nextFalseNode
                        /\ g.nodes[k].nextNode = f.nodes[k].nextNode
      BY <3>4 DEF Ties
    <3>5. CASE k = m
      BY <3>3, <3>4, <3>5 DEF KindOf
    <3>6. CASE k # m
      BY <3>4, <3>6 DEF KindOf
    <3> QED
      BY <3>5, <3>6
  <2> QED
    BY <2>1, <2>2, <2>3
<1> HIDE DEF g
<1>4. Steps(f, g, n) /\ SameStacks(f, g)
  BY <1>2, <1>3 DEF Linked, SameStacks, Steps
<1> QED
  BY <1>4 DEF g

LEMMA SequentialTies ==
  ASSUME NEW f, Fits(f), NEW n \in NodesOf(f), f.funcDefStack # <<>>, f.lastNode < n,
         \A i \in DOMAIN f.funcDefStack : f.funcDefStack[i] < n
  PROVE  Steps(f, Sequential(f, n), n) /\ SameStacks(f, Sequential(f, n))
<1> DEFINE funcDef == Top(f.funcDefStack)
<1>1. funcDef \in NodesOf(f) /\ funcDef < n
  <2>1. Len(f.funcDefStack) \in DOMAIN f.funcDefStack
    BY TopIsIn DEF Fits, Flows
  <2> QED
    BY <2>1 DEF Fits, FunctionsFit, Top
<1>2. funcDef \in 0..Len(f.nodes) /\ f.lastNode \in 0..Len(f.nodes) /\ n \in Nat
  BY <1>1 DEF NodesOf, Fits, LastFits
<1>3. /\ Steps(f, setNextNode(f, funcDef, n), n) /\ SameStacks(f, setNextNode(f, funcDef, n))
      /\ Steps(f, setNextNode(f, f.lastNode, n), n) /\ SameStacks(f, setNextNode(f, f.lastNode, n))
  BY <1>1, <1>2, NextTies
<1>4. SameStacks(f, f)
  BY DEF SameStacks
<1> QED
  BY <1>3, <1>4, NoStep DEF Sequential

LEMMA FalseOfIfTies ==
  ASSUME NEW f, Fits(f), NEW n \in NodesOf(f), f.lastNode < n, IfsPrior(f, n)
  PROVE  Steps(f, FalseOfIf(f, n), n) /\ EndsPrior(FalseOfIf(f, n), n)
<1> DEFINE if == Top(f.ifPairStack)
           g == setNextFalseNode(f, if.node, n)
           h == FalseOfIf(f, n)
           Goes == /\ f.ifPairStack # <<>>
                   /\ f.elseCompFlag \/ (if.count = 0 /\ LevelOf(f, n) <= LevelOf(f, if.node) + 1)
<1>1. CASE ~Goes
  <2>1. h = f
    BY <1>1 DEF FalseOfIf
  <2> QED
    BY <2>1, NoStep DEF IfsPrior
<1>2. CASE Goes
  <2>1. /\ f.ifPairStack \in Seq(IfPairs) /\ f.ifEndStmtStack \in Seq(Nat) /\ f.lastNode \in Nat
        /\ n \in Nat
    BY DEF Fits, Flows, NodesOf
  <2>2. Len(f.ifPairStack) \in DOMAIN f.ifPairStack
    BY <1>2, <2>1, TopIsIn
  <2>3. if.node \in NodesOf(f) /\ if.node < n /\ KindOf(f, if.node) = "IfStatement"
    BY <2>2 DEF Fits, IfsFit, IfsPrior, Top
  <2>4. KindOf(f, if.node) \notin Loops
    BY <2>3 DEF Loops
  <2>5. Steps(f, g, n) /\ SameStacks(f, g) /\ Linked(f, g)
    BY <2>1, <2>3, <2>4, FalseTies, FalseLinked
  <2>6. h = [g EXCEPT !.ifEndStmtStack = Append(@, f.lastNode),
                      !.ifPairStack[Len(f.ifPairStack)].count = -1, !.elseCompFlag = FALSE]
    BY <1>2 DEF FalseOfIf
  <2>7. g \in Flows /\ g.ifEndStmtStack = f.ifEndStmtStack
    BY <2>5 DEF Linked, Fits, SameStacks
  <2> HIDE DEF g, h, Goes, if
  <2>8. /\ h.nodes = g.nodes /\ h.loopPairStack = g.loopPairStack
        /\ h.breakStmtsStack = g.breakStmtsStack /\ h.lastNode = g.lastNode
        /\ h.funcDefStack = g.funcDefStack
    BY <2>6, <2>7 DEF Flows
  <2>9. h.ifEndStmtStack = Append(f.ifEndStmtStack, f.lastNode)
    BY <2>6, <2>7 DEF Flows
  <2>10. Steps(g, h, n)
    BY <2>8, NothingTied DEF Steps
  <2>11. EndsPrior(h, n)
    <3>1. \A i \in DOMAIN Append(f.ifEndStmtStack, f.lastNode) :
            \/ i \in DOMAIN f.ifEndStmtStack
               /\ Append(f.ifEndStmtStack, f.lastNode)[i] = f.ifEndStmtStack[i]
            \/ Append(f.ifEndStmtStack, f.lastNode)[i] = f.lastNode
      BY <2>1, AppendProperties
    <3> QED
      BY <2>9, <3>1, Zenon DEF IfsPrior, EndsPrior
  <2> QED
    BY <2>5, <2>10, <2>11, StepsAreTransitive DEF h
<1> QED
  BY <1>1, <1>2

LEMMA EndOfIfTies ==
  ASSUME NEW f, Fits(f), NEW n \in NodesOf(f), EndsPrior(f, n)
  PROVE  Steps(f, EndOfIf(f, n), n)
<1> DEFINE end == Top(f.ifEndStmtStack)
           g == setNextNode(f, end, n)
           h == EndOfIf(f, n)
           Goes == /\ f.ifPairStack # <<>> /\ f.ifEndStmtStack # <<>>
                   /\ LevelOf(f, n) <= LevelOf(f, Top(f.ifPairStack).node)
<1>1. CASE ~Goes
  <2>1. h = f
    BY <1>1 DEF EndOfIf
  <2> QED
    BY <2>1, NoStep
<1>2. CASE Goes
  <2>1. f.ifEndStmtStack \in Seq(Nat) /\ n \in Nat
    BY DEF Fits, Flows, NodesOf
  <2>2. Len(f.ifEndStmtStack) \in DOMAIN f.ifEndStmtStack
    BY <1>2, <2>1, TopIsIn
  <2>3. end \in 0..Len(f.nodes) /\ end < n
    BY <2>2 DEF Fits, IfEndsFit, EndsPrior, Top
  <2>4. Steps(f, g, n) /\ Linked(f, g)
    BY <2>1, <2>3, NextTies, NextLinked
  <2>5. h = [g EXCEPT !.ifPairStack = Popped(@), !.ifEndStmtStack = Popped(@)]
    BY <1>2 DEF EndOfIf
  <2>6. g \in Flows
    BY <2>4 DEF Linked, Fits
  <2> HIDE DEF g, h, Goes, end
  <2>7. /\ h.nodes = g.nodes /\ h.loopPairStack = g.loopPairStack
        /\ h.breakStmtsStack = g.breakStmtsStack /\ h.lastNode = g.lastNode
        /\ h.funcDefStack = g.funcDefStack
    BY <2>5, <2>6 DEF Flows
  <2>8. Steps(g, h, n)
    BY <2>7, NothingTied DEF Steps
  <2> QED
    BY <2>4, <2>8, StepsAreTransitive DEF h
<1> QED
  BY <1>1, <1>2

LEMMA PushIfTies ==
  ASSUME NEW f, Fits(f), NEW n \in NodesOf(f)
  PROVE  Steps(f, PushIf(f, n), n)
<1> DEFINE g == [f EXCEPT !.nodes[n].isCondition = TRUE]
           h == PushIf(f, n)
<1>1. CASE KindOf(f, n) # "IfStatement"
  <2>1. h = f
    BY <1>1 DEF PushIf
  <2> QED
    BY <2>1, NoStep
<1>2. CASE KindOf(f, n) = "IfStatement"
  <2>1. Steps(f, g, n)
    BY ConditionTies
  <2>2. f \in Flows
    BY DEF Fits
  <2>3. /\ h.nodes = g.nodes /\ h.loopPairStack = g.loopPairStack
        /\ h.breakStmtsStack = g.breakStmtsStack /\ h.lastNode = g.lastNode
        /\ h.funcDefStack = g.funcDefStack
    BY <1>2, <2>2 DEF PushIf, Flows
  <2> HIDE DEF g, h
  <2>4. Steps(g, h, n)
    BY <2>3, NothingTied DEF Steps
  <2> QED
    BY <2>1, <2>4, StepsAreTransitive DEF h
<1> QED
  BY <1>1, <1>2

\* The loops on the stack are not left yet; and what is left for n by the breaks.
LoopsReady(f) ==
    \A i \in DOMAIN f.loopPairStack :
        LET l == f.loopPairStack[i].node
        IN  f.nodes[l].isCondition /\ f.nodes[l].nextFalseNode = Null
LoopsPrior(f, n) == \A i \in DOMAIN f.loopPairStack : f.loopPairStack[i].node < n
RowsPrior(f, n) ==
    \A r \in DOMAIN f.breakStmtsStack : \A i \in DOMAIN f.breakStmtsStack[r] :
        f.breakStmtsStack[r][i] < n

LEMMA ReadyLoops ==
  ASSUME NEW f, NEW g, NEW n, Fits(f), Ties(f, g, n), g.loopPairStack = f.loopPairStack, LoopsReady(f)
  PROVE  LoopsReady(g)
<1> SUFFICES ASSUME NEW i \in DOMAIN f.loopPairStack
             PROVE  LET l == f.loopPairStack[i].node
                    IN  g.nodes[l].isCondition /\ g.nodes[l].nextFalseNode = Null
  BY DEF LoopsReady
<1> DEFINE l == f.loopPairStack[i].node
<1>1. /\ l \in NodesOf(f) /\ KindOf(f, l) \in Loops
      /\ f.nodes[l].isCondition /\ f.nodes[l].nextFalseNode = Null
  BY DEF Fits, LoopsFit, LoopsReady
<1> HIDE DEF l
<1>2. g.nodes[l].isCondition /\ g.nodes[l].nextFalseNode = f.nodes[l].nextFalseNode
  BY <1>1 DEF Ties
<1> QED
  BY <1>1, <1>2 DEF l

(* A continue goes back to a loop that is on the stack.                    *)
LEMMA ContinueLinks ==
  ASSUME NEW f, Fits(f), NEW n \in NodesOf(f), LoopsReady(f)
  PROVE  LET g == Continue(f, n)
         IN  /\ Len(g.nodes) = Len(f.nodes)
             /\ g.loopPairStack = f.loopPairStack /\ g.breakStmtsStack = f.breakStmtsStack
             /\ g.lastNode = f.lastNode
             /\ KindOf(f, n) # "ContinueStatement" => g = f
             /\ \A k \in NodesOf(f) : /\ g.nodes[k].nextFalseNode = f.nodes[k].nextFalseNode
                                      /\ g.nodes[k].isCondition = f.nodes[k].isCondition
             /\ Links(f) => Links(g)
<1> DEFINE g == Continue(f, n)
           l == Top(f.loopPairStack).node
<1>1. CASE KindOf(f, n) # "ContinueStatement" \/ f.loopPairStack = <<>>
  BY <1>1 DEF Continue
<1>2. CASE KindOf(f, n) = "ContinueStatement" /\ f.loopPairStack # <<>>
  <2>1. g = setNextNode(f, n, l)
    BY <1>2 DEF Continue
  <2>2. n \in 0..Len(f.nodes) /\ n # Null
    BY DEF NodesOf, Fits, Flows, Null
  <2>3. /\ l \in NodesOf(f) /\ l \in Nat /\ KindOf(f, l) \in Loops
        /\ f.nodes[l].isCondition /\ f.nodes[l].nextFalseNode = Null
    <3>1. Len(f.loopPairStack) \in DOMAIN f.loopPairStack
      BY <1>2, TopIsIn DEF Fits, Flows
    <3>2. l \in NodesOf(f) /\ KindOf(f, l) \in Loops
      BY <3>1 DEF Fits, LoopsFit, Top
    <3> QED
      BY <3>1, <3>2 DEF LoopsReady, Top, NodesOf
  <2> HIDE DEF l, g
  <2>4. /\ Len(g.nodes) = Len(f.nodes)
        /\ \A k \in NodesOf(f) :
            /\ KindOf(g, k) = KindOf(f, k)
            /\ g.nodes[k].isCondition = f.nodes[k].isCondition
            /\ g.nodes[k].nextFalseNode = f.nodes[k].nextFalseNode
            /\ g.nodes[k].nextNode = IF k = n THEN l ELSE f.nodes[k].nextNode
    BY <2>1, <2>2, <2>3, NextIsSet
  <2>5. SameStacks(f, g)
    BY <2>1, <2>2, <2>3, NextLinked DEF Linked
  <2>6. ASSUME Links(f)
        PROVE  Links(g)
    <3>1. NodesOf(g) = NodesOf(f)
      BY <2>4 DEF NodesOf
    <3> SUFFICES ASSUME NEW k \in NodesOf(f)
                 PROVE  Forward(g, k) /\ Onward(g, k)
      BY <3>1 DEF Links
    <3>2. Forward(f, k) /\ Onward(f, k)
      BY <2>6 DEF Links
    <3>3. Forward(g, k)
      BY <2>4, <3>2 DEF Forward
    <3>4. ASSUME NEW m, BackTo(f, k, m)
          PROVE  BackTo(g, k, m)
      BY <2>4, <3>1, <3>4 DEF BackTo
    <3>5. BackTo(g, n, l)
      BY <2>3, <2>4, <3>1 DEF BackTo
    <3>6. Onward(g, k)
      <4>1. CASE k = n
        BY <2>4, <3>5, <4>1 DEF Onward
      <4>2. CASE k # n
        <5>1. g.nodes[k].nextNode = f.nodes[k].nextNode /\ Len(g.nodes) = Len(f.nodes)
          BY <2>4, <4>2
        <5> QED
          BY <3>2, <3>4, <5>1, Zenon DEF Onward
      <4> QED
        BY <4>1, <4>2
    <3> QED
      BY <3>3, <3>6
  <2>7. KindOf(f, n) = "ContinueStatement"
    BY <1>2
  <2> QED
    BY <2>4, <2>5, <2>6, <2>7 DEF SameStacks, g
<1> QED
  BY <1>1, <1>2

LEMMA BreakLinks ==
  ASSUME NEW f, Fits(f), NEW n \in NodesOf(f), LoopsReady(f), ~Break(f, n).undefined
  PROVE  LET g == Break(f, n)
         IN  /\ g.nodes = f.nodes /\ g.lastNode = f.lastNode
             /\ Kept(f, g) /\ LoopsReady(g)
             /\ KindOf(f, n) # "BreakStatement" => g = f
<1> DEFINE g == Break(f, n)
<1>1. CASE KindOf(f, n) # "BreakStatement"
  BY <1>1, NothingIsKept DEF Break
<1>2. CASE KindOf(f, n) = "BreakStatement"
  <2>1. f.loopPairStack # <<>>
    <3> SUFFICES ASSUME f.loopPairStack = <<>>
                 PROVE  g.undefined
      OBVIOUS
    <3>1. g = [f EXCEPT !.undefined = TRUE]
      BY <1>2 DEF Break
    <3> QED
      BY <3>1 DEF Fits, Flows
  <2>2. Kept(f, g)
    BY <2>1, BreakFits
  <2>3. g.nodes = f.nodes /\ g.lastNode = f.lastNode
    BY <1>2, <2>1 DEF Break, Fits, Flows
  <2> HIDE DEF g
  <2>4. /\ DOMAIN g.loopPairStack = DOMAIN f.loopPairStack
        /\ \A i \in DOMAIN f.loopPairStack : g.loopPairStack[i].node = f.loopPairStack[i].node
    <3>1. /\ f.loopPairStack \in Seq(LoopPairs) /\ g.loopPairStack \in Seq(LoopPairs)
          /\ SameLoops(f, g)
      BY <2>2 DEF Kept, Fits, Flows
    <3> QED
      BY <3>1 DEF SameLoops
  <2>5. LoopsReady(g)
    BY <2>3, <2>4 DEF LoopsReady
  <2> QED
    BY <1>2, <2>2, <2>3, <2>5 DEF g
<1> QED
  BY <1>1, <1>2

(* A new statement is linked from nodes before it, and to a loop.          *)
LEMMA StatementLinks ==
  ASSUME NEW f, Fits(f), NEW n \in NodesOf(f), n = Len(f.nodes), ~f.undefined,
         f.lastNode < n, \A i \in DOMAIN f.funcDefStack : f.funcDefStack[i] < n,
         IfsPrior(f, n), LoopsReady(f), RowsPrior(f, n),
         f.nodes[n].nextNode = Null, f.nodes[n].nextFalseNode = Null,
         ~Statement(f, n).undefined
  PROVE  LET h == Statement(f, n)
         IN  /\ Len(h.nodes) = n /\ h.lastNode = f.lastNode /\ LoopsReady(h)
             /\ h.nodes[n].nextFalseNode = Null
             /\ Links(f) => Links(h)
             /\ KindOf(f, n) \notin {"BreakStatement", "ContinueStatement"} =>
                    h.nodes[n].nextNode = Null /\ RowsPrior(h, n)
<1> DEFINE a == Marked(f)
           b == Sequential(a, n)
           c == FalseOfIf(b, n)
           d == EndOfIf(c, n)
           ifs == PushIf(d, n)
           broken == Break(ifs, n)
           g == Continue(broken, n)
           h == Statement(f, n)
<1>0. f.funcDefStack # <<>> /\ n \in Nat
  <2> SUFFICES ASSUME f.funcDefStack = <<>>
               PROVE  h.undefined
    BY DEF NodesOf
  <2>1. h = [f EXCEPT !.undefined = TRUE]
    BY DEF Statement
  <2> QED
    BY <2>1 DEF Fits, Flows
<1>1. h = IF broken.undefined THEN broken ELSE [g EXCEPT !.stmtNode = n]
  BY <1>0 DEF Statement
<1>2. /\ Steps(f, a, n) /\ Fits(a) /\ a.ifPairStack = f.ifPairStack
      /\ a.ifEndStmtStack = f.ifEndStmtStack /\ a.undefined = f.undefined
  BY MarkedTies, MarkedFits DEF Linked, SameStacks
<1> HIDE DEF a, h
<1>3. /\ Steps(a, b, n) /\ Fits(b) /\ b.ifPairStack = f.ifPairStack
      /\ b.ifEndStmtStack = f.ifEndStmtStack /\ b.undefined = f.undefined
  <2>1. /\ n \in NodesOf(a) /\ a.funcDefStack # <<>> /\ a.lastNode < n
        /\ \A i \in DOMAIN a.funcDefStack : a.funcDefStack[i] < n
    BY <1>0, <1>2 DEF Steps, Ties, NodesOf
  <2>2. Steps(a, b, n) /\ SameStacks(a, b) /\ Linked(a, b)
    BY <1>2, <2>1, SequentialTies, SequentialFits
  <2> QED
    BY <1>2, <2>2 DEF Linked, SameStacks
<1> HIDE DEF b
<1>4. Steps(f, b, n) /\ n \in NodesOf(b) /\ b.lastNode < n /\ IfsPrior(b, n)
  <2>1. Steps(f, b, n)
    BY <1>2, <1>3, StepsAreTransitive
  <2> QED
    BY <1>3, <2>1 DEF Steps, Ties, NodesOf, IfsPrior, EndsPrior
<1>5. Steps(b, c, n) /\ EndsPrior(c, n) /\ Fits(c) /\ c.undefined = f.undefined
  BY <1>3, <1>4, FalseOfIfTies, FalseOfIfFits DEF Kept
<1> HIDE DEF c
<1>6. Steps(f, c, n) /\ n \in NodesOf(c)
  <2>1. Steps(f, c, n)
    BY <1>4, <1>5, StepsAreTransitive
  <2> QED
    BY <2>1 DEF Steps, Ties, NodesOf
<1>7. Steps(c, d, n) /\ Fits(d) /\ d.undefined = f.undefined
  BY <1>5, <1>6, EndOfIfTies, EndOfIfFits DEF Kept
<1> HIDE DEF d
<1>8. Steps(f, d, n) /\ n \in NodesOf(d)
  <2>1. Steps(f, d, n)
    BY <1>6, <1>7, StepsAreTransitive
  <2> QED
    BY <2>1 DEF Steps, Ties, NodesOf
<1>9. Steps(d, ifs, n) /\ Fits(ifs) /\ ifs.undefined = f.undefined
  BY <1>7, <1>8, PushIfTies, PushIfFits DEF Kept
<1> HIDE DEF ifs
<1>10. Steps(f, ifs, n) /\ n \in NodesOf(ifs)
  <2>1. Steps(f, ifs, n)
    BY <1>8, <1>9, StepsAreTransitive
  <2> QED
    BY <2>1 DEF Steps, Ties, NodesOf
<1>11. /\ Len(ifs.nodes) = n /\ ifs.lastNode = f.lastNode /\ KindOf(ifs, n) = KindOf(f, n)
       /\ ifs.nodes[n].nextNode = Null /\ ifs.nodes[n].nextFalseNode = Null
       /\ ifs.breakStmtsStack = f.breakStmtsStack
  <2>1. ~(n < n)
    BY <1>0
  <2> QED
    BY <1>10, <2>1 DEF Steps, Ties
<1>12. LoopsReady(ifs)
  BY <1>10, ReadyLoops DEF Steps
<1>13. Links(f) => Links(ifs)
  BY <1>0, <1>10, TiedLinks DEF Steps
<1>14. ~broken.undefined
  <2>1. ~h.undefined
    BY DEF h
  <2> HIDE DEF broken, g
  <2> QED
    BY <1>1, <2>1, Zenon
<1>15. /\ broken.nodes = ifs.nodes /\ broken.lastNode = ifs.lastNode /\ Kept(ifs, broken)
       /\ LoopsReady(broken)
       /\ KindOf(ifs, n) # "BreakStatement" => broken = ifs
  BY <1>9, <1>10, <1>12, <1>14, BreakLinks
<1> HIDE DEF broken
<1>16. /\ Fits(broken) /\ n \in NodesOf(broken) /\ KindOf(broken, n) = KindOf(f, n)
       /\ Links(f) => Links(broken)
  <2>1. Links(ifs) => Links(broken)
    BY <1>15 DEF Links, Forward, Onward, BackTo, NodesOf, KindOf
  <2> QED
    BY <1>10, <1>11, <1>13, <1>15, <2>1 DEF Kept, NodesOf, KindOf
<1>17. /\ Len(g.nodes) = Len(broken.nodes)
       /\ g.loopPairStack = broken.loopPairStack /\ g.breakStmtsStack = broken.breakStmtsStack
       /\ g.lastNode = broken.lastNode
       /\ KindOf(broken, n) # "ContinueStatement" => g = broken
       /\ \A k \in NodesOf(broken) : /\ g.nodes[k].nextFalseNode = broken.nodes[k].nextFalseNode
                                     /\ g.nodes[k].isCondition = broken.nodes[k].isCondition
       /\ Links(broken) => Links(g)
  BY <1>15, <1>16, ContinueLinks
<1>18. Fits(g)
  BY <1>16, ContinueFits DEF Kept
<1> HIDE DEF g
<1>19. LoopsReady(g)
  <2>1. \A i \in DOMAIN broken.loopPairStack : broken.loopPairStack[i].node \in NodesOf(broken)
    BY <1>16 DEF Fits, LoopsFit
  <2> QED
    BY <1>15, <1>17, <2>1 DEF LoopsReady
<1>20. h = [g EXCEPT !.stmtNode = n]
  BY <1>1, <1>14
<1>21. /\ h.nodes = g.nodes /\ h.loopPairStack = g.loopPairStack
       /\ h.breakStmtsStack = g.breakStmtsStack /\ h.lastNode = g.lastNode
  BY <1>18, <1>20 DEF Fits, Flows
<1>22. LoopsReady(h) /\ (Links(g) => Links(h))
  BY <1>19, <1>21 DEF LoopsReady, Links, Forward, Onward, BackTo, NodesOf, KindOf
<1>23. Len(h.nodes) = n /\ h.lastNode = f.lastNode /\ h.nodes[n].nextFalseNode = Null
  BY <1>11, <1>15, <1>16, <1>17, <1>21
<1>24. ASSUME KindOf(f, n) \notin {"BreakStatement", "ContinueStatement"}
       PROVE  h.nodes[n].nextNode = Null /\ RowsPrior(h, n)
  <2>1. broken = ifs /\ g = broken
    BY <1>11, <1>15, <1>16, <1>17, <1>24
  <2> QED
    BY <1>11, <1>21, <2>1 DEF RowsPrior
<1> QED
  BY <1>16, <1>17, <1>22, <1>23, <1>24 DEF h

(* A node that is added has no jumps yet.                                  *)
LEMMA AddedLinks ==
  ASSUME NEW f, NEW g, NEW entry, Fits(f), Added(f, g, CFGNode(entry)), LoopsReady(f)
  PROVE  /\ LoopsReady(g)
         /\ g.nodes[Len(f.nodes) + 1].nextNode = Null
         /\ g.nodes[Len(f.nodes) + 1].nextFalseNode = Null
         /\ Links(f) => Links(g)
<1> DEFINE n == Len(f.nodes) + 1
<1>1. /\ Len(g.nodes) = n /\ Len(f.nodes) \in Nat /\ g.nodes[n].nextNode = Null
      /\ g.nodes[n].nextFalseNode = Null /\ g.loopPairStack = f.loopPairStack
      /\ \A k \in NodesOf(f) : k \in NodesOf(g) /\ g.nodes[k] = f.nodes[k]
  BY DEF Added, CFGNode, NodesOf
<1>2. LoopsReady(g)
  <2>1. \A i \in DOMAIN f.loopPairStack : f.loopPairStack[i].node \in NodesOf(f)
    BY DEF Fits, LoopsFit
  <2>2. \A i \in DOMAIN f.loopPairStack :
            g.nodes[f.loopPairStack[i].node] = f.nodes[f.loopPairStack[i].node]
    BY <1>1, <2>1
  <2> QED
    BY <1>1, <2>2 DEF LoopsReady
<1>3. ASSUME Links(f), NEW k \in NodesOf(g)
      PROVE  Forward(g, k) /\ Onward(g, k)
  <2>1. CASE k = n
    BY <1>1, <2>1 DEF Forward, Onward
  <2>2. CASE k \in NodesOf(f)
    <3>1. g.nodes[k] = f.nodes[k] /\ Forward(f, k) /\ Onward(f, k)
      BY <1>1, <1>3, <2>2 DEF Links
    <3>2. \A m : m \in (k + 1)..Len(f.nodes) => m \in (k + 1)..Len(g.nodes)
      BY <1>1, <2>2 DEF NodesOf
    <3>3. ASSUME NEW m, BackTo(f, k, m)
          PROVE  BackTo(g, k, m)
      BY <1>1, <3>3 DEF BackTo, KindOf
    <3>4. Forward(g, k)
      BY <3>1, <3>2, Zenon DEF Forward
    <3>5. Onward(g, k)
      BY <3>1, <3>2, <3>3, Zenon DEF Onward
    <3> QED
      BY <3>4, <3>5
  <2>3. k = n \/ k \in NodesOf(f)
    BY <1>1 DEF NodesOf
  <2> QED
    BY <2>1, <2>2, <2>3
<1> QED
  BY <1>1, <1>2, <1>3 DEF Links

-----------------------------------------------------------------------------
(* A loop that is left: the end of its body goes back to it, and it goes   *)
(* forward.                                                                *)

LEMMA BreaksToTies ==
  ASSUME NEW f, Fits(f), NEW n \in NodesOf(f), f.loopPairStack # <<>>, RowsPrior(f, n)
  PROVE  Ties(f, BreaksTo(f, n), n)
<1> DEFINE row == Top(f.breakStmtsStack)
           Row == {row[i] : i \in DOMAIN row}
           g == BreaksTo(f, n)
           s == [b \in DOMAIN f.nodes |-> IF b \in Row THEN [f.nodes[b] EXCEPT !.nextNode = n]
                                          ELSE f.nodes[b]]
<1>1. f \in Flows /\ f.nodes \in Seq(Nodes) /\ DOMAIN f.nodes = NodesOf(f) /\ n \in Nat
  BY DEF Fits, Flows, NodesOf
<1>2. \A b \in Row : b < n
  <2>1. Len(f.breakStmtsStack) \in DOMAIN f.breakStmtsStack
    BY LoopsAndRows
  <2> QED
    BY <2>1 DEF RowsPrior, Top
<1>3. g.nodes = s
  BY <1>1 DEF BreaksTo, Flows
<1> HIDE DEF g, Row, row
<1>4. Len(g.nodes) = Len(f.nodes)
  <2>1. DOMAIN s = 1..Len(f.nodes) /\ Len(f.nodes) \in Nat
    BY <1>1 DEF NodesOf
  <2>2. Linked(f, [f EXCEPT !.nodes = g.nodes])
    BY BreaksToFits DEF g
  <2>3. [f EXCEPT !.nodes = g.nodes].nodes = g.nodes
    BY <1>1 DEF Flows
  <2> QED
    BY <2>2, <2>3 DEF Linked, Alike
<1>5. ASSUME NEW b \in NodesOf(f)
      PROVE  /\ g.nodes[b].kind = f.nodes[b].kind
             /\ g.nodes[b].isCondition = f.nodes[b].isCondition
             /\ g.nodes[b].nextFalseNode = f.nodes[b].nextFalseNode
             /\ g.nodes[b].nextNode = IF b \in Row THEN n ELSE f.nodes[b].nextNode
  <2>1. f.nodes[b] \in Nodes /\ b \in DOMAIN f.nodes
    BY <1>1, <1>5, NodesAreNodes
  <2>2. g.nodes[b] = IF b \in Row THEN [f.nodes[b] EXCEPT !.nextNode = n] ELSE f.nodes[b]
    BY <1>3, <2>1
  <2>3. CASE b \in Row
    BY <2>1, <2>2, <2>3 DEF Nodes
  <2>4. CASE b \notin Row
    BY <2>2, <2>4
  <2> QED
    BY <2>3, <2>4
<1>6. Ties(f, g, n)
  <2> SUFFICES ASSUME NEW b \in NodesOf(f)
               PROVE  /\ KindOf(g, b) = KindOf(f, b)
                      /\ f.nodes[b].isCondition => g.nodes[b].isCondition
                      /\ g.nodes[b].nextFalseNode = f.nodes[b].nextFalseNode
                      /\ \/ g.nodes[b].nextNode = f.nodes[b].nextNode
                         \/ g.nodes[b].nextNode = n /\ b < n
    BY <1>4, Zenon DEF Ties
  <2> QED
    BY <1>2, <1>5 DEF KindOf
<1> QED
  BY <1>6 DEF g

(* The two jumps of the loop, and of the statement before the new one.     *)
LEMMA LeftLinks ==
  ASSUME NEW f, Fits(f), NEW n \in NodesOf(f), n = Len(f.nodes), f.nodes[n].nextNode = Null,
         f.lastNode < n, Links(f), NEW l \in NodesOf(f), l < n, KindOf(f, l) \in Loops,
         f.nodes[l].isCondition
  PROVE  LET g == setNextNode(setNextFalseNode(f, l, n), f.lastNode, l)
         IN  /\ Fits(g) /\ SameStacks(f, g) /\ Links(g)
             /\ Len(g.nodes) = Len(f.nodes)
             /\ g.nodes[n].nextNode = Null
             /\ \A k \in NodesOf(f) :
                    /\ KindOf(g, k) = KindOf(f, k)
                    /\ g.nodes[k].isCondition = f.nodes[k].isCondition
                    /\ k # l => g.nodes[k].nextFalseNode = f.nodes[k].nextFalseNode
<1> DEFINE a == setNextFalseNode(f, l, n)
           m == f.lastNode
           g == setNextNode(a, m, l)
<1>1. n \in Nat /\ l \in Nat /\ l \in 1..(n - 1) /\ m \in 0..(n - 1) /\ NodesOf(f) = 1..n
  BY DEF NodesOf, Fits, LastFits
<1>2. Linked(f, a)
  BY <1>1, FalseLinked
<1>3. /\ Len(a.nodes) = n
      /\ \A k \in NodesOf(f) :
            /\ KindOf(a, k) = KindOf(f, k)
            /\ a.nodes[k].isCondition = f.nodes[k].isCondition
            /\ a.nodes[k].nextNode = f.nodes[k].nextNode
            /\ a.nodes[k].nextFalseNode = IF k = l THEN n ELSE f.nodes[k].nextFalseNode
  BY <1>1, FalseIsSet
<1> HIDE DEF a, m
<1>4. Fits(a) /\ NodesOf(a) = NodesOf(f) /\ m \in 0..Len(a.nodes)
  BY <1>1, <1>2, <1>3 DEF Linked, NodesOf
<1>5. Linked(a, g)
  BY <1>1, <1>4, NextLinked
<1>6. /\ Len(g.nodes) = n
      /\ \A k \in NodesOf(f) :
            /\ KindOf(g, k) = KindOf(f, k)
            /\ g.nodes[k].isCondition = f.nodes[k].isCondition
            /\ g.nodes[k].nextFalseNode = IF k = l THEN n ELSE f.nodes[k].nextFalseNode
            /\ g.nodes[k].nextNode = IF k = m THEN l ELSE f.nodes[k].nextNode
  <2>1. /\ Len(g.nodes) = Len(a.nodes)
        /\ \A k \in NodesOf(a) :
            /\ KindOf(g, k) = KindOf(a, k)
            /\ g.nodes[k].isCondition = a.nodes[k].isCondition
            /\ g.nodes[k].nextFalseNode = a.nodes[k].nextFalseNode
            /\ g.nodes[k].nextNode = IF k = m THEN l ELSE a.nodes[k].nextNode
    BY <1>1, <1>4, NextIsSet
  <2> HIDE DEF g
  <2> QED
    BY <1>3, <1>4, <2>1
<1> HIDE DEF g
<1>7. ASSUME NEW k \in NodesOf(f)
      PROVE  Forward(g, k) /\ Onward(g, k)
  <2>1. Forward(f, k) /\ Onward(f, k)
    BY DEF Links
  <2>2. Forward(g, k)
    <3>1. l \in 1..(n - 1) => n \in (l + 1)..n
      BY <1>1
    <3>2. CASE k = l
      BY <1>1, <1>6, <3>1, <3>2 DEF Forward
    <3>3. CASE k # l
      BY <1>6, <2>1, <3>3 DEF Forward
    <3> QED
      BY <3>2, <3>3
  <2>3. ASSUME NEW p, BackTo(f, k, p), k < n
        PROVE  BackTo(g, k, p)
    <3>1. p \in NodesOf(g) /\ KindOf(g, p) \in Loops /\ g.nodes[p].isCondition
      BY <1>1, <1>6, <2>3 DEF BackTo, NodesOf
    <3>2. g.nodes[p].nextFalseNode = IF p = l THEN n ELSE f.nodes[p].nextFalseNode
      BY <1>6, <2>3 DEF BackTo
    <3> QED
      BY <2>3, <3>1, <3>2 DEF BackTo
  <2>4. CASE k = m
    <3>1. g.nodes[k].nextNode = l /\ k < n
      BY <1>1, <1>6, <2>4
    <3>2. BackTo(g, k, l)
      BY <1>1, <1>6, <3>1 DEF BackTo, NodesOf
    <3> QED
      BY <2>2, <3>1, <3>2 DEF Onward
  <2>5. CASE k # m /\ k < n
    <3>1. g.nodes[k].nextNode = f.nodes[k].nextNode /\ Len(g.nodes) = Len(f.nodes)
      BY <1>6, <2>5
    <3>2. Onward(g, k)
      BY <2>1, <2>3, <2>5, <3>1, Zenon DEF Onward
    <3> QED
      BY <2>2, <3>2
  <2>6. CASE k = n
    <3>1. g.nodes[k].nextNode = Null
      BY <1>1, <1>6, <2>6
    <3> QED
      BY <2>2, <3>1 DEF Onward
  <2>7. k = m \/ (k # m /\ k < n) \/ k = n
    BY <1>1
  <2> QED
    BY <2>4, <2>5, <2>6, <2>7
<1>8. Links(g)
  BY <1>1, <1>6, <1>7 DEF Links, NodesOf
<1>9. Fits(g) /\ SameStacks(f, g)
  BY <1>2, <1>5 DEF Linked, SameStacks
<1>10. g.nodes[n].nextNode = Null
  BY <1>1, <1>6
<1> QED
  BY <1>6, <1>8, <1>9, <1>10 DEF g, a, m

LEMMA EndLoopLinks ==
  ASSUME NEW f, Fits(f), NEW n \in NodesOf(f), n = Len(f.nodes), f.loopPairStack # <<>>,
         f.lastNode < n, LoopsPrior(f, n), LoopsReady(f), RowsPrior(f, n),
         f.nodes[n].nextNode = Null, f.nodes[n].nextFalseNode = Null, Links(f)
  PROVE  LET h == EndLoop(f, n)
         IN  /\ Len(h.nodes) = n /\ h.lastNode = f.lastNode /\ LoopsPrior(h, n)
             /\ LoopsReady(h) /\ RowsPrior(h, n) /\ Links(h)
             /\ h.nodes[n].nextNode = Null /\ h.nodes[n].nextFalseNode = Null
<1> DEFINE loop == Top(f.loopPairStack)
           l == loop.node
           g == setNextNode(setNextFalseNode(f, l, n), f.lastNode, l)
           b == IF loop.hasBreak THEN BreaksTo(g, n) ELSE g
           h == EndLoop(f, n)
<1>1. /\ Len(f.loopPairStack) \in DOMAIN f.loopPairStack /\ f.loopPairStack \in Seq(LoopPairs)
      /\ n \in Nat
  BY TopIsIn DEF Fits, Flows, NodesOf
<1>2. /\ l \in NodesOf(f) /\ l < n /\ KindOf(f, l) \in Loops /\ f.nodes[l].isCondition
  BY <1>1 DEF Fits, LoopsFit, LoopsPrior, LoopsReady, Top
<1>3. h = [b EXCEPT !.loopPairStack = Popped(@)]
  BY DEF EndLoop
<1> HIDE DEF l, h, loop
<1>4. /\ Fits(g) /\ SameStacks(f, g) /\ Links(g) /\ Len(g.nodes) = n
      /\ g.nodes[n].nextNode = Null
      /\ \A k \in NodesOf(f) :
            /\ KindOf(g, k) = KindOf(f, k)
            /\ g.nodes[k].isCondition = f.nodes[k].isCondition
            /\ k # l => g.nodes[k].nextFalseNode = f.nodes[k].nextFalseNode
  BY <1>2, LeftLinks
<1> HIDE DEF g
<1>5. /\ g.loopPairStack = f.loopPairStack /\ g.breakStmtsStack = f.breakStmtsStack
      /\ g.lastNode = f.lastNode /\ n \in NodesOf(g) /\ NodesOf(g) = NodesOf(f) /\ g \in Flows
  BY <1>4 DEF SameStacks, NodesOf, Fits
<1>6. Ties(g, b, n)
  <2>1. RowsPrior(g, n)
    BY <1>5 DEF RowsPrior
  <2> QED
    BY <1>4, <1>5, <2>1, BreaksToTies, NothingTied
<1>7. /\ b.loopPairStack = f.loopPairStack /\ b.lastNode = f.lastNode
      /\ b.breakStmtsStack \in {f.breakStmtsStack, Popped(f.breakStmtsStack)}
      /\ h.nodes = b.nodes /\ h.loopPairStack = Popped(f.loopPairStack)
      /\ h.lastNode = f.lastNode /\ h.breakStmtsStack = b.breakStmtsStack
  BY <1>3, <1>5 DEF BreaksTo, Flows
<1> HIDE DEF b
<1>8. Links(h) /\ Len(h.nodes) = n
  <2>1. Links(b) /\ Len(b.nodes) = n
    BY <1>1, <1>4, <1>6, TiedLinks DEF Ties
  <2> QED
    BY <1>7, <2>1 DEF Links, Forward, Onward, BackTo, NodesOf, KindOf
<1>9. h.nodes[n].nextNode = Null /\ h.nodes[n].nextFalseNode = Null
  <2>1. ~(n < n) /\ n # l
    BY <1>1, <1>2
  <2>2. g.nodes[n].nextNode = Null /\ g.nodes[n].nextFalseNode = Null
    BY <1>4, <2>1
  <2> QED
    BY <1>5, <1>6, <1>7, <2>1, <2>2 DEF Ties
<1>10. \A i \in DOMAIN h.loopPairStack :
         /\ i \in DOMAIN f.loopPairStack /\ h.loopPairStack[i] = f.loopPairStack[i]
         /\ i < Len(f.loopPairStack)
  <2>1. /\ DOMAIN Popped(f.loopPairStack) \subseteq DOMAIN f.loopPairStack
        /\ \A i \in DOMAIN Popped(f.loopPairStack) :
              Popped(f.loopPairStack)[i] = f.loopPairStack[i] /\ i < Len(f.loopPairStack)
    BY <1>1, TopIsIn
  <2> QED
    BY <1>7, <2>1, Zenon
<1>11. LoopsPrior(h, n)
  BY <1>10 DEF LoopsPrior
<1>12. LoopsReady(h)
  <2> SUFFICES ASSUME NEW i \in DOMAIN h.loopPairStack
               PROVE  LET p == h.loopPairStack[i].node
                      IN  h.nodes[p].isCondition /\ h.nodes[p].nextFalseNode = Null
    BY DEF LoopsReady
  <2> DEFINE p == f.loopPairStack[i].node
  <2>1. i \in DOMAIN f.loopPairStack /\ h.loopPairStack[i] = f.loopPairStack[i] /\ i < Len(f.loopPairStack)
    BY <1>10
  <2>2. /\ p \in NodesOf(f) /\ KindOf(f, p) \in Loops
        /\ f.nodes[p].isCondition /\ f.nodes[p].nextFalseNode = Null
    BY <2>1 DEF Fits, LoopsFit, LoopsReady
  <2>3. p # l
    <3>1. LevelOf(f, p) < LevelOf(f, l)
      BY <1>1, <2>1 DEF Fits, LoopsFit, l, loop, Top
    <3>2. LevelOf(f, l) \in Nat
      BY <1>2, NodesAreNodes DEF LevelOf, Nodes
    <3> QED
      BY <3>1, <3>2
  <2> HIDE DEF p
  <2>4. g.nodes[p].isCondition /\ g.nodes[p].nextFalseNode = Null /\ KindOf(g, p) \in Loops
    BY <1>4, <2>2, <2>3
  <2>5. h.nodes[p].isCondition /\ h.nodes[p].nextFalseNode = Null
    BY <1>5, <1>6, <1>7, <2>2, <2>4 DEF Ties
  <2> QED
    BY <2>1, <2>5 DEF p
<1>13. RowsPrior(h, n)
  <2>1. \A r \in DOMAIN h.breakStmtsStack :
            r \in DOMAIN f.breakStmtsStack /\ h.breakStmtsStack[r] = f.breakStmtsStack[r]
    <3>1. f.breakStmtsStack \in Seq(Seq(Nat)) /\ f.breakStmtsStack # <<>>
      BY LoopsAndRows
    <3>2. \A r \in DOMAIN Popped(f.breakStmtsStack) :
            r \in DOMAIN f.breakStmtsStack /\ Popped(f.breakStmtsStack)[r] = f.breakStmtsStack[r]
      BY <3>1, PoppedIsIn
    <3> QED
      BY <1>7, <3>2, Zenon
  <2> QED
    BY <2>1 DEF RowsPrior
<1> QED
  BY <1>7, <1>8, <1>9, <1>11, <1>12, <1>13 DEF h

(* The loop that a statement begins is left later.                         *)
LEMMA PushLoopLinks ==
  ASSUME NEW f, Fits(f), NEW n \in NodesOf(f), LoopsReady(f), Links(f), n = Len(f.nodes),
         f.nodes[n].nextFalseNode = Null
  PROVE  LET h == PushLoop(f, n)
         IN  LoopsReady(h) /\ Links(h)
<1> DEFINE g == [f EXCEPT !.nodes[n].isCondition = TRUE]
           loop == [node |-> n, hasBreak |-> FALSE]
           h == PushLoop(f, n)
<1>1. CASE KindOf(f, n) \notin Loops
  BY <1>1 DEF PushLoop
<1>2. CASE KindOf(f, n) \in Loops
  <2>1. Steps(f, g, n) /\ g.nodes[n].isCondition
    BY ConditionTies
  <2>2. f \in Flows /\ f.loopPairStack \in Seq(LoopPairs) /\ n \in Nat /\ ~(n < n)
    BY DEF Fits, Flows, NodesOf
  <2>3. h.nodes = g.nodes /\ h.loopPairStack = Append(f.loopPairStack, loop)
    BY <1>2, <2>2 DEF PushLoop, Flows
  <2> HIDE DEF g, h
  <2>4. LoopsReady(g) /\ Links(g) /\ g.loopPairStack = f.loopPairStack
    BY <2>1, <2>2, ReadyLoops, TiedLinks DEF Steps
  <2>5. g.nodes[n].nextFalseNode = Null
    BY <2>1, <2>2 DEF Steps, Ties
  <2>6. \A i \in DOMAIN h.loopPairStack :
          \/ i \in DOMAIN g.loopPairStack /\ h.loopPairStack[i] = g.loopPairStack[i]
          \/ h.loopPairStack[i].node = n
    <3>1. loop \in LoopPairs /\ loop.node = n
      BY <2>2 DEF LoopPairs
    <3> HIDE DEF loop
    <3>2. \A i \in DOMAIN Append(f.loopPairStack, loop) :
            \/ i \in DOMAIN f.loopPairStack
               /\ Append(f.loopPairStack, loop)[i] = f.loopPairStack[i]
            \/ Append(f.loopPairStack, loop)[i] = loop
      BY <2>2, <3>1, AppendProperties
    <3> QED
      BY <2>3, <2>4, <3>1, <3>2, Zenon
  <2>7. LoopsReady(h)
    BY <2>1, <2>3, <2>4, <2>5, <2>6 DEF LoopsReady
  <2>8. Links(h)
    BY <2>3, <2>4 DEF Links, Forward, Onward, BackTo, NodesOf, KindOf
  <2> QED
    BY <2>7, <2>8 DEF h
<1> QED
  BY <1>1, <1>2

-----------------------------------------------------------------------------
(* No step makes a circle but by a jump that ends a loop.                  *)

\* A loop is on the stack while only deeper statements were met behind it.
InForce(top, level) ==
    \E l \in 1..top :
        /\ dump[l].kind \in Loops /\ dump[l].level = level
        /\ \A m \in (l + 1)..top : IsStatement(dump[m]) => dump[l].level < dump[m].level
LoopsInForce ==
    \A i \in DOMAIN flow.loopPairStack :
        InForce(at - 1, LevelOf(flow, flow.loopPairStack[i].node))

\* A statement whose turn it is has no jumps but one that it is itself.
Newest(f) ==
    LET n == f.stmtNode
    IN  n # Null =>
            /\ n = Len(f.nodes) /\ f.lastNode < n /\ LoopsPrior(f, n)
            /\ f.nodes[n].nextFalseNode = Null
            /\ Ends(f, n) => f.nodes[n].nextNode = Null /\ RowsPrior(f, n)

Linear == LoopsReady(flow) /\ Links(flow) /\ Newest(flow)
LInv == ~flow.undefined => LoopsInForce /\ (~JumpEndsLoop => Linear)

\* What is read and is no loop.
LEMMA ForceStays ==
  ASSUME at \in Nat \ {0}, NEW level \in Nat, InForce(at - 1, level),
         IsStatement(dump[at]) => level < dump[at].level
  PROVE  InForce(at, level)
<1>1. PICK l \in 1..(at - 1) :
        /\ dump[l].kind \in Loops /\ dump[l].level = level
        /\ \A m \in (l + 1)..(at - 1) : IsStatement(dump[m]) => dump[l].level < dump[m].level
  BY DEF InForce
<1>2. l \in 1..at /\ \A m \in (l + 1)..at : m \in (l + 1)..(at - 1) \/ m = at
  OBVIOUS
<1> QED
  BY <1>1, <1>2 DEF InForce

LEMMA LoopLevels ==
  ASSUME NEW f, Fits(f), NEW i \in DOMAIN f.loopPairStack
  PROVE  /\ f.loopPairStack[i].node \in NodesOf(f)
         /\ LevelOf(f, f.loopPairStack[i].node) \in Nat
BY NodesAreNodes DEF Fits, LoopsFit, LevelOf, Nodes

LEMMA HandOverKeepsLinks ==
  ASSUME IInv, LInv, HandOver
  PROVE  LInv'
<1> DEFINE last == dump'[Len(dump')]
<1>1. dump \in Seq(Entries) /\ Len(dump) \in Nat /\ DOMAIN dump = 1..Len(dump)
  BY DEF IInv, Listed
<1>2. last \in Entries /\ dump' = Append(dump, last) /\ at' = at /\ flow' = flow
  BY DEF HandOver, IsListedAt
<1> HIDE DEF last
<1>3. \A i \in DOMAIN dump : i \in DOMAIN dump' /\ dump'[i] = dump[i]
  BY <1>1, <1>2, AppendProperties
<1>4. \A i \in 1..(at - 1) : dump'[i] = dump[i]
  <2>1. \A i \in 1..(at - 1) : i \in DOMAIN dump
    BY <1>1 DEF IInv, Reads
  <2> QED
    BY <1>3, <2>1
<1>5. ASSUME NEW level, InForce(at - 1, level)
      PROVE  InForce(at - 1, level)'
  <2>1. PICK l \in 1..(at - 1) :
          /\ dump[l].kind \in Loops /\ dump[l].level = level
          /\ \A m \in (l + 1)..(at - 1) : IsStatement(dump[m]) => dump[l].level < dump[m].level
    BY <1>5 DEF InForce
  <2>2. \A m \in (l + 1)..(at - 1) : m \in 1..(at - 1)
    BY DEF IInv, Reads
  <2>3. /\ dump'[l] = dump[l]
        /\ \A m \in (l + 1)..(at - 1) : dump'[m] = dump[m]
    BY <1>4, <2>2
  <2> QED
    BY <1>2, <2>1, <2>3 DEF InForce, IsStatement
<1>6. JumpEndsLoop => JumpEndsLoop'
  <2> SUFFICES ASSUME JumpEndsLoop
               PROVE  JumpEndsLoop'
    OBVIOUS
  <2>1. PICK l, j \in DOMAIN dump :
          /\ l < j /\ dump[l].kind \in Loops /\ dump[j].level <= dump[l].level
          /\ dump[j].kind \in {"BreakStatement", "ContinueStatement"} /\ IsStatement(dump[j])
          /\ \A m \in (l + 1)..(j - 1) : IsStatement(dump[m]) => dump[l].level < dump[m].level
    BY DEF JumpEndsLoop
  <2>2. \A m \in (l + 1)..(j - 1) : m \in DOMAIN dump
    BY <1>1
  <2>3. /\ dump'[l] = dump[l] /\ dump'[j] = dump[j] /\ l \in DOMAIN dump' /\ j \in DOMAIN dump'
        /\ \A m \in (l + 1)..(j - 1) : dump'[m] = dump[m]
    BY <1>3, <2>1, <2>2
  <2> QED
    BY <2>1, <2>3 DEF JumpEndsLoop, IsStatement
<1>7. LoopsInForce => LoopsInForce'
  BY <1>2, <1>5 DEF LoopsInForce
<1> QED
  BY <1>2, <1>6, <1>7 DEF LInv, Linear

(* What is read at once and is no statement leaves the jumps alone.        *)
LEMMA ReadAtOnceKeepsLinks ==
  ASSUME IInv, LInv, NEW entry, Reading(entry), at' = at + 1, ~IsStatement(entry),
         flow'.stmtNode = Null, LoopsReady(flow) => LoopsReady(flow'),
         LoopsReady(flow) /\ Links(flow) => Links(flow'),
         flow'.loopPairStack = flow.loopPairStack,
         \A k \in NodesOf(flow) : LevelOf(flow', k) = LevelOf(flow, k)
  PROVE  LInv'
<1>1. /\ at \in Nat \ {0} /\ entry = dump[at] /\ dump' = dump /\ ~flow.undefined /\ Fits(flow)
  BY AtHand DEF IInv
<1>2. LoopsInForce'
  <2> SUFFICES ASSUME NEW i \in DOMAIN flow.loopPairStack
               PROVE  InForce(at, LevelOf(flow', flow.loopPairStack[i].node))
    BY <1>1 DEF LoopsInForce, InForce
  <2>1. /\ LevelOf(flow', flow.loopPairStack[i].node) = LevelOf(flow, flow.loopPairStack[i].node)
        /\ LevelOf(flow, flow.loopPairStack[i].node) \in Nat
    BY <1>1, LoopLevels
  <2>2. InForce(at - 1, LevelOf(flow, flow.loopPairStack[i].node))
    BY <1>1 DEF LInv, LoopsInForce
  <2> QED
    BY <1>1, <2>1, <2>2, ForceStays
<1>3. ~JumpEndsLoop' => Linear'
  <2>1. JumpEndsLoop' <=> JumpEndsLoop
    BY <1>1 DEF JumpEndsLoop
  <2> QED
    BY <1>1, <2>1 DEF LInv, Linear, Newest
<1> QED
  BY <1>2, <1>3 DEF LInv

LEMMA PassOverKeepsLinks ==
  ASSUME IInv, LInv, NEW entry, PassOver(entry)
  PROVE  LInv'
<1>1. /\ Reading(entry) /\ flow.stmtNode = Null /\ at' = at + 1 /\ ~IsStatement(entry)
      /\ flow' = Counted(flow, entry) /\ Fits(flow)
  BY DEF PassOver, IInv, IsStatement
<1>2. /\ Kept(flow, flow') /\ flow'.loopPairStack = flow.loopPairStack
      /\ flow'.nodes = flow.nodes
  BY <1>1, CountedFits
<1>3. /\ LoopsReady(flow) => LoopsReady(flow')
      /\ Links(flow) => Links(flow')
      /\ \A k \in NodesOf(flow) : LevelOf(flow', k) = LevelOf(flow, k)
  BY <1>2 DEF LoopsReady, Links, Forward, Onward, BackTo, NodesOf, KindOf, LevelOf
<1> QED
  BY <1>1, <1>2, <1>3, ReadAtOnceKeepsLinks DEF Kept

LEMMA ReadFunctionKeepsLinks ==
  ASSUME IInv, LInv, NEW entry, ReadFunction(entry)
  PROVE  LInv'
<1> DEFINE f == [WithNode(entry) EXCEPT !.funcDefStack = Append(@, New)]
<1>1. /\ Reading(entry) /\ flow.stmtNode = Null /\ at' = at + 1
      /\ flow' = Counted(f, entry) /\ Fits(flow) /\ ~IsStatement(entry)
  BY DEF ReadFunction, IInv, IsStatement, StatementKinds
<1>2. entry \in Entries
  BY <1>1, AtHand
<1>3. Added(flow, f, CFGNode(entry))
  <2>1. f = [WithNode(entry) EXCEPT !.funcDefStack = Append(WithNode(entry).funcDefStack, New)]
    OBVIOUS
  <2> QED
    BY <1>1, <1>2, <2>1, FunctionAdded DEF WithNode, New
<1> HIDE DEF f
<1>4. /\ Kept(f, flow') /\ flow'.loopPairStack = f.loopPairStack /\ flow'.nodes = f.nodes
  BY <1>1, <1>3, CountedFits DEF Added
<1>5. LoopsReady(flow) => LoopsReady(f) /\ (Links(flow) => Links(f))
  BY <1>1, <1>3, AddedLinks
<1>6. /\ LoopsReady(flow) => LoopsReady(flow')
      /\ LoopsReady(flow) /\ Links(flow) => Links(flow')
  BY <1>4, <1>5 DEF LoopsReady, Links, Forward, Onward, BackTo, NodesOf, KindOf
<1>7. flow'.stmtNode = Null /\ flow'.loopPairStack = flow.loopPairStack
      /\ \A k \in NodesOf(flow) : LevelOf(flow', k) = LevelOf(flow, k)
  BY <1>1, <1>3, <1>4 DEF Kept, Added, LevelOf
<1> QED
  BY <1>1, <1>6, <1>7, ReadAtOnceKeepsLinks

(* A jump that would end a loop is one that JumpEndsLoop speaks of.        *)
LEMMA ReadStatementKeepsLinks ==
  ASSUME IInv, LInv, NEW entry, ReadStatement(entry)
  PROVE  LInv'
<1> SUFFICES ASSUME ~flow'.undefined
             PROVE  LInv'
  BY DEF LInv
<1> DEFINE f == WithNode(entry)
           n == New
<1>1. /\ Reading(entry) /\ at' = at /\ flow' = Statement(f, n) /\ Fits(flow)
      /\ IsStatement(entry)
  BY DEF ReadStatement, IInv, IsStatement
<1>2. /\ at \in DOMAIN dump /\ at \in Nat \ {0} /\ entry = dump[at] /\ entry \in Entries
      /\ dump' = dump /\ ~flow.undefined /\ Listed
  BY <1>1, AtHand DEF IInv
<1>3. Added(flow, f, CFGNode(entry)) /\ f.funcDefStack = flow.funcDefStack
      /\ f.ifPairStack = flow.ifPairStack /\ f.ifEndStmtStack = flow.ifEndStmtStack
      /\ f.breakStmtsStack = flow.breakStmtsStack
  <2>1. Added(flow, f, CFGNode(entry)) /\ f.funcDefStack = flow.funcDefStack
    BY <1>1, <1>2, NodeAdded DEF WithNode
  <2> QED
    BY <1>1, <2>1 DEF WithNode, Fits, Flows
<1> HIDE DEF f
<1>4. /\ Fits(f) /\ n \in NodesOf(f) /\ n = Len(f.nodes) /\ ~f.undefined /\ n # Null
      /\ KindOf(f, n) = entry.kind /\ LevelOf(f, n) = entry.level /\ n \in Nat
      /\ n = Len(flow.nodes) + 1 /\ Len(flow.nodes) \in Nat
  BY <1>2, <1>3 DEF Added, New, NodesOf, KindOf, LevelOf, CFGNode, Null
<1> HIDE DEF n
<1>5. /\ Fits(flow') /\ Alike(f, flow') /\ SameLoops(f, flow') /\ flow'.stmtNode = n
  BY <1>1, <1>4, StatementFits
<1>6. \A k : k \in 0..Len(flow.nodes) \/ k \in NodesOf(flow) => k < n
  BY <1>4 DEF NodesOf
<1>7. /\ f.lastNode < n /\ \A i \in DOMAIN f.funcDefStack : f.funcDefStack[i] < n
  BY <1>1, <1>3, <1>6 DEF Fits, LastFits, FunctionsFit, Added
<1>8. IfsPrior(f, n) /\ RowsPrior(f, n)
  <2>1. IfsPrior(f, n)
    BY <1>1, <1>3, <1>6 DEF Fits, IfsFit, IfEndsFit, IfsPrior, EndsPrior
  <2>2. RowsPrior(f, n)
    BY <1>1, <1>3, <1>6 DEF Fits, RowsFit, RowsPrior
  <2> QED
    BY <2>1, <2>2
<1>9. \A i \in DOMAIN flow'.loopPairStack :
        /\ i \in DOMAIN flow.loopPairStack
        /\ flow'.loopPairStack[i].node = flow.loopPairStack[i].node
        /\ flow.loopPairStack[i].node \in NodesOf(flow)
        /\ LevelOf(flow', flow'.loopPairStack[i].node) = LevelOf(flow, flow.loopPairStack[i].node)
  <2>1. DOMAIN flow'.loopPairStack = 1..Len(flow.loopPairStack)
        /\ DOMAIN flow.loopPairStack = 1..Len(flow.loopPairStack)
    <3>1. flow'.loopPairStack \in Seq(LoopPairs) /\ flow.loopPairStack \in Seq(LoopPairs)
      BY <1>1, <1>5 DEF Fits, Flows
    <3> QED
      BY <1>3, <1>5, <3>1 DEF SameLoops, Added
  <2>2. \A i \in DOMAIN flow.loopPairStack : flow.loopPairStack[i].node \in NodesOf(flow)
    BY <1>1, LoopLevels
  <2>3. \A k \in NodesOf(flow) : LevelOf(flow', k) = LevelOf(flow, k)
    BY <1>3, <1>4, <1>5 DEF Alike, Added, LevelOf, NodesOf
  <2> QED
    BY <1>3, <1>5, <2>1, <2>2, <2>3 DEF SameLoops, Added
<1>10. LoopsInForce'
  <2> SUFFICES ASSUME NEW i \in DOMAIN flow'.loopPairStack
               PROVE  InForce(at - 1, LevelOf(flow', flow'.loopPairStack[i].node))
    BY <1>1, <1>2 DEF LoopsInForce, InForce
  <2> QED
    BY <1>2, <1>9 DEF LInv, LoopsInForce
<1>11. ASSUME ~JumpEndsLoop'
       PROVE  Linear'
  <2>1. ~JumpEndsLoop
    BY <1>2, <1>11 DEF JumpEndsLoop
  <2>2. LoopsReady(flow) /\ Links(flow)
    BY <1>2, <2>1 DEF LInv, Linear
  <2>3. /\ LoopsReady(f) /\ Links(f)
        /\ f.nodes[n].nextNode = Null /\ f.nodes[n].nextFalseNode = Null
    BY <1>1, <1>3, <1>4, <2>2, AddedLinks
  <2>4. /\ Len(flow'.nodes) = n /\ flow'.lastNode = f.lastNode /\ LoopsReady(flow')
        /\ flow'.nodes[n].nextFalseNode = Null /\ Links(flow')
        /\ KindOf(f, n) \notin {"BreakStatement", "ContinueStatement"} =>
               flow'.nodes[n].nextNode = Null /\ RowsPrior(flow', n)
    BY <1>1, <1>4, <1>7, <1>8, <2>3, StatementLinks
  <2>5. LoopsPrior(flow', n)
    BY <1>6, <1>9 DEF LoopsPrior
  <2>6. ASSUME Ends(flow', n)
        PROVE  KindOf(f, n) \notin {"BreakStatement", "ContinueStatement"}
    <3>1. SUFFICES ASSUME entry.kind \in {"BreakStatement", "ContinueStatement"}
                   PROVE  JumpEndsLoop
      BY <1>4, <2>1
    <3> DEFINE i == Len(flow'.loopPairStack)
    <3>2. i \in DOMAIN flow'.loopPairStack
      BY <1>5, <2>6, TopIsIn DEF Ends, Fits, Flows
    <3>3. LevelOf(flow', n) <= LevelOf(flow', flow'.loopPairStack[i].node)
      BY <2>6 DEF Ends, Top
    <3>4. LevelOf(flow', n) = entry.level
      BY <1>4, <1>5 DEF Alike
    <3> HIDE DEF i
    <3>5. /\ entry.level <= LevelOf(flow, flow.loopPairStack[i].node)
          /\ i \in DOMAIN flow.loopPairStack
      BY <1>9, <3>2, <3>3, <3>4
    <3>6. PICK l \in 1..(at - 1) :
            /\ dump[l].kind \in Loops /\ dump[l].level = LevelOf(flow, flow.loopPairStack[i].node)
            /\ \A m \in (l + 1)..(at - 1) : IsStatement(dump[m]) => dump[l].level < dump[m].level
      BY <1>2, <3>5 DEF LInv, LoopsInForce, InForce
    <3>7. l < at /\ l \in DOMAIN dump
      BY <1>2 DEF Listed
    <3> QED
      BY <1>1, <1>2, <3>1, <3>5, <3>6, <3>7 DEF JumpEndsLoop
  <2>7. Newest(flow')
    BY <1>3, <1>5, <1>7, <2>4, <2>5, <2>6 DEF Newest, Added
  <2> QED
    BY <2>4, <2>7 DEF Linear
<1> QED
  BY <1>10, <1>11 DEF LInv

LEMMA LeaveLoopKeepsLinks ==
  ASSUME IInv, LInv, NEW entry, LeaveLoop(entry)
  PROVE  LInv'
<1> DEFINE n == flow.stmtNode
<1>1. /\ Reading(entry) /\ n # Null /\ at' = at /\ flow' = EndLoop(flow, n) /\ Fits(flow)
      /\ flow.loopPairStack # <<>> /\ Ends(flow, n)
  BY DEF LeaveLoop, Ends, IInv
<1>2. at \in Nat \ {0} /\ dump' = dump /\ ~flow.undefined
  BY <1>1, AtHand
<1>3. n \in NodesOf(flow)
  BY <1>1 DEF Fits, Flows, LastFits, NodesOf, Null
<1>4. /\ Fits(flow') /\ Alike(flow, flow') /\ flow'.loopPairStack = Popped(flow.loopPairStack)
      /\ flow'.stmtNode = n
  BY <1>1, <1>3, EndLoopFits
<1>5. \A i \in DOMAIN flow'.loopPairStack :
        /\ i \in DOMAIN flow.loopPairStack /\ flow'.loopPairStack[i] = flow.loopPairStack[i]
        /\ LevelOf(flow', flow.loopPairStack[i].node) = LevelOf(flow, flow.loopPairStack[i].node)
  <2>1. \A i \in DOMAIN flow'.loopPairStack :
          i \in DOMAIN flow.loopPairStack /\ flow'.loopPairStack[i] = flow.loopPairStack[i]
    <3>1. flow.loopPairStack \in Seq(LoopPairs)
      BY <1>1 DEF Fits, Flows
    <3> QED
      BY <1>1, <1>4, <3>1, PoppedIsIn
  <2>2. \A i \in DOMAIN flow.loopPairStack : flow.loopPairStack[i].node \in NodesOf(flow)
    BY <1>1, LoopLevels
  <2> QED
    BY <1>4, <2>1, <2>2 DEF Alike
<1>6. LoopsInForce'
  <2> SUFFICES ASSUME NEW i \in DOMAIN flow'.loopPairStack
               PROVE  InForce(at - 1, LevelOf(flow', flow'.loopPairStack[i].node))
    BY <1>1, <1>2 DEF LoopsInForce, InForce
  <2> QED
    BY <1>2, <1>5 DEF LInv, LoopsInForce
<1>7. ASSUME ~JumpEndsLoop'
      PROVE  Linear'
  <2>1. ~JumpEndsLoop
    BY <1>2, <1>7 DEF JumpEndsLoop
  <2>2. /\ LoopsReady(flow) /\ Links(flow) /\ n = Len(flow.nodes) /\ flow.lastNode < n
        /\ LoopsPrior(flow, n) /\ flow.nodes[n].nextFalseNode = Null
        /\ flow.nodes[n].nextNode = Null /\ RowsPrior(flow, n)
    BY <1>1, <1>2, <2>1 DEF LInv, Linear, Newest
  <2>3. /\ Len(flow'.nodes) = n /\ flow'.lastNode = flow.lastNode /\ LoopsPrior(flow', n)
        /\ LoopsReady(flow') /\ RowsPrior(flow', n) /\ Links(flow')
        /\ flow'.nodes[n].nextNode = Null /\ flow'.nodes[n].nextFalseNode = Null
    BY <1>1, <1>3, <2>2, EndLoopLinks
  <2>4. Newest(flow')
    BY <1>4, <2>2, <2>3 DEF Newest
  <2> QED
    BY <2>3, <2>4 DEF Linear
<1> QED
  BY <1>6, <1>7 DEF LInv

LEMMA EndStatementKeepsLinks ==
  ASSUME IInv, LInv, NEW entry, EndStatement(entry)
  PROVE  LInv'
<1> DEFINE n == flow.stmtNode
           read == PushLoop(flow, n)
           f == [read EXCEPT !.lastNode = read.stmtNode, !.stmtNode = Null]
<1>1. /\ Reading(entry) /\ n # Null /\ at' = at + 1 /\ flow' = Counted(f, entry) /\ Fits(flow)
      /\ ~Ends(flow, n)
  BY DEF EndStatement, IInv
<1>2. at \in DOMAIN dump /\ at \in Nat \ {0} /\ entry = dump[at] /\ dump' = dump /\ ~flow.undefined
  BY <1>1, AtHand
<1>3. n \in NodesOf(flow) /\ KindOf(flow, n) = entry.kind /\ LevelOf(flow, n) = entry.level
  BY <1>1, <1>2 DEF IInv, Turn, Fits, Flows, LastFits, NodesOf, Null
<1>4. Fits(read) /\ Alike(flow, read)
  BY <1>1, <1>3, PushLoopFits
<1> HIDE DEF read
<1>5. /\ Fits(f) /\ f.stmtNode = Null /\ f.loopPairStack = read.loopPairStack /\ f.nodes = read.nodes
  <2>1. f.nodes = read.nodes
    BY <1>4 DEF Fits, Flows
  <2> QED
    BY <1>4, <2>1, LastSet
<1> HIDE DEF f
<1>6. /\ Kept(f, flow') /\ flow'.loopPairStack = read.loopPairStack /\ flow'.nodes = read.nodes
  BY <1>1, <1>5, CountedFits
<1>7. \A k \in NodesOf(flow) : LevelOf(flow', k) = LevelOf(flow, k)
  BY <1>4, <1>6 DEF Alike, LevelOf
<1>8. ASSUME NEW i \in DOMAIN flow.loopPairStack
      PROVE  InForce(at, LevelOf(flow', flow.loopPairStack[i].node))
  <2> DEFINE top == Len(flow.loopPairStack)
             Level(k) == LevelOf(flow, flow.loopPairStack[k].node)
  <2>1. /\ flow.loopPairStack \in Seq(LoopPairs) /\ flow.loopPairStack # <<>>
        /\ top \in DOMAIN flow.loopPairStack /\ i \in 1..top /\ top \in Nat
    <3>1. flow.loopPairStack \in Seq(LoopPairs)
      BY <1>1 DEF Fits, Flows
    <3> QED
      BY <3>1
  <2>2. /\ Level(i) \in Nat /\ Level(top) \in Nat /\ flow.loopPairStack[i].node \in NodesOf(flow)
    BY <1>1, <2>1, LoopLevels
  <2>3. i # top => Level(i) < Level(top)
    BY <1>1, <2>1 DEF Fits, LoopsFit
  <2>4. Level(top) < entry.level
    <3>1. ~(LevelOf(flow, n) <= Level(top))
      BY <1>1, <2>1 DEF Ends, Top
    <3>2. LevelOf(flow, n) \in Nat
      BY <1>1, <1>3, NodesAreNodes DEF LevelOf, Nodes
    <3> QED
      BY <1>3, <2>2, <3>1, <3>2
  <2>5. Level(i) < entry.level
    <3>1. entry.level \in Nat
      BY <1>1, <1>3, NodesAreNodes DEF LevelOf, Nodes
    <3> HIDE DEF Level, top
    <3> QED
      BY <2>2, <2>3, <2>4, <3>1
  <2>6. InForce(at - 1, Level(i))
    BY <1>2 DEF LInv, LoopsInForce
  <2>7. InForce(at, Level(i))
    BY <1>2, <2>2, <2>5, <2>6, ForceStays
  <2> QED
    BY <1>7, <2>2, <2>7
<1>9. ASSUME entry.kind \in Loops
      PROVE  InForce(at, LevelOf(flow', n))
  <2>1. LevelOf(flow', n) = dump[at].level
    BY <1>2, <1>3, <1>7
  <2>2. at \in 1..at /\ \A m \in (at + 1)..at : FALSE
    BY <1>2
  <2> QED
    BY <1>2, <1>9, <2>1, <2>2 DEF InForce
<1>10. LoopsInForce'
  <2> SUFFICES ASSUME NEW i \in DOMAIN read.loopPairStack
               PROVE  InForce(at, LevelOf(flow', read.loopPairStack[i].node))
    <3>1. at' - 1 = at
      BY <1>1, <1>2
    <3> QED
      BY <1>2, <1>6, <3>1 DEF LoopsInForce, InForce
  <2>1. CASE entry.kind \notin Loops
    <3>1. read = flow
      BY <1>3, <2>1 DEF PushLoop, read
    <3> QED
      BY <1>8, <3>1
  <2>2. CASE entry.kind \in Loops
    <3> DEFINE loop == [node |-> n, hasBreak |-> FALSE]
    <3>1. /\ loop.node = n /\ loop \in LoopPairs /\ flow.loopPairStack \in Seq(LoopPairs)
      BY <1>1, <1>3 DEF Fits, Flows, LoopPairs, NodesOf
    <3>2. read.loopPairStack = Append(flow.loopPairStack, loop)
      BY <1>1, <1>3, <2>2 DEF PushLoop, read, Fits, Flows
    <3> HIDE DEF loop
    <3>3. \/ i \in DOMAIN flow.loopPairStack /\ read.loopPairStack[i] = flow.loopPairStack[i]
          \/ read.loopPairStack[i] = loop
      BY <3>1, <3>2, AppendProperties
    <3> QED
      BY <1>8, <1>9, <2>2, <3>1, <3>3
  <2> QED
    BY <2>1, <2>2
<1>11. ASSUME ~JumpEndsLoop'
       PROVE  Linear'
  <2>1. ~JumpEndsLoop
    BY <1>2, <1>11 DEF JumpEndsLoop
  <2>2. /\ LoopsReady(flow) /\ Links(flow) /\ n = Len(flow.nodes)
        /\ flow.nodes[n].nextFalseNode = Null
    BY <1>1, <1>2, <2>1 DEF LInv, Linear, Newest
  <2>3. LoopsReady(read) /\ Links(read)
    BY <1>1, <1>3, <2>2, PushLoopLinks DEF read
  <2>4. LoopsReady(flow') /\ Links(flow')
    BY <1>6, <2>3 DEF LoopsReady, Links, Forward, Onward, BackTo, NodesOf, KindOf
  <2>5. Newest(flow')
    BY <1>5, <1>6 DEF Newest, Kept
  <2> QED
    BY <2>4, <2>5 DEF Linear
<1> QED
  BY <1>10, <1>11 DEF LInv

-----------------------------------------------------------------------------

(* Every jump is forward, or back to a loop that is left forward, until a  *)
(* jump ends a loop.                                                       *)
THEOREM LinksInvariance == FlowSpec => []LInv
<1>1. dump = <<>> /\ StartFlow => LInv
  BY DEF StartFlow, Empty, LInv, LoopsInForce, Linear, LoopsReady, Links, NodesOf, Newest, Null
<1>2. IInv /\ LInv /\ [HandOver \/ getCFG]_flowing => LInv'
  <2> SUFFICES ASSUME IInv, LInv, [HandOver \/ getCFG]_flowing
               PROVE  LInv'
    OBVIOUS
  <2>1. CASE HandOver
    BY <2>1, HandOverKeepsLinks
  <2>2. CASE getCFG
    <3>1. PICK entry : \/ ReadFunction(entry) \/ ReadStatement(entry) \/ PassOver(entry)
                       \/ LeaveLoop(entry) \/ EndStatement(entry)
      BY <2>2 DEF getCFG
    <3> QED
      BY <3>1, ReadFunctionKeepsLinks, ReadStatementKeepsLinks, PassOverKeepsLinks,
         LeaveLoopKeepsLinks, EndStatementKeepsLinks
  <2>3. CASE UNCHANGED flowing
    BY <2>3 DEF flowing, LInv, LoopsInForce, InForce, JumpEndsLoop, Linear
  <2> QED
    BY <2>1, <2>2, <2>3
<1> QED
  BY <1>1, <1>2, FlowInvariance, PTL DEF FlowSpec

-----------------------------------------------------------------------------
(* printCFG goes on to a node that is further on: a condition counts as    *)
(* what is just before the node behind it.                                 *)

Far(f, n) ==
    IF ~f.nodes[n].isCondition THEN 2 * n
    ELSE IF f.nodes[n].nextFalseNode = Null THEN 2 * Len(f.nodes) + 2
    ELSE 2 * f.nodes[n].nextFalseNode - 1

LEMMA FarAtLeast ==
  ASSUME NEW f, Fits(f), Links(f), NEW n \in NodesOf(f)
  PROVE  Far(f, n) \in Int /\ 2 * n <= Far(f, n)
<1>1. f.nodes[n].nextFalseNode \in Nat /\ Len(f.nodes) \in Nat /\ n \in 1..Len(f.nodes)
  <2>1. f.nodes[n] \in Nodes
    BY NodesAreNodes
  <2>2. f.nodes[n].nextFalseNode \in Nat
    BY <2>1 DEF Nodes
  <2>3. Len(f.nodes) \in Nat /\ n \in 1..Len(f.nodes)
    BY DEF Fits, Flows, NodesOf
  <2> QED
    BY <2>2, <2>3
<1>2. f.nodes[n].nextFalseNode = Null \/ f.nodes[n].nextFalseNode \in (n + 1)..Len(f.nodes)
  BY DEF Links, Forward
<1>3. CASE ~f.nodes[n].isCondition
  BY <1>1, <1>3 DEF Far
<1>4. CASE f.nodes[n].isCondition /\ f.nodes[n].nextFalseNode = Null
  BY <1>1, <1>4 DEF Far
<1>5. CASE f.nodes[n].isCondition /\ f.nodes[n].nextFalseNode # Null
  BY <1>1, <1>2, <1>5 DEF Far
<1> QED
  BY <1>3, <1>4, <1>5

LEMMA PrintedIsFurther ==
  ASSUME Fits(flow), Links(flow), NEW n \in NodesOf(flow), Printed(n) # Null
  PROVE  Printed(n) \in NodesOf(flow) /\ Far(flow, n) < Far(flow, Printed(n))
<1> DEFINE m == Printed(n)
           false == flow.nodes[n].nextFalseNode
<1>1. /\ Len(flow.nodes) \in Nat /\ n \in 1..Len(flow.nodes) /\ n \in Nat
      /\ NodesOf(flow) = 1..Len(flow.nodes)
  BY DEF Fits, Flows, NodesOf
<1>2. CASE flow.nodes[n].isCondition
  <2>1. m = false /\ m \in (n + 1)..Len(flow.nodes)
    BY <1>2 DEF Printed, Links, Forward
  <2>2. m \in NodesOf(flow) /\ m \in Nat
    BY <1>1, <2>1
  <2>3. Far(flow, n) = 2 * m - 1
    BY <1>2, <2>1 DEF Far
  <2> HIDE DEF m
  <2>4. Far(flow, m) \in Int /\ 2 * m <= Far(flow, m)
    BY <2>2, FarAtLeast
  <2> QED
    BY <2>2, <2>3, <2>4 DEF m
<1>3. CASE ~flow.nodes[n].isCondition
  <2>1. m = flow.nodes[n].nextNode /\ Far(flow, n) = 2 * n
    BY <1>3 DEF Printed, Far
  <2>2. m \in (n + 1)..Len(flow.nodes) \/ BackTo(flow, n, m)
    BY <2>1 DEF Links, Onward
  <2> HIDE DEF m
  <2>3. CASE m \in (n + 1)..Len(flow.nodes)
    <3>1. m \in NodesOf(flow) /\ m \in Nat /\ n < m
      BY <1>1, <2>3
    <3>2. Far(flow, m) \in Int /\ 2 * m <= Far(flow, m)
      BY <3>1, FarAtLeast
    <3> QED
      BY <1>1, <2>1, <3>1, <3>2 DEF m
  <2>4. CASE BackTo(flow, n, m)
    <3>1. /\ m \in NodesOf(flow) /\ flow.nodes[m].isCondition
          /\ flow.nodes[m].nextFalseNode = Null \/ n < flow.nodes[m].nextFalseNode
      BY <2>4 DEF BackTo
    <3>2. flow.nodes[m].nextFalseNode \in Nat
      BY <3>1, NodesAreNodes DEF Nodes
    <3>3. CASE flow.nodes[m].nextFalseNode = Null
      <4>1. Far(flow, m) = 2 * Len(flow.nodes) + 2
        BY <3>1, <3>3 DEF Far
      <4> QED
        BY <1>1, <2>1, <3>1, <4>1 DEF m
    <3>4. CASE flow.nodes[m].nextFalseNode # Null
      <4>1. Far(flow, m) = 2 * flow.nodes[m].nextFalseNode - 1 /\ n < flow.nodes[m].nextFalseNode
        BY <3>1, <3>4 DEF Far
      <4> QED
        BY <1>1, <2>1, <3>1, <3>2, <4>1 DEF m
    <3> QED
      BY <3>3, <3>4
  <2> QED
    BY <2>2, <2>3, <2>4
<1> QED
  BY <1>2, <1>3

-----------------------------------------------------------------------------
(* The nodes that are printed, one by one.                                 *)

LEMMA LeastOf ==
  ASSUME NEW S \in SUBSET Nat, S # {}
  PROVE  \E m \in S : \A k \in S : m <= k
<1> DEFINE R == OpToRel(<, Nat)
<1>1. IsWellFoundedOn(R, Nat)
  BY NatLessThanWellFounded
<1>2. R = {ss \in Nat \X Nat : ss[1] < ss[2]}
  BY Zenon DEF OpToRel
<1>3. \A k, m \in Nat : k < m => <<k, m>> \in R
  BY <1>2
<1> HIDE DEF R
<1>4. PICK m \in S : \A k \in S : ~(<<k, m>> \in R)
  BY <1>1, WFMin
<1>5. \A k \in S : m <= k
  <2> TAKE k \in S
  <2>1. ~(k < m)
    BY <1>3, <1>4
  <2> QED
    BY <2>1
<1> QED
  BY <1>5

PrintedBehind(n) == IF n = Null THEN Null ELSE Printed(n)

\* The first k nodes behind a function's, in a row.
Prints(g, start, k) ==
    /\ g = [j \in 0..k |-> g[j]] /\ g[0] = start
    /\ \A j \in 1..k : g[j] = PrintedBehind(g[j - 1])

LEMMA PrintsAreDefined ==
  ASSUME NEW start, NEW n \in Nat
  PROVE  \E g : Prints(g, start, n)
<1> DEFINE T == {h \in 0..n : \E g : Prints(g, start, n - h)}
<1>1. n \in T
  <2> DEFINE g == [j \in 0..0 |-> start]
  <2>1. Prints(g, start, 0)
    BY DEF Prints
  <2>2. n - n = 0 /\ n \in 0..n
    OBVIOUS
  <2> HIDE DEF g
  <2> QED
    BY <2>1, <2>2
<1>2. PICK h \in T : \A k \in T : h <= k
  <2>1. T \in SUBSET Nat
    OBVIOUS
  <2> HIDE DEF T
  <2> QED
    BY <1>1, <2>1, LeastOf
<1>3. ASSUME h # 0 PROVE h - 1 \in T
  <2> DEFINE k == n - h
  <2>1. k \in Nat /\ n - (h - 1) = k + 1 /\ h - 1 \in 0..n
    BY <1>3
  <2>2. PICK g : Prints(g, start, k)
    OBVIOUS
  <2> HIDE DEF k, T
  <2> DEFINE f == [j \in 0..(k + 1) |-> IF j # k + 1 THEN g[j] ELSE PrintedBehind(g[k])]
  <2>3. f = [j \in 0..(k + 1) |-> f[j]]
    OBVIOUS
  <2>4. f[k + 1] = PrintedBehind(g[k]) /\ \A j \in 0..k : f[j] = g[j]
    BY <2>1
  <2> HIDE DEF f
  <2>5. ASSUME NEW j \in 1..(k + 1)
        PROVE  f[j] = PrintedBehind(f[j - 1])
    <3>1. CASE j = k + 1
      <4>1. j - 1 = k /\ k \in 0..k
        BY <2>1, <3>1
      <4> QED
        BY <2>4, <3>1, <4>1
    <3>2. CASE j # k + 1
      <4>1. j \in 1..k /\ j \in 0..k /\ j - 1 \in 0..k
        BY <2>1, <3>2
      <4> QED
        BY <2>2, <2>4, <4>1 DEF Prints
    <3> QED
      BY <3>1, <3>2
  <2>6. f[0] = start
    BY <2>1, <2>2, <2>4 DEF Prints
  <2>7. Prints(f, start, k + 1)
    BY <2>3, <2>5, <2>6 DEF Prints
  <2> QED
    BY <2>1, <2>7 DEF T
<1>4. h = 0
  <2>1. h \in Nat
    OBVIOUS
  <2> HIDE DEF T
  <2>2. h # 0 => h - 1 >= h
    BY <1>2, <1>3
  <2> QED
    BY <2>1, <2>2
<1>5. n - 0 = n
  OBVIOUS
<1> QED
  BY <1>4, <1>5

\* What is null stays null.
LEMMA NullStays ==
  ASSUME NEW g, NEW start, NEW n \in Nat, Prints(g, start, n), g[n] # Null
  PROVE  \A k \in 0..n : g[k] # Null
<1> DEFINE T == {h \in 0..n : g[n - h] = Null}
<1> SUFFICES ASSUME T # {}
             PROVE  FALSE
  <2> SUFFICES ASSUME NEW k \in 0..n, g[k] = Null
               PROVE  T # {}
    OBVIOUS
  <2>1. n - k \in 0..n /\ n - (n - k) = k
    OBVIOUS
  <2> QED
    BY <2>1
<1>1. PICK h \in T : \A k \in T : h <= k
  <2>1. T \in SUBSET Nat
    OBVIOUS
  <2> HIDE DEF T
  <2> QED
    BY <2>1, LeastOf
<1>2. h \in 0..n /\ g[n - h] = Null
  OBVIOUS
<1>3. h # 0
  <2>1. n - 0 = n
    OBVIOUS
  <2> QED
    BY <1>2, <2>1
<1>4. n - (h - 1) \in 1..n /\ (n - (h - 1)) - 1 = n - h /\ h - 1 \in 0..n
  BY <1>2, <1>3
<1>5. g[n - (h - 1)] = Null
  BY <1>2, <1>4 DEF Prints, PrintedBehind
<1>6. h - 1 \in T
  BY <1>4, <1>5
<1> HIDE DEF T
<1> QED
  BY <1>1, <1>2, <1>6

(* All that is printed is in the graph, each node further than those before.*)
LEMMA PrintsAreFurther ==
  ASSUME Fits(flow), Links(flow), NEW g, NEW start \in NodesOf(flow), NEW n \in Nat,
         Prints(g, start, n), g[n] # Null
  PROVE  /\ \A k \in 0..n : g[k] \in NodesOf(flow)
         /\ \A i, j \in 0..n : i < j => Far(flow, g[i]) < Far(flow, g[j])
<1>1. \A k \in 0..n : g[k] # Null
  BY NullStays
<1>2. ASSUME NEW k \in 1..n, g[k - 1] \in NodesOf(flow)
      PROVE  g[k] \in NodesOf(flow) /\ Far(flow, g[k - 1]) < Far(flow, g[k])
  <2>1. k - 1 \in 0..n /\ k \in 0..n
    OBVIOUS
  <2>2. g[k] = Printed(g[k - 1]) /\ g[k] # Null
    BY <1>1, <2>1 DEF Prints, PrintedBehind
  <2> QED
    BY <1>2, <2>2, PrintedIsFurther
<1>3. \A k \in 0..n : g[k] \in NodesOf(flow)
  <2> DEFINE T == {k \in 0..n : g[k] \notin NodesOf(flow)}
  <2> SUFFICES ASSUME T # {}
               PROVE  FALSE
    OBVIOUS
  <2>1. PICK k \in T : \A i \in T : k <= i
    <3>1. T \in SUBSET Nat
      OBVIOUS
    <3> HIDE DEF T
    <3> QED
      BY <3>1, LeastOf
  <2>2. k \in 0..n /\ g[k] \notin NodesOf(flow) /\ k # 0
    BY DEF Prints
  <2>3. k \in 1..n /\ k - 1 \in 0..n /\ ~(k <= k - 1)
    BY <2>2
  <2>4. g[k - 1] \in NodesOf(flow)
    BY <2>1, <2>3
  <2> QED
    BY <1>2, <2>2, <2>3, <2>4
<1>4. ASSUME NEW i \in 0..n, NEW j \in 0..n, i < j
      PROVE  Far(flow, g[i]) < Far(flow, g[j])
  <2> DEFINE T == {k \in (i + 1)..n : ~(Far(flow, g[i]) < Far(flow, g[k]))}
  <2> SUFFICES ASSUME T # {}
               PROVE  FALSE
    BY <1>4
  <2>1. PICK k \in T : \A l \in T : k <= l
    <3>1. T \in SUBSET Nat
      OBVIOUS
    <3> HIDE DEF T
    <3> QED
      BY <3>1, LeastOf
  <2>2. k \in (i + 1)..n /\ ~(Far(flow, g[i]) < Far(flow, g[k]))
    OBVIOUS
  <2>3. k \in 1..n /\ k - 1 \in 0..n /\ k \in 0..n /\ ~(k <= k - 1)
    BY <2>2
  <2>4. Far(flow, g[k - 1]) < Far(flow, g[k])
    BY <1>2, <1>3, <2>3
  <2>5. k - 1 # i
    BY <2>2, <2>4
  <2>6. k - 1 \in (i + 1)..n
    BY <2>2, <2>5
  <2>7. Far(flow, g[i]) < Far(flow, g[k - 1])
    BY <2>1, <2>3, <2>6
  <2>8. Far(flow, g[i]) \in Int /\ Far(flow, g[k - 1]) \in Int /\ Far(flow, g[k]) \in Int
    BY <1>3, <2>3, FarAtLeast
  <2> QED
    BY <2>2, <2>4, <2>7, <2>8
<1> QED
  BY <1>3, <1>4

(* So no node is printed twice, and there are no more than there are.      *)
LEMMA PrintsEnd ==
  ASSUME Fits(flow), Links(flow), NEW g, NEW start \in NodesOf(flow),
         Prints(g, start, Len(flow.nodes) + 1)
  PROVE  g[Len(flow.nodes) + 1] = Null
<1> DEFINE n == Len(flow.nodes) + 1
           S == 0..n
           T == 1..Len(flow.nodes)
<1>1. Len(flow.nodes) \in Nat /\ n \in Nat
  BY DEF Fits, Flows
<1> SUFFICES ASSUME g[n] # Null
             PROVE  FALSE
  OBVIOUS
<1>2. /\ \A k \in S : g[k] \in T
      /\ \A i, j \in S : i < j => Far(flow, g[i]) < Far(flow, g[j])
  <2>1. g[n] # Null
    OBVIOUS
  <2> QED
    BY <1>1, <2>1, PrintsAreFurther DEF NodesOf
<1>3. IsFiniteSet(S) /\ IsFiniteSet(T) /\ Cardinality(T) < Cardinality(S)
  <2>1. \A a, b \in Int : a <= b + 1 => IsFiniteSet(a..b) /\ Cardinality(a..b) = b - a + 1
    <3> TAKE a, b \in Int
    <3>1. /\ IsFiniteSet(a..b)
          /\ Cardinality(a..b) = IF a > b THEN 0 ELSE b - a + 1
      BY FS_Interval
    <3> QED
      BY <3>1
  <2>2. IsFiniteSet(S) /\ Cardinality(S) = n - 0 + 1
    <3> HIDE DEF n
    <3>1. 0 \in Int /\ n \in Int /\ 0 <= n + 1
      BY <1>1
    <3> QED
      BY <2>1, <3>1, Zenon
  <2>3. IsFiniteSet(T) /\ Cardinality(T) = Len(flow.nodes) - 1 + 1
    <3>1. 1 \in Int /\ Len(flow.nodes) \in Int /\ 1 <= Len(flow.nodes) + 1
      BY <1>1
    <3> QED
      BY <2>1, <3>1, Zenon
  <2> QED
    BY <1>1, <2>2, <2>3
<1> DEFINE f == [k \in S |-> g[k]]
<1>4. f \in [S -> T]
  BY <1>2
<1> HIDE DEF S, T, f
<1>5. PICK x \in S, y \in S : x # y /\ f[x] = f[y]
  BY <1>3, <1>4, FS_PigeonHole
<1>6. g[x] = g[y] /\ (x < y \/ y < x)
  BY <1>1, <1>5 DEF S, f
<1>7. Far(flow, g[x]) \in Int
  BY <1>2, FarAtLeast DEF T, NodesOf
<1> QED
  BY <1>2, <1>6, <1>7

(* From every function printCFG comes to an end, with no node printed      *)
(* twice, whatever list a walk hands over and whatever is left in the      *)
(* stacks, unless a break or a continue is what ends a loop                *)
(* (SyntaxNamePrinter.cpp:332).                                            *)
THEOREM PrintingAlwaysEnds == FlowSpec => []PrintingEnds
<1>1. IInv /\ LInv => PrintingEnds
  <2> SUFFICES ASSUME IInv, LInv, ~flow.undefined, ~JumpEndsLoop,
                      NEW i \in DOMAIN flow.funcDefStack
               PROVE  LET At[k \in 0..(Len(flow.nodes) + 1)] ==
                              IF k = 0 THEN flow.funcDefStack[i]
                              ELSE IF At[k - 1] = Null THEN Null ELSE Printed(At[k - 1])
                      IN  At[Len(flow.nodes) + 1] = Null
    BY DEF PrintingEnds
  <2> DEFINE n == Len(flow.nodes) + 1
             start == flow.funcDefStack[i]
             Is(g) == g = [k \in 0..n |-> IF k = 0 THEN start
                                          ELSE IF g[k - 1] = Null THEN Null ELSE Printed(g[k - 1])]
             At == CHOOSE g : Is(g)
  <2>1. Fits(flow) /\ Links(flow) /\ start \in NodesOf(flow) /\ n \in Nat
    BY DEF IInv, LInv, Linear, Fits, Flows, FunctionsFit
  <2>2. PICK g : Prints(g, start, n)
    BY <2>1, PrintsAreDefined
  <2>3. Is(g)
    <3> DEFINE h == [k \in 0..n |-> IF k = 0 THEN start
                                    ELSE IF g[k - 1] = Null THEN Null ELSE Printed(g[k - 1])]
    <3>1. \A k \in 0..n : g[k] = h[k]
      <4> TAKE k \in 0..n
      <4>1. CASE k = 0
        BY <2>2, <4>1 DEF Prints
      <4>2. CASE k # 0
        <5>1. k \in 1..n
          BY <2>1, <4>2
        <5>2. g[k] = PrintedBehind(g[k - 1])
          BY <2>2, <5>1 DEF Prints
        <5> QED
          BY <4>2, <5>2 DEF PrintedBehind
      <4> QED
        BY <4>1, <4>2
    <3>2. h = [k \in 0..n |-> h[k]]
      OBVIOUS
    <3> HIDE DEF h
    <3>3. g = h
      BY <2>2, <3>1, <3>2 DEF Prints
    <3> QED
      BY <3>3 DEF h
  <2>4. Is(At)
    <3> HIDE DEF Is
    <3> QED
      BY <2>3
  <2>5. Prints(At, start, n)
    <3> HIDE DEF At
    <3>1. At = [k \in 0..n |-> At[k]]
      BY <2>4
    <3>2. At[0] = start
      <4>1. 0 \in 0..n
        BY <2>1
      <4> QED
        BY <2>4, <4>1
    <3>3. ASSUME NEW k \in 1..n
          PROVE  At[k] = PrintedBehind(At[k - 1])
      <4>1. k \in 0..n /\ k # 0
        BY <2>1
      <4> QED
        BY <2>4, <4>1 DEF PrintedBehind
    <3> QED
      BY <3>1, <3>2, <3>3 DEF Prints
  <2>6. At[n] = Null
    <3> HIDE DEF At
    <3> QED
      BY <2>1, <2>5, PrintsEnd
  <2> QED
    BY <2>6
<1> QED
  BY <1>1, FlowInvariance, LinksInvariance, PTL
=============================================================================
