---------------------------- MODULE ReparserProofs ----------------------------
(***************************************************************************)
(* Proofs about Reparser: its type invariant, and that it implements       *)
(* Disambiguation, whatever the trees that the parser hands over.          *)
(***************************************************************************)
EXTENDS Reparser, FiniteSetTheorems, SequenceTheorems, TLAPS

Root == original[Holder].kids[1]

(* A tree keeps the kinds, the names and the numbers of children of its    *)
(* nodes; before the catalog is complete it is the one of the parser.      *)
SameShape ==
  /\ Len(tree) = Len(original)
  /\ \A n \in 1 .. Len(tree) :
        /\ tree[n].kind = original[n].kind
        /\ Len(tree[n].kids) = Len(original[n].kids)

Untouched == stage \in {"parsed", "cataloguing"} => tree = original

(* Only the root opens a level, so that what is known in the innermost     *)
(* level is all that is known.                                             *)
OneLevel == DOMAIN levels \subseteq {Root}

IInv ==
  /\ original \in Trees
  /\ TypeOK
  /\ SameShape
  /\ Untouched
  /\ OneLevel

(* TLC checks the strengthening of the type invariant as well.             *)
-----------------------------------------------------------------------------
(* Sequences of calls.                                                     *)

LEMMA CallsThenRest ==
  ASSUME NEW S, NEW s \in Seq(S), NEW t \in Seq(S), t # <<>>
  PROVE  s \o Tail(t) \in Seq(S)
<1>1. Tail(t) \in Seq(S)
  OBVIOUS
<1> QED
  BY <1>1

LEMMA ShortSequences ==
  ASSUME NEW S, NEW a \in S, NEW b \in S, NEW c \in S, NEW d \in S
  PROVE  /\ <<>> \in Seq(S)
         /\ <<a>> \in Seq(S)
         /\ <<a, b>> \in Seq(S)
         /\ <<a, b, c>> \in Seq(S)
         /\ <<a, b, c, d>> \in Seq(S)
  OBVIOUS

LEMMA Element ==
  ASSUME NEW S, NEW s \in Seq(S), NEW i \in 1 .. Len(s)
  PROVE  s[i] \in S
  OBVIOUS

LEMMA ReplaceFirst ==
  ASSUME NEW S, NEW s \in Seq(S), 1 \in 1 .. Len(s), NEW a \in S
  PROVE  [s EXCEPT ![1] = a] \in Seq(S)
  OBVIOUS

(* A call on a child that a node has is a call on the tree.                *)
LEMMA CallIsOnTree ==
  ASSUME NEW t, NEW n \in 1 .. Len(t), NEW at \in Nat, NEW how \in Hows,
         Len(t[n].kids) \in Nat,
         at \in 1 .. Len(t[n].kids)
  PROVE  Call(n, how, at) \in CallsOn(t)
  BY DEF Call, CallsOn

-----------------------------------------------------------------------------
(* What the invariant says of a node and of its children.                  *)

LEMMA TreeFacts ==
  ASSUME NEW t, IsTree(t), NEW n \in 1 .. Len(t)
  PROVE  /\ Len(t) \in Nat
         /\ t[n].kids \in Seq(Nat)
         /\ Len(t[n].kids) \in Nat
         /\ \A i \in 1 .. Len(t[n].kids) : t[n].kids[i] \in 0 .. Len(t)
         /\ t[n].kind \in AmbiguousKinds =>
              /\ Len(t[n].kids) = 2
              /\ t[n].kids[TypeReading] \in 1 .. Len(t)
              /\ t[n].kids[ExpressionReading] \in 1 .. Len(t)
              /\ t[n].name \in Names
         /\ t[n].kind \in NamingKinds => t[n].name \in Names
         /\ t[n].kind = "TranslationUnit" => t[Holder].kids[1] = n
<1>1. t \in Seq(Nodes)
  BY DEF IsTree
<1>2. Len(t) \in Nat
  BY <1>1
<1>3. t[n] \in Nodes
  BY <1>1, Element
<1>4. t[n].kids \in Seq(Nat)
  BY <1>3 DEF Nodes
<1>5. Len(t[n].kids) \in Nat
  BY <1>4
<1>6. \A i \in 1 .. Len(t[n].kids) : t[n].kids[i] \in 0 .. Len(t)
  BY DEF IsTree
<1>7. ASSUME t[n].kind \in AmbiguousKinds
      PROVE  /\ Len(t[n].kids) = 2
             /\ t[n].kids[TypeReading] \in 1 .. Len(t)
             /\ t[n].kids[ExpressionReading] \in 1 .. Len(t)
             /\ t[n].name \in Names
  <2>1. Len(t[n].kids) = 2 /\ Null \notin Readings(t, n) /\ t[n].name \in Names
    BY <1>7 DEF IsTree
  <2>2. /\ t[n].kids[TypeReading] \in 0 .. Len(t)
        /\ t[n].kids[ExpressionReading] \in 0 .. Len(t)
    BY <1>6, <2>1 DEF TypeReading, ExpressionReading
  <2> QED
    BY <1>2, <2>1, <2>2 DEF Readings, Null
<1>8. /\ t[n].kind \in NamingKinds => t[n].name \in Names
      /\ t[n].kind = "TranslationUnit" => t[Holder].kids[1] = n
  BY DEF IsTree
<1> QED
  BY <1>2, <1>4, <1>5, <1>6, <1>7, <1>8

LEMMA HolderFacts ==
  ASSUME NEW t, IsTree(t)
  PROVE  /\ Holder \in 1 .. Len(t)
         /\ Len(t[Holder].kids) = 1
         /\ t[Holder].kind = "SyntaxTree"
<1>1. Len(t) \in Nat /\ Len(t) > 0
  BY DEF IsTree
<1> QED
  BY <1>1 DEF IsTree, Holder

(* A call is on a node, and on one of its children.                        *)
LEMMA CallFacts ==
  ASSUME IsTree(tree), NEW c \in CallsOn(tree)
  PROVE  /\ c.of \in 1 .. Len(tree)
         /\ c.at \in 1 .. Len(tree[c.of].kids)
         /\ Child(c) \in 0 .. Len(tree)
         /\ Child(c) # Null => Child(c) \in 1 .. Len(tree)
<1>1. c.of \in 1 .. Len(tree) /\ c.at \in 1 .. Len(tree[c.of].kids)
  BY DEF CallsOn
<1>2. Child(c) \in 0 .. Len(tree)
  BY <1>1, TreeFacts DEF Child
<1>3. Len(tree) \in Nat
  BY <1>1, TreeFacts
<1> QED
  BY <1>1, <1>2, <1>3 DEF Null

LEMMA VisitAllIsOnTree ==
  ASSUME IsTree(tree), NEW n \in 1 .. Len(tree), NEW how \in Hows
  PROVE  VisitAll(n, how) \in Seq(CallsOn(tree))
<1>1. Len(tree[n].kids) \in Nat
  BY TreeFacts
<1>2. \A i \in 1 .. Len(tree[n].kids) : Call(n, how, i) \in CallsOn(tree)
  BY <1>1, CallIsOnTree
<1> QED
  BY <1>1, <1>2 DEF VisitAll

LEMMA VisitChildrenIsOnTree ==
  ASSUME IsTree(tree), NEW n \in 1 .. Len(tree)
  PROVE  visitChildren(n) \in Seq(CallsOn(tree))
<1>1. VisitAll(n, "visit") \in Seq(CallsOn(tree))
  BY VisitAllIsOnTree DEF Hows
<1> QED
  BY <1>1 DEF visitChildren

LEMMA VisitRootIsOnTree ==
  ASSUME IsTree(tree)
  PROVE  /\ ExitLevel \in CallsOn(tree)
         /\ Visit(Holder, 1) \in CallsOn(tree)
<1>1. /\ Holder \in 1 .. Len(tree)
      /\ Len(tree[Holder].kids) \in Nat
      /\ 1 \in 1 .. Len(tree[Holder].kids)
  <2>1. Holder \in 1 .. Len(tree) /\ Len(tree[Holder].kids) = 1
    BY HolderFacts, Zenon
  <2>2. 1 \in Nat /\ 1 \in 1 .. 1
    OBVIOUS
  <2> QED
    BY <2>1, <2>2, Zenon
<1>2. "exitLevel" \in Hows /\ "visit" \in Hows /\ 1 \in Nat
  BY DEF Hows
<1>3. /\ Call(Holder, "exitLevel", 1) \in CallsOn(tree)
      /\ Call(Holder, "visit", 1) \in CallsOn(tree)
  BY <1>1, <1>2, CallIsOnTree, Zenon
<1> QED
  BY <1>3, Zenon DEF ExitLevel, Visit

(* A node has the children that its handler names, now as when the tree    *)
(* was made.                                                               *)
LEMMA Arities ==
  ASSUME IInv, NEW n \in 1 .. Len(tree)
  PROVE  LET k == tree[n].kind
             arity == Len(tree[n].kids)
         IN  /\ arity \in Nat
             /\ k \in HandlesExpression \cup HandlesTypeReference
                      \cup {"IdentifierDeclarator", "GenericSelectionExpression"}
                  => 1 \in 1 .. arity
             /\ k \in HandlesExpressionAfterTypeName \cup HandlesOperands
                      \cup HandlesExpressionAndStatement
                      \cup {"LabeledStatement"}
                  => {1, 2} \subseteq 1 .. arity
             /\ k \in {"ConditionalExpression", "ExtGNU_ChooseExpression",
                       "IfStatement"}
                  => {1, 2, 3} \subseteq 1 .. arity
             /\ k = "ForStatement" => {1, 2, 3, 4} \subseteq 1 .. arity
<1>1. Len(tree[n].kids) \in Nat
  BY TreeFacts DEF IInv, TypeOK
<1>2. /\ tree[n].kind = original[n].kind
      /\ Len(tree[n].kids) = Len(original[n].kids)
      /\ n \in 1 .. Len(original)
  BY DEF IInv, SameShape
<1>3. HasChildren(original, n)
  BY <1>2, ChildrenAssumption DEF IInv
<1> QED
  BY <1>1, <1>2, <1>3 DEF HasChildren

LEMMA HandlerIsOnTree ==
  ASSUME IInv, NEW n \in 1 .. Len(tree)
  PROVE  Handler(n) \in Seq(CallsOn(tree))
<1> DEFINE k == tree[n].kind
           arity == Len(tree[n].kids)
           C == CallsOn(tree)
<1>1. IsTree(tree) /\ arity \in Nat
  BY TreeFacts DEF IInv, TypeOK
<1>2. \A at \in 1 .. arity :
        /\ Visit(n, at) \in C
        /\ MaybeExpression(n, at) \in C
        /\ MaybeStatement(n, at) \in C
        /\ MaybeTypeReference(n, at) \in C
  BY <1>1, CallIsOnTree
     DEF Visit, MaybeExpression, MaybeStatement, MaybeTypeReference, Hows
<1>3. /\ VisitAll(n, "visit") \in Seq(C)
      /\ VisitAll(n, "maybeAmbiguousStatement") \in Seq(C)
      /\ visitChildren(n) \in Seq(C)
      /\ ExitLevel \in C
  BY <1>1, VisitAllIsOnTree, VisitChildrenIsOnTree, VisitRootIsOnTree DEF Hows
<1>4. Append(VisitAll(n, "visit"), ExitLevel) \in Seq(C)
  BY <1>3
<1>5. ASSUME 1 \in 1 .. arity
      PROVE  [VisitAll(n, "visit") EXCEPT ![1] = MaybeExpression(n, 1)] \in Seq(C)
  <2>1. Len(VisitAll(n, "visit")) = arity
    BY <1>1 DEF VisitAll
  <2> QED
    BY <1>2, <1>3, <1>5, <2>1, ReplaceFirst
<1> HIDE DEF C
<1>6. ASSUME k \in HandlesExpression
      PROVE  <<MaybeExpression(n, 1)>> \in Seq(C)
  BY <1>2, <1>6, Arities, ShortSequences
<1>7. ASSUME k \in HandlesExpressionAfterTypeName
      PROVE  <<MaybeExpression(n, 2)>> \in Seq(C)
  BY <1>2, <1>7, Arities, ShortSequences
<1>8. ASSUME k \in HandlesOperands
      PROVE  <<MaybeExpression(n, 1), MaybeExpression(n, 2)>> \in Seq(C)
  BY <1>2, <1>8, Arities, ShortSequences
<1>9. ASSUME k \in HandlesTypeReference
      PROVE  <<MaybeTypeReference(n, 1)>> \in Seq(C)
  BY <1>2, <1>9, Arities, ShortSequences
<1>10. ASSUME k \in HandlesExpressionAndStatement
       PROVE  <<MaybeExpression(n, 1), MaybeStatement(n, 2)>> \in Seq(C)
  BY <1>2, <1>10, Arities, ShortSequences
<1>11. ASSUME k \in {"ConditionalExpression", "ExtGNU_ChooseExpression",
                     "IfStatement"}
       PROVE  /\ <<MaybeExpression(n, 1), MaybeExpression(n, 2),
                   MaybeExpression(n, 3)>> \in Seq(C)
              /\ <<MaybeExpression(n, 2), MaybeExpression(n, 3)>> \in Seq(C)
              /\ <<MaybeExpression(n, 1), MaybeStatement(n, 2),
                   MaybeStatement(n, 3)>> \in Seq(C)
  BY <1>2, <1>11, Arities, ShortSequences
<1>12. ASSUME k = "LabeledStatement"
       PROVE  <<MaybeStatement(n, 2)>> \in Seq(C)
  BY <1>2, <1>12, Arities, ShortSequences
<1>13. ASSUME k = "ForStatement"
       PROVE  <<Visit(n, 1), MaybeExpression(n, 2), MaybeExpression(n, 3),
                MaybeStatement(n, 4)>> \in Seq(C)
  BY <1>2, <1>13, Arities, ShortSequences
<1>14. ASSUME k = "GenericSelectionExpression"
       PROVE  [VisitAll(n, "visit") EXCEPT ![1] = MaybeExpression(n, 1)]
                \in Seq(C)
  BY <1>5, <1>14, Arities
<1>15. <<>> \in Seq(C)
  OBVIOUS
<1> HIDE DEF k
<1>16. Handler(n) \in Seq(C)
  BY <1>3, <1>4, <1>6, <1>7, <1>8, <1>9, <1>10, <1>11, <1>12, <1>13, <1>14,
     <1>15
     DEF Handler, k
<1> QED
  BY <1>16 DEF C

-----------------------------------------------------------------------------
(* The catalog.                                                            *)

LevelsOK ==
  /\ DOMAIN levels \subseteq {Root} \ {Null}
  /\ \A n \in DOMAIN levels :
        levels[n] \in [types : SUBSET Names, names : SUBSET Names]
  /\ levelKeys \in Seq(DOMAIN levels)

LEMMA CurrentLevel ==
  ASSUME LevelsOK, HasLevel
  PROVE  /\ CurrentKey = Root
         /\ Root \in DOMAIN levels
         /\ DOMAIN levels = {Root}
         /\ levels[Root].types \in SUBSET Names
         /\ levels[Root].names \in SUBSET Names
<1>1. Len(levelKeys) \in 1 .. Len(levelKeys)
  BY DEF LevelsOK, HasLevel
<1>2. CurrentKey \in DOMAIN levels
  BY <1>1, Element DEF CurrentKey, LevelsOK
<1>3. DOMAIN levels = {Root} /\ CurrentKey = Root
  <2>1. DOMAIN levels \subseteq {Root}
    BY DEF LevelsOK
  <2> QED
    BY <1>2, <2>1
<1>4. levels[Root] \in [types : SUBSET Names, names : SUBSET Names]
  BY <1>3 DEF LevelsOK
<1> QED
  BY <1>3, <1>4

LEMMA CreateLevel ==
  ASSUME LevelsOK, createLevelAndEnter(Root), Root # Null,
         UNCHANGED original
  PROVE  LevelsOK'
<1>1. DOMAIN levels' = DOMAIN levels \cup {Root} /\ Root' = Root
  BY DEF createLevelAndEnter, Root
<1>2. currentLevel \in [types : SUBSET Names, names : SUBSET Names]
  <2>1. CASE HasLevel
    BY <2>1, CurrentLevel DEF currentLevel, LevelsOK
  <2>2. CASE ~HasLevel
    BY <2>2 DEF currentLevel, NoNames
  <2> QED
    BY <2>1, <2>2
<1>3. \A n \in DOMAIN levels' :
        levels'[n] \in [types : SUBSET Names, names : SUBSET Names]
  BY <1>1, <1>2 DEF createLevelAndEnter, LevelsOK
<1>4. levelKeys' \in Seq(DOMAIN levels')
  <2>1. levelKeys \in Seq(DOMAIN levels')
    BY <1>1 DEF LevelsOK
  <2> QED
    BY <1>1, <2>1 DEF createLevelAndEnter
<1> QED
  BY <1>1, <1>3, <1>4 DEF LevelsOK

LEMMA EnterLevel ==
  ASSUME LevelsOK, NEW n, enterLevel(n), UNCHANGED original
  PROVE  LevelsOK'
  BY DEF LevelsOK, enterLevel, levelExists, Root

LEMMA ExitALevel ==
  ASSUME LevelsOK, exitLevel, UNCHANGED original
  PROVE  LevelsOK'
<1>1. SubSeq(levelKeys, 1, Len(levelKeys) - 1) \in Seq(DOMAIN levels)
  BY DEF LevelsOK
<1> QED
  BY <1>1 DEF LevelsOK, exitLevel, Root

LEMMA CatalogOfNames ==
  ASSUME LevelsOK, HasLevel, NEW s \in Names, UNCHANGED original,
         catalogTypeName(s) \/ catalogName(s)
  PROVE  /\ LevelsOK'
         /\ DOMAIN levels' = DOMAIN levels
         /\ levels[Root].types \subseteq levels'[Root].types
         /\ levels[Root].names \subseteq levels'[Root].names
<1>1. /\ DOMAIN levels' = DOMAIN levels
      /\ levelKeys' = levelKeys
      /\ Root' = Root
  BY DEF catalogTypeName, catalogName, Root
<1>2. levels[Root] \in [types : SUBSET Names, names : SUBSET Names]
  BY CurrentLevel DEF LevelsOK
<1>3. CASE catalogTypeName(s)
  <2>1. levels'[Root] = [levels[Root] EXCEPT !.types = @ \cup {s}]
    BY <1>3, CurrentLevel DEF catalogTypeName
  <2>2. /\ levels'[Root] \in [types : SUBSET Names, names : SUBSET Names]
        /\ levels[Root].types \subseteq levels'[Root].types
        /\ levels[Root].names \subseteq levels'[Root].names
    BY <1>2, <2>1
  <2> QED
    BY <1>1, <2>2, CurrentLevel DEF LevelsOK
<1>4. CASE catalogName(s)
  <2>1. levels'[Root] = [levels[Root] EXCEPT !.names = @ \cup {s}]
    BY <1>4, CurrentLevel DEF catalogName
  <2>2. /\ levels'[Root] \in [types : SUBSET Names, names : SUBSET Names]
        /\ levels[Root].types \subseteq levels'[Root].types
        /\ levels[Root].names \subseteq levels'[Root].names
    BY <1>2, <2>1
  <2> QED
    BY <1>1, <2>2, CurrentLevel DEF LevelsOK
<1> QED
  BY <1>3, <1>4

-----------------------------------------------------------------------------
(* The invariant.                                                          *)

LEMMA InvariantOfLevels ==
  ASSUME IInv
  PROVE  /\ LevelsOK
         /\ IsTree(tree)
         /\ Root \in 0 .. Len(tree)
         /\ Untouched
<1>1. IsTree(original) /\ Len(tree) = Len(original) /\ IsTree(tree)
  BY TreesAssumption DEF IInv, TypeOK
<1>2. Holder \in 1 .. Len(original) /\ Len(original[Holder].kids) = 1
  BY <1>1, HolderFacts
<1>3. Root \in 0 .. Len(tree)
  BY <1>1, <1>2, TreeFacts DEF Root
<1>4. DOMAIN levels \subseteq {Root} \ {Null}
  <2>1. DOMAIN levels \subseteq 1 .. Len(tree) /\ DOMAIN levels \subseteq {Root}
    BY DEF IInv, TypeOK, OneLevel
  <2>2. Null \notin 1 .. Len(tree)
    BY DEF Null
  <2> QED
    BY <2>1, <2>2
<1>5. /\ \A n \in DOMAIN levels :
           levels[n] \in [types : SUBSET Names, names : SUBSET Names]
      /\ levelKeys \in Seq(DOMAIN levels)
  BY DEF IInv, TypeOK
<1>6. Untouched
  BY DEF IInv
<1> QED
  BY <1>1, <1>3, <1>4, <1>5, <1>6 DEF LevelsOK

(* What the invariant needs of a step that leaves the tree alone.          *)
LEMMA TreeUnchanged ==
  ASSUME IInv, UNCHANGED <<original, tree, asked, textCompleteness_, retained>>,
         LevelsOK',
         todo' \in Seq(CallsOn(tree)),
         pendingAmbigs' \in Nat,
         diagnostics_' \in Nat,
         stage' \in {"parsed", "cataloguing", "disambiguating", "built",
                     "undefined"},
         stage' \in {"parsed", "cataloguing"} =>
           stage \in {"parsed", "cataloguing"}
  PROVE  IInv'
<1>1. DOMAIN levels' \subseteq 1 .. Len(tree)'
  <2>1. Root \in 0 .. Len(tree) /\ Root' = Root /\ tree' = tree
    BY InvariantOfLevels DEF Root
  <2>2. DOMAIN levels' \subseteq {Root} \ {Null}
    BY <2>1 DEF LevelsOK
  <2> QED
    BY <2>1, <2>2 DEF Null
<1> QED
  BY <1>1 DEF IInv, TypeOK, SameShape, Untouched, OneLevel, LevelsOK, CallsOn

LEMMA InitInvariant == Init => IInv
<1> SUFFICES ASSUME Init
             PROVE  IInv
  OBVIOUS
<1>1. IsTree(tree) /\ original \in Trees /\ tree = original
  BY TreesAssumption DEF Init
<1>2. Len(tree) \in Nat
  BY <1>1, HolderFacts, TreeFacts
<1>3. retained \in Nat
  <2>1. AmbiguousNodes(original) \subseteq 1 .. Len(tree)
    BY <1>1 DEF AmbiguousNodes
  <2>2. IsFiniteSet(AmbiguousNodes(original))
    <3>1. IsFiniteSet(1 .. Len(tree))
      BY <1>2, FS_Interval
    <3> QED
      BY <2>1, <3>1, FS_Subset
  <2> QED
    BY <2>2, FS_CardinalityType DEF Init
<1>4. levels = NoLevels /\ DOMAIN levels = {}
  BY DEF Init, NoLevels
<1>5. TypeOK
  BY <1>1, <1>3, <1>4 DEF TypeOK, Init
<1> QED
  BY <1>1, <1>4, <1>5 DEF IInv, SameShape, Untouched, OneLevel, Init

LEMMA BuildKeepsInvariant ==
  ASSUME IInv,
         \/ DiagnoseAmbiguities
         \/ LeaveAmbiguities
         \/ Reparse
         \/ AcquireCatalog
         \/ Disambiguated
  PROVE  IInv'
<1>1. /\ LevelsOK
      /\ todo \in Seq(CallsOn(tree))
      /\ pendingAmbigs \in Nat
      /\ diagnostics_ \in Nat
      /\ retained \in Nat
  BY InvariantOfLevels DEF IInv, TypeOK
<1>2. UNCHANGED <<original, tree, optionVars, catalogVars, pendingAmbigs>>
  BY DEF DiagnoseAmbiguities, LeaveAmbiguities, Reparse, AcquireCatalog,
         Disambiguated
<1>3. LevelsOK'
  BY <1>1, <1>2 DEF LevelsOK, catalogVars, Root
<1>4. todo' \in Seq(CallsOn(tree))
  <2>1. IsTree(tree)
    BY InvariantOfLevels
  <2>2. Visit(Holder, 1) \in CallsOn(tree)
    BY <2>1, VisitRootIsOnTree
  <2>3. <<Visit(Holder, 1)>> \in Seq(CallsOn(tree))
    BY <2>2
  <2>4. todo' = todo \/ todo' = <<Visit(Holder, 1)>>
    BY DEF DiagnoseAmbiguities, LeaveAmbiguities, Reparse, AcquireCatalog,
           Disambiguated
  <2> QED
    BY <1>1, <2>3, <2>4
<1>5. diagnostics_' \in Nat
  BY <1>1 DEF DiagnoseAmbiguities, LeaveAmbiguities, Reparse, AcquireCatalog,
              Disambiguated
<1>6. /\ stage' \in {"built", "cataloguing", "disambiguating"}
      /\ stage' = "cataloguing" => stage = "parsed"
  BY DEF DiagnoseAmbiguities, LeaveAmbiguities, Reparse, AcquireCatalog,
         Disambiguated
<1> QED
  BY <1>1, <1>2, <1>3, <1>4, <1>5, <1>6, TreeUnchanged DEF optionVars

(* The cataloger looks past the expression that an ambiguity may be at the *)
(* second operand of it.                                                   *)
LEMMA ExpressionOperands ==
  ASSUME NEW t, IsTree(t), NEW n \in 1 .. Len(t), HasChildren(t, n),
         t[n].kind \in AmbiguousExpressions
  PROVE  LET expr == t[n].kids[ExpressionReading]
         IN  expr \in 1 .. Len(t) /\ 2 \in 1 .. Len(t[expr].kids)
<1> DEFINE expr == t[n].kids[ExpressionReading]
<1>1. expr \in 1 .. Len(t)
  BY TreeFacts DEF AmbiguousKinds
<1>2. Len(t[expr].kids) >= 2
  BY Zenon DEF HasChildren
<1> HIDE DEF expr
<1>3. Len(t[expr].kids) \in Nat
  BY <1>1, TreeFacts
<1>4. 2 \in 1 .. Len(t[expr].kids)
  BY <1>2, <1>3
<1> QED
  BY <1>1, <1>4, Zenon DEF expr

LEMMA StatementOperands ==
  ASSUME NEW t, IsTree(t), NEW n \in 1 .. Len(t), HasChildren(t, n),
         t[n].kind \in AmbiguousStatements
  PROVE  LET expr == t[t[n].kids[ExpressionReading]].kids[1]
         IN  expr \in 1 .. Len(t) /\ 2 \in 1 .. Len(t[expr].kids)
<1> DEFINE stmt == t[n].kids[ExpressionReading]
           expr == t[stmt].kids[1]
<1>1. stmt \in 1 .. Len(t)
  BY TreeFacts DEF AmbiguousKinds
<1>2. Len(t[stmt].kids) >= 1 /\ expr # Null /\ Len(t[expr].kids) >= 2
  BY Zenon DEF HasChildren
<1> HIDE DEF stmt
<1>3. Len(t) \in Nat /\ Len(t[stmt].kids) \in Nat
  BY <1>1, TreeFacts
<1>4. expr \in 0 .. Len(t)
  <2>1. 1 \in 1 .. Len(t[stmt].kids)
    BY <1>2, <1>3
  <2> QED
    BY <1>1, <2>1, TreeFacts, Zenon
<1> HIDE DEF expr
<1>5. expr \in 1 .. Len(t)
  BY <1>2, <1>3, <1>4 DEF Null
<1>6. Len(t[expr].kids) \in Nat
  BY <1>5, TreeFacts
<1>7. 2 \in 1 .. Len(t[expr].kids)
  BY <1>2, <1>6
<1> QED
  BY <1>5, <1>7, Zenon DEF stmt, expr

LEMMA CatalogKeepsInvariant ==
  ASSUME IInv, CatalogStep,
         UNCHANGED <<original, pendingAmbigs, optionVars, diagnostics_>>
  PROVE  IInv'
<1> DEFINE c == Head(todo)
           n == Child(c)
           C == CallsOn(tree)
<1>1. /\ LevelsOK
      /\ IsTree(tree)
      /\ todo \in Seq(C)
      /\ todo # <<>>
      /\ pendingAmbigs \in Nat
      /\ diagnostics_ \in Nat
  BY InvariantOfLevels DEF IInv, TypeOK, CatalogStep
<1>2. c \in C /\ (n # Null => n \in 1 .. Len(tree))
  <2>1. c \in C
    BY <1>1
  <2> QED
    BY <1>1, <2>1, CallFacts
<1>3. ASSUME NEW cs \in Seq(C), Calls(cs)
      PROVE  todo' \in Seq(C)
  BY <1>1, <1>3, CallsThenRest DEF Calls
<1>4. ASSUME UNCHANGED catalogVars
      PROVE  LevelsOK'
  BY <1>1, <1>4 DEF LevelsOK, catalogVars, Root
<1>5. ASSUME tree' = tree, LevelsOK', todo' \in Seq(C),
             stage' \in {"undefined", stage}
      PROVE  IInv'
  <2>1. stage \in {"parsed", "cataloguing", "disambiguating", "built",
                   "undefined"}
    BY DEF IInv, TypeOK
  <2> QED
    BY <1>1, <1>5, <2>1, TreeUnchanged DEF optionVars
<1>6. <<>> \in Seq(C)
  OBVIOUS
<1>7. ASSUME NEW m \in 1 .. Len(tree), NEW i \in 1 .. Len(tree[m].kids)
      PROVE  <<Visit(m, i)>> \in Seq(C)
  <2>1. Len(tree[m].kids) \in Nat
    BY <1>1, TreeFacts
  <2>2. Visit(m, i) \in C
    BY <2>1, CallIsOnTree DEF Visit, Hows
  <2> QED
    BY <2>2
<1>8. ASSUME AtNode(c, n)
      PROVE  /\ n \in 1 .. Len(tree)
             /\ Len(tree[n].kids) \in Nat
             /\ tree = original
             /\ HasChildren(tree, n)
  <2>1. n \in 1 .. Len(tree) /\ tree = original
    BY <1>2, <1>8, InvariantOfLevels DEF AtNode, Cataloguing, Untouched
  <2>2. HasChildren(tree, n)
    BY <2>1, ChildrenAssumption DEF IInv
  <2> QED
    BY <1>1, <2>1, <2>2, TreeFacts
<1>9. CASE Catalog_Null(c)
  BY <1>3, <1>4, <1>5, <1>6, <1>9 DEF Catalog_Null
<1>10. CASE Catalog_ExitLevel(c)
  <2>1. LevelsOK'
    BY <1>1, <1>10, ExitALevel DEF Catalog_ExitLevel
  <2> QED
    BY <1>3, <1>5, <1>6, <1>10, <2>1 DEF Catalog_ExitLevel
<1>11. CASE Catalog_TranslationUnit(c, n)
  <2>1. n \in 1 .. Len(tree) /\ tree = original /\ n # Null
    BY <1>8, <1>11 DEF Catalog_TranslationUnit, AtNode
  <2>2. n = Root
    BY <1>1, <1>11, <2>1, TreeFacts DEF Catalog_TranslationUnit, Root
  <2>3. LevelsOK'
    BY <1>1, <1>11, <2>1, <2>2, CreateLevel DEF Catalog_TranslationUnit
  <2>4. VisitAll(n, "visit") \in Seq(C) /\ ExitLevel \in C
    BY <1>1, <2>1, VisitAllIsOnTree, VisitRootIsOnTree DEF Hows
  <2>5. Append(VisitAll(n, "visit"), ExitLevel) \in Seq(C)
    BY <2>4
  <2> QED
    BY <1>3, <1>5, <1>11, <2>3, <2>5 DEF Catalog_TranslationUnit
<1>12. CASE Catalog_NoLevel(c, n)
  BY <1>1, <1>4, <1>5, <1>12 DEF Catalog_NoLevel
<1>13. CASE Catalog_TypedefName(c, n)
  <2>1. tree[n].name \in Names
    BY <1>1, <1>8, <1>13, TreeFacts DEF Catalog_TypedefName, NamingKinds
  <2>2. LevelsOK'
    BY <1>1, <1>13, <2>1, CatalogOfNames DEF Catalog_TypedefName
  <2> QED
    BY <1>3, <1>5, <1>6, <1>13, <2>2 DEF Catalog_TypedefName
<1>14. CASE Catalog_IdentifierDeclarator(c, n)
  <2>1. tree[n].name \in Names
    BY <1>1, <1>8, <1>14, TreeFacts DEF Catalog_IdentifierDeclarator, NamingKinds
  <2>2. LevelsOK'
    BY <1>1, <1>14, <2>1, CatalogOfNames DEF Catalog_IdentifierDeclarator
  <2>3. n \in 1 .. Len(tree) /\ 1 \in 1 .. Len(tree[n].kids)
    <3>1. AtNode(c, n) /\ tree[n].kind = "IdentifierDeclarator"
      BY <1>14 DEF Catalog_IdentifierDeclarator
    <3>2. n \in 1 .. Len(tree) /\ Len(tree[n].kids) \in Nat /\ HasChildren(tree, n)
      BY <1>8, <3>1
    <3>3. /\ "IdentifierDeclarator" \in {"IdentifierDeclarator", "GenericSelectionExpression"}
          /\ tree[n].kind \in HandlesExpression \cup HandlesTypeReference
               \cup {"IdentifierDeclarator", "GenericSelectionExpression"}
                 => Len(tree[n].kids) >= 1
      BY <3>2, Zenon DEF HasChildren
    <3> QED
      BY <3>1, <3>2, <3>3
  <2>4. <<Visit(n, 1)>> \in Seq(C)
    BY <1>7, <2>3
  <2> QED
    BY <1>3, <1>5, <1>14, <2>2, <2>4 DEF Catalog_IdentifierDeclarator
<1>15. CASE Catalog_IdentifierName(c, n)
  <2>1. tree[n].name \in Names
    BY <1>1, <1>8, <1>15, TreeFacts DEF Catalog_IdentifierName, NamingKinds
  <2>2. LevelsOK'
    BY <1>1, <1>15, <2>1, CatalogOfNames DEF Catalog_IdentifierName
  <2> QED
    BY <1>3, <1>5, <1>6, <1>15, <2>2 DEF Catalog_IdentifierName
<1>16. CASE Catalog_AmbiguousTypeReference(c, n)
  BY <1>3, <1>4, <1>5, <1>6, <1>16 DEF Catalog_AmbiguousTypeReference
<1>17. CASE Catalog_AmbiguousExpression(c, n)
  <2> DEFINE expr == tree[n].kids[ExpressionReading]
  <2>1. /\ n \in 1 .. Len(tree)
        /\ HasChildren(tree, n)
        /\ tree[n].kind \in AmbiguousExpressions
    BY <1>8, <1>17 DEF Catalog_AmbiguousExpression
  <2>2. expr \in 1 .. Len(tree) /\ 2 \in 1 .. Len(tree[expr].kids)
    BY <1>1, <2>1, ExpressionOperands
  <2>3. <<Visit(expr, 2)>> \in Seq(C)
    BY <1>7, <2>2, Zenon
  <2> QED
    BY <1>3, <1>4, <1>5, <1>17, <2>3 DEF Catalog_AmbiguousExpression
<1>18. CASE Catalog_AmbiguousStatement(c, n)
  <2> DEFINE expr == tree[tree[n].kids[ExpressionReading]].kids[1]
  <2>1. /\ n \in 1 .. Len(tree)
        /\ HasChildren(tree, n)
        /\ tree[n].kind \in AmbiguousStatements
    BY <1>8, <1>18 DEF Catalog_AmbiguousStatement
  <2>2. expr \in 1 .. Len(tree) /\ 2 \in 1 .. Len(tree[expr].kids)
    BY <1>1, <2>1, StatementOperands
  <2>3. <<Visit(expr, 2)>> \in Seq(C)
    BY <1>7, <2>2, Zenon
  <2> QED
    BY <1>3, <1>4, <1>5, <1>18, <2>3 DEF Catalog_AmbiguousStatement
<1>19. CASE Catalog_Children(c, n)
  <2>1. visitChildren(n) \in Seq(C)
    BY <1>1, <1>8, <1>19, VisitChildrenIsOnTree DEF Catalog_Children
  <2> QED
    BY <1>3, <1>4, <1>5, <1>19, <2>1 DEF Catalog_Children
<1> QED
  BY <1>9, <1>10, <1>11, <1>12, <1>13, <1>14, <1>15, <1>16, <1>17, <1>18, <1>19
     DEF CatalogStep

-----------------------------------------------------------------------------
(* Replacing an ambiguous node.                                            *)

Overwrite(t, n, i, m) == [t EXCEPT ![n].kids[i] = m]

LEMMA OverwrittenNodes ==
  ASSUME NEW t, IsTree(t), NEW n \in 1 .. Len(t),
         NEW i \in 1 .. Len(t[n].kids), NEW m \in 1 .. Len(t)
  PROVE  LET u == Overwrite(t, n, i, m)
         IN  /\ u \in Seq(Nodes)
             /\ Len(u) = Len(t)
             /\ \A k \in 1 .. Len(t) :
                   /\ u[k].kind = t[k].kind
                   /\ u[k].name = t[k].name
                   /\ Len(u[k].kids) = Len(t[k].kids)
                   /\ \A j \in 1 .. Len(t[k].kids) :
                         u[k].kids[j] \in {t[k].kids[j], m}
             /\ \A k \in 1 .. Len(t) : k # n => u[k] = t[k]
             /\ \A j \in 1 .. Len(t[n].kids) :
                   j # i => u[n].kids[j] = t[n].kids[j]
             /\ u[n].kids[i] = m
<1> DEFINE u == Overwrite(t, n, i, m)
<1> DEFINE v == [t[n] EXCEPT !.kids[i] = m]
<1>1. /\ t \in Seq(Nodes)
      /\ Len(t) \in Nat
  BY TreeFacts DEF IsTree
<1>2. t[n] \in Nodes
  BY <1>1, Element
<1>3. /\ t[n].kids \in Seq(Nat)
      /\ Len(t[n].kids) \in Nat
      /\ m \in Nat
  BY <1>1, <1>2 DEF Nodes
<1>4. [t[n].kids EXCEPT ![i] = m] \in Seq(Nat)
  BY <1>3
<1>5. v \in Nodes
  BY <1>2, <1>4 DEF Nodes
<1>6. /\ v.kind = t[n].kind
      /\ v.name = t[n].name
      /\ v.kids = [t[n].kids EXCEPT ![i] = m]
  BY <1>2 DEF Nodes
<1> HIDE DEF v
<1>7. u = [t EXCEPT ![n] = v]
  BY DEF v, Overwrite
<1> HIDE DEF u
<1>8. u \in Seq(Nodes) /\ Len(u) = Len(t)
  BY <1>1, <1>5, <1>7
<1>10. /\ \A k \in 1 .. Len(t) : k # n => u[k] = t[k]
       /\ u[n] = v
  BY <1>1, <1>7
<1> DEFINE kids == t[n].kids
           new == [kids EXCEPT ![i] = m]
<1>12. /\ u[n].kids = new /\ v.kids = new
       /\ kids \in Seq(Nat) /\ Len(kids) \in Nat /\ i \in 1 .. Len(kids) /\ m \in Nat
  BY <1>3, <1>6, <1>10
<1>13. /\ Len(new) = Len(kids) /\ new[i] = m
       /\ \A j \in 1 .. Len(kids) : j # i => new[j] = kids[j]
  <2> HIDE DEF kids
  <2> QED
    BY <1>12
<1> HIDE DEF new, kids
<1>11. /\ u[n].kids[i] = m
       /\ \A j \in 1 .. Len(t[n].kids) :
             j # i => u[n].kids[j] = t[n].kids[j]
  BY <1>12, <1>13, Zenon DEF kids
<1>9. ASSUME NEW k \in 1 .. Len(t)
      PROVE  /\ u[k].kind = t[k].kind
             /\ u[k].name = t[k].name
             /\ Len(u[k].kids) = Len(t[k].kids)
             /\ \A j \in 1 .. Len(t[k].kids) :
                   u[k].kids[j] \in {t[k].kids[j], m}
  <2>1. CASE k = n
    <3>1. u[k] = v
      BY <1>10, <2>1, Zenon
    <3>2. Len(v.kids) = Len(t[n].kids)
      BY <1>12, <1>13, Zenon DEF kids
    <3>3. \A j \in 1 .. Len(t[n].kids) : v.kids[j] \in {t[n].kids[j], m}
      BY <1>12, <1>13, Zenon DEF kids
    <3> QED
      BY <1>6, <2>1, <3>1, <3>2, <3>3, Zenon
  <2>2. CASE k # n
    <3>1. u[k] = t[k]
      BY <1>10, <2>2, Zenon
    <3> QED
      BY <3>1, Zenon
  <2> QED
    BY <2>1, <2>2, Zenon
<1> QED
  BY <1>8, <1>9, <1>10, <1>11 DEF u

(* A child that is ambiguous is overwritten by another node of the tree.   *)
LEMMA OverwrittenTree ==
  ASSUME NEW t, IsTree(t), NEW n \in 1 .. Len(t),
         NEW i \in 1 .. Len(t[n].kids), NEW m \in 1 .. Len(t),
         t[n].kids[i] \in 1 .. Len(t),
         t[t[n].kids[i]].kind \in AmbiguousKinds
  PROVE  LET u == Overwrite(t, n, i, m)
         IN  /\ IsTree(u)
             /\ Len(u) = Len(t)
             /\ \A k \in 1 .. Len(t) : /\ u[k].kind = t[k].kind
                                       /\ Len(u[k].kids) = Len(t[k].kids)
             /\ CallsOn(u) = CallsOn(t)
<1> DEFINE u == Overwrite(t, n, i, m)
<1>0. /\ u \in Seq(Nodes)
      /\ Len(u) = Len(t)
      /\ \A k \in 1 .. Len(t) :
               /\ u[k].kind = t[k].kind
               /\ u[k].name = t[k].name
               /\ Len(u[k].kids) = Len(t[k].kids)
               /\ \A j \in 1 .. Len(t[k].kids) :
                     u[k].kids[j] \in {t[k].kids[j], m}
      /\ \A k \in 1 .. Len(t) : k # n => u[k] = t[k]
      /\ \A j \in 1 .. Len(t[n].kids) :
               j # i => u[n].kids[j] = t[n].kids[j]
  BY OverwrittenNodes
<1> HIDE DEF u
<1>1. /\ u \in Seq(Nodes)
      /\ Len(u) = Len(t)
  BY <1>0
<1>2. \A k \in 1 .. Len(t) :
               /\ u[k].kind = t[k].kind
               /\ u[k].name = t[k].name
               /\ Len(u[k].kids) = Len(t[k].kids)
               /\ \A j \in 1 .. Len(t[k].kids) :
                     u[k].kids[j] \in {t[k].kids[j], m}
  BY <1>0
<1>3. /\ Len(t) \in Nat
      /\ Len(t) > 0
      /\ Holder \in 1 .. Len(t)
      /\ Len(t[Holder].kids) = 1
      /\ t[Holder].kind = "SyntaxTree"
  BY HolderFacts, TreeFacts DEF IsTree
<1>4. ASSUME NEW k \in 1 .. Len(u)
      PROVE  /\ \A j \in 1 .. Len(u[k].kids) : u[k].kids[j] \in 0 .. Len(u)
             /\ u[k].kind \in AmbiguousKinds =>
                   /\ Len(u[k].kids) = 2
                   /\ Null \notin Readings(u, k)
                   /\ u[k].name \in Names
             /\ u[k].kind \in NamingKinds => u[k].name \in Names
             /\ u[k].kind = "TranslationUnit" => u[Holder].kids[1] = k
  <2>1. k \in 1 .. Len(t)
    BY <1>1
  <2>2. \A j \in 1 .. Len(u[k].kids) : u[k].kids[j] \in 0 .. Len(u)
    <3>1. m \in 0 .. Len(u)
      BY <1>1, <1>3
    <3>2. \A j \in 1 .. Len(t[k].kids) : t[k].kids[j] \in 0 .. Len(u)
      BY <1>1, <2>1, TreeFacts
    <3> QED
      BY <1>2, <2>1, <3>1, <3>2
  <2>3. ASSUME u[k].kind \in AmbiguousKinds
        PROVE  /\ Len(u[k].kids) = 2
               /\ Null \notin Readings(u, k)
               /\ u[k].name \in Names
    <3>1. t[k].kind \in AmbiguousKinds
      BY <1>2, <2>1, <2>3
    <3>2. /\ Len(t[k].kids) = 2
          /\ t[k].kids[1] \in 1 .. Len(t)
          /\ t[k].kids[2] \in 1 .. Len(t)
          /\ t[k].name \in Names
      BY <2>1, <3>1, TreeFacts DEF TypeReading, ExpressionReading
    <3>3. u[k].kids[1] \in 1 .. Len(t) /\ u[k].kids[2] \in 1 .. Len(t)
      <4>1. /\ u[k].kids[1] \in {t[k].kids[1], m}
            /\ u[k].kids[2] \in {t[k].kids[2], m}
        <5>1. \A j \in 1 .. 2 : u[k].kids[j] \in {t[k].kids[j], m}
          BY <1>2, <2>1, <3>2
        <5>2. 1 \in 1 .. 2 /\ 2 \in 1 .. 2
          OBVIOUS
        <5> QED
          BY <5>1, <5>2, Zenon
      <4> QED
        BY <3>2, <4>1
    <3>4. u[k].kids[1] # Null /\ u[k].kids[2] # Null
      <4>1. Null \notin 1 .. Len(t)
        BY <1>3 DEF Null
      <4> QED
        BY <3>3, <4>1, Zenon
    <3> QED
      BY <1>2, <2>1, <3>2, <3>4 DEF Readings, TypeReading, ExpressionReading
  <2>4. u[k].kind \in NamingKinds => u[k].name \in Names
    BY <1>2, <2>1, TreeFacts
  <2>5. ASSUME u[k].kind = "TranslationUnit"
        PROVE  u[Holder].kids[1] = k
    <3>1. t[k].kind = "TranslationUnit"
      BY <1>2, <2>1, <2>5
    <3>2. t[Holder].kids[1] = k
      BY <2>1, <3>1, TreeFacts
    <3>3. t[n].kids[i] # k
      BY <3>1 DEF AmbiguousKinds, AmbiguousExpressions, AmbiguousStatements,
                  AmbiguousTypeReferences
    <3>4. CASE n = Holder
      BY <1>0, <1>3, <3>2, <3>3, <3>4
    <3>5. CASE n # Holder
      <4>1. u[Holder] = t[Holder]
        BY <1>0, <1>3, <3>5
      <4> QED
        BY <3>2, <4>1
    <3> QED
      BY <3>4, <3>5
  <2> QED
    BY <2>2, <2>3, <2>4, <2>5
<1>5. /\ Len(u) > 0
      /\ Len(u[Holder].kids) = 1
      /\ u[Holder].kind = "SyntaxTree"
  BY <1>1, <1>2, <1>3
<1>6. IsTree(u)
  BY <1>1, <1>4, <1>5 DEF IsTree
<1>7. CallsOn(u) = CallsOn(t)
  BY <1>1, <1>2 DEF CallsOn
<1> QED
  BY <1>1, <1>2, <1>6, <1>7 DEF u

LEMMA DisambiguateKeepsInvariant ==
  ASSUME IInv, DisambiguateStep,
         UNCHANGED <<original, optionVars, diagnostics_>>
  PROVE  IInv'
<1> DEFINE c == Head(todo)
           n == Child(c)
           C == CallsOn(tree)
<1>1. /\ LevelsOK
      /\ IsTree(tree)
      /\ todo \in Seq(C)
      /\ todo # <<>>
      /\ pendingAmbigs \in Nat
      /\ diagnostics_ \in Nat
  BY InvariantOfLevels DEF IInv, TypeOK, DisambiguateStep
<1>2. c \in C
  BY <1>1
<1>3. /\ c.of \in 1 .. Len(tree)
      /\ c.at \in 1 .. Len(tree[c.of].kids)
      /\ n # Null => n \in 1 .. Len(tree)
  BY <1>1, <1>2, CallFacts
<1>4. ASSUME NEW cs \in Seq(C), Calls(cs)
      PROVE  todo' \in Seq(C)
  BY <1>1, <1>4, CallsThenRest DEF Calls
<1>5. ASSUME UNCHANGED catalogVars
      PROVE  LevelsOK'
  BY <1>1, <1>5 DEF LevelsOK, catalogVars, Root
<1>6. ASSUME tree' = tree, LevelsOK', todo' \in Seq(C),
             pendingAmbigs' \in Nat, stage' \in {"undefined", stage}
      PROVE  IInv'
  <2>1. stage \in {"parsed", "cataloguing", "disambiguating", "built",
                   "undefined"}
    BY DEF IInv, TypeOK
  <2> QED
    BY <1>1, <1>6, <2>1, TreeUnchanged DEF optionVars
<1>7. <<>> \in Seq(C)
  OBVIOUS
<1>8. CASE NullDereference(c)
  BY <1>1, <1>5, <1>6, <1>8 DEF NullDereference
<1>9. CASE Disambiguate_Null(c)
  BY <1>1, <1>4, <1>5, <1>6, <1>7, <1>9 DEF Disambiguate_Null
<1>10. CASE Disambiguate_ExitLevel(c)
  <2>1. LevelsOK'
    BY <1>1, <1>10, ExitALevel DEF Disambiguate_ExitLevel
  <2> QED
    BY <1>1, <1>4, <1>6, <1>7, <1>10, <2>1 DEF Disambiguate_ExitLevel
<1>11. CASE Keep(c, n)
  <2> DEFINE m == tree[n].kids[ReadingFor(Disambiguation(n))]
  <2>1. /\ n \in 1 .. Len(tree)
        /\ tree[n].kind \in AmbiguousKinds
        /\ tree[c.of].kids[c.at] \in 1 .. Len(tree)
        /\ tree[tree[c.of].kids[c.at]].kind \in AmbiguousKinds
    <3>1. n # Null /\ tree[n].kind \in KindsFor(c.how)
      BY <1>11 DEF Keep, Asked, AtAmbiguity
    <3>2. KindsFor(c.how) \subseteq AmbiguousKinds
      BY DEF KindsFor, AmbiguousKinds
    <3> QED
      BY <1>3, <3>1, <3>2 DEF Child
  <2>2. m \in 1 .. Len(tree)
    BY <1>1, <2>1, TreeFacts DEF ReadingFor
  <2>3. tree' = Overwrite(tree, c.of, c.at, m)
    BY <1>11 DEF Keep, Overwrite
  <2> HIDE DEF m
  <2>4. /\ IsTree(tree')
        /\ Len(tree') = Len(tree)
        /\ \A k \in 1 .. Len(tree) : /\ tree'[k].kind = tree[k].kind
                                     /\ Len(tree'[k].kids) = Len(tree[k].kids)
        /\ CallsOn(tree') = C
    <3>1. /\ IsTree(tree)
          /\ c.of \in 1 .. Len(tree)
          /\ c.at \in 1 .. Len(tree[c.of].kids)
      BY <1>1, <1>3
    <3> HIDE DEF c, n, C
    <3>2. /\ IsTree(Overwrite(tree, c.of, c.at, m))
          /\ Len(Overwrite(tree, c.of, c.at, m)) = Len(tree)
          /\ \A k \in 1 .. Len(tree) :
                /\ Overwrite(tree, c.of, c.at, m)[k].kind = tree[k].kind
                /\ Len(Overwrite(tree, c.of, c.at, m)[k].kids) = Len(tree[k].kids)
          /\ CallsOn(Overwrite(tree, c.of, c.at, m)) = CallsOn(tree)
      BY <2>1, <2>2, <3>1, OverwrittenTree, Zenon
    <3> QED
      BY <2>3, <3>2, Zenon DEF C
  <2>5. Visit(c.of, c.at) \in C
    <3>1. c.at \in Nat /\ Len(tree[c.of].kids) \in Nat
      BY <1>1, <1>3, TreeFacts
    <3> QED
      BY <1>3, <3>1, CallIsOnTree DEF Visit, Hows
  <2>6. todo' \in Seq(CallsOn(tree'))
    <3>1. <<Visit(c.of, c.at)>> \in Seq(C)
      BY <2>5
    <3> QED
      BY <1>4, <1>11, <2>4, <3>1 DEF Keep
  <2>7. /\ UNCHANGED <<levels, levelKeys, pendingAmbigs, stage>>
        /\ stage = "disambiguating"
    BY <1>11 DEF Keep, Asked, AtAmbiguity, Disambiguating, catalogVars
  <2>8. TypeOK'
    BY <2>4, <2>6, <2>7 DEF TypeOK, IInv, optionVars
  <2>9. SameShape'
    BY <2>4 DEF SameShape, IInv
  <2>10. original' \in Trees /\ Untouched' /\ OneLevel'
    BY <2>7 DEF IInv, Untouched, OneLevel, Root
  <2> QED
    BY <2>8, <2>9, <2>10 DEF IInv
<1>12. CASE Inconclusive(c, n)
  <2>1. pendingAmbigs' \in Nat
    BY <1>1, <1>12 DEF Inconclusive
  <2>2. todo' \in Seq(C)
    BY <1>4, <1>7, <1>12 DEF Inconclusive
  <2>3. tree' = tree /\ stage' = stage /\ LevelsOK'
    BY <1>1, <1>5, <1>12 DEF Inconclusive
  <2> HIDE DEF C
  <2> QED
    BY <1>6, <2>1, <2>2, <2>3
<1>13. CASE Escape(c, n)
  BY <1>1, <1>4, <1>5, <1>6, <1>7, <1>13 DEF Escape
<1>14. CASE Disambiguate_NoLevel(c, n)
  BY <1>1, <1>5, <1>6, <1>14 DEF Disambiguate_NoLevel
<1>15. CASE Disambiguate_Node(c, n)
  <2>1. n \in 1 .. Len(tree)
    BY <1>3, <1>15 DEF Disambiguate_Node
  <2>2. Handler(n) \in Seq(C)
    BY <2>1, HandlerIsOnTree
  <2>3. LevelsOK'
    BY <1>1, <1>5, <1>15, EnterLevel DEF Disambiguate_Node
  <2> QED
    BY <1>1, <1>4, <1>6, <1>15, <2>2, <2>3 DEF Disambiguate_Node
<1>16. \/ NullDereference(c)
       \/ Disambiguate_Null(c)
       \/ Disambiguate_ExitLevel(c)
       \/ Keep(c, n)
       \/ Inconclusive(c, n)
       \/ Escape(c, n)
       \/ Disambiguate_NoLevel(c, n)
       \/ Disambiguate_Node(c, n)
  BY DEF DisambiguateStep
<1> QED
  BY <1>8, <1>9, <1>10, <1>11, <1>12, <1>13, <1>14, <1>15, <1>16

(* In every reachable state, whatever the trees and the options, calls are *)
(* to children that nodes have, at most the root has a level, and the tree *)
(* has the shape that the parser gave it.                                  *)
THEOREM ReparserInvariance == Spec => []IInv
<1>1. Init => IInv
  BY InitInvariant
<1>2. IInv /\ [Next]_vars => IInv'
  <2> SUFFICES ASSUME IInv, [Next]_vars
               PROVE  IInv'
    OBVIOUS
  <2>1. CASE UNCHANGED vars
    BY <2>1 DEF vars, optionVars, IInv, TypeOK, SameShape, Untouched, OneLevel,
                Root
  <2>2. CASE Next
    BY <2>2, BuildKeepsInvariant, CatalogKeepsInvariant,
       DisambiguateKeepsInvariant DEF Next
  <2> QED
    BY <2>1, <2>2
<1> QED
  BY <1>1, <1>2, PTL DEF Spec

(* The variables of Reparser have their types.                             *)
THEOREM ReparserTypes == Spec => []TypeOK
<1>1. IInv => TypeOK
  BY DEF IInv
<1> QED
  BY <1>1, ReparserInvariance, PTL

-----------------------------------------------------------------------------
(* Refinement.                                                             *)

LEMMA Teaches ==
  ASSUME DOMAIN levels \subseteq DOMAIN levels',
         \A n \in DOMAIN levels : /\ levels[n].types \subseteq levels'[n].types
                                  /\ levels[n].names \subseteq levels'[n].names
  PROVE  KnownTypes \subseteq KnownTypes' /\ KnownNames \subseteq KnownNames'
  BY DEF KnownTypes, KnownNames

(* A step of the cataloger forgets nothing and leaves the tree alone.      *)
LEMMA CatalogLearns ==
  ASSUME IInv, CatalogStep, UNCHANGED original
  PROVE  /\ stage = "cataloguing"
         /\ stage' \in {"cataloguing", "undefined"}
         /\ UNCHANGED tree
         /\ stage' = "undefined" => UNCHANGED levels
         /\ KnownTypes \subseteq KnownTypes'
         /\ KnownNames \subseteq KnownNames'
<1> DEFINE c == Head(todo)
           n == Child(c)
<1>1. LevelsOK /\ IsTree(tree)
  BY InvariantOfLevels
<1>2. n # Null => n \in 1 .. Len(tree)
  <2>1. todo \in Seq(CallsOn(tree)) /\ todo # <<>>
    BY DEF IInv, TypeOK, CatalogStep
  <2>2. c \in CallsOn(tree)
    BY <2>1
  <2> QED
    BY <1>1, <2>2, CallFacts
<1>3. CASE \/ Catalog_TypedefName(c, n)
           \/ Catalog_IdentifierDeclarator(c, n)
           \/ Catalog_IdentifierName(c, n)
  <2>1. /\ stage = "cataloguing"
        /\ UNCHANGED <<tree, stage>>
        /\ HasLevel
        /\ n # Null
        /\ tree[n].kind \in NamingKinds
        /\ catalogTypeName(tree[n].name) \/ catalogName(tree[n].name)
    BY <1>3 DEF Catalog_TypedefName, Catalog_IdentifierDeclarator,
                Catalog_IdentifierName, AtNode, Cataloguing, NamingKinds
  <2>2. tree[n].name \in Names
    BY <1>1, <1>2, <2>1, TreeFacts
  <2>3. /\ DOMAIN levels' = DOMAIN levels
        /\ levels[Root].types \subseteq levels'[Root].types
        /\ levels[Root].names \subseteq levels'[Root].names
    BY <1>1, <2>1, <2>2, CatalogOfNames
  <2>4. DOMAIN levels \subseteq {Root}
    BY <1>1 DEF LevelsOK
  <2> QED
    BY <2>1, <2>3, <2>4, Teaches
<1>4. CASE Catalog_TranslationUnit(c, n)
  <2>1. /\ stage = "cataloguing"
        /\ UNCHANGED <<tree, stage>>
        /\ createLevelAndEnter(n)
    BY <1>4 DEF Catalog_TranslationUnit, AtNode, Cataloguing
  <2>2. /\ DOMAIN levels \subseteq DOMAIN levels'
        /\ \A k \in DOMAIN levels : levels'[k] = levels[k]
    BY <2>1 DEF createLevelAndEnter, levelExists
  <2> QED
    BY <2>1, <2>2, Teaches
<1>5. CASE \/ Catalog_Null(c)
           \/ Catalog_ExitLevel(c)
           \/ Catalog_NoLevel(c, n)
           \/ Catalog_AmbiguousTypeReference(c, n)
           \/ Catalog_AmbiguousExpression(c, n)
           \/ Catalog_AmbiguousStatement(c, n)
           \/ Catalog_Children(c, n)
  <2>1. /\ stage = "cataloguing"
        /\ UNCHANGED <<tree, levels>>
        /\ stage' \in {stage, "undefined"}
    BY <1>5 DEF Catalog_Null, Catalog_ExitLevel, Catalog_NoLevel,
                Catalog_AmbiguousTypeReference, Catalog_AmbiguousExpression,
                Catalog_AmbiguousStatement, Catalog_Children, AtNode,
                Cataloguing, catalogVars, exitLevel
  <2> QED
    BY <2>1, Teaches
<1> QED
  BY <1>3, <1>4, <1>5 DEF CatalogStep

(* What is known is what the level of the root knows.                      *)
LEMMA Known ==
  ASSUME IInv, HasLevel
  PROVE  /\ KnownTypes = currentLevel.types
         /\ KnownNames = currentLevel.names
<1>1. DOMAIN levels = {Root} /\ CurrentKey = Root
  BY InvariantOfLevels, CurrentLevel
<1> QED
  BY <1>1 DEF KnownTypes, KnownNames, currentLevel

(* A step of the disambiguator decides one ambiguity, or changes nothing   *)
(* that Disambiguation speaks of.                                          *)
LEMMA DisambiguatorDecides ==
  ASSUME IInv, DisambiguateStep
  PROVE  \/ D!Next
         \/ UNCHANGED <<tree, KnownTypes, KnownNames, Deciding>>
<1> DEFINE c == Head(todo)
           n == Child(c)
<1>1. CASE Keep(c, n)
  <2>1. c.of \in 1 .. Len(tree) /\ c.at \in 1 .. Len(tree[c.of].kids)
    <3>1. todo \in Seq(CallsOn(tree)) /\ todo # <<>>
      BY DEF IInv, TypeOK, DisambiguateStep
    <3>2. c \in CallsOn(tree)
      BY <3>1
    <3>3. IsTree(tree)
      BY InvariantOfLevels
    <3> HIDE DEF c
    <3> QED
      BY <3>2, <3>3, CallFacts, Zenon
  <2>2. n = tree[c.of].kids[c.at]
    BY DEF Child
  <2> HIDE DEF c, n
  <2>3. /\ n # Null /\ tree[n].kind \in KindsFor(c.how)
        /\ stage = "disambiguating" /\ HasLevel
    BY <1>1, Zenon DEF Keep, Asked, AtAmbiguity, Disambiguating
  <2>4. tree[n].kind \in AmbiguousKinds
    BY <2>3 DEF KindsFor, AmbiguousKinds
  <2>5. Disambiguation(n) \in {"type", "expression"}
    BY <1>1 DEF Keep, ActsUpon
  <2>6. /\ UNCHANGED <<levels, stage>>
        /\ tree' = [tree EXCEPT ![c.of].kids[c.at] =
                      tree[n].kids[ReadingFor(Disambiguation(n))]]
    BY <1>1 DEF Keep, catalogVars
  <2>7. /\ tree[n].name \in KnownTypes \cup KnownNames
        /\ ReadingFor(Disambiguation(n)) = D!Reading(tree[n].name)
    <3>1. KnownTypes = currentLevel.types /\ KnownNames = currentLevel.names
      BY <2>3, Known
    <3> QED
      BY <2>5, <3>1 DEF Disambiguation, containsTypeName, containsName, ReadingFor, D!Reading,
                        TypeReading, ExpressionReading
  <2>8. Deciding /\ UNCHANGED <<KnownTypes, KnownNames, Deciding>>
    BY <2>3, <2>6 DEF Deciding, KnownTypes, KnownNames
  <2>9. D!Decide(c.of, c.at)
    BY <2>2, <2>4, <2>6, <2>7, <2>8, Zenon DEF D!Decide
  <2>10. tree[c.of].kids[c.at] # 0
    BY <2>2, <2>3 DEF Null
  <2> QED
    BY <2>1, <2>9, <2>10, Zenon DEF D!Next
<1>2. CASE \/ NullDereference(c)
           \/ Disambiguate_Null(c)
           \/ Disambiguate_ExitLevel(c)
           \/ Inconclusive(c, n)
           \/ Escape(c, n)
           \/ Disambiguate_NoLevel(c, n)
           \/ Disambiguate_Node(c, n)
  <2>1. /\ stage = "disambiguating"
        /\ stage' \in {"disambiguating", "undefined"}
        /\ UNCHANGED <<tree, levels>>
    BY <1>2 DEF NullDereference, Disambiguate_Null, Disambiguate_ExitLevel,
                Inconclusive, Escape, Disambiguate_NoLevel, Disambiguate_Node,
                Asked, AtAmbiguity, Disambiguating, catalogVars, exitLevel,
                enterLevel
  <2> QED
    BY <2>1 DEF Deciding, KnownTypes, KnownNames
<1> HIDE DEF c, n
<1> QED
  BY <1>1, <1>2, Zenon DEF DisambiguateStep, c, n

(* The reparser implements Disambiguation: whatever the trees, the names   *)
(* and the options, no ambiguity is decided before the catalog is complete *)
(* or against what it says, and nothing else of the tree changes.          *)
THEOREM ReparserImplementsDisambiguation == Spec => DisambiguationIsSound
<1>1. Init => D!Init
  BY DEF Init, D!Init, Deciding, KnownTypes, KnownNames, NoLevels
<1>2. ASSUME IInv, [Next]_vars
      PROVE  [D!Next]_<<tree, KnownTypes, KnownNames, Deciding>>
  <2>1. CASE UNCHANGED vars
    BY <2>1 DEF vars, KnownTypes, KnownNames, Deciding
  <2>2. CASE DiagnoseAmbiguities \/ LeaveAmbiguities \/ AcquireCatalog
    <3>1. /\ stage \in {"parsed", "cataloguing"}
          /\ stage' \in {"built", "disambiguating"}
          /\ UNCHANGED <<tree, levels>>
      BY <2>2 DEF DiagnoseAmbiguities, LeaveAmbiguities, AcquireCatalog,
                  catalogVars
    <3>2. D!StopLearning
      BY <3>1 DEF D!StopLearning, Deciding, KnownTypes, KnownNames
    <3> QED
      BY <3>2 DEF D!Next
  <2>3. CASE Reparse \/ Disambiguated
    BY <2>3 DEF Reparse, Disambiguated, catalogVars, Deciding, KnownTypes,
                KnownNames
  <2>4. CASE CatalogStep /\ UNCHANGED original
    <3>1. /\ stage = "cataloguing"
          /\ stage' \in {"cataloguing", "undefined"}
          /\ UNCHANGED tree
          /\ stage' = "undefined" => UNCHANGED levels
          /\ KnownTypes \subseteq KnownTypes'
          /\ KnownNames \subseteq KnownNames'
      BY <1>2, <2>4, CatalogLearns
    <3>2. CASE stage' = "undefined"
      <4>1. D!StopLearning
        BY <3>1, <3>2 DEF D!StopLearning, Deciding, KnownTypes, KnownNames
      <4> QED
        BY <4>1 DEF D!Next
    <3>3. CASE stage' = "cataloguing"
      <4>1. D!Learn
        BY <3>1, <3>3 DEF D!Learn, Deciding
      <4> QED
        BY <4>1 DEF D!Next
    <3> QED
      BY <3>1, <3>2, <3>3
  <2>5. CASE DisambiguateStep
    BY <1>2, <2>5, DisambiguatorDecides
  <2> QED
    BY <1>2, <2>1, <2>2, <2>3, <2>4, <2>5 DEF Next
<1> QED
  BY <1>1, <1>2, ReparserInvariance, PTL DEF Spec, DisambiguationIsSound, D!Spec
===============================================================================
