------------------------------ MODULE ParserSteps ------------------------------
(***************************************************************************)
(* The kinds of step that the parser takes, and lemmas that put the steps  *)
(* of the helpers and of each routine, of the statements, the expressions  *)
(* and the declarations, into their kinds.  The invariants are proved once *)
(* for each kind instead of once for each routine.                         *)
(***************************************************************************)
EXTENDS Parser, TLAPS, SequenceTheorems

-----------------------------------------------------------------------------
(* Kinds of step.                                                          *)

(* What the steps of a routine do to the diagnostics.                      *)
Reports ==
  /\ diags \subseteq diags'
  /\ diags' \subseteq Diagnostic
  /\ diags' # diags => backtracker = <<>>
  /\ delayedDiags' \subseteq Diagnostic
  /\ omitted' \subseteq Diagnostic
  /\ failedAsserts' \subseteq AssertedRoutines

Data ==
  /\ Reports
  /\ node' \in Seq(Words)
  /\ mode' \in Modes
  /\ recovered' \in BOOLEAN
  /\ retainedAmbiguityDiags' \in Seq(Ambiguity)
  /\ ambiguities' \subseteq Ambiguity

MovesOn ==
  /\ curTkIdx' \in Nat
  /\ curTkIdx <= curTkIdx'
  /\ curTkIdx' <= Len(tks) + 1
  /\ tks' = tks

(* The entry that runs is not the end of a C++ object's scope.             *)
Running ==
  /\ todo # <<>>
  /\ Head(todo).do \notin Objects

(* A routine replaces itself by the work of its body.                      *)
WorkStep ==
  /\ Running
  /\ \E items \in Seq(PlainItem) : todo' = items \o Tail(todo)
  /\ UNCHANGED <<backtracker, IDsForDelay>>
  /\ MovesOn
  /\ Data

(* Nothing changes in the call stack.                                      *)
IdleStep ==
  /\ UNCHANGED <<todo, backtracker, IDsForDelay>>
  /\ MovesOn
  /\ Data

(* A routine constructs a Backtracker.                                     *)
AtMostOneDiscarder == {<<>>} \cup {<<Call(d)>> : d \in Discarders}
BeginStep ==
  /\ Running
  /\ \E items \in Seq(PlainItem),
        last \in AtMostOneDiscarder,
        alternative \in Routines, rest \in Seq(PlainItem) :
       /\ todo' = (items \o last) \o <<TryOr(alternative)>> \o rest
                    \o Tail(todo)
       /\ backtracker' = Append(backtracker,
                                [refTkIdx |-> curTkIdx,
                                 level |-> Len(todo) + Len(rest),
                                 omitted |-> omitted,
                                 ambiguities |-> ambiguities,
                                 recovered |-> recovered])
  /\ InTokens
  /\ UNCHANGED <<IDsForDelay, diags>>
  /\ MovesOn
  /\ Data

(* A Backtracker is destructed at the end of its scope.                    *)
KeepStep ==
  /\ todo # <<>>
  /\ Head(todo).do = "Backtracker"
  /\ todo' = Tail(todo)
  /\ backtracker' = Chained
  /\ UNCHANGED <<IDsForDelay, diags>>
  /\ MovesOn
  /\ Data

(* The routine above it discards it.                                       *)
KeepEarlyStep ==
  /\ todo # <<>>
  /\ Head(todo).do \in Discarders
  /\ \E items \in Seq(PlainItem) : todo' = items \o Tail(Tail(todo))
  /\ backtracker' = Chained
  /\ UNCHANGED <<IDsForDelay, diags>>
  /\ MovesOn
  /\ Data

(* The routine above it takes its alternative away.                        *)
DisarmStep ==
  /\ todo # <<>>
  /\ Head(todo).do \in Discarders
  /\ \E item \in PlainItem : todo' = <<item, TryOr("")>> \o Tail(Tail(todo))
  /\ UNCHANGED <<backtracker, IDsForDelay, diags>>
  /\ MovesOn
  /\ Data

(* Backtracker::backtrack.                                                 *)
GiveUpStep ==
  /\ todo # <<>>
  /\ Head(todo).do = "Backtracker"
  /\ Arg \in Routines
  /\ todo' = <<Call(Arg)>> \o Tail(todo)
  /\ backtracker' = Chained
  /\ curTkIdx' = (IF InTokens THEN Current.refTkIdx ELSE Len(tks))
  /\ omitted' = Current.omitted
  /\ ambiguities' = Current.ambiguities
  /\ recovered' = Current.recovered
  /\ mode' = "run"
  /\ UNCHANGED <<tks, node, diags, delayedDiags, failedAsserts, IDsForDelay,
                 retainedAmbiguityDiags>>

(* A DiagnosticsReporterDelayer is constructed, and destructed.            *)
DelayStep ==
  /\ Running
  /\ \E items \in Seq(PlainItem), id \in DiagnosticIds :
       /\ todo' = items \o <<CallIn("~DiagnosticsReporterDelayer", id)>>
                    \o Tail(todo)
       /\ IDsForDelay' = IDsForDelay \cup {id}
  /\ UNCHANGED backtracker
  /\ MovesOn
  /\ Data

UndelayStep ==
  /\ todo # <<>>
  /\ Head(todo).do = "~DiagnosticsReporterDelayer"
  /\ todo' = Tail(todo)
  /\ IDsForDelay' = IDsForDelay \ {Arg}
  /\ UNCHANGED backtracker
  /\ MovesOn
  /\ Data

Step ==
  \/ WorkStep \/ IdleStep \/ BeginStep \/ KeepStep \/ KeepEarlyStep
  \/ DisarmStep \/ GiveUpStep \/ DelayStep \/ UndelayStep

-----------------------------------------------------------------------------
(* Names.  The routines are many: their names are looked up group by group. *)

(* No name is of two groups, and the objects are not routines.             *)
LEMMA NamesDiffer ==
  /\ \A r \in Routines : r \notin Objects \cup Discarders
                            \cup HigherOrder \cup NAryRoutines
  /\ \A r \in HigherOrder \cup NAryRoutines :
       r \notin Objects \cup Discarders
  /\ HigherOrder \cap NAryRoutines = {}
  /\ Objects \cap Discarders = {}
<1>1. \A r \in MachineRoutines : r \notin Objects \cup Discarders
                                    \cup HigherOrder \cup NAryRoutines
  BY DEF MachineRoutines, Objects, Discarders, HigherOrder, NAryRoutines
<1>2. \A r \in StatementRoutines : r \notin Objects \cup Discarders
                                      \cup HigherOrder \cup NAryRoutines
  BY DEF StatementRoutines, Objects, Discarders, HigherOrder, NAryRoutines
<1>3. \A r \in ExpressionRoutines : r \notin Objects \cup Discarders
                                       \cup HigherOrder \cup NAryRoutines
  BY DEF ExpressionRoutines, Objects, Discarders, HigherOrder, NAryRoutines
<1>4. \A r \in DeclarationRoutines : r \notin Objects \cup Discarders
                                        \cup HigherOrder \cup NAryRoutines
  BY DEF DeclarationRoutines, Objects, Discarders, HigherOrder, NAryRoutines
<1>5. /\ \A r \in HigherOrder \cup NAryRoutines :
            r \notin Objects \cup Discarders
      /\ HigherOrder \cap NAryRoutines = {}
      /\ Objects \cap Discarders = {}
  BY DEF Objects, Discarders, HigherOrder, NAryRoutines
<1> QED
  BY <1>1, <1>2, <1>3, <1>4, <1>5 DEF Routines

(* The type of an entry's argument is known from its name.                 *)
LEMMA ItemTypes ==
  ASSUME NEW it \in Item
  PROVE  /\ it.do \in Routines => it.a \in Arguments /\ it.acc \in Seq(Words)
         /\ it.do \in HigherOrder => it.a \in Routines /\ it.acc \in Seq(Words)
         /\ it.do \in NAryRoutines => it.a \in Cutoffs /\ it.acc \in Seq(Words)
         /\ it.do = "Backtracker" => it.a \in Routines \cup {""}
         /\ it.do \in Routines \cup HigherOrder \cup NAryRoutines
                        \cup Objects \cup Discarders
         /\ it.do \notin Objects \cup Discarders => it \in PlainItem
  BY NamesDiffer DEF Item, PlainItem, ScopeItem, DiscarderItem, Objects

-----------------------------------------------------------------------------
(* What a routine that runs can rely on.                                   *)

(* Before its end the text is read, and only EOF is its last token.        *)
LEMMA CursorMoves ==
  ASSUME TypeOK, InTokens
  PROVE  /\ curTkIdx \in 1 .. Len(tks)
         /\ Len(tks) \in Nat
         /\ tks[Len(tks)] = "EOF"
         /\ Peek # "EOF" => curTkIdx + 2 <= Len(tks) + 1
  <1>1. Len(tks) \in Nat /\ tks[Len(tks)] = "EOF" /\ Len(tks) > 0
    BY ProgramsAssumption DEF TypeOK
  <1> QED
    BY <1>1 DEF TypeOK, InTokens, Peek

(* An entry that runs has a plain argument.                                *)
LEMMA RunsRoutine ==
  ASSUME TypeOK, NEW r \in Routines, Runs(r)
  PROVE  /\ Running
         /\ InTokens
         /\ Arg \in Arguments
         /\ Acc \in Seq(Words)
         /\ Head(todo) \in PlainItem
  <1>1. todo # <<>> /\ Head(todo) \in Item /\ Head(todo).do = r
    BY DEF Runs, TypeOK
  <1> QED
    BY <1>1, ItemTypes, NamesDiffer DEF Running, Runs, Arg, Acc

(* A list, a specifier loop or an asm section has a routine to call.       *)
LEMMA RunsHigherOrder ==
  ASSUME TypeOK, NEW r \in HigherOrder, Runs(r)
  PROVE  /\ Running
         /\ InTokens
         /\ Arg \in Routines
         /\ Acc \in Seq(Words)
         /\ Head(todo) \in PlainItem
  <1>1. todo # <<>> /\ Head(todo) \in Item /\ Head(todo).do = r
    BY DEF Runs, TypeOK
  <1> QED
    BY <1>1, ItemTypes, NamesDiffer DEF Running, Runs, Arg, Acc

(* A binary expression has a cutoff of precedence.                         *)
LEMMA RunsNAry ==
  ASSUME TypeOK, NEW r \in NAryRoutines, Runs(r)
  PROVE  /\ Running
         /\ InTokens
         /\ Arg \in Cutoffs
         /\ Acc \in Seq(Words)
         /\ Head(todo) \in PlainItem
  <1>1. todo # <<>> /\ Head(todo) \in Item /\ Head(todo).do = r
    BY DEF Runs, TypeOK
  <1> QED
    BY <1>1, ItemTypes, NamesDiffer DEF Running, Runs, Arg, Acc

(* A routine that discards a Backtracker of its own.                       *)
LEMMA RunsDiscarder ==
  ASSUME TypeOK, NEW r \in Discarders, Runs(r)
  PROVE  /\ Running
         /\ InTokens
         /\ todo # <<>>
         /\ Head(todo).do \in Discarders
  BY NamesDiffer DEF Runs, Running

(* The first element of a sequence that is not empty.                      *)
LEMMA FirstOfSeq ==
  ASSUME NEW P, NEW s \in Seq(P), s # <<>>
  PROVE  s[1] \in P
  BY HeadTailProperties

(* The kind of the last node is a word.                                    *)
LEMMA NodeIsWords ==
  ASSUME TypeOK
  PROVE  node \in Seq(Words) /\ Kind \in Words
  <1>1. "" \in Words
    BY DEF Words, NodeKinds
  <1>2. node # <<>> => node[1] \in Words
    BY FirstOfSeq DEF TypeOK
  <1> QED
    BY <1>1, <1>2 DEF TypeOK, Kind

-----------------------------------------------------------------------------
(* Reports.                                                                *)

(* A step that reports nothing.                                            *)
LEMMA NoReports ==
  ASSUME TypeOK, UNCHANGED diagVars
  PROVE  Reports
  BY DEF TypeOK, diagVars, Reports

(* What is reported is a diagnostic at a token.                            *)
LEMMA ReportedTypes ==
  ASSUME TypeOK, NEW id \in DiagnosticIds
  PROVE  Reported(id) \in Diagnostic
  <1>1. curTkIdx \in Nat
    BY ProgramsAssumption DEF TypeOK
  <1> QED
    BY <1>1 DEF Reported, Diagnostic

(* DiagnosticsReporter::diagnose, and what it omits and delays.            *)
LEMMA diagnoseReports ==
  ASSUME TypeOK, NEW id \in DiagnosticIds, diagnose(id)
  PROVE  Reports
  BY ReportedTypes DEF TypeOK, diagnose, mightBacktrack, Reports

(* A report under a condition.                                             *)
LEMMA DiagnoseIfReports ==
  ASSUME TypeOK, NEW cond, NEW id, cond => id \in DiagnosticIds,
         DiagnoseIf(cond, id)
  PROVE  Reports
  BY diagnoseReports, NoReports DEF DiagnoseIf

(* A failed PSY_ASSERT.                                                    *)
LEMMA assertFailsReports ==
  ASSUME TypeOK, NEW r \in AssertedRoutines, assertFails(r)
  PROVE  Reports
  BY DEF TypeOK, assertFails, Reports

-----------------------------------------------------------------------------
(* The steps of a routine.                                                 *)

(* There are n tokens to consume, the end of the file being the last.      *)
Consumable(n) == n \in Nat /\ curTkIdx + n <= Len(tks) + 1

(* A token can be consumed, and two if the first is not the last.          *)
LEMMA ConsumableCounts ==
  ASSUME TypeOK
  PROVE  /\ Consumable(0)
         /\ InTokens => Consumable(1)
         /\ InTokens /\ Peek # "EOF" => Consumable(2)
  BY CursorMoves, ProgramsAssumption DEF Consumable, TypeOK

(* A routine that consumes tokens and goes on with items.                  *)
LEMMA ExpandWorks ==
  ASSUME TypeOK, Running, Reports,
         NEW n, Consumable(n),
         NEW items \in Seq(PlainItem),
         NEW kind \in Seq(Words),
         Expand(n, items, kind)
  PROVE  Step
  <1>1. MovesOn
    BY ProgramsAssumption DEF TypeOK, Consumable, Expand, Frame, MovesOn
  <1>2. Data
    BY DEF TypeOK, Expand, Frame, ambigVars, Data
  <1>3. todo' = items \o Tail(todo) /\ UNCHANGED <<backtracker, IDsForDelay>>
    BY DEF Expand, Frame
  <1> QED
    BY <1>1, <1>2, <1>3 DEF WorkStep, Step

(* ... and keeps the node.                                                 *)
LEMMA ContinueWorks ==
  ASSUME TypeOK, Running,
         NEW n, Consumable(n),
         NEW items \in Seq(PlainItem),
         Continue(n, items)
  PROVE  Step
  BY ExpandWorks, NoReports DEF TypeOK, Continue

(* A routine that returns a node.                                          *)
LEMMA ReturnWorks ==
  ASSUME TypeOK, Running,
         NEW n, Consumable(n),
         NEW kind \in Seq(Words),
         Return(n, kind)
  PROVE  Step
  <1>1. <<>> \in Seq(PlainItem)
    OBVIOUS
  <1> QED
    BY <1>1, ExpandWorks, NoReports DEF Return

(* A routine that returns false.                                           *)
LEMMA ReturnFalseWorks ==
  ASSUME TypeOK, Running, Reports,
         NEW n, Consumable(n),
         ReturnFalse(n)
  PROVE  Step
  <1>1. Tail(todo) \in Seq(Item)
    BY DEF TypeOK, Running
  <1>2. <<>> \in Seq(PlainItem) /\ todo' = <<>> \o Tail(todo)
    BY <1>1 DEF ReturnFalse
  <1>3. MovesOn
    BY ProgramsAssumption DEF TypeOK, Consumable, ReturnFalse, Frame, MovesOn
  <1>4. Data
    BY DEF TypeOK, ReturnFalse, Frame, ambigVars, Modes, Data
  <1>5. UNCHANGED <<backtracker, IDsForDelay>>
    BY DEF ReturnFalse, Frame
  <1> QED
    BY <1>2, <1>3, <1>4, <1>5 DEF WorkStep, Step

(* ... with a report,                                                      *)
LEMMA FailWorks ==
  ASSUME TypeOK, Running, NEW id \in DiagnosticIds, Fail(id)
  PROVE  Step
  BY ReturnFalseWorks, diagnoseReports, ConsumableCounts DEF Fail

(* ... and without.                                                        *)
LEMMA FailSilentlyWorks ==
  ASSUME TypeOK, Running, FailSilently
  PROVE  Step
  BY ReturnFalseWorks, NoReports, ConsumableCounts DEF FailSilently

-----------------------------------------------------------------------------
(* The entries that routines put on the call stack.                        *)

(* A call of a routine with an argument,                                   *)
LEMMA CallInPlain ==
  ASSUME NEW r \in Routines, NEW w \in Arguments
  PROVE  CallIn(r, w) \in PlainItem
  BY DEF CallIn, PlainItem

(* ... without one,                                                        *)
LEMMA CallPlain ==
  ASSUME NEW r \in Routines
  PROVE  Call(r) \in PlainItem
  <1>1. "" \in Arguments
    BY DEF Arguments
  <1>2. Call(r) = CallIn(r, "")
    BY DEF Call, CallIn
  <1> QED
    BY <1>1, <1>2, CallInPlain

(* ... with what was parsed so far,                                        *)
LEMMA CallWithPlain ==
  ASSUME NEW r \in Routines, NEW w \in Arguments, NEW words \in Seq(Words)
  PROVE  CallWith(r, w, words) \in PlainItem
  BY DEF CallWith, PlainItem

(* ... with a routine to call,                                             *)
LEMMA CallHigherOrderPlain ==
  ASSUME NEW r \in HigherOrder, NEW callee \in Routines
  PROVE  /\ CallIn(r, callee) \in PlainItem
         /\ \A words \in Seq(Words) : CallWith(r, callee, words) \in PlainItem
  BY DEF CallIn, CallWith, PlainItem

(* ... and with a cutoff.                                                  *)
LEMMA CallNAryPlain ==
  ASSUME NEW r \in NAryRoutines, NEW cutoff \in Cutoffs
  PROVE  /\ CallIn(r, cutoff) \in PlainItem
         /\ \A words \in Seq(Words) : CallWith(r, cutoff, words) \in PlainItem
  BY DEF CallIn, CallWith, PlainItem

(* Matching, skipping and lists.                                           *)
LEMMA MachineItems ==
  /\ \A tkK \in Arguments :
       /\ Match(tkK) \in PlainItem
       /\ MatchOrSkipTo(tkK) \in PlainItem
       /\ OrSkipTo(tkK) \in PlainItem
       /\ OrSkipPast(tkK) \in PlainItem
  /\ OrIgnoreStatement \in PlainItem
  /\ OrProceed \in PlainItem
  /\ \A r \in Routines : CommaSeparatedItems(r) \in PlainItem
  <1>1. {"match", "matchOrSkipTo", "orSkipTo", "orSkipPast", "orProceed",
         "checkStatementParse"} \subseteq Routines
    BY DEF Routines, MachineRoutines
  <1>2. "CommaSeparatedItems" \in HigherOrder
    BY DEF HigherOrder
  <1> QED
    BY <1>1, <1>2, CallPlain, CallInPlain, CallHigherOrderPlain
       DEF Match, MatchOrSkipTo, OrSkipTo, OrSkipPast, OrIgnoreStatement,
           OrProceed, CommaSeparatedItems

(* Statements, and the expressions in them.                                *)
LEMMA StatementItems ==
  /\ \A c \in Arguments : Statement(c) \in PlainItem
  /\ Expression \in PlainItem
  /\ Conditional \in PlainItem
  /\ Assignment \in PlainItem
  /\ End \in PlainItem
  <1>1. {"Statement", "Statement_End", "Expression"} \subseteq Routines
    BY DEF Routines, StatementRoutines, ExpressionRoutines
  <1>2. "NAryExpression" \in NAryRoutines
        /\ {"Conditional", "Assignment"} \subseteq Cutoffs
    BY DEF NAryRoutines, Cutoffs, Precedence
  <1> QED
    BY <1>1, <1>2, CallPlain, CallInPlain, CallNAryPlain
       DEF Statement, Expression, Conditional, Assignment, End

(* Parts of expressions.                                                   *)
LEMMA ExpressionItems ==
  /\ Cast \in PlainItem
  /\ Unary \in PlainItem
  /\ Postfix \in PlainItem
  /\ TypeName \in PlainItem
  /\ FollowOfPrimary \in PlainItem
  /\ AsExpression \in PlainItem
  <1>1. {"Cast", "Unary", "Postfix", "TypeName", "FollowOfPrimary",
         "BecomesExpression"} \subseteq Routines
    BY DEF Routines, ExpressionRoutines, DeclarationRoutines
  <1> QED
    BY <1>1, CallPlain
       DEF Cast, Unary, Postfix, TypeName, FollowOfPrimary, AsExpression

(* Parts of declarations.                                                  *)
LEMMA DeclarationItems ==
  /\ DeclarationOrFunctionDefinition \in PlainItem
  /\ \A variety \in Arguments :
       /\ Declarator(variety) \in PlainItem
       /\ Suffix(variety) \in PlainItem
       /\ MaybeBitfield(variety) \in PlainItem
  /\ TypeQualifiersAndAttributes \in PlainItem
  /\ AttributeSpecifierList \in PlainItem
  /\ MaybeAttributes \in PlainItem
  /\ LabelAndAttributes \in PlainItem
  /\ Initializer \in PlainItem
  <1>1. {"DeclarationOrFunctionDefinition", "Declarator",
         "DirectDeclaratorSuffix", "MaybeBitfield",
         "TypeQualifiersAndAttributes", "AttributeSpecifierList",
         "MaybeAttributes", "LabelAndAttributes", "Initializer"}
          \subseteq Routines
    BY DEF Routines, DeclarationRoutines
  <1> QED
    BY <1>1, CallPlain, CallInPlain
       DEF DeclarationOrFunctionDefinition, Declarator, Suffix, MaybeBitfield,
           TypeQualifiersAndAttributes, AttributeSpecifierList,
           MaybeAttributes, LabelAndAttributes, Initializer

(* Work of up to nine entries.                                             *)
LEMMA Items0 ==
  <<>> \in Seq(PlainItem)
  OBVIOUS

(* ... one entry.                                                          *)
LEMMA Items1 ==
  ASSUME NEW x1 \in PlainItem
  PROVE  <<x1>> \in Seq(PlainItem)
  OBVIOUS

(* ... two.                                                                *)
LEMMA Items2 ==
  ASSUME NEW x1 \in PlainItem, NEW x2 \in PlainItem
  PROVE  <<x1, x2>> \in Seq(PlainItem)
  OBVIOUS

(* ... three.                                                              *)
LEMMA Items3 ==
  ASSUME NEW x1 \in PlainItem, NEW x2 \in PlainItem, NEW x3 \in PlainItem
  PROVE  <<x1, x2, x3>> \in Seq(PlainItem)
  OBVIOUS

(* ... four.                                                               *)
LEMMA Items4 ==
  ASSUME NEW x1 \in PlainItem, NEW x2 \in PlainItem, NEW x3 \in PlainItem,
         NEW x4 \in PlainItem
  PROVE  <<x1, x2, x3, x4>> \in Seq(PlainItem)
  OBVIOUS

(* ... five.                                                               *)
LEMMA Items5 ==
  ASSUME NEW x1 \in PlainItem, NEW x2 \in PlainItem, NEW x3 \in PlainItem,
         NEW x4 \in PlainItem, NEW x5 \in PlainItem
  PROVE  <<x1, x2, x3, x4, x5>> \in Seq(PlainItem)
  OBVIOUS

(* ... six.                                                                *)
LEMMA Items6 ==
  ASSUME NEW x1 \in PlainItem, NEW x2 \in PlainItem, NEW x3 \in PlainItem,
         NEW x4 \in PlainItem, NEW x5 \in PlainItem, NEW x6 \in PlainItem
  PROVE  <<x1, x2, x3, x4, x5, x6>> \in Seq(PlainItem)
  OBVIOUS

(* ... seven.                                                              *)
LEMMA Items7 ==
  ASSUME NEW x1 \in PlainItem, NEW x2 \in PlainItem, NEW x3 \in PlainItem,
         NEW x4 \in PlainItem, NEW x5 \in PlainItem, NEW x6 \in PlainItem,
         NEW x7 \in PlainItem
  PROVE  <<x1, x2, x3, x4, x5, x6, x7>> \in Seq(PlainItem)
  OBVIOUS

(* ... eight.                                                              *)
LEMMA Items8 ==
  ASSUME NEW x1 \in PlainItem, NEW x2 \in PlainItem, NEW x3 \in PlainItem,
         NEW x4 \in PlainItem, NEW x5 \in PlainItem, NEW x6 \in PlainItem,
         NEW x7 \in PlainItem, NEW x8 \in PlainItem
  PROVE  <<x1, x2, x3, x4, x5, x6, x7, x8>> \in Seq(PlainItem)
  OBVIOUS

(* ... nine.                                                               *)
LEMMA Items9 ==
  ASSUME NEW x1 \in PlainItem, NEW x2 \in PlainItem, NEW x3 \in PlainItem,
         NEW x4 \in PlainItem, NEW x5 \in PlainItem, NEW x6 \in PlainItem,
         NEW x7 \in PlainItem, NEW x8 \in PlainItem, NEW x9 \in PlainItem
  PROVE  <<x1, x2, x3, x4, x5, x6, x7, x8, x9>> \in Seq(PlainItem)
  OBVIOUS

(* Work after work.                                                        *)
LEMMA ItemsConcat ==
  ASSUME NEW s \in Seq(PlainItem), NEW t \in Seq(PlainItem)
  PROVE  s \o t \in Seq(PlainItem)
  OBVIOUS

(* Work whose failure ends in ignoreStatement.                             *)
LEMMA ItemsChecked ==
  ASSUME NEW s \in Seq(PlainItem)
  PROVE  Checked(s) \in Seq(PlainItem)
  BY MachineItems, Items1, ItemsConcat DEF Checked

(* Sequences of words, the kinds of nodes.                                 *)
LEMMA Words0 ==
  <<>> \in Seq(Words)
  OBVIOUS

(* ... one word,                                                           *)
LEMMA Words1 ==
  ASSUME NEW w \in Words
  PROVE  <<w>> \in Seq(Words)
  OBVIOUS

(* ... two,                                                                *)
LEMMA Words2 ==
  ASSUME NEW v \in Words, NEW w \in Words
  PROVE  <<v, w>> \in Seq(Words)
  OBVIOUS

(* ... one sequence after another,                                         *)
LEMMA WordsConcat ==
  ASSUME NEW s \in Seq(Words), NEW t \in Seq(Words)
  PROVE  s \o t \in Seq(Words)
  OBVIOUS

(* ... and one word more.                                                  *)
LEMMA WordsAppend ==
  ASSUME NEW s \in Seq(Words), NEW w \in Words
  PROVE  Append(s, w) \in Seq(Words)
  OBVIOUS

(* A handler that a false return meets is an entry like any routine.       *)
LEMMA UnwindsRoutine ==
  ASSUME TypeOK, NEW r \in Routines \cup HigherOrder, Unwinds(r)
  PROVE  /\ Running
         /\ Head(todo) \in PlainItem
  <1>1. todo # <<>> /\ Head(todo) \in Item /\ Head(todo).do = r
    BY DEF Unwinds, TypeOK
  <1> QED
    BY <1>1, ItemTypes, NamesDiffer DEF Running

(* A routine that makes the node an ambiguous one.                         *)
LEMMA AmbiguateWorks ==
  ASSUME TypeOK, Running, NEW id \in AmbiguityIds, Ambiguate(id)
  PROVE  Step
  <1>1. Tail(todo) \in Seq(Item)
    BY DEF TypeOK, Running
  <1>2. <<>> \in Seq(PlainItem) /\ todo' = <<>> \o Tail(todo)
    BY <1>1 DEF Ambiguate
  <1>3. MovesOn
    BY ProgramsAssumption DEF TypeOK, Ambiguate, Frame, MovesOn
  <1>4. [id |-> id, at |-> curTkIdx - 1] \in Ambiguity
    BY ProgramsAssumption DEF TypeOK, Ambiguity
  <1>5. Reports
    BY NoReports DEF Ambiguate
  <1>6. id \in Words
    BY DEF Words, NodeKinds
  <1>7. Data
    BY <1>4, <1>5, <1>6, Words1
       DEF TypeOK, Ambiguate, Frame, diagnoseAmbiguityButRetainIt, Data
  <1>8. UNCHANGED <<backtracker, IDsForDelay>>
    BY DEF Ambiguate, Frame
  <1> QED
    BY <1>2, <1>3, <1>7, <1>8 DEF WorkStep, Step

(* A caller that goes on after a false return.                             *)
LEMMA RecoverWorks ==
  ASSUME TypeOK, Running,
         NEW n, Consumable(n),
         NEW items \in Seq(PlainItem),
         Recover(n, items)
  PROVE  Step
  <1>1. MovesOn
    BY ProgramsAssumption DEF TypeOK, Consumable, Recover, MovesOn
  <1>2. Data
    BY NoReports DEF TypeOK, Recover, ambigVars, Modes, Data
  <1>3. todo' = items \o Tail(todo) /\ UNCHANGED <<backtracker, IDsForDelay>>
    BY DEF Recover
  <1> QED
    BY <1>1, <1>2, <1>3 DEF WorkStep, Step

(* The entry of a Backtracker, under what it tries.                        *)
LEMMA TryBegins ==
  ASSUME TypeOK, Running, InTokens,
         NEW n, Consumable(n),
         NEW items \in Seq(PlainItem),
         NEW last \in AtMostOneDiscarder,
         NEW alternative \in Routines,
         NEW rest \in Seq(PlainItem),
         Try(n, items \o last, alternative, rest)
  PROVE  Step
  <1>1. MovesOn
    BY ProgramsAssumption DEF TypeOK, Consumable, Try, MovesOn
  <1>2. Data
    BY NoReports DEF TypeOK, Try, ambigVars, Data
  <1>3. UNCHANGED <<IDsForDelay, diags>>
    BY DEF Try, diagVars
  <1> QED
    BY <1>1, <1>2, <1>3 DEF Try, BeginStep, Step

(* ... without a Discarder,                                                *)
LEMMA TryPlainBegins ==
  ASSUME TypeOK, Running, InTokens,
         NEW n, Consumable(n),
         NEW items \in Seq(PlainItem),
         NEW alternative \in Routines,
         NEW rest \in Seq(PlainItem),
         Try(n, items, alternative, rest)
  PROVE  Step
  <1>1. items = items \o <<>>
    OBVIOUS
  <1>2. <<>> \in AtMostOneDiscarder
    BY DEF AtMostOneDiscarder
  <1> QED
    BY <1>1, <1>2, TryBegins

(* ... and with one.                                                       *)
LEMMA TryDiscarderBegins ==
  ASSUME TypeOK, Running, InTokens,
         NEW n, Consumable(n),
         NEW first \in PlainItem,
         NEW d \in Discarders,
         NEW alternative \in Routines,
         Try(n, <<first, Call(d)>>, alternative, <<>>)
  PROVE  Step
  <1>1. <<first, Call(d)>> = <<first>> \o <<Call(d)>>
    OBVIOUS
  <1>2. <<Call(d)>> \in AtMostOneDiscarder
    BY DEF AtMostOneDiscarder
  <1> QED
    BY <1>1, <1>2, Items0, Items1, TryBegins

(* A routine that discards the Backtracker below it.                       *)
LEMMA DiscardEarlyKeeps ==
  ASSUME TypeOK, todo # <<>>, Head(todo).do \in Discarders,
         NEW n, Consumable(n),
         NEW items \in Seq(PlainItem),
         NEW kind \in Seq(Words),
         DiscardEarly(n, items, kind)
  PROVE  Step
  <1>1. MovesOn
    BY ProgramsAssumption DEF TypeOK, Consumable, DiscardEarly, MovesOn
  <1>2. Data
    BY NoReports DEF TypeOK, DiscardEarly, ambigVars, Data
  <1>3. UNCHANGED <<IDsForDelay, diags>>
    BY DEF DiscardEarly, diagVars
  <1> QED
    BY <1>1, <1>2, <1>3 DEF DiscardEarly, KeepEarlyStep, Step

-----------------------------------------------------------------------------
(* Steps that leave the call stack as it is.                               *)

(* The use of a null node.                                                 *)
LEMMA NullNodeIdles ==
  ASSUME TypeOK, NullNode
  PROVE  Step
  BY ProgramsAssumption, NoReports
     DEF TypeOK, NullNode, ambigVars, Modes, MovesOn, Data, IdleStep, Step

(* One turn of a loop that skips tokens.                                   *)
LEMMA SkipTokenIdles ==
  ASSUME TypeOK, InTokens, SkipToken
  PROVE  Step
  <1>1. MovesOn
    BY CursorMoves DEF TypeOK, SkipToken, Frame, MovesOn
  <1>2. Data
    BY NoReports DEF TypeOK, SkipToken, Frame, ambigVars, Data
  <1>3. UNCHANGED <<todo, backtracker, IDsForDelay>>
    BY DEF SkipToken, Frame
  <1> QED
    BY <1>1, <1>2, <1>3 DEF IdleStep, Step

-----------------------------------------------------------------------------
(* The steps of the machine.                                              *)

(* Every step of matching, skipping, unwinding, and of the C++ objects, is *)
(* of one of the kinds.                                                    *)
LEMMA MachineTakesSteps ==
  ASSUME TypeOK, MachineNext
  PROVE  Step
<1>1. CASE match
  <2>1. {"match"} \subseteq Routines
    BY DEF Routines, MachineRoutines
  <2>2. {"ExpectedToken"} \subseteq DiagnosticIds
    BY DEF DiagnosticIds
  <2>3. InTokens => Consumable(IF Peek = "EOF" THEN 0 ELSE 1)
    BY ConsumableCounts
  <2>4. {"ExpectedToken"} \subseteq DiagnosticIds
    BY DEF DiagnosticIds
  <2> QED
    BY <1>1, <2>1, <2>2, <2>3, <2>4, Items0, RunsRoutine, ConsumableCounts,
       ContinueWorks, ReturnFalseWorks, diagnoseReports
       DEF match
<1>2. CASE matchOrSkipTo
  <2>1. {"matchOrSkipTo"} \subseteq Routines
    BY DEF Routines, MachineRoutines
  <2> QED
    BY <1>2, <2>1, Items2, MachineItems, RunsRoutine, ConsumableCounts,
       ContinueWorks
       DEF matchOrSkipTo
<1>3. CASE parseCommaSeparatedItems
  <2>1. {"CommaSeparatedItems", "CommaSeparatedItems_AtComma"} \subseteq
         HigherOrder
    BY DEF HigherOrder
  <2>2. Running /\ InTokens /\ Arg \in Routines /\ Acc \in Seq(Words)
    BY <1>3, <2>1, RunsHigherOrder DEF parseCommaSeparatedItems
  <2>3. CallWith(Arg, "", Acc) \in PlainItem
    <3>1. "" \in Arguments
      BY DEF Arguments
    <3> QED
      BY <2>2, <3>1, CallWithPlain
  <2>4. CallWith("CommaSeparatedItems_AtComma", Arg, Acc) \in PlainItem
    BY <2>1, <2>2, CallHigherOrderPlain
  <2> QED
    BY <1>3, <2>2, <2>3, <2>4, Items2, ConsumableCounts, ContinueWorks
       DEF parseCommaSeparatedItems
<1>4. CASE CommaSeparatedItems_AtComma
  <2>1. {"CommaSeparatedItems_AtComma", "CommaSeparatedItems"} \subseteq
         HigherOrder
    BY DEF HigherOrder
  <2> QED
    BY <1>4, <2>1, NodeIsWords, Items1, WordsAppend, CallHigherOrderPlain,
       RunsHigherOrder, ConsumableCounts, ContinueWorks, ReturnWorks
       DEF CommaSeparatedItems_AtComma
<1>5. CASE discard
  <2>1. MovesOn
    BY <1>5, ProgramsAssumption DEF discard, TypeOK, MovesOn
  <2>2. Data
    BY <1>5, NoReports DEF discard, TypeOK, ambigVars, Data
  <2> QED
    BY <1>5, <2>1, <2>2 DEF discard, diagVars, KeepStep, Step
<1>6. CASE backtrack
  <2>1. todo # <<>> /\ Head(todo).do = "Backtracker" /\ Arg # ""
    BY <1>6 DEF backtrack
  <2>2. Head(todo) \in Item
    <3>1. todo \in Seq(Item) /\ todo # <<>>
      BY <2>1 DEF TypeOK
    <3> QED
      BY <3>1, HeadTailProperties
  <2>3. Arg \in Routines
    BY <2>1, <2>2, ItemTypes DEF Arg
  <2> QED
    BY <1>6, <2>3 DEF backtrack, GiveUpStep, Step
<1>7. CASE discardOnReturnFalse
  <2>1. curTkIdx' = curTkIdx /\ tks' = tks
    BY <1>7 DEF discardOnReturnFalse
  <2>2. MovesOn
    BY <2>1, ProgramsAssumption DEF TypeOK, MovesOn
  <2>3. UNCHANGED <<node, diagVars, ambigVars, mode, recovered>>
    BY <1>7 DEF discardOnReturnFalse
  <2>4. Data
    BY <2>3, NoReports DEF TypeOK, ambigVars, Data
  <2>5. diags' = diags /\ IDsForDelay' = IDsForDelay
    BY <1>7 DEF discardOnReturnFalse, diagVars
  <2> QED
    BY <1>7, <2>2, <2>4, <2>5 DEF discardOnReturnFalse, KeepStep, Step
<1>8. CASE ReturnFalseFurther
  <2>1. Running
    BY <1>8 DEF ReturnFalseFurther, Handlers, Running
  <2> QED
    BY <1>8, <2>1, NoReports, ConsumableCounts, ReturnFalseWorks
       DEF ReturnFalseFurther
<1>9. CASE skipTo
  <2>1. {"orSkipTo"} \subseteq Routines
    BY DEF Routines, MachineRoutines
  <2> QED
    BY <1>9, <2>1, UnwindsRoutine, FailSilentlyWorks, SkipTokenIdles
       DEF skipTo
<1>10. CASE skipPast
  <2>1. {"orSkipPast"} \subseteq Routines
    BY DEF Routines, MachineRoutines
  <2> QED
    BY <1>10, <2>1, UnwindsRoutine, ConsumableCounts, NoReports,
       ReturnFalseWorks, SkipTokenIdles
       DEF skipPast
<1>11. CASE ignoreStatement
  <2>1. {"checkStatementParse"} \subseteq Routines
    BY DEF Routines, MachineRoutines
  <2> QED
    BY <1>11, <2>1, UnwindsRoutine, ConsumableCounts, NoReports,
       ReturnFalseWorks, FailSilentlyWorks, SkipTokenIdles
       DEF ignoreStatement
<1>12. CASE ProceedAnyway
  <2>1. {"orProceed"} \subseteq Routines
    BY DEF Routines, MachineRoutines
  <2> QED
    BY <1>12, <2>1, Items0, UnwindsRoutine, ConsumableCounts, RecoverWorks
       DEF ProceedAnyway
<1>13. CASE HandlerNotNeeded
  <2>1. Skippers \cup {"orProceed"} \subseteq Routines
    BY DEF Skippers, Routines, MachineRoutines
  <2>2. Running
    BY <1>13, <2>1, NamesDiffer DEF HandlerNotNeeded, Running
  <2> QED
    BY <1>13, <2>2, Items0, ConsumableCounts, ContinueWorks
       DEF HandlerNotNeeded
<1>14. CASE LeaveDelayer
  <2>1. MovesOn
    BY <1>14, ProgramsAssumption DEF LeaveDelayer, TypeOK, MovesOn
  <2>2. Data
    BY <1>14, NoReports DEF LeaveDelayer, TypeOK, ambigVars, Data
  <2> QED
    BY <1>14, <2>1, <2>2 DEF LeaveDelayer, UndelayStep, Step
<1>15. CASE Overrun
  <2>1. MovesOn
    BY <1>15, ProgramsAssumption DEF Overrun, TypeOK, MovesOn
  <2>2. Data
    BY <1>15, NoReports DEF Overrun, TypeOK, ambigVars, Modes, Data
  <2> QED
    BY <1>15, <2>1, <2>2 DEF Overrun, IdleStep, Step
<1>16. CASE parseReturns
  <2>1. MovesOn
    BY <1>16, ProgramsAssumption DEF parseReturns, TypeOK, MovesOn
  <2>2. Data
    BY <1>16, NoReports DEF parseReturns, TypeOK, ambigVars, Modes, Data
  <2> QED
    BY <1>16, <2>1, <2>2 DEF parseReturns, IdleStep, Step
<1> QED
  BY <1>1, <1>2, <1>3, <1>4, <1>5, <1>6, <1>7, <1>8, <1>9, <1>10, <1>11, <1>12,
     <1>13, <1>14, <1>15, <1>16
     DEF MachineNext

-----------------------------------------------------------------------------
(* The routines of the statements.                                         *)

(* A statement context within a context is one.                            *)
LEMMA WithinIsArgument ==
  ASSUME NEW stmtCtx \in Arguments
  PROVE  /\ Within(stmtCtx, "Switch") \in Arguments
         /\ Within(stmtCtx, "Loop") \in Arguments
  BY DEF Within, Arguments, StatementContexts

(* The header of an if, a while or a switch.                               *)
LEMMA ParenthesizedConditionPlain ==
  ParenthesizedCondition \in Seq(PlainItem)
  <1>1. {"(", ")"} \subseteq Arguments
    BY DEF Arguments, MatchedTokens
  <1> QED
    BY <1>1, MachineItems, StatementItems, Items3 DEF ParenthesizedCondition

(* A statement's first token names a routine.                              *)
LEMMA StatementRoutineIsRoutine ==
  ASSUME NEW k \in DOMAIN StatementRoutine
  PROVE  StatementRoutine[k] \in Routines
  <1>1. StatementRoutine[k] \in
          {"CompoundStatement_AtFirst", "IfStatement", "SwitchStatement", "LabeledStatement",
           "WhileStatement", "DoStatement", "ForStatement", "GotoStatement", "JumpStatement",
           "ReturnStatement", "AsmStatement"}
    <2>1. DOMAIN StatementRoutine =
            {"{", "if", "switch", "case", "default", "while", "do", "for",
             "goto", "continue", "break", "return", "asm"}
      BY DEF StatementRoutine
    <2>2. CASE k \in {"{", "if", "switch", "case", "default", "while"}
      BY <2>2 DEF StatementRoutine
    <2>3. CASE k \in {"do", "for", "goto", "continue", "break", "return", "asm"}
      BY <2>3 DEF StatementRoutine
    <2> QED
      BY <2>1, <2>2, <2>3
  <1> QED
    BY <1>1 DEF Routines, StatementRoutines

(* A jump or a label outside its statement has a diagnostic.               *)
LEMMA MisplacedIdIsId ==
  ASSUME NEW k, NEW stmtCtx, Misplaced(k, stmtCtx)
  PROVE  MisplacedId[k] \in DiagnosticIds
  BY DEF Misplaced, MisplacedId, DiagnosticIds

(* Every step of a routine of Parser_Statements.cpp is of one of the kinds. *)
LEMMA StatementsTakeSteps ==
  ASSUME TypeOK, StatementsNext
  PROVE  Step
<1>1. CASE parseStatement
  <2>1. {"Statement", "StaticAssertDeclaration", "DeclarationStatement_End",
         "DeclarationStatement", "ExpressionStatement",
         "maybeAmbiguateStatement", "ExtensionStatement_End",
         "LabeledStatement"} \subseteq Routines
    BY DEF Routines, StatementRoutines, DeclarationRoutines
  <2>2. {"ExpressionStatement"} \subseteq Words
    BY DEF Words, NodeKinds, ExpressionKinds
  <2> QED
    BY <1>1, <2>1, <2>2, NodeIsWords, Items1, Items2, Items0, Words1,
       StatementItems, CallPlain, CallInPlain, RunsRoutine, ConsumableCounts,
       ContinueWorks, ReturnWorks, ExpandWorks, DiagnoseIfReports,
       TryPlainBegins, StatementRoutineIsRoutine, MisplacedIdIsId
       DEF parseStatement
<1>2. CASE ExtensionStatement_End
  <2>1. {"ExtensionStatement_End"} \subseteq Routines
    BY DEF Routines, StatementRoutines
  <2>2. {"UnexpectedGNUExtensionFlag"} \subseteq DiagnosticIds
    BY DEF DiagnosticIds
  <2>3. {"ExpressionStatement"} \subseteq Words
    BY DEF Words, NodeKinds, ExpressionKinds
  <2> QED
    BY <1>2, <2>1, <2>2, <2>3, NodeIsWords, Words1, RunsRoutine,
       ConsumableCounts, ReturnWorks, FailWorks, NullNodeIdles
       DEF ExtensionStatement_End
<1>3. CASE parseDeclarationStatement
  <2>1. {"DeclarationStatement", "DeclarationStatement_End",
         "DeclarationOrFunctionDefinition"} \subseteq Routines
    BY DEF Routines, StatementRoutines, DeclarationRoutines
  <2>2. {"DeclarationStatement"} \subseteq Words
    BY DEF Words, NodeKinds, ExpressionKinds
  <2> QED
    BY <1>3, <2>1, <2>2, Items2, Words1, CallPlain, RunsRoutine,
       ConsumableCounts, ContinueWorks, ReturnWorks
       DEF parseDeclarationStatement
<1>4. CASE maybeAmbiguateStatement
  <2>1. {"maybeAmbiguateStatement"} \subseteq Routines
    BY DEF Routines, StatementRoutines
  <2>2. {"AmbiguousExpressionOrDeclarationStatement"} \subseteq AmbiguityIds
    BY DEF AmbiguityIds
  <2> QED
    BY <1>4, <2>1, <2>2, NodeIsWords, RunsRoutine, ConsumableCounts,
       ReturnWorks, AmbiguateWorks
       DEF maybeAmbiguateStatement
<1>5. CASE parseExpressionStatement
  <2>1. {"ExpressionStatement", "ExpressionStatement_End"} \subseteq Routines
    BY DEF Routines, StatementRoutines
  <2>2. {";"} \subseteq Arguments
    BY DEF Arguments, StatementContexts, MatchedTokens, Varieties, TagKeywords
  <2>3. {"ExpressionStatement"} \subseteq Words
    BY DEF Words, NodeKinds, ExpressionKinds
  <2> QED
    BY <1>5, <2>1, <2>2, <2>3, NodeIsWords, Words1, Items3, Words2,
       MachineItems, StatementItems, CallPlain, RunsRoutine, ConsumableCounts,
       ContinueWorks, ReturnWorks
       DEF parseExpressionStatement
<1>6. CASE parseCompoundStatement_AtFirst
  <2>1. {"CompoundStatement_AtFirst", "CompoundStatement"} \subseteq Routines
    BY DEF Routines, StatementRoutines
  <2> QED
    BY <1>6, <2>1, Items1, CallInPlain, RunsRoutine, ConsumableCounts,
       ContinueWorks
       DEF parseCompoundStatement_AtFirst, DepthControl
<1>7. CASE CompoundStatement_Loop
  <2>1. {"CompoundStatement"} \subseteq Routines
    BY DEF Routines, StatementRoutines
  <2>2. {"ExpectedToken"} \subseteq DiagnosticIds
    BY DEF DiagnosticIds
  <2>3. {"CompoundStatement"} \subseteq Words
    BY DEF Words, NodeKinds, ExpressionKinds
  <2> QED
    BY <1>7, <2>1, <2>2, <2>3, Words1, Items2, StatementItems, CallInPlain,
       RunsRoutine, ConsumableCounts, ContinueWorks, ReturnWorks, FailWorks
       DEF CompoundStatement_Loop
<1>8. CASE CompoundStatement_SkipsToCloseBrace
  <2>1. {"CompoundStatement"} \subseteq Routines
    BY DEF Routines, StatementRoutines
  <2> QED
    BY <1>8, <2>1, Items1, UnwindsRoutine, ConsumableCounts, RecoverWorks,
       SkipTokenIdles
       DEF CompoundStatement_SkipsToCloseBrace
<1>9. CASE parseIfStatement_AtFirst
  <2>1. {"IfStatement", "IfStatement_AtElse", "Statement_End"} \subseteq
         Routines
    BY DEF Routines, StatementRoutines
  <2>2. {"Statement"} \subseteq Words
    BY DEF Words, NodeKinds, ExpressionKinds
  <2> QED
    BY <1>9, <2>1, <2>2, Items1, Words1, ParenthesizedConditionPlain,
       ItemsChecked, ItemsConcat, StatementItems, CallPlain, CallInPlain,
       RunsRoutine, ConsumableCounts, ContinueWorks, ReturnWorks
       DEF parseIfStatement_AtFirst
<1>10. CASE Statement_End
  <2>1. {"Statement_End"} \subseteq Routines
    BY DEF Routines, StatementRoutines
  <2>2. {"Statement"} \subseteq Words
    BY DEF Words, NodeKinds, ExpressionKinds
  <2> QED
    BY <1>10, <2>1, <2>2, Words1, RunsRoutine, ConsumableCounts, ReturnWorks
       DEF Statement_End
<1>11. CASE parseSwitchStatement_AtFirst
  <2>1. {"SwitchStatement"} \subseteq Routines
    BY DEF Routines, StatementRoutines
  <2> QED
    BY <1>11, <2>1, Items1, ParenthesizedConditionPlain, WithinIsArgument,
       ItemsChecked, ItemsConcat, StatementItems, RunsRoutine,
       ConsumableCounts, ContinueWorks
       DEF parseSwitchStatement_AtFirst
<1>12. CASE parseWhileStatement_AtFirst
  <2>1. {"WhileStatement"} \subseteq Routines
    BY DEF Routines, StatementRoutines
  <2> QED
    BY <1>12, <2>1, Items1, ParenthesizedConditionPlain, WithinIsArgument,
       ItemsChecked, ItemsConcat, StatementItems, RunsRoutine,
       ConsumableCounts, ContinueWorks
       DEF parseWhileStatement_AtFirst
<1>13. CASE parseDoStatement_AtFirst
  <2>1. {"DoStatement"} \subseteq Routines
    BY DEF Routines, StatementRoutines
  <2>2. {"while", ";"} \subseteq Arguments
    BY DEF Arguments, StatementContexts, MatchedTokens, Varieties, TagKeywords
  <2> QED
    BY <1>13, <2>1, <2>2, Items2, Items1, ParenthesizedConditionPlain,
       WithinIsArgument, ItemsChecked, ItemsConcat, MachineItems,
       StatementItems, RunsRoutine, ConsumableCounts, ContinueWorks
       DEF parseDoStatement_AtFirst
<1>14. CASE parseLabeledStatement_AtFirst
  <2>1. {"LabeledStatement", "LabeledStatement_AtStatement"} \subseteq Routines
    BY DEF Routines, StatementRoutines
  <2>2. {":"} \subseteq Arguments
    BY DEF Arguments, StatementContexts, MatchedTokens, Varieties, TagKeywords
  <2> QED
    BY <1>14, <2>1, <2>2, Items1, Items2, Items3, ItemsChecked, ItemsConcat,
       MachineItems, StatementItems, CallInPlain, RunsRoutine,
       ConsumableCounts, ContinueWorks
       DEF parseLabeledStatement_AtFirst
<1>15. CASE parseForStatement_AtFirst
  <2>1. {"ForStatement", "ForStatement_AtExtension",
         "ForStatement_AtStatement", "ForStatement_AtInit",
         "ForStatement_AtCondition", "ForStatement_AtSecondSemicolon",
         "ForStatement_AtExpression"} \subseteq Routines
    BY DEF Routines, StatementRoutines
  <2>2. {"(", ")"} \subseteq Arguments
    BY DEF Arguments, StatementContexts, MatchedTokens, Varieties, TagKeywords
  <2>3. InTokens => Consumable(IF Peek = "__extension__" THEN 1 ELSE 0)
    BY ConsumableCounts
  <2> QED
    BY <1>15, <2>1, <2>2, <2>3, Items4, Items1, WithinIsArgument, ItemsChecked,
       ItemsConcat, MachineItems, StatementItems, CallPlain, CallInPlain,
       RunsRoutine, ConsumableCounts, ContinueWorks
       DEF parseForStatement_AtFirst, OrSkipHeader
<1>16. CASE ForStatement_AtInit
  <2>1. {"ForStatement_AtInit", "DeclarationStatement", "ExpressionStatement",
         "maybeAmbiguateStatement"} \subseteq Routines
    BY DEF Routines, StatementRoutines
  <2> QED
    BY <1>16, <2>1, Items1, Items2, Items0, CallPlain, RunsRoutine,
       ConsumableCounts, ContinueWorks, TryPlainBegins
       DEF ForStatement_AtInit
<1>17. CASE ForStatement_AtCondition
  <2>1. {"ForStatement_AtCondition"} \subseteq Routines
    BY DEF Routines, StatementRoutines
  <2> QED
    BY <1>17, <2>1, Items0, Items1, StatementItems, RunsRoutine,
       ConsumableCounts, ContinueWorks
       DEF ForStatement_AtCondition
<1>18. CASE ForStatement_AtSecondSemicolon
  <2>1. {"ForStatement_AtSecondSemicolon"} \subseteq Routines
    BY DEF Routines, StatementRoutines
  <2> QED
    BY <1>18, <2>1, Items0, RunsRoutine, ConsumableCounts, ContinueWorks
       DEF ForStatement_AtSecondSemicolon
<1>19. CASE ForStatement_AtExpression
  <2>1. {"ForStatement_AtExpression"} \subseteq Routines
    BY DEF Routines, StatementRoutines
  <2>2. {")"} \subseteq Arguments
    BY DEF Arguments, StatementContexts, MatchedTokens, Varieties, TagKeywords
  <2> QED
    BY <1>19, <2>1, <2>2, Items0, Items2, MachineItems, StatementItems,
       RunsRoutine, ConsumableCounts, ContinueWorks
       DEF ForStatement_AtExpression
<1>20. CASE parseGotoStatement_AtFirst
  <2>1. {"GotoStatement", "GotoStatement_AtLabel"} \subseteq Routines
    BY DEF Routines, StatementRoutines
  <2>2. {";"} \subseteq Arguments
    BY DEF Arguments, StatementContexts, MatchedTokens, Varieties, TagKeywords
  <2> QED
    BY <1>20, <2>1, <2>2, Items2, Items1, ItemsChecked, ItemsConcat,
       MachineItems, StatementItems, CallPlain, RunsRoutine, ConsumableCounts,
       ContinueWorks
       DEF parseGotoStatement_AtFirst
<1>21. CASE GotoStatement_AtLabel
  <2>1. {"GotoStatement_AtLabel"} \subseteq Routines
    BY DEF Routines, StatementRoutines
  <2>2. {"ExpectedTokenOfCategoryIdentifier"} \subseteq DiagnosticIds
    BY DEF DiagnosticIds
  <2> QED
    BY <1>21, <2>1, <2>2, Items0, RunsRoutine, ConsumableCounts, ContinueWorks,
       FailWorks
       DEF GotoStatement_AtLabel
<1>22. CASE parseJumpStatement_AtFirst
  <2>1. {"JumpStatement"} \subseteq Routines
    BY DEF Routines, StatementRoutines
  <2>2. {";"} \subseteq Arguments
    BY DEF Arguments, StatementContexts, MatchedTokens, Varieties, TagKeywords
  <2> QED
    BY <1>22, <2>1, <2>2, Items1, ItemsChecked, ItemsConcat, MachineItems,
       StatementItems, RunsRoutine, ConsumableCounts, ContinueWorks
       DEF parseJumpStatement_AtFirst
<1>23. CASE parseReturnStatement_AtFirst
  <2>1. {"ReturnStatement", "ReturnStatement_AtExpression"} \subseteq Routines
    BY DEF Routines, StatementRoutines
  <2>2. {";"} \subseteq Arguments
    BY DEF Arguments, StatementContexts, MatchedTokens, Varieties, TagKeywords
  <2> QED
    BY <1>23, <2>1, <2>2, Items2, Items0, ItemsChecked, MachineItems,
       StatementItems, CallPlain, RunsRoutine, ConsumableCounts, ContinueWorks
       DEF parseReturnStatement_AtFirst
<1>24. CASE parseExtGNU_AsmStatement
  <2>1. {"AsmStatement", "AsmQualifiers", "StringLiteral", "AsmOperand",
         "AsmGotoLabel"} \subseteq Routines
    BY DEF Routines, StatementRoutines, ExpressionRoutines
  <2>2. {"AsmSection"} \subseteq HigherOrder
    BY DEF HigherOrder
  <2>3. {"(", ")", ";"} \subseteq Arguments
    BY DEF Arguments, StatementContexts, MatchedTokens, Varieties, TagKeywords
  <2>4. {"ExpectedFeature"} \subseteq DiagnosticIds
    BY DEF DiagnosticIds
  <2> QED
    BY <1>24, <2>1, <2>2, <2>3, <2>4, NodeIsWords, Items9, Items1,
       ItemsChecked, ItemsConcat, MachineItems, StatementItems, CallPlain,
       CallHigherOrderPlain, RunsRoutine, ConsumableCounts, ExpandWorks,
       DiagnoseIfReports
       DEF parseExtGNU_AsmStatement
<1>25. CASE parseExtGNU_AsmQualifiers
  <2>1. {"AsmQualifiers"} \subseteq Routines
    BY DEF Routines, StatementRoutines
  <2> QED
    BY <1>25, <2>1, Items1, Items0, CallPlain, RunsRoutine, ConsumableCounts,
       ContinueWorks
       DEF parseExtGNU_AsmQualifiers
<1>26. CASE AsmSection
  <2>1. {"AsmSection", "AsmSection_AtItems"} \subseteq HigherOrder
    BY DEF HigherOrder
  <2> QED
    BY <1>26, <2>1, Items1, Items0, MachineItems, CallHigherOrderPlain,
       RunsHigherOrder, ConsumableCounts, ContinueWorks
       DEF AsmSection
<1>27. CASE parseExtGNU_AsmOperand_AtFirst
  <2>1. {"AsmOperand", "StringLiteral", "IdentifierName"} \subseteq Routines
    BY DEF Routines, StatementRoutines, ExpressionRoutines
  <2>2. {"(", ")", "]"} \subseteq Arguments
    BY DEF Arguments, StatementContexts, MatchedTokens, Varieties, TagKeywords
  <2>3. {"parseExtGNU_AsmOperand_AtFirst"} \subseteq AssertedRoutines
    BY DEF AssertedRoutines
  <2> QED
    BY <1>27, <2>1, <2>2, <2>3, Items4, Items2, ItemsConcat, MachineItems,
       StatementItems, CallPlain, RunsRoutine, ConsumableCounts, ContinueWorks,
       ReturnFalseWorks, assertFailsReports
       DEF parseExtGNU_AsmOperand_AtFirst
<1>28. CASE parseExtGNU_AsmGotoLabel_AtFirst
  <2>1. {"AsmGotoLabel"} \subseteq Routines
    BY DEF Routines, StatementRoutines
  <2>2. {"parseIdentifierName_AtFirst"} \subseteq AssertedRoutines
    BY DEF AssertedRoutines
  <2>3. {"IdentifierName"} \subseteq Words
    BY DEF Words, NodeKinds, ExpressionKinds
  <2> QED
    BY <1>28, <2>1, <2>2, <2>3, NodeIsWords, Words1, Items0, RunsRoutine,
       ConsumableCounts, ReturnWorks, ExpandWorks, assertFailsReports
       DEF parseExtGNU_AsmGotoLabel_AtFirst
<1> QED
  BY <1>1, <1>2, <1>3, <1>4, <1>5, <1>6, <1>7, <1>8, <1>9, <1>10, <1>11, <1>12,
     <1>13, <1>14, <1>15, <1>16, <1>17, <1>18, <1>19, <1>20, <1>21, <1>22,
     <1>23, <1>24, <1>25, <1>26, <1>27, <1>28
     DEF StatementsNext

-----------------------------------------------------------------------------
(* The routines of the expressions.                                        *)

(* A primary expression's first token names a routine.                     *)
LEMMA PrimaryRoutineIsRoutine ==
  ASSUME NEW k \in DOMAIN PrimaryRoutine
  PROVE  PrimaryRoutine[k] \in Routines
  BY DEF PrimaryRoutine, Routines, ExpressionRoutines

(* Every token has a precedence.                                           *)
LEMMA PrecedenceRange ==
  ASSUME NEW tkK
  PROVE  precedenceOf(tkK) \in 0 .. 13
  BY DEF precedenceOf

(* Only binary operators have one that is not zero.                        *)
LEMMA OperatorsHavePrecedence ==
  ASSUME NEW tkK, precedenceOf(tkK) > 0
  PROVE  tkK \in BinaryOperators
  <1> SUFFICES ASSUME tkK \notin BinaryOperators
               PROVE  precedenceOf(tkK) = 0
    OBVIOUS
  <1>1. /\ tkK \notin AssignmentOperators
        /\ tkK \notin {",", "?", "||", "&&", "|", "^", "&"}
        /\ tkK \notin {"==", "!="} /\ tkK \notin {">", "<", "<=", ">="}
        /\ tkK \notin {"<<", ">>"} /\ tkK \notin {"+", "-"}
        /\ tkK \notin {"*", "/", "%"}
    BY DEF BinaryOperators
  <1> QED
    BY <1>1 DEF precedenceOf

(* No cutoff lets the tokens that are not operators pass.                  *)
LEMMA CutoffsArePositive ==
  ASSUME NEW a \in Cutoffs
  PROVE  Cutoff(a) \in Nat /\ Cutoff(a) > 0
  <1>1. a \in DOMAIN Precedence => Precedence[a] \in {1, 2, 3}
    BY DEF Precedence
  <1>2. a \in AssignmentOperators => precedenceOf(a) = 2
    BY DEF precedenceOf, AssignmentOperators
  <1>3. /\ precedenceOf(",") = 1 /\ precedenceOf("?") = 3
        /\ precedenceOf("||") = 4 /\ precedenceOf("&&") = 5
        /\ precedenceOf("|") = 6 /\ precedenceOf("^") = 7
        /\ precedenceOf("&") = 8
    BY DEF precedenceOf, AssignmentOperators
  <1>4. /\ precedenceOf("==") = 9 /\ precedenceOf("!=") = 9
        /\ precedenceOf(">") = 10 /\ precedenceOf("<") = 10
        /\ precedenceOf("<=") = 10 /\ precedenceOf(">=") = 10
    BY DEF precedenceOf, AssignmentOperators
  <1>5. /\ precedenceOf("<<") = 11 /\ precedenceOf(">>") = 11
        /\ precedenceOf("+") = 12 /\ precedenceOf("-") = 12
        /\ precedenceOf("*") = 13 /\ precedenceOf("/") = 13
        /\ precedenceOf("%") = 13
    BY DEF precedenceOf, AssignmentOperators
  <1>6. CASE a \in DOMAIN Precedence
    BY <1>1, <1>6 DEF Cutoff
  <1>7. CASE a \notin DOMAIN Precedence
    <2>1. a \in BinaryOperators
      BY <1>7 DEF Cutoffs
    <2>2. precedenceOf(a) \in {1, 2, 3, 4, 5, 6, 7, 8, 9, 10, 11, 12, 13}
      BY <2>1, <1>2, <1>3, <1>4, <1>5 DEF BinaryOperators
    <2> QED
      BY <1>7, <2>2 DEF Cutoff
  <1> QED
    BY <1>6, <1>7

(* An operator that an expression goes on with is one of the language.     *)
LEMMA OperatorAhead ==
  ASSUME NEW a \in Cutoffs, precedenceOf(Peek) >= Cutoff(a)
  PROVE  Peek \in BinaryOperators
  BY CutoffsArePositive, PrecedenceRange, OperatorsHavePrecedence

(* Every step of a routine of Parser_Expressions.cpp is of one of the kinds. *)
LEMMA ExpressionsTakeSteps ==
  ASSUME TypeOK, ExpressionsNext
  PROVE  Step
<1>1. CASE parseExpression
  <2>1. {"Expression"} \subseteq Routines
    BY DEF Routines, ExpressionRoutines
  <2>2. {"NAryExpression"} \subseteq NAryRoutines
    BY DEF NAryRoutines
  <2>3. {"Sequencing"} \subseteq Cutoffs
    BY DEF Cutoffs, Precedence
  <2> QED
    BY <1>1, <2>1, <2>2, <2>3, Items1, CallNAryPlain, RunsRoutine,
       ConsumableCounts, ContinueWorks
       DEF parseExpression, DepthControl
<1>2. CASE parseIdentifierName
  <2>1. {"IdentifierName"} \subseteq Routines
    BY DEF Routines, ExpressionRoutines
  <2>2. {"ExpectedTokenOfCategoryIdentifier"} \subseteq DiagnosticIds
    BY DEF DiagnosticIds
  <2>3. {"IdentifierName"} \subseteq Words
    BY DEF Words, NodeKinds, ExpressionKinds
  <2> QED
    BY <1>2, <2>1, <2>2, <2>3, Words1, RunsRoutine, ConsumableCounts,
       ReturnWorks, FailWorks
       DEF parseIdentifierName
<1>3. CASE parseConstant
  <2>1. {"Constant"} \subseteq Routines
    BY DEF Routines, ExpressionRoutines
  <2>2. {"ExpectedTokenOfCategoryConstant"} \subseteq DiagnosticIds
    BY DEF DiagnosticIds
  <2>3. {"Expression"} \subseteq Words
    BY DEF Words, NodeKinds, ExpressionKinds
  <2> QED
    BY <1>3, <2>1, <2>2, <2>3, Words1, RunsRoutine, ConsumableCounts,
       ReturnWorks, FailWorks
       DEF parseConstant
<1>4. CASE parseStringLiteral
  <2>1. {"StringLiteral", "StringLiteral_AtNext"} \subseteq Routines
    BY DEF Routines, ExpressionRoutines
  <2>2. {"ExpectedTokenOfCategoryStringLiteral"} \subseteq DiagnosticIds
    BY DEF DiagnosticIds
  <2>3. {"Expression"} \subseteq Words
    BY DEF Words, NodeKinds, ExpressionKinds
  <2> QED
    BY <1>4, <2>1, <2>2, <2>3, Items1, Words1, CallPlain, RunsRoutine,
       ConsumableCounts, ContinueWorks, ReturnWorks, FailWorks
       DEF parseStringLiteral
<1>5. CASE BecomesExpression
  <2>1. {"BecomesExpression"} \subseteq Routines
    BY DEF Routines, ExpressionRoutines
  <2>2. {"Expression"} \subseteq Words
    BY DEF Words, NodeKinds, ExpressionKinds
  <2> QED
    BY <1>5, <2>1, <2>2, Words1, RunsRoutine, ConsumableCounts, ReturnWorks
       DEF BecomesExpression
<1>6. CASE parseParenthesizedExpression_AtFirst
  <2>1. {"Parenthesized", "Parenthesized_End"} \subseteq Routines
    BY DEF Routines, ExpressionRoutines
  <2>2. {")"} \subseteq Arguments
    BY DEF Arguments, StatementContexts, MatchedTokens, Varieties, TagKeywords
  <2>3. {"IdentifierName", "ParenthesizedName", "ParenthesizedExpression"}
         \subseteq Words
    BY DEF Words, NodeKinds, ExpressionKinds
  <2> QED
    BY <1>6, <2>1, <2>2, <2>3, Items3, Words1, MachineItems, StatementItems,
       CallPlain, RunsRoutine, ConsumableCounts, ContinueWorks, ReturnWorks
       DEF parseParenthesizedExpression_AtFirst
<1>7. CASE parseExtGNU_StatementExpression_AtFirst
  <2>1. {"StatementExpression", "CompoundStatement_AtFirst"} \subseteq Routines
    BY DEF Routines, StatementRoutines, ExpressionRoutines
  <2>2. {")", "None"} \subseteq Arguments
    BY DEF Arguments, StatementContexts, MatchedTokens, Varieties, TagKeywords
  <2>3. {"ExpectedFeature"} \subseteq DiagnosticIds
    BY DEF DiagnosticIds
  <2> QED
    BY <1>7, <2>1, <2>2, <2>3, NodeIsWords, Items4, MachineItems,
       ExpressionItems, CallInPlain, RunsRoutine, ConsumableCounts,
       ExpandWorks, DiagnoseIfReports
       DEF parseExtGNU_StatementExpression_AtFirst
<1>8. CASE parseGenericSelectionExpression_AtFirst
  <2>1. {"GenericSelection", "GenericAssociation"} \subseteq Routines
    BY DEF Routines, ExpressionRoutines
  <2>2. {"(", ",", ")"} \subseteq Arguments
    BY DEF Arguments, StatementContexts, MatchedTokens, Varieties, TagKeywords
  <2> QED
    BY <1>8, <2>1, <2>2, Items5, MachineItems, StatementItems, RunsRoutine,
       ConsumableCounts, ContinueWorks
       DEF parseGenericSelectionExpression_AtFirst
<1>9. CASE parseGenericAssociation
  <2>1. {"GenericAssociation"} \subseteq Routines
    BY DEF Routines, ExpressionRoutines
  <2>2. {":"} \subseteq Arguments
    BY DEF Arguments, StatementContexts, MatchedTokens, Varieties, TagKeywords
  <2> QED
    BY <1>9, <2>1, <2>2, Items2, Items3, MachineItems, StatementItems,
       ExpressionItems, RunsRoutine, ConsumableCounts, ContinueWorks
       DEF parseGenericAssociation
<1>10. CASE parseVAArgumentExpression_AtFirst
  <2>1. {"VAArgument"} \subseteq Routines
    BY DEF Routines, ExpressionRoutines
  <2>2. {"(", ",", ")"} \subseteq Arguments
    BY DEF Arguments, StatementContexts, MatchedTokens, Varieties, TagKeywords
  <2>3. {"ExpectedFeature"} \subseteq DiagnosticIds
    BY DEF DiagnosticIds
  <2> QED
    BY <1>10, <2>1, <2>2, <2>3, NodeIsWords, Items6, MachineItems,
       StatementItems, ExpressionItems, RunsRoutine, ConsumableCounts,
       ExpandWorks, DiagnoseIfReports
       DEF parseVAArgumentExpression_AtFirst
<1>11. CASE parseOffsetOfExpression_AtFirst
  <2>1. {"OffsetOf", "OffsetOfDesignator"} \subseteq Routines
    BY DEF Routines, ExpressionRoutines, DeclarationRoutines
  <2>2. {"(", ",", ")"} \subseteq Arguments
    BY DEF Arguments, StatementContexts, MatchedTokens, Varieties, TagKeywords
  <2>3. {"ExpectedFeature"} \subseteq DiagnosticIds
    BY DEF DiagnosticIds
  <2> QED
    BY <1>11, <2>1, <2>2, <2>3, NodeIsWords, Items6, MachineItems,
       ExpressionItems, CallPlain, RunsRoutine, ConsumableCounts, ExpandWorks,
       DiagnoseIfReports
       DEF parseOffsetOfExpression_AtFirst
<1>12. CASE parseExtGNU_ChooseExpression_AtFirst
  <2>1. {"ChooseExpression", "Constant"} \subseteq Routines
    BY DEF Routines, ExpressionRoutines
  <2>2. {"(", ",", ")"} \subseteq Arguments
    BY DEF Arguments, StatementContexts, MatchedTokens, Varieties, TagKeywords
  <2>3. {"ExpectedFeature"} \subseteq DiagnosticIds
    BY DEF DiagnosticIds
  <2> QED
    BY <1>12, <2>1, <2>2, <2>3, NodeIsWords, Items8, MachineItems,
       StatementItems, ExpressionItems, CallPlain, RunsRoutine,
       ConsumableCounts, ExpandWorks, DiagnoseIfReports
       DEF parseExtGNU_ChooseExpression_AtFirst
<1>13. CASE parseExtGNU_ComplexValuedExpression_AtFirst
  <2>1. {"ComplexValued"} \subseteq Routines
    BY DEF Routines, ExpressionRoutines
  <2> QED
    BY <1>13, <2>1, Items2, StatementItems, ExpressionItems, RunsRoutine,
       ConsumableCounts, ContinueWorks
       DEF parseExtGNU_ComplexValuedExpression_AtFirst
<1>14. CASE parseCompoundLiteral_AtOpenParen
  <2>1. {"CompoundLiteral_AtOpenParen", "CompoundLiteral_Check",
         "CompoundLiteral_AtOpenBrace"} \subseteq Routines
    BY DEF Routines, ExpressionRoutines
  <2>2. {")"} \subseteq Arguments
    BY DEF Arguments, StatementContexts, MatchedTokens, Varieties, TagKeywords
  <2>3. {"ExpectedToken"} \subseteq DiagnosticIds
    BY DEF DiagnosticIds
  <2> QED
    BY <1>14, <2>1, <2>2, <2>3, Items3, Items1, MachineItems, ExpressionItems,
       CallPlain, RunsRoutine, ConsumableCounts, ContinueWorks, FailWorks
       DEF parseCompoundLiteral_AtOpenParen
<1>15. CASE parseCompoundLiteral_AtOpenBrace
  <2>1. {"CompoundLiteral_AtOpenBrace", "Initializer"} \subseteq Routines
    BY DEF Routines, ExpressionRoutines, DeclarationRoutines
  <2>2. {"ExpectedFeature"} \subseteq DiagnosticIds
    BY DEF DiagnosticIds
  <2> QED
    BY <1>15, <2>1, <2>2, NodeIsWords, Items3, ExpressionItems, CallPlain,
       RunsRoutine, ConsumableCounts, ExpandWorks, DiagnoseIfReports
       DEF parseCompoundLiteral_AtOpenBrace
<1>16. CASE TypeNameOfCompoundLiteral
  <2>1. "TypeNameOfCompoundLiteral" \in Discarders
    BY DEF Discarders
  <2>2. Running /\ InTokens /\ todo # <<>> /\ Head(todo).do \in Discarders
    BY <1>16, <2>1, RunsDiscarder DEF TypeNameOfCompoundLiteral
  <2>3. CASE FailSilently
    BY <2>2, <2>3, FailSilentlyWorks
  <2>4. CASE /\ curTkIdx' = curTkIdx + 1
             /\ todo' = <<Call("CompoundLiteral_AtOpenBrace"), TryOr("")>>
                          \o Tail(Tail(todo))
             /\ mode' = mode
             /\ Frame
             /\ UNCHANGED <<node, ambigVars, diagVars>>
    <3>1. MovesOn
      <4>1. curTkIdx' = curTkIdx + 1 /\ tks' = tks
        BY <2>4 DEF Frame
      <4> QED
        BY <2>2, <4>1, CursorMoves DEF MovesOn
    <3>2. Data
      BY <2>4, NoReports DEF TypeOK, Frame, ambigVars, Data
    <3>3. Call("CompoundLiteral_AtOpenBrace") \in PlainItem
      BY CallPlain DEF Routines, ExpressionRoutines
    <3>4. UNCHANGED <<backtracker, IDsForDelay, diags>>
      BY <2>4 DEF Frame, diagVars
    <3> QED
      BY <2>2, <2>4, <3>1, <3>2, <3>3, <3>4 DEF DisarmStep, Step
  <2> QED
    BY <1>16, <2>3, <2>4 DEF TypeNameOfCompoundLiteral
<1>17. CASE parseExpressionWithPrecedencePostfix
  <2>1. {"Postfix", "ParenthesizedThenPostfix", "CompoundLiteral_AtOpenParen",
         "StatementExpression", "IdentifierName", "Constant", "StringLiteral",
         "GenericSelection", "Expression"} \subseteq Routines
    BY DEF Routines, ExpressionRoutines
  <2>2. {"ExpectedFIRSTofExpression"} \subseteq DiagnosticIds
    BY DEF DiagnosticIds
  <2>3. {"Expression"} \subseteq Words
    BY DEF Words, NodeKinds, ExpressionKinds
  <2>4. "TypeNameOfCompoundLiteral" \in Discarders
    BY DEF Discarders
  <2>5. {"Parenthesized"} \subseteq Routines
    BY DEF Routines, ExpressionRoutines
  <2> QED
    BY <1>17, <2>1, <2>2, <2>3, <2>4, <2>5, Items1, Items2, Items0, Words1,
       Items3, ExpressionItems, CallPlain, RunsRoutine, ConsumableCounts,
       ContinueWorks, ExpandWorks, NoReports, FailWorks, TryDiscarderBegins,
       PrimaryRoutineIsRoutine
       DEF parseExpressionWithPrecedencePostfix, ParenthesizedThenPostfix
<1>18. CASE parsePostfixExpression_AtFollowOfPrimary
  <2>1. {"FollowOfPrimary", "MemberName", "Call_End", "CallArgument"} \subseteq
         Routines
    BY DEF Routines, ExpressionRoutines
  <2>2. {"]", ")", ""} \subseteq Arguments
    BY DEF Arguments, StatementContexts, MatchedTokens, Varieties, TagKeywords
  <2>3. {"ExpectedFieldName"} \subseteq DiagnosticIds
    BY DEF DiagnosticIds
  <2>4. {"Expression"} \subseteq Words
    BY DEF Words, NodeKinds, ExpressionKinds
  <2> QED
    BY <1>18, <2>1, <2>2, <2>3, <2>4, NodeIsWords, Items4, Items1, Words1,
       Items2, MachineItems, StatementItems, ExpressionItems, CallPlain,
       CallWithPlain, RunsRoutine, ConsumableCounts, ContinueWorks,
       ReturnWorks, ExpandWorks, NoReports, FailWorks
       DEF parsePostfixExpression_AtFollowOfPrimary
<1>19. CASE parseCallArgument
  <2>1. {"CallArgument"} \subseteq Routines
    BY DEF Routines, ExpressionRoutines
  <2> QED
    BY <1>19, <2>1, Items1, StatementItems, RunsRoutine, ConsumableCounts,
       ContinueWorks
       DEF parseCallArgument
<1>20. CASE Call_End
  <2>1. {"Call_End"} \subseteq Routines
    BY DEF Routines, ExpressionRoutines
  <2>2. {"IdentifierName", "CallOfNameOnName", "Expression"} \subseteq Words
    BY DEF Words, NodeKinds, ExpressionKinds
  <2> QED
    BY <1>20, <2>1, <2>2, Words1, RunsRoutine, ConsumableCounts, ReturnWorks
       DEF Call_End
<1>21. CASE parseExpressionWithPrecedenceUnary
  <2>1. {"Unary", "PrefixOfBinaryOperator_End",
         "ParenthesizedTypeNameOrExpression"} \subseteq Routines
    BY DEF Routines, ExpressionRoutines, DeclarationRoutines
  <2> QED
    BY <1>21, <2>1, Items2, Items1, ExpressionItems, CallPlain, RunsRoutine,
       ConsumableCounts, ContinueWorks
       DEF parseExpressionWithPrecedenceUnary
<1>22. CASE PrefixOfBinaryOperator_End
  <2>1. {"PrefixOfBinaryOperator_End"} \subseteq Routines
    BY DEF Routines, ExpressionRoutines
  <2>2. {"PrefixOfBinaryOperator"} \subseteq Words
    BY DEF Words, NodeKinds, ExpressionKinds
  <2> QED
    BY <1>22, <2>1, <2>2, Words1, RunsRoutine, ConsumableCounts, ReturnWorks
       DEF PrefixOfBinaryOperator_End
<1>23. CASE parseExpressionWithPrecedenceCast
  <2>1. {"Cast", "CompoundLiteralOrCast", "maybeAmbiguateCastExpression",
         "Unary"} \subseteq Routines
    BY DEF Routines, ExpressionRoutines
  <2> QED
    BY <1>23, <2>1, Items1, Items2, Items0, ExpressionItems, CallPlain,
       RunsRoutine, ConsumableCounts, ContinueWorks, TryPlainBegins
       DEF parseExpressionWithPrecedenceCast
<1>24. CASE parseCompoundLiteralOrCastExpression_AtFirst
  <2>1. {"CompoundLiteralOrCast", "Cast_AtCloseParen", "Cast_AtOperand",
         "Cast_End", "CompoundLiteral_AtOpenBrace"} \subseteq Routines
    BY DEF Routines, ExpressionRoutines
  <2>2. {")", ""} \subseteq Arguments
    BY DEF Arguments, StatementContexts, MatchedTokens, Varieties, TagKeywords
  <2>3. {"SoleTypedefName", "PrefixOfBinaryOperator", "AmbiguousCast",
         "CastExpression"} \subseteq Words
    BY DEF Words, NodeKinds, ExpressionKinds
  <2> QED
    BY <1>24, <2>1, <2>2, <2>3, NodeIsWords, Items2, Items1, Words1,
       MachineItems, ExpressionItems, CallPlain, CallWithPlain, RunsRoutine,
       ConsumableCounts, ContinueWorks, ReturnWorks
       DEF parseCompoundLiteralOrCastExpression_AtFirst
<1>25. CASE maybeAmbiguateCastExpression
  <2>1. {"maybeAmbiguateCastExpression"} \subseteq Routines
    BY DEF Routines, ExpressionRoutines
  <2>2. {"AmbiguousCastOrBinaryExpression"} \subseteq AmbiguityIds
    BY DEF AmbiguityIds
  <2>3. {"AmbiguousCast"} \subseteq Words
    BY DEF Words, NodeKinds, ExpressionKinds
  <2> QED
    BY <1>25, <2>1, <2>2, <2>3, NodeIsWords, Words1, RunsRoutine,
       ConsumableCounts, ReturnWorks, AmbiguateWorks
       DEF maybeAmbiguateCastExpression
<1>26. CASE parseNAryExpression
  <2>1. {"NAryExpression", "NAryExpression_AtOperator"} \subseteq NAryRoutines
    BY DEF NAryRoutines
  <2> QED
    BY <1>26, <2>1, Items2, ExpressionItems, CallNAryPlain, RunsNAry,
       ConsumableCounts, ContinueWorks
       DEF parseNAryExpression
<1>27. CASE parseNAryExpression_AtOperator
  <2> DEFINE next == CallWith("NAryExpression_AtNext", Arg,
                              <<Kind>> \o Append(Acc, Peek))
             whenTrue == <<Call("WhenTrue"), Match(":"), OrProceed>>
             items == (IF Peek = "?" THEN whenTrue ELSE <<>>) \o <<Cast, next>>
  <2>1. {"NAryExpression_AtNext", "NAryExpression_AtOperator"}
          \subseteq NAryRoutines
    BY DEF NAryRoutines
  <2>2. Running /\ InTokens /\ Arg \in Cutoffs /\ Acc \in Seq(Words)
    BY <1>27, <2>1, RunsNAry DEF parseNAryExpression_AtOperator
  <2>3. CASE Return(0, node)
    BY <2>2, <2>3, NodeIsWords, ConsumableCounts, ReturnWorks
  <2>4. CASE /\ mode' = "thrown"
             /\ UNCHANGED <<tks, curTkIdx, todo, node, backtracker, diagVars,
                            IDsForDelay, ambigVars, recovered>>
    <3>1. MovesOn
      BY <2>4, ProgramsAssumption DEF TypeOK, MovesOn
    <3>2. Data
      BY <2>4, NoReports DEF TypeOK, ambigVars, Modes, Data
    <3> QED
      BY <2>4, <3>1, <3>2 DEF IdleStep, Step
  <2>5. CASE precedenceOf(Peek) >= Cutoff(Arg) /\ Continue(1, items)
    <3>1. Peek \in Words
      BY <2>2, <2>5, OperatorAhead DEF Words
    <3>2. next \in PlainItem
      BY <2>1, <2>2, <3>1, NodeIsWords, Words1, WordsAppend, WordsConcat,
         CallNAryPlain
    <3>3. <<Cast, next>> \in Seq(PlainItem)
      BY <3>2, ExpressionItems, Items2
    <3>4. "WhenTrue" \in Routines /\ ":" \in Arguments
      BY DEF Routines, ExpressionRoutines, Arguments, MatchedTokens
    <3>5. whenTrue \in Seq(PlainItem)
      BY <3>4, CallPlain, MachineItems, Items3
    <3>6. items \in Seq(PlainItem)
      BY <3>3, <3>5, Items0, ItemsConcat
    <3> QED
      BY <2>2, <2>5, <3>6, ConsumableCounts, ContinueWorks
  <2> QED
    BY <1>27, <2>3, <2>4, <2>5 DEF parseNAryExpression_AtOperator
<1>28. CASE ConditionalExpression_WhenTrue
  <2>1. {"WhenTrue"} \subseteq Routines
    BY DEF Routines, ExpressionRoutines
  <2>2. {"ExpectedFeature"} \subseteq DiagnosticIds
    BY DEF DiagnosticIds
  <2> QED
    BY <1>28, <2>1, <2>2, NodeIsWords, Items0, Items2, MachineItems,
       StatementItems, RunsRoutine, ConsumableCounts, ContinueWorks,
       ExpandWorks, DiagnoseIfReports
       DEF ConditionalExpression_WhenTrue
<1>29. CASE NAryExpression_AtNext
  <2> DEFINE op == Acc[Len(Acc)]
             prevPrec == precedenceOf(op)
             precAhead == precedenceOf(Peek)
             bindsNext == \/ precAhead > prevPrec
                          \/ precAhead = prevPrec /\ isRightAssociative(Peek)
  <2>1. {"NAryExpression_AtNext", "NAryExpression_AtOperator"}
          \subseteq NAryRoutines
    BY DEF NAryRoutines
  <2>2. /\ Running /\ InTokens
        /\ Arg \in Cutoffs /\ Acc \in Seq(Words) /\ Head(todo) \in PlainItem
    BY <1>29, <2>1, RunsNAry DEF NAryExpression_AtNext
  <2>3. CASE /\ bindsNext
             /\ Continue(0, <<CallIn("NAryExpression_AtOperator", Peek),
                              Head(todo)>>)
    <3>1. precAhead \in 0 .. 13 /\ prevPrec \in 0 .. 13
      BY PrecedenceRange
    <3>2. precAhead > 0
      BY <2>3, <3>1 DEF isRightAssociative
    <3>3. Peek \in Cutoffs
      BY <3>2, OperatorsHavePrecedence DEF Cutoffs
    <3> HIDE DEF bindsNext
    <3> QED
      BY <2>1, <2>2, <2>3, <3>3, CallNAryPlain, Items2, ConsumableCounts,
         ContinueWorks
  <2>4. CASE FailSilently
    BY <2>2, <2>4, FailSilentlyWorks
  <2>5. CASE /\ Expand(0, <<CallWith("NAryExpression_AtOperator", Arg,
                                     SubSeq(Acc, 2, Len(Acc)))>>,
                       <<IF /\ op = "*"
                            /\ Acc[1] = "IdentifierName"
                            /\ node = <<"IdentifierName">>
                           THEN "MultiplyOfNames" ELSE "Expression">>)
             /\ UNCHANGED diagVars
    <3>1. SubSeq(Acc, 2, Len(Acc)) \in Seq(Words)
      BY <2>2, SubSeqProperties
    <3>2. {"MultiplyOfNames", "Expression"} \subseteq Words
      BY DEF Words, NodeKinds, ExpressionKinds
    <3>3. <<IF /\ op = "*"
               /\ Acc[1] = "IdentifierName"
               /\ node = <<"IdentifierName">>
              THEN "MultiplyOfNames" ELSE "Expression">> \in Seq(Words)
      BY <3>2, Words1
    <3> QED
      BY <2>1, <2>2, <2>5, <3>1, <3>3, CallNAryPlain, Items1, NoReports,
         ConsumableCounts, ExpandWorks
  <2> QED
    BY <1>29, <2>3, <2>4, <2>5 DEF NAryExpression_AtNext
<1> QED
  BY <1>1, <1>2, <1>3, <1>4, <1>5, <1>6, <1>7, <1>8, <1>9, <1>10, <1>11, <1>12,
     <1>13, <1>14, <1>15, <1>16, <1>17, <1>18, <1>19, <1>20, <1>21, <1>22,
     <1>23, <1>24, <1>25, <1>26, <1>27, <1>28, <1>29
     DEF ExpressionsNext

-----------------------------------------------------------------------------
(* The routines of the declarations.                                       *)

(* A specifier's first token names a routine.                              *)
LEMMA SpecifierRoutineIsRoutine ==
  ASSUME NEW list, NEW k \in DOMAIN SpecifierRoutine(list)
  PROVE  SpecifierRoutine(list)[k] \in Routines
  BY DEF SpecifierRoutine, Routines, DeclarationRoutines

(* Both specifier lists, which differ in the specifiers that they know.    *)
LEMMA SpecifiersTakeSteps ==
  ASSUME TypeOK, NEW list \in SpecifierLists, parseSpecifiers(list)
  PROVE  Step
<1>1. list \in Routines
  BY DEF SpecifierLists, Routines, DeclarationRoutines
<1>2. Running /\ InTokens /\ Acc \in Seq(Words) /\ Head(todo) \in PlainItem
  BY <1>1, RunsRoutine DEF parseSpecifiers
<1>3. {"AtomicTypeSpecifier", "TagTypeSpecifier"} \subseteq Routines
  BY DEF Routines, DeclarationRoutines
<1>4. "Specifiers_AtFollowOfTag" \in HigherOrder
  BY DEF HigherOrder
<1>5. "" \in Arguments /\ TagKeywords \subseteq Arguments
  BY DEF Arguments
<1>6. {"Specifier", "TypeSpecifier", "TypedefName"} \subseteq Words
  BY DEF Words, NodeKinds
<1>7. "ExpectedFIRSTofSpecifierQualifier" \in DiagnosticIds
  BY DEF DiagnosticIds
<1>8. \A w \in Words : CallWith(list, "", Append(Acc, w)) \in PlainItem
  BY <1>1, <1>2, <1>5, WordsAppend, CallWithPlain
<1> QED
  BY <1>1, <1>2, <1>3, <1>4, <1>5, <1>6, <1>7, <1>8,
     SpecifierRoutineIsRoutine, CallPlain, CallInPlain, CallHigherOrderPlain,
     Items1, Items2, ConsumableCounts, ContinueWorks, ReturnWorks, FailWorks
     DEF parseSpecifiers

(* Every step of a routine of Parser_Declarations.cpp and Parser_Common.cpp *)
(* is of one of the kinds.                                                 *)
LEMMA DeclarationsTakeSteps ==
  ASSUME TypeOK, DeclarationsNext
  PROVE  Step
<1>1. CASE parseMaybeAttributes
  <2>1. {"MaybeAttributes"} \subseteq Routines
    BY DEF Routines, DeclarationRoutines
  <2> QED
    BY <1>1, <2>1, Items2, Items0, MachineItems, DeclarationItems, RunsRoutine,
       ConsumableCounts, ContinueWorks
       DEF parseMaybeAttributes
<1>2. CASE parseTranslationUnit
  <2>1. {"TranslationUnit", "ExternalDeclaration"} \subseteq Routines
    BY DEF Routines, DeclarationRoutines
  <2>2. {"TranslationUnit"} \subseteq Words
    BY DEF Words, NodeKinds, ExpressionKinds
  <2> QED
    BY <1>2, <2>1, <2>2, Words1, Items3, Items2, MachineItems, CallPlain,
       RunsRoutine, ConsumableCounts, ContinueWorks, ReturnWorks
       DEF parseTranslationUnit
<1>3. CASE ignoreDeclarationOrDefinition
  <2>1. {"TranslationUnit"} \subseteq Routines
    BY DEF Routines, DeclarationRoutines
  <2> QED
    BY <1>3, <2>1, Items1, UnwindsRoutine, ConsumableCounts, RecoverWorks,
       SkipTokenIdles
       DEF ignoreDeclarationOrDefinition
<1>4. CASE parseExternalDeclaration
  <2>1. {"ExternalDeclaration", "StaticAssertDeclaration",
         "AsmStatementDeclaration"} \subseteq Routines
    BY DEF Routines, DeclarationRoutines
  <2> QED
    BY <1>4, <2>1, Items0, Items1, Items2, MachineItems, DeclarationItems,
       CallPlain, RunsRoutine, ConsumableCounts, ContinueWorks
       DEF parseExternalDeclaration
<1>5. CASE parseStaticAssertDeclaration_AtFirst
  <2>1. {"StaticAssertDeclaration", "StringLiteral"} \subseteq Routines
    BY DEF Routines, ExpressionRoutines, DeclarationRoutines
  <2>2. {"(", ",", ")", ";", ":"} \subseteq Arguments
    BY DEF Arguments, StatementContexts, MatchedTokens, Varieties, TagKeywords
  <2> QED
    BY <1>5, <2>1, <2>2, Items7, MachineItems, StatementItems, CallPlain,
       RunsRoutine, ConsumableCounts, ContinueWorks
       DEF parseStaticAssertDeclaration_AtFirst
<1>6. CASE parseExtGNU_AsmStatementDeclaration_AtFirst
  <2>1. {"AsmStatementDeclaration", "StringLiteral"} \subseteq Routines
    BY DEF Routines, ExpressionRoutines, DeclarationRoutines
  <2>2. {"(", ")"} \subseteq Arguments
    BY DEF Arguments, StatementContexts, MatchedTokens, Varieties, TagKeywords
  <2>3. {"ExpectedFeature"} \subseteq DiagnosticIds
    BY DEF DiagnosticIds
  <2> QED
    BY <1>6, <2>1, <2>2, <2>3, NodeIsWords, Items4, MachineItems, CallPlain,
       RunsRoutine, ConsumableCounts, ExpandWorks, DiagnoseIfReports
       DEF parseExtGNU_AsmStatementDeclaration_AtFirst
<1>7. CASE parseDeclarationOrFunctionDefinition
  <2>1. {"DeclarationOrFunctionDefinition", "DeclarationSpecifiers",
         "Declaration_AtFollowOfSpecifiers"} \subseteq Routines
    BY DEF Routines, DeclarationRoutines
  <2>2. {"File"} \subseteq Arguments
    BY DEF Arguments, StatementContexts, MatchedTokens, Varieties, TagKeywords
  <2> QED
    BY <1>7, <2>1, <2>2, Items2, CallPlain, CallInPlain, RunsRoutine,
       ConsumableCounts, ContinueWorks
       DEF parseDeclarationOrFunctionDefinition
<1>8. CASE parseDeclaration
  <2>1. {"Declaration_AtFollowOfSpecifiers"} \subseteq Routines
    BY DEF Routines, DeclarationRoutines
  <2>2. {"ExpectedTypeSpecifier", "ExpectedFIRSTofSpecifierQualifier"}
         \subseteq DiagnosticIds
    BY DEF DiagnosticIds
  <2>3. {"InitDeclarators", "StructDeclarators"} \subseteq Routines
    BY DEF Routines, DeclarationRoutines
  <2> QED
    BY <1>8, <2>1, <2>2, NodeIsWords, <2>3, Items0, Items1, RunsRoutine,
       ConsumableCounts, ContinueWorks, ExpandWorks, DiagnoseIfReports,
       CallPlain
       DEF parseDeclaration
<1>9. CASE parseInitDeclarators
  <2>1. {"InitDeclarators", "InitDeclarator_AtInitializer", "ignoreDeclarator",
         "InitDeclarator_AtFollow"} \subseteq Routines
    BY DEF Routines, DeclarationRoutines
  <2>2. {"File", "", "="} \subseteq Arguments
    BY DEF Arguments, StatementContexts, MatchedTokens, Varieties, TagKeywords
  <2>3. {"UnexpectedInitializerOfDeclarator"} \subseteq DiagnosticIds
    BY DEF DiagnosticIds
  <2> QED
    BY <1>9, <2>1, <2>2, <2>3, NodeIsWords, Items2, Items1, DeclarationItems,
       CallPlain, CallWithPlain, RunsRoutine, ConsumableCounts, ContinueWorks,
       ExpandWorks, diagnoseReports
       DEF parseInitDeclarators
<1>10. CASE ignoreDeclarator
  <2>1. {"ignoreDeclarator"} \subseteq Routines
    BY DEF Routines, DeclarationRoutines
  <2> QED
    BY <1>10, <2>1, Items1, RunsRoutine, ConsumableCounts, ContinueWorks,
       NoReports, ReturnFalseWorks, FailSilentlyWorks
       DEF ignoreDeclarator
<1>11. CASE InitDeclarator_AtFollow
  <2>1. {"InitDeclarator_AtFollow", "InitDeclarators", "FunctionBody",
         "KR_ParameterDeclarationList", "KR_FunctionDefinition",
         "NotKR_FunctionDefinition"} \subseteq Routines
    BY DEF Routines, DeclarationRoutines
  <2>2. {""} \subseteq Arguments
    BY DEF Arguments, StatementContexts, MatchedTokens, Varieties, TagKeywords
  <2>3. {"ExpectedFOLLOWofDeclaratorAndInitializer"} \subseteq DiagnosticIds
    BY DEF DiagnosticIds
  <2> QED
    BY <1>11, <2>1, <2>2, <2>3, Items1, Items0, Items2, MachineItems,
       CallPlain, CallWithPlain, RunsRoutine, ConsumableCounts, ContinueWorks,
       FailWorks, TryPlainBegins
       DEF InitDeclarator_AtFollow
<1>12. CASE NotKR_FunctionDefinition
  <2>1. {"NotKR_FunctionDefinition"} \subseteq Routines
    BY DEF Routines, DeclarationRoutines
  <2>2. {"ExpectedFOLLOWofDeclarator"} \subseteq DiagnosticIds
    BY DEF DiagnosticIds
  <2> QED
    BY <1>12, <2>1, <2>2, RunsRoutine, FailWorks
       DEF NotKR_FunctionDefinition
<1>13. CASE FunctionBody
  <2>1. {"FunctionBody", "CompoundStatement_AtFirst"} \subseteq Routines
    BY DEF Routines, StatementRoutines, DeclarationRoutines
  <2>2. {"None"} \subseteq Arguments
    BY DEF Arguments, StatementContexts, MatchedTokens, Varieties, TagKeywords
  <2> QED
    BY <1>13, <2>1, <2>2, Items1, CallInPlain, RunsRoutine, ConsumableCounts,
       ContinueWorks
       DEF FunctionBody
<1>14. CASE KR_FunctionDefinition
  <2>1. {"KR_FunctionDefinition", "FunctionBody", "ClearDelayedDiags"}
         \subseteq Routines
    BY DEF Routines, DeclarationRoutines
  <2>2. CASE Runs("KR_FunctionDefinition")
    <3>1. Running /\ InTokens
      BY <2>1, <2>2, RunsRoutine
    <3>2. CASE Continue(0, <<Call("FunctionBody"), OrProceed,
                             Call("ClearDelayedDiags")>>)
      BY <2>1, <3>1, <3>2, CallPlain, MachineItems, Items3, ConsumableCounts,
         ContinueWorks
    <3>3. CASE FailSilently
      BY <3>1, <3>3, FailSilentlyWorks
    <3>4. CASE Head(todo).do = "ClearDelayedDiags"
      BY <2>2, <3>4 DEF Runs
    <3> QED
      BY <1>14, <3>2, <3>3, <3>4 DEF KR_FunctionDefinition
  <2>3. CASE /\ todo # <<>>
             /\ Head(todo).do = "ClearDelayedDiags"
             /\ delayedDiags' = {}
             /\ Expand(0, <<>>, node)
             /\ UNCHANGED <<diags, omitted, failedAsserts>>
    <3>1. Running
      BY <2>1, <2>3, NamesDiffer DEF Running
    <3>2. Reports
      BY <2>3 DEF TypeOK, Reports
    <3> QED
      BY <2>3, <3>1, <3>2, NodeIsWords, Items0, ConsumableCounts, ExpandWorks
  <2> QED
    BY <1>14, <2>2, <2>3 DEF KR_FunctionDefinition
<1>15. CASE parseExtKR_ParameterDeclarationList
  <2>1. {"KR_ParameterDeclarationList", "KR_AtNextParameter",
         "KR_ParameterDeclaration"} \subseteq Routines
    BY DEF Routines, DeclarationRoutines
  <2> QED
    BY <1>15, <2>1, Items2, Items0, Items1, CallPlain, RunsRoutine,
       ConsumableCounts, ContinueWorks
       DEF parseExtKR_ParameterDeclarationList
<1>16. CASE parseExtKR_ParameterDeclaration
  <2>1. {"KR_ParameterDeclaration", "KR_Declarators",
         "KR_AtFollowOfDeclarator", "DeclarationSpecifiers"} \subseteq Routines
    BY DEF Routines, DeclarationRoutines
  <2>2. {"FunctionPrototype"} \subseteq Arguments
    BY DEF Arguments, StatementContexts, MatchedTokens, Varieties, TagKeywords
  <2> QED
    BY <1>16, <2>1, <2>2, Items2, Items1, Items0, DeclarationItems, CallPlain,
       RunsRoutine, ConsumableCounts, ContinueWorks, FailSilentlyWorks
       DEF parseExtKR_ParameterDeclaration
<1>17. CASE parseDeclarationSpecifiers
  BY <1>17, SpecifiersTakeSteps DEF parseDeclarationSpecifiers, SpecifierLists
<1>18. CASE parseSpecifierQualifierList
  BY <1>18, SpecifiersTakeSteps
     DEF parseSpecifierQualifierList, SpecifierLists
<1>19. CASE Specifiers_AtFollowOfTag
  <2>1. {"Specifiers_End"} \subseteq Routines
    BY DEF Routines, DeclarationRoutines
  <2>2. {"Specifiers_AtFollowOfTag"} \subseteq HigherOrder
    BY DEF HigherOrder
  <2>3. {""} \subseteq Arguments
    BY DEF Arguments, StatementContexts, MatchedTokens, Varieties, TagKeywords
  <2>4. {"TagDeclaration"} \subseteq Words
    BY DEF Words, NodeKinds, ExpressionKinds
  <2>5. {"TypeSpecifier"} \subseteq Words
    BY DEF Words, NodeKinds
  <2> QED
    BY <1>19, <2>1, <2>2, <2>3, <2>4, <2>5, Words1, Items2, Items1,
       WordsAppend, DeclarationItems, CallWithPlain, RunsRoutine,
       RunsHigherOrder, ConsumableCounts, ContinueWorks, ReturnWorks
       DEF Specifiers_AtFollowOfTag
<1>20. CASE parseAlignmentOrTypeofSpecifier_AtFirst
  <2>1. {"AlignmentOrTypeofSpecifier", "ParenthesizedTypeNameOrExpression"}
         \subseteq Routines
    BY DEF Routines, DeclarationRoutines
  <2> QED
    BY <1>20, <2>1, Items1, CallPlain, RunsRoutine, ConsumableCounts,
       ContinueWorks
       DEF parseAlignmentOrTypeofSpecifier_AtFirst
<1>21. CASE parseAtomiceTypeSpecifier_AtFirst
  <2>1. {"AtomicTypeSpecifier"} \subseteq Routines
    BY DEF Routines, DeclarationRoutines
  <2>2. {"(", ")"} \subseteq Arguments
    BY DEF Arguments, StatementContexts, MatchedTokens, Varieties, TagKeywords
  <2> QED
    BY <1>21, <2>1, <2>2, Items3, MachineItems, ExpressionItems, RunsRoutine,
       ConsumableCounts, ContinueWorks
       DEF parseAtomiceTypeSpecifier_AtFirst
<1>22. CASE parseExtPSY_QuantifiedTypeSpecifier_AtFirst
  <2>1. {"QuantifiedTypeSpecifier"} \subseteq Routines
    BY DEF Routines, DeclarationRoutines
  <2>2. {"(", "Identifier", ")"} \subseteq Arguments
    BY DEF Arguments, StatementContexts, MatchedTokens, Varieties, TagKeywords
  <2> QED
    BY <1>22, <2>1, <2>2, Items3, MachineItems, RunsRoutine, ConsumableCounts,
       ContinueWorks
       DEF parseExtPSY_QuantifiedTypeSpecifier_AtFirst
<1>23. CASE parseTypeQualifiersAndAttributes
  <2>1. {"TypeQualifiersAndAttributes", "AsmLabel", "AsmLabel_Inverted"}
         \subseteq Routines
    BY DEF Routines, DeclarationRoutines
  <2> QED
    BY <1>23, <2>1, Items1, Items2, Items0, DeclarationItems, CallPlain,
       RunsRoutine, ConsumableCounts, ContinueWorks
       DEF parseTypeQualifiersAndAttributes
<1>24. CASE AsmLabel_Inverted
  <2>1. "AsmLabel_Inverted" \in Routines
    BY DEF Routines, DeclarationRoutines
  <2>2. Running
    BY <1>24, <2>1, NamesDiffer DEF AsmLabel_Inverted, Unwinds, Running
  <2> QED
    BY <1>24, <2>2, DeclarationItems, Items1, ConsumableCounts,
       FailSilentlyWorks, RecoverWorks
       DEF AsmLabel_Inverted
<1>25. CASE parseExtGNU_AsmLabel_AtFirst
  <2>1. {"AsmLabel", "StringLiteral"} \subseteq Routines
    BY DEF Routines, ExpressionRoutines, DeclarationRoutines
  <2>2. {"(", ")"} \subseteq Arguments
    BY DEF Arguments, StatementContexts, MatchedTokens, Varieties, TagKeywords
  <2> QED
    BY <1>25, <2>1, <2>2, Items3, MachineItems, CallPlain, RunsRoutine,
       ConsumableCounts, ContinueWorks
       DEF parseExtGNU_AsmLabel_AtFirst
<1>26. CASE parseTagTypeSpecifier_AtFirst
  <2>1. {"TagTypeSpecifier", "TagTypeSpecifier_AtTag"} \subseteq Routines
    BY DEF Routines, DeclarationRoutines
  <2>2. {"MemberDeclarations"} \subseteq HigherOrder
    BY DEF HigherOrder
  <2>3. {"ExpectedFOLLOWofStructOrUnionOrEnum"} \subseteq DiagnosticIds
    BY DEF DiagnosticIds
  <2>4. {"TagDeclaration", "TagSpecifier"} \subseteq Words
    BY DEF Words, NodeKinds, ExpressionKinds
  <2>5. {"Enumerator", "StructDeclaration"} \subseteq Routines
    BY DEF Routines, DeclarationRoutines
  <2>6. (IF Arg = "enum" THEN "Enumerator"
         ELSE "StructDeclaration") \in Routines
    BY <2>5
  <2> QED
    BY <1>26, <2>1, <2>2, <2>3, <2>4, <2>5, <2>6, Items2, Items1, Words1,
       DeclarationItems, CallInPlain, CallHigherOrderPlain, RunsRoutine,
       ConsumableCounts, ContinueWorks, ReturnWorks, FailWorks
       DEF parseTagTypeSpecifier_AtFirst
<1>27. CASE MemberDeclarations_Loop
  <2>1. {"MemberDeclarations_End"} \subseteq Routines
    BY DEF Routines, DeclarationRoutines
  <2>2. {"MemberDeclarations"} \subseteq HigherOrder
    BY DEF HigherOrder
  <2> QED
    BY <1>27, <2>1, <2>2, Items2, DeclarationItems, CallPlain, RunsHigherOrder,
       ConsumableCounts, ContinueWorks
       DEF MemberDeclarations_Loop
<1>28. CASE MemberDeclarations_End
  <2>1. {"MemberDeclarations_End"} \subseteq Routines
    BY DEF Routines, DeclarationRoutines
  <2>2. {"TagDeclaration"} \subseteq Words
    BY DEF Words, NodeKinds, ExpressionKinds
  <2> QED
    BY <1>28, <2>1, <2>2, Words1, RunsRoutine, ConsumableCounts, ReturnWorks
       DEF MemberDeclarations_End
<1>29. CASE ignoreMemberDeclaration
  <2>1. {"MemberDeclarations"} \subseteq HigherOrder
    BY DEF HigherOrder
  <2> QED
    BY <1>29, <2>1, Items1, UnwindsRoutine, ConsumableCounts, NoReports,
       ReturnFalseWorks, FailSilentlyWorks, RecoverWorks, SkipTokenIdles
       DEF ignoreMemberDeclaration
<1>30. CASE parseStructDeclaration
  <2>1. {"StructDeclaration", "StaticAssertDeclaration",
         "SpecifierQualifierList", "Declaration_AtFollowOfSpecifiers"}
         \subseteq Routines
    BY DEF Routines, DeclarationRoutines
  <2>2. {"Block"} \subseteq Arguments
    BY DEF Arguments, StatementContexts, MatchedTokens, Varieties, TagKeywords
  <2>3. InTokens => Consumable(IF Peek = "__extension__" THEN 1 ELSE 0)
    BY ConsumableCounts
  <2> QED
    BY <1>30, <2>1, <2>2, <2>3, Items1, Items2, CallPlain, CallInPlain,
       RunsRoutine, ConsumableCounts, ContinueWorks
       DEF parseStructDeclaration
<1>31. CASE parseStructDeclarators
  <2>1. {"StructDeclarators", "StructDeclarator_AtFollow"} \subseteq Routines
    BY DEF Routines, DeclarationRoutines
  <2>2. {"Block"} \subseteq Arguments
    BY DEF Arguments, StatementContexts, MatchedTokens, Varieties, TagKeywords
  <2>3. {"ExpectedFOLLOWofStructDeclarator"} \subseteq DiagnosticIds
    BY DEF DiagnosticIds
  <2> QED
    BY <1>31, <2>1, <2>2, <2>3, Items2, Items1, Items0, DeclarationItems,
       CallPlain, RunsRoutine, ConsumableCounts, ContinueWorks, FailWorks
       DEF parseStructDeclarators
<1>32. CASE parseEnumerator
  <2>1. {"Enumerator", "Enumerator_AtValue", "Enumerator_AtComma"} \subseteq
         Routines
    BY DEF Routines, DeclarationRoutines
  <2>2. {"ExpectedFIRSTofEnumerationConstant"} \subseteq DiagnosticIds
    BY DEF DiagnosticIds
  <2>3. InTokens => Consumable(IF Peek = "," THEN 1 ELSE 0)
    BY ConsumableCounts
  <2> QED
    BY <1>32, <2>1, <2>2, <2>3, Items2, Items1, Items0, StatementItems,
       DeclarationItems, CallPlain, RunsRoutine, ConsumableCounts,
       ContinueWorks, FailWorks
       DEF parseEnumerator
<1>33. CASE parseExtGNU_AttributeSpecifierList_AtFirst
  <2>1. {"AttributeSpecifierList", "AttributeSpecifierList_AtNext",
         "AttributeSpecifier"} \subseteq Routines
    BY DEF Routines, DeclarationRoutines
  <2> QED
    BY <1>33, <2>1, Items2, Items1, Items0, DeclarationItems, CallPlain,
       RunsRoutine, ConsumableCounts, ContinueWorks
       DEF parseExtGNU_AttributeSpecifierList_AtFirst
<1>34. CASE parseExtGNU_AttributeSpecifier_AtFirst
  <2>1. {"AttributeSpecifier", "AttributeList"} \subseteq Routines
    BY DEF Routines, DeclarationRoutines
  <2>2. {"(", ")"} \subseteq Arguments
    BY DEF Arguments, StatementContexts, MatchedTokens, Varieties, TagKeywords
  <2> QED
    BY <1>34, <2>1, <2>2, Items6, MachineItems, CallPlain, RunsRoutine,
       ConsumableCounts, ContinueWorks
       DEF parseExtGNU_AttributeSpecifier_AtFirst
<1>35. CASE parseExtGNU_AttributeList
  <2>1. {"AttributeList", "AttributeList_AtNext", "Attribute"} \subseteq
         Routines
    BY DEF Routines, DeclarationRoutines
  <2>2. {"ExpectedTokenWithin"} \subseteq DiagnosticIds
    BY DEF DiagnosticIds
  <2> QED
    BY <1>35, <2>1, <2>2, Items2, Items1, Items0, CallPlain, RunsRoutine,
       ConsumableCounts, ContinueWorks, FailWorks
       DEF parseExtGNU_AttributeList
<1>36. CASE parseExtGNU_Attribute
  <2>1. {"Attribute", "AttributeArgumentsLLVM", "CallArgument"} \subseteq
         Routines
    BY DEF Routines, ExpressionRoutines, DeclarationRoutines
  <2>2. {")"} \subseteq Arguments
    BY DEF Arguments, StatementContexts, MatchedTokens, Varieties, TagKeywords
  <2>3. {"ExpectedTokenWithin"} \subseteq DiagnosticIds
    BY DEF DiagnosticIds
  <2> QED
    BY <1>36, <2>1, <2>2, <2>3, Items0, Items2, MachineItems, CallPlain,
       RunsRoutine, ConsumableCounts, ContinueWorks, FailWorks
       DEF parseExtGNU_Attribute
<1>37. CASE parseExtGNU_AttributeArgumentsLLVM
  <2>1. {"AttributeArgumentsLLVM", "LLVM_AtComma", "LLVM_AtEquals",
         "LLVM_AtInteger", "IdentifierName", "StringLiteral", "Constant"}
         \subseteq Routines
    BY DEF Routines, ExpressionRoutines, DeclarationRoutines
  <2>2. {"ExpectedFeature"} \subseteq DiagnosticIds
    BY DEF DiagnosticIds
  <2>3. InTokens => Consumable(IF Peek = "IntegerConstant" THEN 1 ELSE 0)
    BY ConsumableCounts
  <2> QED
    BY <1>37, <2>1, <2>2, <2>3, NodeIsWords, Items2, Items3, Items0, Items1,
       CallPlain, RunsRoutine, ConsumableCounts, ContinueWorks, ExpandWorks,
       DiagnoseIfReports
       DEF parseExtGNU_AttributeArgumentsLLVM
<1>38. CASE parseDeclarator
  <2>1. {"Declarator", "Declarator_AtPointer", "PointerDeclarator_End",
         "DirectDeclarator"} \subseteq Routines
    BY DEF Routines, DeclarationRoutines
  <2>2. {"Pointer"} \subseteq Words
    BY DEF Words, NodeKinds, ExpressionKinds
  <2> QED
    BY <1>38, <2>1, <2>2, NodeIsWords, Items2, Items3, Items1, Words1,
       WordsConcat, ItemsConcat, DeclarationItems, CallPlain, CallInPlain,
       RunsRoutine, ConsumableCounts, ContinueWorks, ReturnWorks
       DEF parseDeclarator
<1>39. CASE parseDirectDeclarator
  <2>1. {"DirectDeclarator", "AbstractDeclaratorSuffix", "Bitfield_End"}
          \subseteq Routines
    BY DEF Routines, DeclarationRoutines
  <2>2. {")"} \subseteq Arguments
    BY DEF Arguments, StatementContexts, MatchedTokens, Varieties, TagKeywords
  <2>3. {"ExpectedFIRSTofDirectDeclarator"} \subseteq DiagnosticIds
    BY DEF DiagnosticIds
  <2>4. {"Identifier", "Abstract"} \subseteq Words
    BY DEF Words, NodeKinds, ExpressionKinds
  <2>5. "AtCloseParenOfAbstract" \in Discarders
    BY DEF Discarders
  <2> QED
    BY <1>39, <2>1, <2>2, <2>3, <2>4, <2>5, Items3, Words1, Items4, Items1,
       Items0, Items2, MachineItems, StatementItems, DeclarationItems, CallPlain,
       RunsRoutine,
       ConsumableCounts, ContinueWorks, ReturnWorks, ExpandWorks, NoReports,
       FailWorks, FailSilentlyWorks, TryDiscarderBegins, Words0
       DEF parseDirectDeclarator
<1>40. CASE AtCloseParenOfAbstract
  <2>1. "AtCloseParenOfAbstract" \in Discarders
    BY DEF Discarders
  <2>2. Running /\ InTokens /\ todo # <<>> /\ Head(todo).do \in Discarders
    BY <1>40, <2>1, RunsDiscarder DEF AtCloseParenOfAbstract
  <2>3. "Abstract" \in Arguments /\ "Parenthesized" \in Words
    BY DEF Arguments, Varieties, Words, NodeKinds
  <2> QED
    BY <1>40, <2>2, <2>3, NodeIsWords, Words1, WordsConcat, Items1,
       DeclarationItems, ConsumableCounts, DiscardEarlyKeeps,
       FailSilentlyWorks
       DEF AtCloseParenOfAbstract
<1>41. CASE AbstractDeclaratorSuffix
  <2>1. {"AbstractDeclaratorSuffix"} \subseteq Routines
    BY DEF Routines, DeclarationRoutines
  <2>2. {"Abstract"} \subseteq Arguments
    BY DEF Arguments, StatementContexts, MatchedTokens, Varieties, TagKeywords
  <2>3. {"Abstract"} \subseteq Words
    BY DEF Words, NodeKinds, ExpressionKinds
  <2> QED
    BY <1>41, <2>1, <2>2, <2>3, Items1, Words1, DeclarationItems, RunsRoutine,
       ConsumableCounts, ExpandWorks, NoReports
       DEF AbstractDeclaratorSuffix
<1>42. CASE parseBitfieldDeclarator
  <2>1. {"MaybeBitfield", "Bitfield_End"} \subseteq Routines
    BY DEF Routines, DeclarationRoutines
  <2>2. {"Bitfield"} \subseteq Words
    BY DEF Words, NodeKinds, ExpressionKinds
  <2> QED
    BY <1>42, <2>1, <2>2, NodeIsWords, Items3, Words1, StatementItems,
       DeclarationItems, CallPlain, RunsRoutine, ConsumableCounts,
       ContinueWorks, ReturnWorks
       DEF parseBitfieldDeclarator
<1>43. CASE parseLabelAndAttributes
  <2>1. {"LabelAndAttributes", "LabelThenAttributes", "AttributesAfterLabel",
         "AsmLabel", "Specifiers_End"} \subseteq Routines
    BY DEF Routines, DeclarationRoutines
  <2>2. {""} \subseteq Arguments
    BY DEF Arguments, StatementContexts, MatchedTokens, Varieties, TagKeywords
  <2> QED
    BY <1>43, <2>1, <2>2, NodeIsWords, Items1, Items2, DeclarationItems,
       CallPlain, CallWithPlain, RunsRoutine, ConsumableCounts, ContinueWorks,
       ReturnWorks
       DEF parseLabelAndAttributes
<1>44. CASE parseDirectDeclaratorSuffix
  <2>1. {"DirectDeclaratorSuffix", "ParameterSuffix_End",
         "SubscriptSuffix_End", "ParameterDeclarationListAndOrEllipsis",
         "ArraySuffix"} \subseteq Routines
    BY DEF Routines, DeclarationRoutines
  <2>2. {")", "]", ""} \subseteq Arguments
    BY DEF Arguments, StatementContexts, MatchedTokens, Varieties, TagKeywords
  <2>3. {"Function", "Array"} \subseteq Words
    BY DEF Words, NodeKinds, ExpressionKinds
  <2>4. InTokens => Consumable(IF Peek = "_omission" THEN 1 ELSE 0)
    BY ConsumableCounts
  <2> QED
    BY <1>44, <2>1, <2>2, <2>3, <2>4, NodeIsWords, Items5, Words1, WordsConcat,
       ItemsConcat, MachineItems, DeclarationItems, CallPlain, CallInPlain,
       CallWithPlain, RunsRoutine, ConsumableCounts, ContinueWorks, ReturnWorks
       DEF parseDirectDeclaratorSuffix
<1>45. CASE ArraySuffix
  <2>1. {"ArraySuffix", "ArraySuffix_AtC99",
         "ArraySuffix_AtFollowOfQualifiers", "ArraySuffix_AtStatic",
         "ArraySuffix_AtQualifiersAfterStatic"} \subseteq Routines
    BY DEF Routines, DeclarationRoutines
  <2>2. {"]"} \subseteq Arguments
    BY DEF Arguments, StatementContexts, MatchedTokens, Varieties, TagKeywords
  <2>3. {"ExpectedFeature"} \subseteq DiagnosticIds
    BY DEF DiagnosticIds
  <2>4. {"UnexpectedPointerInArrayDeclarator",
          "UnexpectedStaticOrTypeQualifiersInArrayDeclarator"}
         \subseteq DiagnosticIds
    BY DEF DiagnosticIds
  <2>5. (IF Peek \in QualifiersInArray \ {"_Atomic"}
            THEN <<TypeQualifiersAndAttributes>> ELSE <<>>)
         \in Seq(PlainItem)
    BY DeclarationItems, Items0, Items1
  <2> QED
    BY <1>45, <2>1, <2>2, <2>3, NodeIsWords, <2>4, <2>5, Items0, Items2,
       Items1, MachineItems, StatementItems, DeclarationItems, CallPlain,
       CallInPlain, RunsRoutine, ConsumableCounts, ContinueWorks, ExpandWorks,
       DiagnoseIfReports, FailWorks
       DEF ArraySuffix, Size
<1>46. CASE parseParameterDeclarationListAndOrEllipsis
  <2>1. {"ParameterDeclarationListAndOrEllipsis",
         "ParameterDeclarationList_AtFollow", "ParameterDeclarationList"}
         \subseteq Routines
    BY DEF Routines, DeclarationRoutines
  <2>2. {"ExpectedNamedParameterBeforeEllipsis"} \subseteq DiagnosticIds
    BY DEF DiagnosticIds
  <2>3. InTokens => Consumable(IF Peek = "..." THEN 1 ELSE 0)
    BY ConsumableCounts
  <2> QED
    BY <1>46, <2>1, <2>2, <2>3, NodeIsWords, Items0, Items2, CallPlain,
       RunsRoutine, ConsumableCounts, ContinueWorks, ExpandWorks,
       diagnoseReports
       DEF parseParameterDeclarationListAndOrEllipsis
<1>47. CASE parseParameterDeclarationList
  <2>1. {"ParameterDeclarationList", "ParameterDeclarationList_AtComma",
         "ParameterDeclaration"} \subseteq Routines
    BY DEF Routines, DeclarationRoutines
  <2> DEFINE items == <<Call("ParameterDeclaration"),
                        Call("ParameterDeclarationList_AtComma")>>
             delayer == CallIn("~DiagnosticsReporterDelayer",
                               "ExpectedTypeSpecifier")
  <2>2. items \in Seq(PlainItem)
    BY <2>1, CallPlain, Items2
  <2>3. Running /\ InTokens
    BY <1>47, <2>1, RunsRoutine DEF parseParameterDeclarationList
  <2>4. CASE /\ IDsForDelay' = IDsForDelay \cup {"ExpectedTypeSpecifier"}
             /\ todo' = <<Call("ParameterDeclaration"),
                          Call("ParameterDeclarationList_AtComma"), delayer>>
                          \o Tail(todo)
             /\ UNCHANGED <<tks, curTkIdx, node, backtracker, diagVars,
                            ambigVars, mode, recovered>>
    <3>1. <<Call("ParameterDeclaration"),
            Call("ParameterDeclarationList_AtComma"), delayer>>
            = items \o <<delayer>>
      OBVIOUS
    <3>2. Tail(todo) \in Seq(Item)
      BY <2>3 DEF Running, TypeOK
    <3>3. (items \o <<delayer>>) \o Tail(todo)
            = items \o <<delayer>> \o Tail(todo)
      OBVIOUS
    <3>4. MovesOn
      BY <2>4, ProgramsAssumption DEF TypeOK, MovesOn
    <3>5. Data
      BY <2>4, NoReports DEF TypeOK, ambigVars, Data
    <3>6. "ExpectedTypeSpecifier" \in DiagnosticIds
      BY DEF DiagnosticIds
    <3>7. /\ todo' = items \o <<delayer>> \o Tail(todo)
          /\ backtracker' = backtracker
      BY <2>4, <3>1, <3>3
    <3> HIDE DEF items
    <3> QED
      BY <2>2, <2>3, <2>4, <3>4, <3>5, <3>6, <3>7 DEF DelayStep, Step
  <2>5. CASE Runs("ParameterDeclarationList_AtComma")
    <3>1. Head(todo) \in PlainItem
      BY <2>1, <2>5, RunsRoutine
    <3>2. ~Runs("ParameterDeclarationList")
      BY <2>5 DEF Runs
    <3> QED
      BY <1>47, <2>1, <2>3, <3>1, <3>2, CallPlain, Items0, Items2,
         ConsumableCounts, ContinueWorks
         DEF parseParameterDeclarationList
  <2> QED
    BY <1>47, <2>4, <2>5 DEF parseParameterDeclarationList
<1>48. CASE parseParameterDeclaration
  <2>1. {"ParameterDeclaration", "ParameterDeclaration_AtFollowOfSpecifiers",
         "ParameterDeclaration_AtDeclarator", "DeclarationSpecifiers",
         "AbstractDeclarator"} \subseteq Routines
    BY DEF Routines, DeclarationRoutines
  <2>2. {"FunctionPrototype"} \subseteq Arguments
    BY DEF Arguments, StatementContexts, MatchedTokens, Varieties, TagKeywords
  <2>3. {"ExpectedFIRSTofParameterDeclaration", "ExpectedTypeSpecifier"}
         \subseteq DiagnosticIds
    BY DEF DiagnosticIds
  <2> QED
    BY <1>48, <2>1, <2>2, <2>3, NodeIsWords, Items2, Items0, Items1,
       DeclarationItems, CallPlain, RunsRoutine, ConsumableCounts,
       ContinueWorks, ExpandWorks, DiagnoseIfReports, FailWorks, TryPlainBegins
       DEF parseParameterDeclaration
<1>49. CASE parseAbstractDeclarator
  <2>1. {"AbstractDeclarator"} \subseteq Routines
    BY DEF Routines, DeclarationRoutines
  <2>2. {"Abstract"} \subseteq Arguments
    BY DEF Arguments, StatementContexts, MatchedTokens, Varieties, TagKeywords
  <2> QED
    BY <1>49, <2>1, <2>2, Items1, DeclarationItems, RunsRoutine,
       ConsumableCounts, ContinueWorks
       DEF parseAbstractDeclarator
<1>50. CASE parseInitializer
  <2>1. {"Initializer", "BraceEnclosedInitializer"} \subseteq Routines
    BY DEF Routines, DeclarationRoutines
  <2> QED
    BY <1>50, <2>1, Items1, StatementItems, CallPlain, RunsRoutine,
       ConsumableCounts, ContinueWorks
       DEF parseInitializer
<1>51. CASE parseBraceEnclosedInitializer_AtFirst
  <2>1. {"BraceEnclosedInitializer", "BraceEnclosedInitializer_AtList",
         "InitializerListItem"} \subseteq Routines
    BY DEF Routines, DeclarationRoutines
  <2>2. {"}"} \subseteq Arguments
    BY DEF Arguments, StatementContexts, MatchedTokens, Varieties, TagKeywords
  <2>3. {"ExpectedBraceEnclosedInitializerList"} \subseteq DiagnosticIds
    BY DEF DiagnosticIds
  <2> QED
    BY <1>51, <2>1, <2>2, <2>3, NodeIsWords, Items1, Items0, Items3,
       MachineItems, CallPlain, RunsRoutine, ConsumableCounts, ContinueWorks,
       ExpandWorks, diagnoseReports
       DEF parseBraceEnclosedInitializer_AtFirst
<1>52. CASE parseInitializerListItem
  <2>1. {"InitializerListItem", "DesignatedInitializer"} \subseteq Routines
    BY DEF Routines, DeclarationRoutines
  <2>2. {"ExpectedFIRSTofExpression"} \subseteq DiagnosticIds
    BY DEF DiagnosticIds
  <2> QED
    BY <1>52, <2>1, <2>2, Items0, Items1, DeclarationItems, CallPlain,
       RunsRoutine, ConsumableCounts, ContinueWorks, FailWorks, NullNodeIdles
       DEF parseInitializerListItem
<1>53. CASE parseDesignatedInitializer_AtFirst
  <2>1. {"DesignatedInitializer", "DesignatedInitializer_AtEquals",
         "DesignatorList"} \subseteq Routines
    BY DEF Routines, DeclarationRoutines
  <2>2. {"ExpectedFOLLOWofDesignatedInitializer", "ExpectedFeature"} \subseteq
         DiagnosticIds
    BY DEF DiagnosticIds
  <2> QED
    BY <1>53, <2>1, <2>2, NodeIsWords, Items2, Items1, DeclarationItems,
       CallPlain, RunsRoutine, ConsumableCounts, ContinueWorks, ExpandWorks,
       DiagnoseIfReports, diagnoseReports
       DEF parseDesignatedInitializer_AtFirst
<1>54. CASE parseDesignatorList_AtFirst
  <2>1. {"DesignatorList", "FieldDesignator"} \subseteq Routines
    BY DEF Routines, DeclarationRoutines
  <2>2. {"]"} \subseteq Arguments
    BY DEF Arguments, StatementContexts, MatchedTokens, Varieties, TagKeywords
  <2>3. {"ExpectedFieldDesignator"} \subseteq DiagnosticIds
    BY DEF DiagnosticIds
  <2> QED
    BY <1>54, <2>1, <2>2, <2>3, Items2, Items3, Items0, MachineItems,
       StatementItems, CallPlain, RunsRoutine, ConsumableCounts, ContinueWorks,
       FailWorks
       DEF parseDesignatorList_AtFirst
<1>55. CASE parseOffsetOfDesignator
  <2>1. {"OffsetOfDesignator", "DesignatorList"} \subseteq Routines
    BY DEF Routines, DeclarationRoutines
  <2>2. {"ExpectedTokenOfCategoryIdentifier"} \subseteq DiagnosticIds
    BY DEF DiagnosticIds
  <2> QED
    BY <1>55, <2>1, <2>2, Items1, CallPlain, RunsRoutine, ConsumableCounts,
       ContinueWorks, FailWorks
       DEF parseOffsetOfDesignator
<1>56. CASE parseTypeName
  <2>1. {"TypeName", "TypeName_AtDeclarator", "TypeName_End",
         "SpecifierQualifierList"} \subseteq Routines
    BY DEF Routines, DeclarationRoutines
  <2>2. {"Abstract", ""} \subseteq Arguments
    BY DEF Arguments, StatementContexts, MatchedTokens, Varieties, TagKeywords
  <2>3. {"TypedefName", "Abstract", "SoleTypedefName", "TypeName"} \subseteq
         Words
    BY DEF Words, NodeKinds, ExpressionKinds
  <2> QED
    BY <1>56, <2>1, <2>2, <2>3, NodeIsWords, Items2, Words1, DeclarationItems,
       CallPlain, CallWithPlain, RunsRoutine, ConsumableCounts, ContinueWorks,
       ReturnWorks
       DEF parseTypeName
<1>57. CASE parseParenthesizedTypeNameOrExpression
  <2>1. {"ParenthesizedTypeNameOrExpression", "ParenthesizedTypeName",
         "maybeAmbiguateTypeReference"} \subseteq Routines
    BY DEF Routines, DeclarationRoutines
  <2>2. {")"} \subseteq Arguments
    BY DEF Arguments, StatementContexts, MatchedTokens, Varieties, TagKeywords
  <2> QED
    BY <1>57, <2>1, <2>2, Items2, Items0, Items1, MachineItems,
       ExpressionItems, CallPlain, RunsRoutine, ConsumableCounts,
       ContinueWorks, TryPlainBegins
       DEF parseParenthesizedTypeNameOrExpression
<1>58. CASE maybeAmbiguateTypeReference
  <2>1. {"maybeAmbiguateTypeReference"} \subseteq Routines
    BY DEF Routines, DeclarationRoutines
  <2>2. {"AmbiguousTypeNameOrExpressionAsTypeReference"} \subseteq AmbiguityIds
    BY DEF AmbiguityIds
  <2>3. {"ParenthesizedName"} \subseteq Words
    BY DEF Words, NodeKinds, ExpressionKinds
  <2> QED
    BY <1>58, <2>1, <2>2, <2>3, NodeIsWords, Words1, RunsRoutine,
       ConsumableCounts, ReturnWorks, AmbiguateWorks
       DEF maybeAmbiguateTypeReference
<1> QED
  BY <1>1, <1>2, <1>3, <1>4, <1>5, <1>6, <1>7, <1>8, <1>9, <1>10, <1>11, <1>12,
     <1>13, <1>14, <1>15, <1>16, <1>17, <1>18, <1>19, <1>20, <1>21, <1>22,
     <1>23, <1>24, <1>25, <1>26, <1>27, <1>28, <1>29, <1>30, <1>31, <1>32,
     <1>33, <1>34, <1>35, <1>36, <1>37, <1>38, <1>39, <1>40, <1>41, <1>42,
     <1>43, <1>44, <1>45, <1>46, <1>47, <1>48, <1>49, <1>50, <1>51, <1>52,
     <1>53, <1>54, <1>55, <1>56, <1>57, <1>58
     DEF DeclarationsNext
=============================================================================
