---------------------------- MODULE ParserMachine ----------------------------
(***************************************************************************)
(* The machine that the recursive-descent routines of C/parser run on: the *)
(* token cursor, the call stack of the routines, the chain of live         *)
(* Backtrackers, and the diagnostics.                                      *)
(*                                                                         *)
(* A routine of the source is an action of one of the modules that extend  *)
(* this one.  todo is the call stack of the C++ program seen as the work   *)
(* that is left: its head is the routine that runs now, and what follows   *)
(* is what its callers still have to do.  A routine replaces itself by the *)
(* work its body does (Expand), returns true by removing itself with a     *)
(* result in node (Return), or returns false (Fail).  After a false return *)
(* the work of the callers is dropped up to the frame of a caller that     *)
(* does something about it: a Backtracker, a skipTo, a loop.               *)
(***************************************************************************)
EXTENDS Naturals, Sequences, FiniteSets

CONSTANTS
  Programs,            \* the token strings to parse, each one ends in EOF
  Extensions,          \* the enabled LanguageExtensions
  C99,                 \* whether the dialect is C99 or later
  MAX_DEPTH_OF_STMTS,  \* the bound that a DepthControl tests
  MAX_DEPTH_OF_EXPRS   \* the bound on the operators of one expression

ASSUME ProgramsAssumption ==
  \A p \in Programs : /\ p \in Seq(STRING)
                      /\ Len(p) > 0
                      /\ p[Len(p)] = "EOF"
ASSUME ConfigurationAssumption ==
  /\ Extensions \subseteq STRING
  /\ C99 \in BOOLEAN
  /\ MAX_DEPTH_OF_STMTS \in Nat
  /\ MAX_DEPTH_OF_EXPRS \in Nat

VARIABLES
  tks,          \* the lexed tokens; token 0, the invalid one, is left out
  curTkIdx,     \* index of the current token
  todo,         \* the call stack: the running routine first
  node,         \* kind of the syntax node of the last routine that returned
  backtracker,  \* the live Backtrackers, backtracker_ is the last one
  diags,        \* diagnostics reported to the syntax tree
  delayedDiags, \* DiagnosticsReporter::delayedDiags_
  IDsForDelay,  \* DiagnosticsReporter::IDsForDelay_
  retainedAmbiguityDiags,
  mode,         \* how control flows, see Modes
  failedAsserts,\* the routines whose PSY_ASSERT failed
  omitted,      \* history: diagnostics not reported because of a Backtracker
  ambiguities,  \* history: the ambiguous nodes of the tree built so far
  recovered     \* history: whether a loop went on after a routine's failure

diagVars == <<diags, delayedDiags, omitted, failedAsserts>>
ambigVars == <<retainedAmbiguityDiags, ambiguities>>
vars == <<tks, curTkIdx, todo, node, backtracker, diagVars, IDsForDelay,
          ambigVars, mode, recovered>>

(* "run": routines run; "fail": a routine returned false; "done": parse    *)
(* returned; "thrown": std::runtime_error; "null": a null node was used;   *)
(* "overrun": a token past the last one was read, which is undefined: what *)
(* the program does next depends on the memory it finds there.             *)
Modes == {"run", "fail", "done", "thrown", "null", "overrun"}
Ended == {"done", "thrown", "null", "overrun"}

DiagnosticIds ==
  {"ExpectedFeature", "ExpectedToken", "ExpectedTokenWithin",
   "ExpectedTokenOfCategoryIdentifier", "ExpectedTokenOfCategoryConstant",
   "ExpectedTokenOfCategoryStringLiteral", "ExpectedFIRSTofExpression",
   "ExpectedFIRSTofEnumerationConstant", "ExpectedFIRSTofDirectDeclarator",
   "ExpectedFIRSTofParameterDeclaration", "ExpectedFIRSTofSpecifierQualifier",
   "ExpectedFOLLOWofDesignatedInitializer", "ExpectedFOLLOWofDeclarator",
   "ExpectedFOLLOWofStructDeclarator",
   "ExpectedFOLLOWofDeclaratorAndInitializer",
   "ExpectedFOLLOWofStructOrUnionOrEnum", "ExpectedFieldName",
   "ExpectedBraceEnclosedInitializerList", "ExpectedFieldDesignator",
   "UnexpectedInitializerOfDeclarator",
   "UnexpectedStaticOrTypeQualifiersInArrayDeclarator",
   "UnexpectedPointerInArrayDeclarator",
   "ExpectedNamedParameterBeforeEllipsis", "ExpectedTypeSpecifier",
   "UnexpectedCaseLabelOutsideSwitch", "UnexpectedDefaultLabelOutsideSwitch",
   "UnexpectedContinueOutsideLoop", "UnexpectedBreakOutsideSwitchOrLoop",
   "UnexpectedGNUExtensionFlag"}
AmbiguityIds ==
  {"AmbiguousTypeNameOrExpressionAsTypeReference",
   "AmbiguousCastOrBinaryExpression",
   "AmbiguousExpressionOrDeclarationStatement"}
(* An entry of the call stack is a routine with its arguments, or a C++    *)
(* object of the running routine that is yet to be destructed.             *)
Objects == {"Backtracker", "~DiagnosticsReporterDelayer"}

-----------------------------------------------------------------------------
(* The entries of the call stack.                                          *)

Call(routine) == [do |-> routine, a |-> "", acc |-> <<>>]
CallIn(routine, a) == [do |-> routine, a |-> a, acc |-> <<>>]
CallWith(routine, a, acc) == [do |-> routine, a |-> a, acc |-> acc]
Match(tkK) == CallIn("match", tkK)
MatchOrSkipTo(tkK) == CallIn("matchOrSkipTo", tkK)

(* What a caller does when a callee that the same step put above the entry *)
(* returns false.                                                          *)
OrSkipTo(tkK) == CallIn("orSkipTo", tkK)
OrSkipPast(tkK) == CallIn("orSkipPast", tkK)
OrIgnoreStatement == Call("checkStatementParse")
OrProceed == Call("orProceed")
TryOr(alternative) == CallIn("Backtracker", alternative)

Loops == {"TranslationUnit", "CompoundStatement", "MemberDeclarations"}
Skippers == {"orSkipTo", "orSkipPast", "checkStatementParse"}
Handlers == Loops \cup Skippers
              \cup {"orProceed", "AsmLabel_Inverted"} \cup Objects

-----------------------------------------------------------------------------
(* Tokens.                                                                 *)

InTokens == curTkIdx <= Len(tks)
PeekAt(LA) == tks[curTkIdx + LA - 1]
Peek == tks[curTkIdx]
mightBacktrack == backtracker # <<>>

-----------------------------------------------------------------------------
(* DiagnosticsReporter.                                                    *)

Reported(id) == [id |-> id, at |-> curTkIdx]

(* Mutant: reports are made although a Backtracker is live.                *)
diagnose_WhileBacktracking(id) ==
  /\ diags' = diags \cup {Reported(id)}
  /\ UNCHANGED <<delayedDiags, omitted, failedAsserts>>

diagnose(id) ==
  \/ /\ mightBacktrack
     /\ omitted' = omitted \cup {Reported(id)}
     /\ UNCHANGED <<diags, delayedDiags, failedAsserts>>
  \/ /\ ~mightBacktrack
     /\ id \in IDsForDelay
     /\ delayedDiags' = delayedDiags \cup {Reported(id)}
     /\ UNCHANGED <<diags, omitted, failedAsserts>>
  \/ /\ ~mightBacktrack
     /\ id \notin IDsForDelay
     /\ diags' = diags \cup {Reported(id)}
     /\ UNCHANGED <<delayedDiags, omitted, failedAsserts>>

(* PSY_ASSERT in a build without NDEBUG: a line on the standard output.    *)
assertFails(routine) ==
  /\ failedAsserts' = failedAsserts \cup {routine}
  /\ UNCHANGED <<diags, delayedDiags, omitted>>

(* A report that the routine makes only when cond holds.                   *)
DiagnoseIf(cond, id) == IF cond THEN diagnose(id) ELSE UNCHANGED diagVars

diagnoseAmbiguityButRetainIt(id) ==
  /\ retainedAmbiguityDiags' =
       Append(retainedAmbiguityDiags, [id |-> id, at |-> curTkIdx - 1])
  /\ ambiguities' = ambiguities \cup {[id |-> id, at |-> curTkIdx - 1]}

-----------------------------------------------------------------------------
(* Steps of a routine.                                                     *)

Runs(routine) ==
  /\ mode = "run"
  /\ InTokens
  /\ todo # <<>>
  /\ Head(todo).do = routine

Arg == Head(todo).a
Acc == Head(todo).acc
Kind == IF node = <<>> THEN "" ELSE node[1]

(* Control that no routine but the ones named here touches.                *)
Frame == UNCHANGED <<tks, backtracker, IDsForDelay, recovered>>

(* The routine consumes n tokens and goes on with items; kind is the node. *)
Expand(n, items, kind) ==
  /\ curTkIdx' = curTkIdx + n
  /\ todo' = items \o Tail(todo)
  /\ node' = kind
  /\ mode' = mode
  /\ Frame
  /\ UNCHANGED ambigVars

Continue(n, items) == Expand(n, items, node) /\ UNCHANGED diagVars
Return(n, kind) == Expand(n, <<>>, kind) /\ UNCHANGED diagVars

(* The routine returns false after consuming n tokens.                     *)
ReturnFalse(n) ==
  /\ curTkIdx' = curTkIdx + n
  /\ todo' = Tail(todo)
  /\ mode' = "fail"
  /\ Frame
  /\ UNCHANGED <<node, ambigVars>>

Fail(id) == ReturnFalse(0) /\ diagnose(id)
FailSilently == ReturnFalse(0) /\ UNCHANGED diagVars

(* The routine replaces the node by an ambiguous one.                      *)
Ambiguate(kind) ==
  /\ curTkIdx' = curTkIdx
  /\ todo' = Tail(todo)
  /\ node' = <<kind>>
  /\ mode' = mode
  /\ diagnoseAmbiguityButRetainIt(kind)
  /\ Frame
  /\ UNCHANGED diagVars

(* The routine dereferences a null node.                                   *)
NullNode ==
  /\ mode' = "null"
  /\ UNCHANGED <<tks, curTkIdx, todo, node, backtracker, diagVars,
                 IDsForDelay, ambigVars, recovered>>

-----------------------------------------------------------------------------
(* Parser::match, matchOrSkipTo.                                           *)

match ==
  /\ Runs("match")
  /\ \/ /\ Peek = Arg
        /\ Continue(1, <<>>)
     \/ /\ Peek # Arg
        /\ ReturnFalse(IF Peek = "EOF" THEN 0 ELSE 1)
        /\ diagnose("ExpectedToken")

matchOrSkipTo ==
  /\ Runs("matchOrSkipTo")
  /\ Continue(0, <<Match(Arg), OrSkipTo(Arg)>>)

(* parseCommaSeparatedItems: Arg names the item's routine, Acc has the     *)
(* kinds of the items so far; the list's kind is that sequence.            *)
CommaSeparatedItems(routine) == CallIn("CommaSeparatedItems", routine)

parseCommaSeparatedItems ==
  /\ Runs("CommaSeparatedItems")
  /\ Continue(0, <<CallWith(Arg, "", Acc),
                   CallWith("CommaSeparatedItems_AtComma", Arg, Acc)>>)

CommaSeparatedItems_AtComma ==
  /\ Runs("CommaSeparatedItems_AtComma")
  /\ LET kinds == Append(Acc, Kind)
     IN \/ /\ Peek = ","
           /\ Continue(1, <<CallWith("CommaSeparatedItems", Arg, kinds)>>)
        \/ /\ Peek # ","
           /\ Return(0, kinds)

-----------------------------------------------------------------------------
(* Parser::Backtracker.                                                    *)

(* The routine constructs a Backtracker, consumes n tokens, and tries      *)
(* items; should they fail, alternative runs from where the Backtracker    *)
(* was constructed.  After the Backtracker is gone, rest is left to do.    *)
Try(n, items, alternative, rest) ==
  /\ backtracker' = Append(backtracker,
                           [refTkIdx |-> curTkIdx,
                            level |-> Len(todo) + Len(rest),
                            omitted |-> omitted,
                            ambiguities |-> ambiguities,
                            recovered |-> recovered])
  /\ curTkIdx' = curTkIdx + n
  /\ todo' = items \o <<TryOr(alternative)>> \o rest \o Tail(todo)
  /\ UNCHANGED <<tks, node, diagVars, IDsForDelay, ambigVars, mode, recovered>>

Current == backtracker[Len(backtracker)]
Chained == SubSeq(backtracker, 1, Len(backtracker) - 1)

(* What was tried succeeded: the Backtracker is discarded, by its          *)
(* destructor or explicitly, and what was parsed under it is kept.         *)
discard ==
  /\ mode = "run"
  /\ todo # <<>>
  /\ Head(todo).do = "Backtracker"
  /\ backtracker' = Chained
  /\ todo' = Tail(todo)
  /\ UNCHANGED <<tks, curTkIdx, node, diagVars, IDsForDelay, ambigVars, mode,
                 recovered>>

(* Mutant: the Backtracker is gone, but it still is the parser's.          *)
DiscardEarly_NotFromParser(n, items, kind) ==
  /\ curTkIdx' = curTkIdx + n
  /\ todo' = items \o Tail(Tail(todo))
  /\ node' = kind
  /\ UNCHANGED <<tks, backtracker, diagVars, IDsForDelay, ambigVars, mode,
                 recovered>>

(* The same by the routine above the Backtracker, which then consumes n    *)
(* tokens and goes on with items.                                          *)
DiscardEarly(n, items, kind) ==
  /\ backtracker' = Chained
  /\ curTkIdx' = curTkIdx + n
  /\ todo' = items \o Tail(Tail(todo))
  /\ node' = kind
  /\ UNCHANGED <<tks, diagVars, IDsForDelay, ambigVars, mode, recovered>>

(* Mutant: the cursor goes back to the token before the Backtracker's.     *)
backtrack_OneTooFar ==
  /\ mode = "fail"
  /\ todo # <<>>
  /\ Head(todo).do = "Backtracker"
  /\ Arg # ""
  /\ curTkIdx' = IF InTokens THEN Current.refTkIdx - 1 ELSE Len(tks)
  /\ omitted' = Current.omitted
  /\ ambiguities' = Current.ambiguities
  /\ backtracker' = Chained
  /\ recovered' = Current.recovered
  /\ todo' = <<Call(Arg)>> \o Tail(todo)
  /\ mode' = "run"
  /\ UNCHANGED <<tks, node, diags, delayedDiags, failedAsserts, IDsForDelay,
                 retainedAmbiguityDiags>>

(* What was tried failed: Backtracker::backtrack, then the alternative.    *)
(* The nodes that were built are dropped, and so is what they omitted.     *)
backtrack ==
  /\ mode = "fail"
  /\ todo # <<>>
  /\ Head(todo).do = "Backtracker"
  /\ Arg # ""
  /\ curTkIdx' = IF InTokens THEN Current.refTkIdx ELSE Len(tks)
  /\ omitted' = Current.omitted
  /\ ambiguities' = Current.ambiguities
  /\ backtracker' = Chained
  /\ recovered' = Current.recovered
  /\ todo' = <<Call(Arg)>> \o Tail(todo)
  /\ mode' = "run"
  /\ UNCHANGED <<tks, node, diags, delayedDiags, failedAsserts, IDsForDelay,
                 retainedAmbiguityDiags>>

(* A false return through a Backtracker that no code backtracks anymore:   *)
(* its destructor discards it.                                             *)
discardOnReturnFalse ==
  /\ mode = "fail"
  /\ todo # <<>>
  /\ Head(todo).do = "Backtracker"
  /\ Arg = ""
  /\ backtracker' = Chained
  /\ todo' = Tail(todo)
  /\ UNCHANGED <<tks, curTkIdx, node, diagVars, IDsForDelay, ambigVars, mode,
                 recovered>>

-----------------------------------------------------------------------------
(* A false return unwinds the call stack.                                  *)

Unwinds(handler) ==
  /\ mode = "fail"
  /\ todo # <<>>
  /\ Head(todo).do = handler

ReturnFalseFurther ==
  /\ mode = "fail"
  /\ todo # <<>>
  /\ Head(todo).do \notin Handlers
  /\ ReturnFalse(0)
  /\ UNCHANGED diagVars

(* One turn of a loop that skips tokens after a failure.                   *)
SkipToken ==
  /\ curTkIdx' = curTkIdx + 1
  /\ Frame
  /\ UNCHANGED <<todo, node, mode, ambigVars, diagVars>>

skipTo ==
  /\ Unwinds("orSkipTo")
  /\ InTokens
  /\ \/ Peek \in {Arg, "EOF"} /\ FailSilently
     \/ Peek \notin {Arg, "EOF"} /\ SkipToken

(* Mutant: the token after the one skipped to is consumed, too.            *)
skipPast_OneMore ==
  /\ Unwinds("orSkipPast")
  /\ InTokens
  /\ \/ Peek \in {Arg, "EOF"} /\ ReturnFalse(2) /\ UNCHANGED diagVars
     \/ Peek \notin {Arg, "EOF"} /\ SkipToken

(* skipTo and then consume.                                                *)
skipPast ==
  /\ Unwinds("orSkipPast")
  /\ InTokens
  /\ \/ Peek \in {Arg, "EOF"} /\ ReturnFalse(1) /\ UNCHANGED diagVars
     \/ Peek \notin {Arg, "EOF"} /\ SkipToken

(* The tokens at which ignoreStatement and its siblings just return; they  *)
(* differ in the tokens that they return after.                            *)
JustReturn ==
  {"EOF", "typedef", "extern", "static", "_Thread_local", "auto", "register",
   "inline", "_Noreturn", "struct", "union", "enum", "_Static_assert", "asm"}

ignoreStatement ==
  /\ Unwinds("checkStatementParse")
  /\ InTokens
  /\ \/ Peek \in JustReturn /\ FailSilently
     \/ Peek \in {"}", ";"} /\ ReturnFalse(1) /\ UNCHANGED diagVars
     \/ Peek \notin JustReturn \cup {"}", ";"} /\ SkipToken

(* The caller goes on with items after the false return, n tokens later.   *)
Recover(n, items) ==
  /\ curTkIdx' = curTkIdx + n
  /\ todo' = items \o Tail(todo)
  /\ mode' = "run"
  /\ recovered' = TRUE
  /\ UNCHANGED <<tks, node, backtracker, diagVars, IDsForDelay, ambigVars>>

(* A caller that ignores the false return, and a handler not needed.       *)
ProceedAnyway == Unwinds("orProceed") /\ Recover(0, <<>>)

HandlerNotNeeded ==
  /\ mode = "run"
  /\ todo # <<>>
  /\ Head(todo).do \in Skippers \cup {"orProceed"}
  /\ Continue(0, <<>>)

-----------------------------------------------------------------------------
(* Parser::DepthControl counts in a copy of the counter it is given: the   *)
(* counters of the parser keep the 0 they start from, which is all that    *)
(* the constructor ever compares with the bound.                           *)
DEPTH_OF_EXPRS == 0
DEPTH_OF_STMTS == 0

DepthControl(depth, n, items) ==
  /\ depth <= MAX_DEPTH_OF_STMTS
  /\ Continue(n, items)

(* Mutant: the destructor does not end the delay.                          *)
LeaveDelayer_StaysDelayed ==
  /\ mode \in {"run", "fail"}
  /\ todo # <<>>
  /\ Head(todo).do = "~DiagnosticsReporterDelayer"
  /\ todo' = Tail(todo)
  /\ UNCHANGED <<tks, curTkIdx, node, backtracker, diagVars, IDsForDelay,
                 ambigVars, mode, recovered>>

(* DiagnosticsReporterDelayer: its destructor runs on either return.       *)

LeaveDelayer ==
  /\ mode \in {"run", "fail"}
  /\ todo # <<>>
  /\ Head(todo).do = "~DiagnosticsReporterDelayer"
  /\ IDsForDelay' = IDsForDelay \ {Arg}
  /\ todo' = Tail(todo)
  /\ UNCHANGED <<tks, curTkIdx, node, backtracker, diagVars, ambigVars, mode,
                 recovered>>

(* peek past the last token.                                               *)
Overrun ==
  /\ ~InTokens
  /\ todo # <<>>
  /\ \/ mode = "run" /\ Head(todo).do \notin Handlers \ Loops
     \/ mode = "fail" /\ Head(todo).do \in Loops \cup Skippers
  /\ mode' = "overrun"
  /\ UNCHANGED <<tks, curTkIdx, todo, node, backtracker, diagVars,
                 IDsForDelay, ambigVars, recovered>>

(* Parser::parse returns.                                                  *)
parseReturns ==
  /\ mode = "run"
  /\ todo = <<>>
  /\ mode' = "done"
  /\ UNCHANGED <<tks, curTkIdx, todo, node, backtracker, diagVars,
                 IDsForDelay, ambigVars, recovered>>

MachineInit ==
  /\ tks \in Programs
  /\ curTkIdx = 1
  /\ todo = <<Call("TranslationUnit")>>
  /\ node = <<>>
  /\ backtracker = <<>>
  /\ diags = {} /\ delayedDiags = {} /\ omitted = {} /\ failedAsserts = {}
  /\ IDsForDelay = {}
  /\ retainedAmbiguityDiags = <<>> /\ ambiguities = {}
  /\ mode = "run"
  /\ recovered = FALSE

MachineNext ==
  \/ match \/ matchOrSkipTo
  \/ parseCommaSeparatedItems \/ CommaSeparatedItems_AtComma
  \/ discard \/ backtrack \/ discardOnReturnFalse
  \/ ReturnFalseFurther \/ skipTo \/ skipPast \/ ignoreStatement
  \/ ProceedAnyway \/ HandlerNotNeeded
  \/ LeaveDelayer
  \/ Overrun \/ parseReturns

=============================================================================
