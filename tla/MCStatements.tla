----------------------------- MODULE MCStatements -----------------------------
(***************************************************************************)
(* A reference for the diagnostics of jumps and labels and for the         *)
(* ambiguities of a function body.  Programs are built bottom-up; with the *)
(* text of each part goes what the part contains: the jumps and labels     *)
(* that nothing in it encloses, and its ambiguous phrases.  The parser     *)
(* finds both top-down, from a context that it passes on to the routines   *)
(* and from attempts that it keeps or gives up.                            *)
(***************************************************************************)
EXTENDS MCParser

(* A phrase: its tokens; the offsets of the jumps and labels that it does  *)
(* not enclose; its ambiguities, each at the offset where it is reported   *)
(* and after those that are part of it; and, of an expression, whether it  *)
(* could be a declaration if it was a statement.                           *)
Phrase(text) ==
  [text |-> text, breaks |-> {}, continues |-> {}, cases |-> {},
   defaults |-> {}, ambiguous |-> <<>>, mayDeclare |-> FALSE]

Shift(offsets, n) == {o + n : o \in offsets}
ShiftDiags(ds, n) ==
  [k \in DOMAIN ds |-> [id |-> ds[k].id, at |-> ds[k].at + n]]

(* p followed by q.                                                        *)
Then(p, q) ==
  LET n == Len(p.text)
  IN [text |-> p.text \o q.text,
      breaks |-> p.breaks \cup Shift(q.breaks, n),
      continues |-> p.continues \cup Shift(q.continues, n),
      cases |-> p.cases \cup Shift(q.cases, n),
      defaults |-> p.defaults \cup Shift(q.defaults, n),
      ambiguous |-> p.ambiguous \o ShiftDiags(q.ambiguous, n),
      mayDeclare |-> FALSE]

Between(before, p, after) == Then(Then(Phrase(before), p), Phrase(after))

AmbiguousAtEnd(p, id) ==
  [p EXCEPT !.ambiguous = Append(@, [id |-> id, at |-> Len(p.text)])]

-----------------------------------------------------------------------------
(* Expressions.                                                            *)

TypeReference(p) ==
  AmbiguousAtEnd(p, "AmbiguousTypeNameOrExpressionAsTypeReference")

Operands ==
  {Phrase(<<I>>), Phrase(<<N>>),
   TypeReference(Phrase(<<"sizeof", "(", I, ")">>)),
   Phrase(<<"sizeof", "(", "int", ")">>), Phrase(<<"!", I>>)}

(* `(x) - e' and its like may cast `- e' or subtract e.                    *)
CastsOrBinaries(operands) ==
  {AmbiguousAtEnd(Then(Phrase(<<"(", I, ")", op>>), e),
                  "AmbiguousCastOrBinaryExpression") :
     op \in {"-", "*"}, e \in operands}

CastLevel == Operands \cup CastsOrBinaries(Operands)
               \cup CastsOrBinaries(CastsOrBinaries(Operands))

(* `x * y' and `x(y)' are expressions, or declare y and a parameter.       *)
MayDeclare ==
  {[Phrase(t) EXCEPT !.mayDeclare = TRUE] :
     t \in {<<I, "*", I>>, <<I, "(", I, ")">>}}

MCExpressions ==
  CastLevel \cup MayDeclare
    \cup {Then(Phrase(<<I, "=">>), e) : e \in CastLevel}
    \cup {Then(Phrase(<<I, "(", ")", "+">>), e) : e \in CastLevel}

-----------------------------------------------------------------------------
(* Statements.                                                             *)

ExpressionStatement(e) ==
  LET stmt == Then(e, Phrase(<<";">>))
  IN IF e.mayDeclare
       THEN AmbiguousAtEnd(stmt, "AmbiguousExpressionOrDeclarationStatement")
       ELSE stmt

Simple ==
  {Phrase(<<";">>), ExpressionStatement([Phrase(<<I, "*", I>>)
                                           EXCEPT !.mayDeclare = TRUE]),
   [Phrase(<<"break", ";">>) EXCEPT !.breaks = {1}],
   [Phrase(<<"continue", ";">>) EXCEPT !.continues = {1}]}

Loop(p) == [p EXCEPT !.breaks = {}, !.continues = {}]
Switch(p) == [p EXCEPT !.breaks = {}, !.cases = {}, !.defaults = {}]
CaseLabel == [Phrase(<<"case", N, ":">>) EXCEPT !.cases = {1}]
DefaultLabel == [Phrase(<<"default", ":">>) EXCEPT !.defaults = {1}]

Enclosing(stmts) ==
  UNION {
    {Loop(Between(<<"while", "(", I, ")">>, s, <<>>)) : s \in stmts},
    {Loop(Between(<<"do">>, s, <<"while", "(", I, ")", ";">>)) : s \in stmts},
    {Loop(Between(<<"for", "(", ";", ";", ")">>, s, <<>>)) : s \in stmts},
    {Switch(Between(<<"switch", "(", I, ")">>, s, <<>>)) : s \in stmts},
    {Then(CaseLabel, s) : s \in stmts},
    {Then(DefaultLabel, s) : s \in stmts},
    {Then(Phrase(<<I, ":">>), s) : s \in stmts},
    {Between(<<"if", "(", I, ")">>, s, <<>>) : s \in stmts},
    {Between(<<"{">>, s, <<"}">>) : s \in stmts}}

Pairs(stmts) ==
  UNION {
    {Then(Between(<<"if", "(", I, ")", "{">>, s, <<"}", "else">>), t) :
       s \in stmts, t \in Simple},
    {Between(<<"{">>, Then(s, t), <<"}">>) : s \in stmts, t \in Simple}}

Once == Simple \cup Enclosing(Simple)
Twice == Once \cup Enclosing(Once)

Bodies ==
  Twice \cup Enclosing(Enclosing(Enclosing(
               {s \in Simple : s.breaks \cup s.continues # {}})))
    \cup Pairs(Once)
    \cup {ExpressionStatement(e) : e \in MCExpressions}
    \cup {Between(<<"while", "(">>, e, <<")", ";">>) : e \in MCExpressions}

-----------------------------------------------------------------------------
(* What is expected of each program.                                       *)

Heading == <<"int", I, "(", ")", "{">>
InFunction(p) == Between(Heading, p, <<"}", "EOF">>)
FunctionDefinitions == {InFunction(p) : p \in Bodies}
FunctionTexts == {f.text : f \in FunctionDefinitions}

At(id, offsets) == {[id |-> id, at |-> o] : o \in offsets}
MisplacedIn(f) ==
  At("UnexpectedBreakOutsideSwitchOrLoop", f.breaks)
    \cup At("UnexpectedContinueOutsideLoop", f.continues)
    \cup At("UnexpectedCaseLabelOutsideSwitch", f.cases)
    \cup At("UnexpectedDefaultLabelOutsideSwitch", f.defaults)

FunctionOf ==
  [t \in FunctionTexts |-> CHOOSE f \in FunctionDefinitions : f.text = t]

ParsedPrograms == Corpus \cup FunctionTexts
IsParsedFunction == mode = "done" /\ tks \in FunctionTexts

(* parseStatement's StatementContext: a jump or label is diagnosed, at its *)
(* keyword, if and only if no statement that allows it encloses it, and    *)
(* nothing else is diagnosed in a program that has no other error.         *)
JumpsAreDiagnosedExactly ==
  IsParsedFunction => diags = MisplacedIn(FunctionOf[tks])

(* diagnoseAmbiguityButRetainIt: each ambiguous phrase is retained once,   *)
(* although the attempts that found it are nested in others and some of    *)
(* them are given up; and nothing else is retained.                        *)
AmbiguitiesAreRetainedOnce ==
  IsParsedFunction => retainedAmbiguityDiags = FunctionOf[tks].ambiguous

=============================================================================
