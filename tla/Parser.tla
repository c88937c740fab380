-------------------------------- MODULE Parser --------------------------------
(***************************************************************************)
(* psy::C::Parser: the routines of C/parser run over one translation unit. *)
(***************************************************************************)
EXTENDS ParserTypes

Init == MachineInit

Next ==
  MachineNext \/ StatementsNext \/ ExpressionsNext \/ DeclarationsNext

(* One thread runs the parser, and it takes a step whenever it can.        *)
Spec == Init /\ [][Next]_vars /\ WF_vars(Next)

-----------------------------------------------------------------------------
(* Speculation.                                                            *)

(* An entry's distance from the bottom of the call stack.                  *)
Height(i) == Len(todo) - i + 1

(* backtracker_ chains exactly the Backtrackers whose scopes the program   *)
(* is in, innermost last: a failure can only meet the one it belongs to,   *)
(* on every path through success, failure, early discard and recovery.     *)
BacktrackersMatchCallStack ==
  /\ \A i \in DOMAIN todo :
       todo[i].do = "Backtracker" =>
         \E k \in DOMAIN backtracker : backtracker[k].level = Height(i)
  /\ \A k \in DOMAIN backtracker :
       /\ \E i \in DOMAIN todo :
            /\ backtracker[k].level = Height(i)
            /\ todo[i].do = "Backtracker"
       /\ \A j \in 1 .. k - 1 : backtracker[j].level < backtracker[k].level

(* Giving up an attempt never moves the cursor forward, nor behind the     *)
(* start of an attempt around it.                                          *)
MarksAreBehind ==
  \A k \in DOMAIN backtracker :
    /\ backtracker[k].refTkIdx <= curTkIdx
    /\ \A j \in 1 .. k - 1 :
         backtracker[j].refTkIdx <= backtracker[k].refTkIdx

(* The parser's Backtrackers keep the promise of Speculation: silence      *)
(* while one is live, and on failure the cursor back where it was.         *)
Speculated == INSTANCE Speculation WITH
  Reports <- Diagnostic,
  last <- Len(tks),
  cursor <- curTkIdx,
  marks <- [k \in DOMAIN backtracker |-> backtracker[k].refTkIdx],
  reported <- diags
SpeculationIsSound == Speculated!SpecSpec

-----------------------------------------------------------------------------
(* Diagnostics.                                                            *)

(* An identifier is delayed only within a parameter list.                  *)
NoDelayOutlivesItsList ==
  \A id \in IDsForDelay :
    \E i \in DOMAIN todo :
      todo[i].do = "~DiagnosticsReporterDelayer" /\ todo[i].a = id

(* A text that the parser had to recover from is never accepted silently:  *)
(* a recovery that is part of the tree was preceded by some diagnostic.    *)
RecoveriesAreReported ==
  mode = "done" /\ recovered => diags # {}

(* A syntax error that is in the tree is reported, although a Backtracker  *)
(* was live when it was met (the comment on Parser::Backtracker).          *)
NoErrorOmitted ==
  mode = "done" /\ omitted # {} => diags # {}

(* PSY_ASSERTs hold, whatever the text.                                    *)
AssertsHold == failedAsserts = {}

(* Compound statements nest no deeper than their DepthControl allows.      *)
CompoundStatements == {i \in DOMAIN todo : todo[i].do = "CompoundStatement"}
DepthIsBounded == Cardinality(CompoundStatements) <= MAX_DEPTH_OF_STMTS + 1

-----------------------------------------------------------------------------
(* Termination.                                                            *)

(* The parser returns a translation unit, whatever the text: no loop stays *)
(* at a token, no null node is used, and no token past the end is read.    *)
ParseReturns == <>(mode = "done")

=============================================================================
