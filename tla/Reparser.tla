------------------------------- MODULE Reparser -------------------------------
(***************************************************************************)
(* SyntaxTree::buildFor from the point where the parser has returned:      *)
(* whether ambiguities are kept, diagnosed or resolved, and the reparser   *)
(* that resolves them.                                                     *)
(*                                                                         *)
(* stage is "parsed" when the parser has returned, "cataloguing" and       *)
(* "disambiguating" during the two walks over the tree, "built" when       *)
(* buildFor has returned, and "undefined" when a null pointer was used.    *)
(***************************************************************************)
EXTENDS NameCataloger, Disambiguator

CONSTANTS
  Treatments,      \* TreatmentOfAmbiguities that are set in the ParseOptions
  Completeness     \* TextCompleteness of the text: "Full", "Fragment", ...

(* The enumerators of TreatmentOfAmbiguities, by their values.             *)
Preserve == 0
Diagnose == 1
DisambiguateAlgorithmically == 2
DisambiguateAlgorithmicallyOrHeuristically == 3
DisambiguateHeuristically == 4

ASSUME OptionsAssumption ==
  Treatments \subseteq Preserve .. DisambiguateHeuristically

VARIABLES
  asked,         \* the treatment that is set, one of Treatments
  textCompleteness_,
  diagnostics_,  \* the number of diagnostics of the tree
  retained       \* the number of ambiguities that the parser retained

optionVars == <<asked, textCompleteness_, retained>>
vars == <<original, tree, todo, levels, levelKeys, pendingAmbigs, stage,
          optionVars, diagnostics_>>

(* treatmentOfAmbiguities_ is a bit-field of two bits.                     *)
treatmentOfAmbiguities == asked % 4

AmbiguousNodes(t) == {n \in 1 .. Len(t) : t[n].kind \in AmbiguousKinds}

Init ==
  /\ original \in Trees
  /\ tree = original
  /\ todo = <<>>
  /\ levels = NoLevels
  /\ levelKeys = <<>>
  /\ pendingAmbigs = 0
  /\ stage = "parsed"
  /\ asked \in Treatments
  /\ textCompleteness_ \in Completeness
  /\ diagnostics_ \in 0 .. 1
  /\ retained = Cardinality(AmbiguousNodes(original))

-----------------------------------------------------------------------------
(* SyntaxTree::buildFor after Parser::parse.                               *)

DetectedAnyAmbiguity == retained # 0

strategy ==
  CASE treatmentOfAmbiguities = DisambiguateHeuristically ->
         "GuidelineImposition"
    [] treatmentOfAmbiguities \in {DisambiguateAlgorithmically,
                                   DisambiguateAlgorithmicallyOrHeuristically} ->
         IF textCompleteness_ = "Full" THEN "TypeSynonymsVerification"
                                       ELSE "SyntaxCorrelation"
    [] OTHER -> "none"

Diagnoses == DetectedAnyAmbiguity /\ treatmentOfAmbiguities = Diagnose

(* GuidelineImposition is a strategy that is not written yet.              *)
Reparses ==
  /\ DetectedAnyAmbiguity
  /\ diagnostics_ = 0
  /\ strategy \in {"SyntaxCorrelation", "TypeSynonymsVerification"}

(* The ambiguities are retained diagnostics, released to the tree on       *)
(* demand.                                                                 *)
DiagnoseAmbiguities ==
  /\ stage = "parsed"
  /\ Diagnoses
  /\ diagnostics_' = diagnostics_ + retained
  /\ stage' = "built"
  /\ UNCHANGED <<original, tree, todo, catalogVars, pendingAmbigs, optionVars>>

LeaveAmbiguities ==
  /\ stage = "parsed"
  /\ ~Diagnoses /\ ~Reparses
  /\ stage' = "built"
  /\ UNCHANGED <<original, tree, todo, catalogVars, pendingAmbigs, optionVars,
                 diagnostics_>>

(* Reparser::reparse.                                                      *)
Reparse ==
  /\ stage = "parsed"
  /\ Reparses
  /\ stage' = "cataloguing"
  /\ todo' = <<Visit(Holder, 1)>>
  /\ UNCHANGED <<original, tree, catalogVars, pendingAmbigs, optionVars,
                 diagnostics_>>

(* The catalog is ready: SyntaxCorrelation walks the tree again; the       *)
(* verification of type synonyms is not written yet.                       *)
AcquireCatalog ==
  /\ stage = "cataloguing"
  /\ todo = <<>>
  /\ IF strategy = "SyntaxCorrelation"
       THEN /\ stage' = "disambiguating"
            /\ todo' = <<Visit(Holder, 1)>>
       ELSE /\ stage' = "built"
            /\ UNCHANGED todo
  /\ UNCHANGED <<original, tree, catalogVars, pendingAmbigs, optionVars,
                 diagnostics_>>

Disambiguated ==
  /\ stage = "disambiguating"
  /\ todo = <<>>
  /\ stage' = "built"
  /\ UNCHANGED <<original, tree, todo, catalogVars, pendingAmbigs, optionVars,
                 diagnostics_>>

Next ==
  \/ DiagnoseAmbiguities
  \/ LeaveAmbiguities
  \/ Reparse
  \/ CatalogStep /\ UNCHANGED <<original, pendingAmbigs, optionVars, diagnostics_>>
  \/ AcquireCatalog
  \/ DisambiguateStep /\ UNCHANGED <<original, optionVars, diagnostics_>>
  \/ Disambiguated

(* A single thread runs the program, so it takes a step while it can.      *)
Spec == Init /\ [][Next]_vars /\ WF_vars(Next)
-----------------------------------------------------------------------------
(* The variables have their types: calls are to places of the tree, and    *)
(* the tree keeps its shape while its places are overwritten.              *)
TypeOK ==
  /\ IsTree(tree)
  /\ Len(tree) = Len(original)
  /\ todo \in Seq(CallsOn(tree))
  /\ DOMAIN levels \subseteq 1 .. Len(tree)
  /\ \A n \in DOMAIN levels :
        levels[n] \in [types : SUBSET Names, names : SUBSET Names]
  /\ levelKeys \in Seq(DOMAIN levels)
  /\ pendingAmbigs \in Nat
  /\ diagnostics_ \in Nat
  /\ retained \in Nat
  /\ asked \in Treatments
  /\ textCompleteness_ \in Completeness
  /\ stage \in {"parsed", "cataloguing", "disambiguating", "built",
                "undefined"}

(* The reparser implements Disambiguation: no node is replaced before the  *)
(* catalog is complete or against what it says, and nothing but an         *)
(* ambiguous node is replaced.                                             *)
KnownTypes == UNION {levels[n].types : n \in DOMAIN levels}
KnownNames == UNION {levels[n].names : n \in DOMAIN levels}
Deciding == stage \notin {"parsed", "cataloguing"}
D == INSTANCE Disambiguation WITH
       types <- KnownTypes, names <- KnownNames, deciding <- Deciding
DisambiguationIsSound == D!Spec

(* However ambiguities are treated, the tree is built.                     *)
ReparseReturns == <>(stage = "built")

(* ParseOptions.h documents None as the treatment that preserves           *)
(* ambiguities: they are left alone for no other treatment.                *)
OnlyNonePreserves ==
  stage = "built" /\ DetectedAnyAmbiguity /\ treatmentOfAmbiguities = Preserve
    => asked = Preserve

(* A tree that was searched for ambiguities, to the end.                   *)
IsDisambiguated ==
  /\ stage = "built"
  /\ Reparses
  /\ strategy = "SyntaxCorrelation"
===============================================================================
