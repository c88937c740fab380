---------------------------- MODULE Compilation ----------------------------
(***************************************************************************)
(* Compilation and SemanticModel: the trees that were added, each with a   *)
(* flag and, once it was asked for, with a model.  A model is made by the  *)
(* binder, in its constructor; the caller waits, so that nothing else is   *)
(* asked of the compilation meanwhile.                                     *)
(***************************************************************************)
EXTENDS Binder

CONSTANT Programs     \* the sequences of files that are compiled

ASSUME ProgramsAssumption ==
    \A program \in Programs :
        Null \notin DOMAIN program /\ \A t \in DOMAIN program : IsTree(program[t])

VARIABLES
    isDirty,      \* isDirty_: a flag for each tree that has one
    semaModels,   \* semaModels_: a model, or Null, for each tree that has an entry
    linked        \* the trees that this compilation is attached to

compilation == <<isDirty, semaModels, linked>>
vars == <<files, binding, compilation>>

Trees == DOMAIN files
With(map, t, value) == [s \in DOMAIN map \cup {t} |-> IF s = t THEN value ELSE map[s]]
NoModel == [tree |-> Null, declSyms |-> <<>>]

\* The program calls, and not while it waits for an answer.
Calling == unit = Null /\ outcome = "defined" /\ UNCHANGED files

-----------------------------------------------------------------------------

\* Mutant: a tree that has a model is marked again.
addSyntaxTree_Again(t) ==
    /\ Calling
    /\ semaModels' = IF t \in DOMAIN semaModels THEN semaModels ELSE With(semaModels, t, NoModel)
    /\ isDirty' = With(isDirty, t, TRUE)
    /\ linked' = linked \cup {t}
    /\ UNCHANGED binding

\* A tree that has an entry, if only because its model was asked for before, is
\* not added.
addSyntaxTree(t) ==
    /\ Calling
    /\ IF t \in DOMAIN semaModels THEN UNCHANGED compilation
       ELSE /\ semaModels' = With(semaModels, t, NoModel)
            /\ isDirty' = With(isDirty, t, TRUE)
            /\ linked' = linked \cup {t}
    /\ UNCHANGED binding

IsDirty(t) == t \in DOMAIN isDirty /\ isDirty[t]

\* semanticModel, of a tree that is not dirty: the map is looked up with its
\* operator [], which makes the entries that are not there.
semanticModel(t) ==
    /\ Calling
    /\ ~IsDirty(t)
    /\ isDirty' = With(isDirty, t, FALSE)
    /\ semaModels' = IF t \in DOMAIN semaModels THEN semaModels ELSE With(semaModels, t, NoModel)
    /\ UNCHANGED <<linked, binding>>

\* Of a dirty one: the constructor of the model binds the tree.  (The symbols
\* that the assembly has of an earlier binding would stay; there is none, as no
\* tree is made dirty twice.)
makeModel(t) ==
    /\ Calling
    /\ IsDirty(t)
    /\ StartBinding(t)
    /\ outcome' = outcome
    /\ UNCHANGED <<assembly, diagnostics, compilation>>

bindStep ==
    /\ unit # Null /\ Bind
    /\ UNCHANGED <<files, compilation>>

\* Mutant: the flag stays.
modelMade_StaysDirty ==
    /\ unit # Null /\ todo = <<>> /\ outcome = "defined"
    /\ semaModels' = [semaModels EXCEPT ![unit] = [tree |-> unit, declSyms |-> declSyms]]
    /\ unit' = Null
    /\ scopes' = <<>> /\ stashedScope' = Null /\ syms' = <<>>
    /\ tySyms' = <<>> /\ pendingFunTySyms' = <<>> /\ swapped' = <<>> /\ declSyms' = <<>>
    /\ UNCHANGED <<files, assembly, diagnostics, todo, outcome, isDirty, linked>>

\* The binder is gone, and the model is the tree's.
modelMade ==
    /\ unit # Null /\ todo = <<>> /\ outcome = "defined"
    /\ semaModels' = [semaModels EXCEPT ![unit] = [tree |-> unit, declSyms |-> declSyms]]
    /\ isDirty' = [isDirty EXCEPT ![unit] = FALSE]
    /\ unit' = Null
    /\ scopes' = <<>> /\ stashedScope' = Null /\ syms' = <<>>
    /\ tySyms' = <<>> /\ pendingFunTySyms' = <<>> /\ swapped' = <<>> /\ declSyms' = <<>>
    /\ UNCHANGED <<files, assembly, diagnostics, todo, outcome, linked>>

\* The destructor: the trees outlive the compilation.
destroy ==
    /\ Calling
    /\ outcome' = "destroyed"
    /\ linked' = linked \ DOMAIN semaModels
    /\ UNCHANGED <<unit, assembly, diagnostics, todo, stacks, swapped, declSyms, isDirty, semaModels>>

Init ==
    /\ files \in Programs
    /\ unit = Null /\ todo = <<>> /\ outcome = "defined"
    /\ scopeTable = <<>> /\ symDEFs = <<>> /\ symUSEs = <<>> /\ diagnostics = {}
    /\ scopes = <<>> /\ stashedScope = Null /\ syms = <<>>
    /\ tySyms = <<>> /\ pendingFunTySyms = <<>> /\ swapped = <<>> /\ declSyms = <<>>
    /\ isDirty = <<>> /\ semaModels = <<>> /\ linked = {}

Next ==
    \/ \E t \in Trees : addSyntaxTree(t) \/ semanticModel(t) \/ makeModel(t)
    \/ bindStep
    \/ modelMade
    \/ destroy

Spec == Init /\ [][Next]_vars

-----------------------------------------------------------------------------
(* SemanticModel::declaredSymbol, of a declarator of the tree f.           *)

\* SyntaxUtilities::innermostDeclaratorOrSelf and strippedDeclaratorOrSelf.  (A
\* bit-field without a name has no declarator inside it.)
Inner == {"PointerDeclarator", "ArrayOrFunctionDeclarator", "BitfieldDeclarator"}
Down(f, d, kinds) ==
    LET down[n \in DOMAIN f] ==
            CASE f[n].kind \notin kinds -> n
              [] f[n].kind \in kinds /\ f[n].kids # <<>> -> down[f[n].kids[1]]
              [] OTHER -> Null
    IN  IF d \in DOMAIN f THEN down[d] ELSE d
strippedDeclaratorOrSelf(f, d) == Down(f, d, {"ParenthesizedDeclarator"})

\* Mutant: the declarator of a bit-field is taken for the innermost.
innermostDeclaratorOrSelf_NotBitfields(f, d) == Down(f, d, Inner \ {"BitfieldDeclarator"})
innermostDeclaratorOrSelf(f, d) == Down(f, d, Inner)

\* A declarator in parentheses that is not the outermost is not looked into.
declaredSymbol(t, d) ==
    LET n == innermostDeclaratorOrSelf(files[t], strippedDeclaratorOrSelf(files[t], d))
        found == semaModels[t].declSyms
    IN  IF n \in DOMAIN found THEN found[n] ELSE Null

-----------------------------------------------------------------------------
HasModel(t) == t \in DOMAIN semaModels /\ semaModels[t].tree # Null

\* The trees that the compilation is attached to are those that are dirty or
\* have a model, and none both, and no tree when it is gone; a model is that of
\* its tree, and each node that it knows has a symbol of that tree which was
\* declared there.
\* (Compilation.cpp:52-118, SemanticModel.cpp:222-232.)
ModelsOfLinkedTrees ==
    /\ \A t \in Trees :
          t \in linked <=> outcome # "destroyed" /\ (IsDirty(t) \/ HasModel(t))
    /\ \A t \in Trees :
          HasModel(t) =>
            /\ ~IsDirty(t) /\ semaModels[t].tree = t
            /\ \A n \in DOMAIN semaModels[t].declSyms :
                  LET sym == semaModels[t].declSyms[n]
                  IN  sym \in DOMAIN symDEFs /\ symDEFs[sym].tree = t /\ symDEFs[sym].node = n

\* Once made, a model stays, and no later call changes a symbol or a type of its
\* tree: not the binding of another tree, whose symbols are in the same assembly.
\* (Compilation.cpp:108-118, SemanticModel.cpp:222-239.)
ModelsStay ==
    [][\A t \in Trees : HasModel(t) =>
          /\ HasModel(t)' /\ semaModels'[t] = semaModels[t]
          /\ \A i \in DOMAIN symDEFs : symDEFs[i].tree = t => symDEFs'[i] = symDEFs[i]
          /\ \A i \in DOMAIN symUSEs : symUSEs[i].tree = t => symUSEs'[i] = symUSEs[i]]_vars
=============================================================================
