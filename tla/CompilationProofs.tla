-------------------------- MODULE CompilationProofs --------------------------
(***************************************************************************)
(* Proofs about Compilation: its models are those of the trees that it is  *)
(* attached to, and they stay, and the binder leaves its stacks as it found*)
(* them, whatever the files and whatever the calls.                        *)
(***************************************************************************)
EXTENDS Compilation, BinderProofs

(* The tree that is bound is dirty, and a dirty tree has an entry.         *)
FlagsAreRight ==
  /\ Null \notin Trees
  /\ unit # Null => unit \in Trees /\ IsDirty(unit) /\ outcome # "destroyed"
  /\ \A t \in Trees : IsDirty(t) => t \in DOMAIN semaModels

IInv == BinderInv /\ FlagsAreRight /\ ModelsOfLinkedTrees

-----------------------------------------------------------------------------
(* The compilation.                                                        *)

LEMMA InitIsRight ==
  ASSUME Init
  PROVE  IInv
<1>1. ASSUME NEW S
      PROVE  <<>> \in Seq(S)
  BY EmptySeq
<1>2. IsTable(symDEFs, SymbolFields) /\ IsTable(symUSEs, TypeFields)
  BY <1>1 DEF Init, IsTable
<1>3. StacksAreOwn
  BY <1>1 DEF Init, StacksAreOwn
<1>4. DeclaredHere
  BY DEF Init, DeclaredHere
<1>5. FlagsAreRight
  BY ProgramsAssumption DEF Init, FlagsAreRight, IsDirty, Trees
<1>6. ModelsOfLinkedTrees
  BY DEF Init, ModelsOfLinkedTrees, IsDirty, HasModel
<1> QED
  BY <1>2, <1>3, <1>4, <1>5, <1>6 DEF IInv, BinderInv, TablesAreTables

(* Only the flags, the models and the trees it is attached to change.      *)
LEMMA BinderRests ==
  ASSUME BinderInv, UNCHANGED <<unit, assembly, stacks, swapped, declSyms>>
  PROVE  BinderInv'
BY DEF BinderInv, TablesAreTables, StacksAreOwn, DeclaredHere, assembly, stacks

LEMMA AddingKeeps ==
  ASSUME IInv, NEW t \in Trees, addSyntaxTree(t)
  PROVE  IInv'
<1>1. BinderInv'
  BY BinderRests DEF IInv, addSyntaxTree, binding, binder
<1>2. unit = Null /\ unit' = Null /\ outcome = "defined" /\ outcome' = "defined"
      /\ UNCHANGED <<files, symDEFs>>
  BY DEF addSyntaxTree, Calling, binding, binder, assembly
<1>3. CASE t \in DOMAIN semaModels
  <2>1. UNCHANGED <<isDirty, semaModels, linked>>
    BY <1>3 DEF addSyntaxTree, compilation
  <2> QED
    BY <1>1, <1>2, <2>1 DEF IInv, FlagsAreRight, ModelsOfLinkedTrees, HasModel, IsDirty, Trees
<1>4. CASE t \notin DOMAIN semaModels
  <2>1. /\ semaModels' = With(semaModels, t, NoModel)
        /\ isDirty' = With(isDirty, t, TRUE)
        /\ linked' = linked \cup {t}
    BY <1>4 DEF addSyntaxTree
  <2>2. \A s \in Trees : IsDirty(s)' <=> IsDirty(s) \/ s = t
    BY <2>1 DEF With, IsDirty
  <2>3. \A s \in Trees : s # t => (HasModel(s)' <=> HasModel(s))
    BY <2>1 DEF With, HasModel
  <2>4. ~HasModel(t) /\ ~HasModel(t)'
    BY <1>4, <2>1 DEF With, HasModel, NoModel
  <2>5. \A s \in DOMAIN semaModels : s \in DOMAIN semaModels' /\ semaModels'[s] = semaModels[s]
    BY <1>4, <2>1 DEF With
  <2>6. t \in DOMAIN semaModels'
    BY <2>1 DEF With
  <2>7. FlagsAreRight'
    BY <1>2, <2>2, <2>5, <2>6 DEF IInv, FlagsAreRight, Trees
  <2>8. \A s \in Trees : HasModel(s)' => s # t /\ HasModel(s) /\ semaModels'[s] = semaModels[s]
    BY <2>3, <2>4, <2>5 DEF HasModel
  <2>9. ModelsOfLinkedTrees'
    <3>1. \A s \in Trees : s \in linked' <=> outcome' # "destroyed" /\ (IsDirty(s)' \/ HasModel(s)')
      BY <1>2, <2>1, <2>2, <2>3, <2>4 DEF IInv, ModelsOfLinkedTrees
    <3>2. \A s \in Trees : HasModel(s)' => ~IsDirty(s)'
      BY <2>2, <2>8 DEF IInv, ModelsOfLinkedTrees
    <3> QED
      BY <1>2, <2>8, <3>1, <3>2 DEF IInv, ModelsOfLinkedTrees, Trees
  <2> QED
    BY <1>1, <2>7, <2>9 DEF IInv
<1> QED
  BY <1>3, <1>4

LEMMA AskingKeeps ==
  ASSUME IInv, NEW t \in Trees, semanticModel(t)
  PROVE  IInv'
<1>1. BinderInv'
  BY BinderRests DEF IInv, semanticModel, binding, binder
<1>2. unit = Null /\ unit' = Null /\ outcome = "defined" /\ outcome' = "defined"
      /\ UNCHANGED <<files, symDEFs, linked>>
  BY DEF semanticModel, Calling, binding, binder, assembly
<1>3. \A s \in Trees : IsDirty(s)' <=> IsDirty(s)
  BY DEF semanticModel, With, IsDirty
<1>4. \A s \in DOMAIN semaModels : s \in DOMAIN semaModels' /\ semaModels'[s] = semaModels[s]
  BY DEF semanticModel, With
<1>5. \A s \in Trees : s \in DOMAIN semaModels' /\ s \notin DOMAIN semaModels
                         => semaModels'[s].tree = Null
  BY DEF semanticModel, With, NoModel
<1>6. \A s \in Trees : /\ HasModel(s)' <=> HasModel(s)
                       /\ HasModel(s) => semaModels'[s] = semaModels[s]
  BY <1>4, <1>5 DEF HasModel
<1>7. FlagsAreRight'
  BY <1>2, <1>3, <1>4 DEF IInv, FlagsAreRight, Trees
<1>8. ModelsOfLinkedTrees'
  BY <1>2, <1>3, <1>6 DEF IInv, ModelsOfLinkedTrees, Trees
<1> QED
  BY <1>1, <1>7, <1>8 DEF IInv

LEMMA StartingKeeps ==
  ASSUME IInv, NEW t \in Trees, makeModel(t)
  PROVE  IInv'
<1>1. /\ unit' = t /\ outcome' = "defined"
      /\ UNCHANGED <<files, symDEFs, symUSEs, isDirty, semaModels, linked>>
  BY DEF makeModel, Calling, StartBinding, assembly, compilation
<1>2. /\ syms' = <<Null>> /\ tySyms' = <<>> /\ pendingFunTySyms' = <<>> /\ swapped' = <<>>
      /\ declSyms' = <<>>
  BY DEF makeModel, StartBinding
<1>3. BinderInv'
  <2>1. ASSUME NEW S
        PROVE  <<>> \in Seq(S) /\ <<Null>> \in Seq(S \cup {Null})
    BY EmptySeq
  <2>2. StacksAreOwn'
    BY <1>2, <2>1 DEF StacksAreOwn
  <2>3. DeclaredHere'
    BY <1>2 DEF DeclaredHere
  <2> QED
    BY <1>1, <2>2, <2>3 DEF IInv, BinderInv, TablesAreTables
<1>4. FlagsAreRight'
  BY <1>1 DEF IInv, FlagsAreRight, makeModel, Trees, IsDirty
<1>5. ModelsOfLinkedTrees'
  BY <1>1 DEF IInv, ModelsOfLinkedTrees, makeModel, Calling, Trees, IsDirty, HasModel
<1> QED
  BY <1>3, <1>4, <1>5 DEF IInv

(* A step of the binder runs on a program that is still defined, stays in  *)
(* the tree, and leaves the program defined or undefined.                  *)
Runs ==
  outcome = "defined" /\ outcome' \in {"defined", "undefined"} /\ unit' = unit

LEMMA BindRuns ==
  ASSUME Bind
  PROVE  Runs
<1>1. CASE ScopeSteps
  BY <1>1 DEF Runs, ScopeSteps, openScope, closeScope, closeScopeAndStashIt,
         reopenStashedScope, Running, Proceed, Leave
<1>2. CASE CallingSteps
  BY <1>2 DEF Runs, CallingSteps, visitIncompleteDeclaration, visitDeclaration, visitIf,
         visitTypeDeclarationAsSpecifier, visitParameterSuffix, visitCompoundStatement,
         visitChildren, UsesNothing, Undefined, Declaring, Running, Visiting, Proceed, Leave
<1>3. CASE PoppingSteps
  BY <1>3 DEF Runs, PoppingSteps, popSym, popTySym, popPendingFunTySym, visitApart, swapBack,
         Running, Visiting, Proceed, Leave
<1>4. CASE TypeSteps
  BY <1>4 DEF Runs, TypeSteps, defaultToInt, visitEnumeratorDeclaration,
         visitBuiltinTypeSpecifier, visitTypedefName, visitTagTypeSpecifier, makeTag,
         visitPointerDeclarator, visitArrayDeclarator, visitFunctionDeclarator,
         Running, Visiting, Proceed, Leave
<1>5. CASE SymbolSteps
  BY <1>5 DEF Runs, SymbolSteps, visitTranslationUnit, visitTypeDeclaration, declareSym,
         Declaring, Running, Visiting, Proceed, Leave
<1>6. CASE PatchingSteps
  BY <1>6 DEF Runs, PatchingSteps, specify, visitTypeQualifier, Running, Visiting, Proceed, Leave
<1>7. CASE declareParameter \/ typeSymAtTop
  BY <1>7 DEF Runs, declareParameter, typeSymAtTop, Declaring, Running, Visiting, Proceed, Leave
<1> QED
  BY <1>1, <1>2, <1>3, <1>4, <1>5, <1>6, <1>7, Zenon
     DEF Bind, ScopeSteps, CallingSteps, PoppingSteps, TypeSteps, SymbolSteps, PatchingSteps

(* A model's symbols are not of the tree that is bound, or of that tree    *)
(* keep the fields that are never written.                                 *)
LEMMA BindingKeeps ==
  ASSUME IInv, bindStep
  PROVE  IInv'
<1>1. Kept
  BY BindKeeps, Zenon DEF IInv, bindStep
<1>2. outcome = "defined" /\ outcome' \in {"defined", "undefined"} /\ unit' = unit
  BY BindRuns, Zenon DEF bindStep, Runs
<1>3. UNCHANGED <<files, isDirty, semaModels, linked>>
  BY DEF bindStep, compilation
<1>4. FlagsAreRight'
  BY <1>2, <1>3 DEF IInv, FlagsAreRight, Trees, IsDirty
<1>5. ModelsOfLinkedTrees'
  <2>1. \A t \in Trees : t \in linked' <=> outcome' # "destroyed" /\ (IsDirty(t)' \/ HasModel(t)')
    BY <1>2, <1>3 DEF IInv, ModelsOfLinkedTrees, IsDirty, HasModel
  <2>2. ASSUME NEW t \in Trees, HasModel(t), NEW n \in DOMAIN semaModels[t].declSyms
        PROVE  LET sym == semaModels[t].declSyms[n]
               IN  sym \in DOMAIN symDEFs' /\ symDEFs'[sym].tree = t /\ symDEFs'[sym].node = n
    <3> DEFINE sym == semaModels[t].declSyms[n]
    <3>1. sym \in DOMAIN symDEFs /\ symDEFs[sym].tree = t /\ symDEFs[sym].node = n
      BY <2>2 DEF IInv, ModelsOfLinkedTrees
    <3>2. /\ sym \in DOMAIN symDEFs'
          /\ symDEFs'[sym]["tree"] = symDEFs[sym]["tree"]
          /\ symDEFs'[sym]["node"] = symDEFs[sym]["node"]
      BY <1>1, <3>1 DEF Kept, TablesGrow, Grown, SymbolFields
    <3> QED
      BY <3>1, <3>2
  <2>3. \A t \in Trees : HasModel(t) => ~IsDirty(t) /\ semaModels[t].tree = t
    BY DEF IInv, ModelsOfLinkedTrees
  <2> QED
    BY <1>3, <2>1, <2>2, <2>3 DEF ModelsOfLinkedTrees, IsDirty, HasModel, Trees
<1> QED
  BY <1>1, <1>4, <1>5 DEF IInv, Kept

LEMMA MadeKeeps ==
  ASSUME IInv, modelMade
  PROVE  IInv'
<1> DEFINE model == [tree |-> unit, declSyms |-> declSyms]
<1>1. /\ unit # Null /\ unit' = Null /\ outcome = "defined"
      /\ semaModels' = [semaModels EXCEPT ![unit] = model]
      /\ isDirty' = [isDirty EXCEPT ![unit] = FALSE]
      /\ UNCHANGED <<files, symDEFs, symUSEs, outcome, linked>>
  BY DEF modelMade, assembly
<1>2. /\ syms' = <<>> /\ tySyms' = <<>> /\ pendingFunTySyms' = <<>> /\ swapped' = <<>>
      /\ declSyms' = <<>>
  BY DEF modelMade
<1>3. BinderInv'
  <2>1. ASSUME NEW S
        PROVE  <<>> \in Seq(S)
    BY EmptySeq
  <2>2. StacksAreOwn'
    BY <1>2, <2>1 DEF StacksAreOwn
  <2>3. DeclaredHere'
    BY <1>2 DEF DeclaredHere
  <2> QED
    BY <1>1, <2>2, <2>3 DEF IInv, BinderInv, TablesAreTables
<1>4. unit \in Trees /\ IsDirty(unit) /\ unit \in DOMAIN semaModels /\ ~HasModel(unit)
  BY <1>1 DEF IInv, FlagsAreRight, ModelsOfLinkedTrees
<1>5. \A s \in Trees : s # unit => (IsDirty(s)' <=> IsDirty(s))
  BY <1>1 DEF IsDirty
<1>6. \A s \in Trees : s = unit => ~IsDirty(s)'
  BY <1>1, <1>4 DEF IsDirty
<1>7. \A s \in Trees : s # unit => /\ HasModel(s)' <=> HasModel(s)
                                   /\ HasModel(s) => semaModels'[s] = semaModels[s]
  <2>1. DOMAIN semaModels' = DOMAIN semaModels
    BY <1>1
  <2>2. \A s \in DOMAIN semaModels : s # unit => semaModels'[s] = semaModels[s]
    BY <1>1
  <2> QED
    BY <2>1, <2>2 DEF HasModel
<1>8. unit \in DOMAIN semaModels' /\ semaModels'[unit] = model /\ DOMAIN semaModels' = DOMAIN semaModels
  BY <1>1, <1>4
<1>9. FlagsAreRight'
  BY <1>1, <1>5, <1>6, <1>8 DEF IInv, FlagsAreRight, Trees
<1>10. ModelsOfLinkedTrees'
  <2>1. \A s \in Trees : s = unit => HasModel(s)'
    BY <1>1, <1>8 DEF HasModel
  <2>2. ASSUME NEW t \in Trees
        PROVE  t \in linked' <=> outcome' # "destroyed" /\ (IsDirty(t)' \/ HasModel(t)')
    <3>1. t \in linked <=> IsDirty(t) \/ HasModel(t)
      BY <1>1 DEF IInv, ModelsOfLinkedTrees
    <3>2. CASE t = unit
      BY <1>1, <1>4, <2>1, <3>1, <3>2
    <3>3. CASE t # unit
      <4>1. IsDirty(t)' <=> IsDirty(t)
        BY <1>5, <3>3
      <4>2. HasModel(t)' <=> HasModel(t)
        BY <1>7, <3>3
      <4>3. linked' = linked /\ outcome' # "destroyed"
        BY <1>1
      <4> QED
        BY <3>1, <4>1, <4>2, <4>3
    <3> QED
      BY <3>2, <3>3
  <2>3. ASSUME NEW t \in Trees, HasModel(t)'
        PROVE  /\ ~IsDirty(t)' /\ semaModels'[t].tree = t
               /\ \A n \in DOMAIN semaModels'[t].declSyms :
                     LET sym == semaModels'[t].declSyms[n]
                     IN  sym \in DOMAIN symDEFs /\ symDEFs[sym].tree = t /\ symDEFs[sym].node = n
    <3>1. CASE t = unit
      BY <1>6, <1>8, <3>1 DEF IInv, BinderInv, DeclaredHere, Owned
    <3>2. CASE t # unit
      <4>1. HasModel(t) /\ semaModels'[t] = semaModels[t]
        BY <1>7, <2>3, <3>2
      <4>2. IsDirty(t)' <=> IsDirty(t)
        BY <1>5, <3>2
      <4>3. ~IsDirty(t)
        BY <4>1 DEF IInv, ModelsOfLinkedTrees
      <4> QED
        BY <4>1, <4>2, <4>3 DEF IInv, ModelsOfLinkedTrees
    <3> QED
      BY <3>1, <3>2
  <2> QED
    BY <1>1, <2>2, <2>3 DEF ModelsOfLinkedTrees, Trees
<1> QED
  BY <1>3, <1>9, <1>10 DEF IInv

LEMMA DestroyingKeeps ==
  ASSUME IInv, destroy
  PROVE  IInv'
<1>1. /\ unit = Null /\ unit' = Null /\ outcome' = "destroyed"
      /\ linked' = linked \ DOMAIN semaModels
      /\ UNCHANGED <<files, symDEFs, isDirty, semaModels>>
  BY DEF destroy, Calling, assembly
<1>2. BinderInv'
  BY BinderRests DEF IInv, destroy
<1>3. FlagsAreRight'
  BY <1>1 DEF IInv, FlagsAreRight, Trees, IsDirty
<1>4. \A t \in Trees : t \notin linked'
  BY <1>1 DEF IInv, FlagsAreRight, ModelsOfLinkedTrees, HasModel
<1>5. ModelsOfLinkedTrees'
  BY <1>1, <1>4 DEF IInv, ModelsOfLinkedTrees, HasModel, IsDirty, Trees
<1> QED
  BY <1>2, <1>3, <1>5 DEF IInv

LEMMA StutteringKeeps ==
  ASSUME IInv, UNCHANGED vars
  PROVE  IInv'
<1>1. UNCHANGED <<files, unit, assembly, stacks, swapped, declSyms, outcome, isDirty, semaModels, linked>>
  BY DEF vars, binding, binder, compilation
<1>2. BinderInv'
  BY <1>1, BinderRests DEF IInv
<1>3. FlagsAreRight'
  BY <1>1 DEF IInv, FlagsAreRight, Trees, IsDirty
<1>4. ModelsOfLinkedTrees'
  BY <1>1 DEF IInv, ModelsOfLinkedTrees, HasModel, IsDirty, Trees, assembly
<1> QED
  BY <1>2, <1>3, <1>4 DEF IInv

LEMMA NextKeeps ==
  ASSUME IInv, [Next]_vars
  PROVE  IInv'
BY AddingKeeps, AskingKeeps, StartingKeeps, BindingKeeps, MadeKeeps, DestroyingKeeps,
   StutteringKeeps DEF Next

(* The inductive invariant: the tables hold symbols and types with their   *)
(* trees, the binder's stacks and its table those of the tree it binds,    *)
(* which is dirty (BoundTrees, Binder).                                    *)
THEOREM CompilationInvariance == Spec => []IInv
<1>1. Init => IInv
  BY InitIsRight
<1>2. IInv /\ [Next]_vars => IInv'
  BY NextKeeps
<1> QED
  BY <1>1, <1>2, PTL DEF Spec

(* The compilation is attached to the trees that are dirty or have a       *)
(* model, and a model is of its tree (Compilation.cpp:52-118).             *)
THEOREM ModelsAreOfLinkedTrees == Spec => []ModelsOfLinkedTrees
<1>1. IInv => ModelsOfLinkedTrees
  BY DEF IInv
<1> QED
  BY <1>1, CompilationInvariance, PTL

-----------------------------------------------------------------------------
(* Models stay.                                                            *)

ModelStays(t) == HasModel(t)' /\ semaModels'[t] = semaModels[t]
SymbolsStay(t) ==
  /\ \A i \in DOMAIN symDEFs : symDEFs[i].tree = t => symDEFs'[i] = symDEFs[i]
  /\ \A i \in DOMAIN symUSEs : symUSEs[i].tree = t => symUSEs'[i] = symUSEs[i]

LEMMA CallsKeepModels ==
  ASSUME IInv, NEW s \in Trees, addSyntaxTree(s) \/ semanticModel(s), NEW t \in Trees, HasModel(t)
  PROVE  ModelStays(t)
<1>1. t \in DOMAIN semaModels /\ semaModels[t].tree # Null
  BY DEF HasModel
<1>2. \/ semaModels' = semaModels
      \/ semaModels' = With(semaModels, s, NoModel) /\ s \notin DOMAIN semaModels
  BY DEF addSyntaxTree, semanticModel, compilation
<1>3. t \in DOMAIN semaModels' /\ semaModels'[t] = semaModels[t]
  BY <1>1, <1>2 DEF With
<1> QED
  BY <1>1, <1>3 DEF ModelStays, HasModel

LEMMA StepsKeepModels ==
  ASSUME IInv, Next, NEW t \in Trees, HasModel(t)
  PROVE  ModelStays(t) /\ SymbolsStay(t)
<1>1. ASSUME NEW s \in Trees, addSyntaxTree(s) \/ semanticModel(s)
      PROVE  ModelStays(t) /\ SymbolsStay(t)
  <2>1. UNCHANGED <<symDEFs, symUSEs>>
    BY <1>1 DEF addSyntaxTree, semanticModel, binding, assembly
  <2> QED
    BY <1>1, <2>1, CallsKeepModels DEF SymbolsStay
<1>2. ASSUME NEW s \in Trees, makeModel(s)
      PROVE  ModelStays(t) /\ SymbolsStay(t)
  BY <1>2 DEF makeModel, ModelStays, SymbolsStay, HasModel, assembly, compilation
<1>3. CASE bindStep
  <2>1. t # unit
    BY <1>3 DEF IInv, FlagsAreRight, ModelsOfLinkedTrees, bindStep
  <2>2. TablesGrow
    BY <1>3, BindKeeps DEF IInv, bindStep, Kept
  <2>3. SymbolsStay(t)
    BY <2>1, <2>2 DEF TablesGrow, Grown, SymbolsStay
  <2>4. ModelStays(t)
    BY <1>3 DEF bindStep, compilation, ModelStays, HasModel
  <2> QED
    BY <2>3, <2>4
<1>4. CASE modelMade
  <2>1. t # unit
    BY <1>4 DEF IInv, FlagsAreRight, ModelsOfLinkedTrees, modelMade
  <2>2. UNCHANGED <<symDEFs, symUSEs>>
    BY <1>4 DEF modelMade, assembly
  <2>3. t \in DOMAIN semaModels' /\ semaModels'[t] = semaModels[t]
    BY <1>4, <2>1 DEF modelMade, HasModel
  <2> QED
    BY <2>2, <2>3 DEF ModelStays, SymbolsStay, HasModel
<1>5. CASE destroy
  BY <1>5 DEF destroy, assembly, ModelStays, SymbolsStay, HasModel
<1> QED
  BY <1>1, <1>2, <1>3, <1>4, <1>5 DEF Next

(* No call, and no binding of another tree, changes a model that was made, *)
(* or a symbol or a type of its tree (Compilation.cpp:108-118).            *)
THEOREM ModelsAreKept == Spec => ModelsStay
<1> DEFINE Stays == \A t \in Trees : HasModel(t) =>
                      /\ HasModel(t)' /\ semaModels'[t] = semaModels[t]
                      /\ \A i \in DOMAIN symDEFs : symDEFs[i].tree = t => symDEFs'[i] = symDEFs[i]
                      /\ \A i \in DOMAIN symUSEs : symUSEs[i].tree = t => symUSEs'[i] = symUSEs[i]
<1>1. IInv /\ [Next]_vars => [Stays]_vars
  BY StepsKeepModels DEF ModelStays, SymbolsStay
<1> QED
  BY <1>1, CompilationInvariance, PTL DEF Spec, ModelsStay

-----------------------------------------------------------------------------
(* The stacks of the binder.                                               *)

(* What is left to do leaves the stacks as Binder::bind set them up.        *)
BalanceInv ==
  /\ scopeTable \in Seq(ScopeKinds)
  /\ \A t \in Trees : IsTree(files[t])
  /\ unit # Null /\ outcome = "defined" => Balanced

LEMMA BalancedFinds ==
  ASSUME IInv, BalanceInv
  PROVE  StacksAreBalanced
<1> SUFFICES ASSUME unit # Null, outcome = "defined"
             PROVE  /\ Running("closeScope") => Len(scopes) > 1
                    /\ Running("closeScopeAndStashIt") =>
                          Len(scopes) > 1 /\ ScopeAtTop = "FunctionPrototype"
                    /\ Running("reopenStashedScope") =>
                          /\ stashedScope # Null /\ scopeTable[stashedScope] = "FunctionPrototype"
                          /\ \A i \in DOMAIN scopes : scopes[i] # stashedScope
                    /\ Running("popSym") => Len(syms) > 1
                    /\ Running("popPendingFunTySym") => pendingFunTySyms # <<>>
                    /\ Running("swapBack") => swapped # <<>>
                    /\ todo = <<>> =>
                          /\ scopes = <<Null>> /\ pendingFunTySyms = <<>> /\ swapped = <<>>
                          /\ syms # <<>> /\ syms[Len(syms)] = Null
  BY DEF StacksAreBalanced
<1>1. Balanced /\ BinderInv
  BY DEF BalanceInv, IInv
<1>2. Running("closeScope") => Len(scopes) > 1
  BY <1>1, ClosingFinds DEF Running
<1>3. Running("closeScopeAndStashIt") => Len(scopes) > 1 /\ ScopeAtTop = "FunctionPrototype"
  BY <1>1, ClosingFinds DEF Running
<1>4. Running("reopenStashedScope") =>
          /\ stashedScope # Null /\ scopeTable[stashedScope] = "FunctionPrototype"
          /\ \A i \in DOMAIN scopes : scopes[i] # stashedScope
  BY <1>1, ReopeningFinds DEF Running
<1>5. Running("popSym") => Len(syms) > 1
  BY <1>1, PoppingFinds DEF Running
<1>6. Running("popPendingFunTySym") => pendingFunTySyms # <<>>
  BY <1>1, PoppingFinds DEF Running
<1>7. Running("swapBack") => swapped # <<>>
  BY <1>1, PoppingFinds DEF Running
<1> QED
  BY <1>1, <1>2, <1>3, <1>4, <1>5, <1>6, <1>7, EndFinds

(* The binder starts with the outermost scope and symbol, and one call.    *)
LEMMA StartingBalances ==
  ASSUME IInv, BalanceInv, NEW t \in Trees, makeModel(t)
  PROVE  Balanced'
<1>1. /\ unit' = t /\ files' = files /\ scopeTable' = scopeTable
      /\ todo' = <<Visit(1)>> /\ scopes' = <<Null>> /\ syms' = <<Null>>
      /\ pendingFunTySyms' = <<>> /\ swapped' = <<>>
  BY DEF makeModel, Calling, StartBinding, assembly
<1>2. tree' = files[t] /\ IsTree(files[t])
  BY <1>1 DEF tree, BalanceInv
<1> DEFINE f == files[t]
<1>3. 1 \in DOMAIN f
  BY <1>2, TreeParts
<1>4. End \in Standings /\ ~End.fresh
  BY DEF End, Standings, ScopeKinds
<1>5. Fits(f, <<Visit(1)>>, End, End)
  <2> HIDE DEF f
  <2> QED
    BY <1>2, <1>3, <1>4, VisitFlat, FlatFits DEF f
<1>6. ScopesAreOpen'
  BY <1>1 DEF ScopesAreOpen, Null
<1>7. Stands(End)'
  <2>1. Scoped(<<"None">>, FALSE)'
    BY <1>1 DEF Scoped, KindAt, Null
  <2>2. Held(syms', Holders', 0)
    BY HeldNone
  <2>3. Len(<<>>) = 0
    BY EmptySeq
  <2> QED
    BY <1>1, <2>1, <2>2, <2>3 DEF Stands, End
<1>8. Followed'
  BY <1>1, <1>2, <1>4, <1>5, <1>7 DEF Followed
<1>9. SymsAreHeld'
  BY <1>1 DEF SymsAreHeld
<1> QED
  BY <1>1, <1>6, <1>8, <1>9 DEF Balanced, BalanceInv

LEMMA BindStepBalances ==
  ASSUME IInv, BalanceInv, bindStep
  PROVE  BalanceInv'
<1>1. unit # Null /\ Bind /\ files' = files
  BY DEF bindStep
<1>2. unit \in Trees /\ IsTree(tree)
  BY <1>1 DEF IInv, FlagsAreRight, BalanceInv, tree
<1>3. outcome = "defined"
  BY <1>1, BindRuns, Zenon DEF Runs
<1>4. Balanced /\ BinderInv
  BY <1>1, <1>3 DEF BalanceInv, IInv
<1>5. outcome' = "undefined" \/ Balanced'
  BY <1>1, <1>2, <1>4, BindBalances
<1>6. scopeTable' \in Seq(ScopeKinds)
  <2>1. UsesNothing => scopeTable' = scopeTable
    BY DEF UsesNothing, Undefined, assembly
  <2>2. ~UsesNothing => Balanced'
    BY <1>1, <1>2, <1>4, OpenBalances, CloseBalances, StashBalances, ReopenBalances,
       PopSymBalances, SwapBackBalances, PopPendingBalances, TypeDeclarationBalances,
       ApartBalances, FunctionBalances, TypingBalances, PlainBalances, ScopedBalances,
       RestingBalances DEF Bind, Undeclaring, Declarings, Resting
  <2> QED
    BY <1>4, <2>1, <2>2 DEF Balanced
<1> QED
  BY <1>1, <1>5, <1>6 DEF BalanceInv, Trees

LEMMA BalanceStays ==
  ASSUME BalanceInv, UNCHANGED <<files, scopeTable>>, unit' = Null \/ outcome' # "defined"
  PROVE  BalanceInv'
BY DEF BalanceInv, Trees

LEMMA BalanceNext ==
  ASSUME IInv, BalanceInv, [Next]_vars
  PROVE  BalanceInv'
<1>1. ASSUME NEW t \in Trees, addSyntaxTree(t) \/ semanticModel(t)
      PROVE  BalanceInv'
  BY <1>1, BalanceStays DEF addSyntaxTree, semanticModel, Calling, binding, assembly
<1>2. ASSUME NEW t \in Trees, makeModel(t)
      PROVE  BalanceInv'
  <2>1. UNCHANGED <<files, scopeTable>>
    BY <1>2 DEF makeModel, Calling, assembly
  <2> QED
    BY <1>2, <2>1, StartingBalances DEF BalanceInv, Trees
<1>3. CASE modelMade \/ destroy
  BY <1>3, BalanceStays DEF modelMade, destroy, Calling, assembly
<1>4. CASE UNCHANGED vars
  <2>1. UNCHANGED <<files, unit, scopeTable, symDEFs, todo, scopes, stashedScope, syms,
                    pendingFunTySyms, swapped, outcome>>
    BY <1>4 DEF vars, binding, binder, stacks, assembly
  <2> QED
    BY <2>1 DEF BalanceInv, Trees, Balanced, ScopesAreOpen, SymsAreHeld, Followed, Stands, Scoped,
                Fresh, KindAt, Holders, tree
<1> QED
  BY <1>1, <1>2, <1>3, <1>4, BindStepBalances DEF Next

LEMMA BalanceInit ==
  ASSUME Init
  PROVE  BalanceInv
<1>1. <<>> \in Seq(ScopeKinds)
  BY EmptySeq
<1> QED
  BY <1>1, ProgramsAssumption DEF Init, BalanceInv, Trees

(* Whatever is bound, no assertion of Binder::bind or of a scope that is   *)
(* opened again fails, and no stack but that of types is popped of what was*)
(* not pushed to be popped (Binder.cpp:52-94, Binder_Declarators.cpp:141-  *)
(* 207).  The invariant says that the calls that are left fit what the     *)
(* stacks hold.                                                            *)
THEOREM BinderStacksAreBalanced == Spec => []StacksAreBalanced
<1>1. Init => BalanceInv
  BY BalanceInit
<1>2. IInv /\ BalanceInv /\ [Next]_vars => BalanceInv'
  BY BalanceNext
<1>3. IInv /\ BalanceInv => StacksAreBalanced
  BY BalancedFinds
<1> QED
  BY <1>1, <1>2, <1>3, CompilationInvariance, PTL DEF Spec
=============================================================================
