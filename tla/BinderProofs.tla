----------------------------- MODULE BinderProofs -----------------------------
(***************************************************************************)
(* Proofs about the steps of Binder: its stacks hold symbols and types of  *)
(* the tree that is bound, and it pops of them what it pushed.             *)
(***************************************************************************)
EXTENDS Binder, SequenceTheorems, TLAPS

(* A table of symbols, or of types, by the fields that are never written.  *)
SymbolFields == {"tree", "node", "kind"}
TypeFields == {"tree"}

IsTable(s, fields) ==
  /\ s \in Seq({s[i] : i \in DOMAIN s})
  /\ \A i \in DOMAIN s : fields \subseteq DOMAIN s[i]

(* Those of the tree t.                                                    *)
Owned(s, t) == {i \in DOMAIN s : s[i].tree = t}

TablesAreTables == IsTable(symDEFs, SymbolFields) /\ IsTable(symUSEs, TypeFields)

(* The binder's stacks hold symbols and types of the tree that is bound.   *)
StacksAreOwn ==
  /\ syms \in Seq(Owned(symDEFs, unit) \cup {Null})
  /\ tySyms \in Seq(Owned(symUSEs, unit))
  /\ pendingFunTySyms \in Seq(Owned(symUSEs, unit))
  /\ swapped \in Seq(Seq(Owned(symUSEs, unit)))

DeclaredHere ==
  \A n \in DOMAIN declSyms :
     declSyms[n] \in Owned(symDEFs, unit) /\ symDEFs[declSyms[n]].node = n

BinderInv == TablesAreTables /\ StacksAreOwn /\ DeclaredHere

(* What a step of the binder for the tree t may do to a table: add to it,  *)
(* and write to what is of t.                                              *)
Grown(s, new, t, fields) ==
  /\ IsTable(new, fields)
  /\ DOMAIN s \subseteq DOMAIN new
  /\ \A i \in DOMAIN s : \A f \in fields : new[i][f] = s[i][f]
  /\ \A i \in DOMAIN s : s[i].tree # t => new[i] = s[i]

TablesGrow ==
  /\ Grown(symDEFs, symDEFs', unit, SymbolFields)
  /\ Grown(symUSEs, symUSEs', unit, TypeFields)

-----------------------------------------------------------------------------
(* Tables.                                                                 *)

LEMMA TableLength ==
  ASSUME NEW s, NEW fields, IsTable(s, fields)
  PROVE  Len(s) \in Nat /\ DOMAIN s = 1 .. Len(s)
BY LenProperties DEF IsTable

LEMMA SameTable ==
  ASSUME NEW s, NEW fields, NEW t, IsTable(s, fields)
  PROVE  Grown(s, s, t, fields)
BY DEF Grown

LEMMA AppendedTable ==
  ASSUME NEW s, NEW fields, NEW t, IsTable(s, fields), NEW r, fields \subseteq DOMAIN r
  PROVE  /\ Grown(s, Append(s, r), t, fields)
         /\ Len(s) + 1 \in DOMAIN Append(s, r)
         /\ Append(s, r)[Len(s) + 1] = r
<1> DEFINE new == Append(s, r)
           S == {s[i] : i \in DOMAIN s} \cup {r}
<1>1. Len(s) \in Nat /\ DOMAIN s = 1 .. Len(s)
  BY TableLength
<1>2. s \in Seq(S)
  BY SeqMonotonic DEF IsTable
<1>3. /\ new \in Seq(S)
      /\ Len(new) = Len(s) + 1
      /\ \A i \in 1 .. Len(s) : new[i] = s[i]
      /\ new[Len(s) + 1] = r
  BY <1>2, AppendProperties
<1>4. DOMAIN new = 1 .. Len(s) + 1
  BY <1>3, LenProperties
<1>5. DOMAIN s \subseteq DOMAIN new /\ Len(s) + 1 \in DOMAIN new
  BY <1>1, <1>4
<1>6. \A i \in DOMAIN new : i \in DOMAIN s \/ i = Len(s) + 1
  BY <1>1, <1>4
<1>7. new \in Seq({new[i] : i \in DOMAIN new})
  <2>1. S \subseteq {new[i] : i \in DOMAIN new}
    BY <1>1, <1>3, <1>5
  <2> QED
    BY <2>1, <1>3, SeqMonotonic
<1> HIDE DEF new
<1>8. \A i \in DOMAIN new : fields \subseteq DOMAIN new[i]
  BY <1>1, <1>3, <1>6 DEF IsTable
<1> QED
  BY <1>1, <1>3, <1>5, <1>7, <1>8 DEF Grown, IsTable, new

LEMMA PatchedTable ==
  ASSUME NEW s, NEW fields, NEW t, IsTable(s, fields), NEW h \in Owned(s, t),
         NEW r, fields \subseteq DOMAIN r, \A f \in fields : r[f] = s[h][f]
  PROVE  Grown(s, [s EXCEPT ![h] = r], t, fields)
<1> DEFINE new == [s EXCEPT ![h] = r]
           S == {s[i] : i \in DOMAIN s} \cup {r}
<1>1. Len(s) \in Nat /\ DOMAIN s = 1 .. Len(s) /\ h \in 1 .. Len(s)
  BY TableLength DEF Owned
<1>2. s \in Seq(S)
  BY SeqMonotonic DEF IsTable
<1>3. new \in Seq(S)
  BY <1>1, <1>2, ExceptSeq
<1>4. DOMAIN new = DOMAIN s /\ new[h] = r /\ \A i \in DOMAIN s : i # h => new[i] = s[i]
  BY <1>1
<1> HIDE DEF new
<1>5. new \in Seq({new[i] : i \in DOMAIN new})
  <2>1. new \in Seq(Range(new))
    BY <1>3, SeqOfRange
  <2>2. Range(new) = {new[i] : i \in DOMAIN new}
    BY DEF Range
  <2> QED
    BY <2>1, <2>2
<1>6. \A i \in DOMAIN new : fields \subseteq DOMAIN new[i]
  BY <1>4 DEF IsTable
<1>7. \A i \in DOMAIN s : \A f \in fields : new[i][f] = s[i][f]
  BY <1>4
<1>8. \A i \in DOMAIN s : s[i].tree # t => new[i] = s[i]
  BY <1>4 DEF Owned
<1> QED
  BY <1>4, <1>5, <1>6, <1>7, <1>8 DEF Grown, IsTable, new

LEMMA OwnedGrow ==
  ASSUME NEW s, NEW new, NEW fields, NEW t, Grown(s, new, t, fields), "tree" \in fields
  PROVE  Owned(s, t) \subseteq Owned(new, t)
BY DEF Grown, Owned

-----------------------------------------------------------------------------
(* Stacks.                                                                 *)

LEMMA Pushed ==
  ASSUME NEW S, NEW s \in Seq(S), NEW a \in S
  PROVE  <<a>> \o s \in Seq(S)
<1>1. <<a>> \in Seq(S)
  OBVIOUS
<1> QED
  BY <1>1, ConcatProperties

LEMMA Popped ==
  ASSUME NEW S, NEW s \in Seq(S), s # <<>>
  PROVE  Head(s) \in S /\ Tail(s) \in Seq(S)
BY HeadTailProperties

LEMMA StackOfMore ==
  ASSUME NEW S, NEW T, S \subseteq T
  PROVE  Seq(S) \subseteq Seq(T)
BY SeqMonotonic

(* What the stacks held they hold when the tables have grown.              *)
LEMMA StacksOutlast ==
  ASSUME BinderInv, TablesGrow, UNCHANGED unit
  PROVE  /\ TablesAreTables'
         /\ Seq(Owned(symDEFs, unit) \cup {Null}) \subseteq Seq(Owned(symDEFs', unit') \cup {Null})
         /\ Seq(Owned(symUSEs, unit)) \subseteq Seq(Owned(symUSEs', unit'))
         /\ Seq(Seq(Owned(symUSEs, unit))) \subseteq Seq(Seq(Owned(symUSEs', unit')))
<1>1. TablesAreTables'
  BY DEF TablesGrow, TablesAreTables, Grown
<1>2. Owned(symDEFs, unit) \subseteq Owned(symDEFs', unit')
  BY OwnedGrow DEF TablesGrow, SymbolFields
<1>3. Owned(symUSEs, unit) \subseteq Owned(symUSEs', unit')
  BY OwnedGrow DEF TablesGrow, TypeFields
<1>4. Owned(symDEFs, unit) \cup {Null} \subseteq Owned(symDEFs', unit') \cup {Null}
  BY <1>2
<1>5. Seq(Owned(symUSEs, unit)) \subseteq Seq(Owned(symUSEs', unit'))
  BY <1>3, StackOfMore
<1> QED
  BY <1>1, <1>4, <1>5, StackOfMore

LEMMA DeclaredOutlast ==
  ASSUME BinderInv, TablesGrow, UNCHANGED <<unit, declSyms>>
  PROVE  DeclaredHere'
<1> SUFFICES ASSUME NEW n \in DOMAIN declSyms
             PROVE  declSyms[n] \in Owned(symDEFs', unit) /\ symDEFs'[declSyms[n]].node = n
  BY DEF DeclaredHere
<1>1. declSyms[n] \in Owned(symDEFs, unit) /\ symDEFs[declSyms[n]].node = n
  BY DEF BinderInv, DeclaredHere
<1>2. declSyms[n] \in DOMAIN symDEFs
  BY <1>1 DEF Owned
<1>3. symDEFs'[declSyms[n]]["node"] = symDEFs[declSyms[n]]["node"]
  BY <1>2 DEF TablesGrow, Grown, SymbolFields
<1>4. Owned(symDEFs, unit) \subseteq Owned(symDEFs', unit)
  BY OwnedGrow DEF TablesGrow, SymbolFields
<1> QED
  BY <1>1, <1>3, <1>4

-----------------------------------------------------------------------------
(* The kinds of steps of the binder.                                       *)

Kept == TablesGrow /\ BinderInv'

SameTables == UNCHANGED <<symDEFs, symUSEs>>
SameStacks == UNCHANGED <<syms, tySyms, pendingFunTySyms, swapped>>

LEMMA TablesStay ==
  ASSUME BinderInv, SameTables
  PROVE  TablesGrow
BY SameTable DEF BinderInv, TablesAreTables, SameTables, TablesGrow

(* A step that only writes to the tables.                                  *)
LEMMA Writes ==
  ASSUME BinderInv, TablesGrow, SameStacks, UNCHANGED <<unit, declSyms>>
  PROVE  Kept
<1>1. StacksAreOwn'
  BY StacksOutlast DEF SameStacks, BinderInv, StacksAreOwn
<1> QED
  BY <1>1, StacksOutlast, DeclaredOutlast DEF Kept, BinderInv

LEMMA Nothing ==
  ASSUME BinderInv, SameTables, SameStacks, UNCHANGED <<unit, declSyms>>
  PROVE  Kept
BY TablesStay, Writes

(* A step that only changes the stacks.                                    *)
LEMMA Moves ==
  ASSUME BinderInv, SameTables, UNCHANGED <<unit, declSyms>>,
         syms' \in Seq(Owned(symDEFs, unit) \cup {Null}),
         tySyms' \in Seq(Owned(symUSEs, unit)),
         pendingFunTySyms' \in Seq(Owned(symUSEs, unit)),
         swapped' \in Seq(Seq(Owned(symUSEs, unit)))
  PROVE  Kept
<1>1. TablesGrow
  BY TablesStay
<1>2. StacksAreOwn'
  BY DEF StacksAreOwn, SameTables
<1> QED
  BY <1>1, <1>2, StacksOutlast, DeclaredOutlast DEF Kept, BinderInv

LEMMA NewType ==
  ASSUME BinderInv, NEW type, "tree" \in DOMAIN type, type.tree = unit,
         symUSEs' = Append(symUSEs, type)
  PROVE  /\ Grown(symUSEs, symUSEs', unit, TypeFields)
         /\ Len(symUSEs) + 1 \in Owned(symUSEs', unit)
<1>1. IsTable(symUSEs, TypeFields) /\ TypeFields \subseteq DOMAIN type
  BY DEF BinderInv, TablesAreTables, TypeFields
<1> QED
  BY <1>1, AppendedTable DEF Owned

LEMMA TypeIsOfUnit ==
  ASSUME NEW kind, NEW of, NEW named, NEW name, NEW builtin
  PROVE  /\ "tree" \in DOMAIN Type(kind, of, named, name, builtin)
         /\ Type(kind, of, named, name, builtin).tree = unit
BY DEF Type

LEMMA MakesType ==
  ASSUME BinderInv, NEW type, "tree" \in DOMAIN type, type.tree = unit, MakeTySym(type),
         UNCHANGED <<unit, swapped>>,
         pendingFunTySyms' \in {pendingFunTySyms, <<Len(symUSEs) + 1>> \o pendingFunTySyms}
  PROVE  Kept
<1>1. symUSEs' = Append(symUSEs, type) /\ tySyms' = <<Len(symUSEs) + 1>> \o tySyms
  BY DEF MakeTySym, MakeTySymAndPushIt
<1>2. UNCHANGED <<symDEFs, syms, declSyms>>
  BY DEF MakeTySym
<1>3. Grown(symUSEs, symUSEs', unit, TypeFields) /\ Len(symUSEs) + 1 \in Owned(symUSEs', unit)
  BY <1>1, NewType
<1>4. TablesGrow
  BY <1>2, <1>3, SameTable DEF TablesGrow, BinderInv, TablesAreTables
<1> DEFINE U == Owned(symUSEs', unit)
<1>5. tySyms \in Seq(U) /\ pendingFunTySyms \in Seq(U) /\ swapped \in Seq(Seq(U))
  BY <1>4, StacksOutlast DEF BinderInv, StacksAreOwn
<1>6. tySyms' \in Seq(U) /\ pendingFunTySyms' \in Seq(U)
  <2> HIDE DEF U
  <2>1. <<Len(symUSEs) + 1>> \o tySyms \in Seq(U)
    BY <1>3, <1>5, Pushed DEF U
  <2>2. <<Len(symUSEs) + 1>> \o pendingFunTySyms \in Seq(U)
    BY <1>3, <1>5, Pushed DEF U
  <2> QED
    BY <1>1, <1>5, <2>1, <2>2
<1>7. syms' \in Seq(Owned(symDEFs', unit') \cup {Null})
  BY <1>2, <1>4, StacksOutlast DEF BinderInv, StacksAreOwn
<1>8. StacksAreOwn'
  BY <1>5, <1>6, <1>7 DEF StacksAreOwn
<1> QED
  BY <1>2, <1>4, <1>8, StacksOutlast, DeclaredOutlast DEF Kept, BinderInv

LEMMA MakesSymbol ==
  ASSUME BinderInv, NEW kind, NEW name, MakeSymAndPushIt(kind, name),
         Grown(symUSEs, symUSEs', unit, TypeFields), tySyms' \in Seq(Owned(symUSEs', unit)),
         UNCHANGED <<unit, swapped, pendingFunTySyms>>
  PROVE  Kept
<1> DEFINE sym == Symbol(kind, here, name, Head(scopes), Head(syms))
           new == Len(symDEFs) + 1
<1>1. /\ symDEFs' = Append(symDEFs, sym)
      /\ syms' = <<new>> \o syms
      /\ declSyms' = [n \in DOMAIN declSyms \cup {here} |->
                         IF n \in DOMAIN declSyms THEN declSyms[n] ELSE new]
  BY DEF MakeSymAndPushIt
<1>2. SymbolFields \subseteq DOMAIN sym /\ sym.tree = unit /\ sym.node = here
  BY DEF Symbol, SymbolFields
<1> HIDE DEF sym
<1>3. /\ Grown(symDEFs, symDEFs', unit, SymbolFields)
      /\ new \in Owned(symDEFs', unit)
      /\ symDEFs'[new].node = here
  BY <1>1, <1>2, AppendedTable DEF BinderInv, TablesAreTables, Owned
<1>4. TablesGrow
  BY <1>3 DEF TablesGrow
<1> HIDE DEF new
<1> DEFINE D == Owned(symDEFs', unit) \cup {Null}
<1>5. syms' \in Seq(D)
  <2>1. syms \in Seq(D)
    BY <1>4, StacksOutlast DEF BinderInv, StacksAreOwn
  <2>2. new \in D
    BY <1>3
  <2> HIDE DEF D
  <2> QED
    BY <1>1, <2>1, <2>2, Pushed
<1>6. StacksAreOwn'
  BY <1>4, <1>5, StacksOutlast DEF BinderInv, StacksAreOwn
<1>7. DeclaredHere'
  <2> SUFFICES ASSUME NEW n \in DOMAIN declSyms'
               PROVE  declSyms'[n] \in Owned(symDEFs', unit) /\ symDEFs'[declSyms'[n]].node = n
    BY DEF DeclaredHere
  <2>1. CASE n \in DOMAIN declSyms
    <3>1. declSyms'[n] = declSyms[n]
      BY <1>1, <2>1
    <3>2. declSyms[n] \in Owned(symDEFs, unit) /\ symDEFs[declSyms[n]].node = n
      BY <2>1 DEF BinderInv, DeclaredHere
    <3>3. symDEFs'[declSyms[n]]["node"] = symDEFs[declSyms[n]]["node"]
      BY <1>3, <3>2 DEF Grown, SymbolFields, Owned
    <3>4. Owned(symDEFs, unit) \subseteq Owned(symDEFs', unit)
      BY <1>3, OwnedGrow DEF SymbolFields
    <3> QED
      BY <3>1, <3>2, <3>3, <3>4
  <2>2. CASE n \notin DOMAIN declSyms
    <3>1. n = here /\ declSyms'[n] = new
      BY <1>1, <2>2
    <3> QED
      BY <1>3, <3>1
  <2> QED
    BY <2>1, <2>2
<1> QED
  BY <1>4, <1>6, <1>7, StacksOutlast DEF Kept, BinderInv

(* One type is written to, but for its tree.                               *)
LEMMA PatchedType ==
  ASSUME BinderInv, NEW h \in Owned(symUSEs, unit), NEW r, "tree" \in DOMAIN r,
         r.tree = symUSEs[h].tree
  PROVE  Grown(symUSEs, [symUSEs EXCEPT ![h] = r], unit, TypeFields)
<1>1. IsTable(symUSEs, TypeFields)
  BY DEF BinderInv, TablesAreTables
<1>2. TypeFields \subseteq DOMAIN r /\ \A f \in TypeFields : r[f] = symUSEs[h][f]
  BY DEF TypeFields
<1> QED
  BY <1>1, <1>2, PatchedTable

LEMMA OwnedType ==
  ASSUME BinderInv, NEW h \in Owned(symUSEs, unit)
  PROVE  h \in DOMAIN symUSEs /\ "tree" \in DOMAIN symUSEs[h]
BY DEF BinderInv, TablesAreTables, IsTable, TypeFields, Owned

-----------------------------------------------------------------------------
(* The steps of the binder.                                                *)

ScopeSteps ==
  \/ \E op \in DOMAIN Opens : openScope(op)
  \/ closeScope \/ closeScopeAndStashIt \/ reopenStashedScope

LEMMA ScopeStepsKeep ==
  ASSUME BinderInv, ScopeSteps
  PROVE  Kept
<1>1. SameTables /\ SameStacks /\ UNCHANGED <<unit, declSyms>>
  BY DEF ScopeSteps, openScope, closeScope, closeScopeAndStashIt, reopenStashedScope,
         SameTables, SameStacks, Proceed, Leave, assembly
<1> QED
  BY <1>1, Nothing

CallingSteps ==
  \/ visitIncompleteDeclaration \/ visitDeclaration \/ visitIf \/ visitTypeDeclarationAsSpecifier
  \/ visitParameterSuffix \/ visitCompoundStatement \/ visitChildren \/ UsesNothing

LEMMA CallingStepsKeep ==
  ASSUME BinderInv, CallingSteps
  PROVE  Kept
<1>1. SameTables /\ SameStacks /\ UNCHANGED <<unit, declSyms>>
  BY DEF CallingSteps, visitIncompleteDeclaration, visitDeclaration, visitIf,
         visitTypeDeclarationAsSpecifier, visitParameterSuffix, visitCompoundStatement,
         visitChildren, UsesNothing, Undefined, SameTables, SameStacks, Proceed, Leave, assembly,
         stacks
<1> QED
  BY <1>1, Nothing

PoppingSteps == popSym \/ popTySym \/ popPendingFunTySym \/ visitApart \/ swapBack

LEMMA PoppingStepsKeep ==
  ASSUME BinderInv, PoppingSteps
  PROVE  Kept
<1> DEFINE S == Owned(symDEFs, unit) \cup {Null}
           U == Owned(symUSEs, unit)
<1>1. SameTables /\ UNCHANGED <<unit, declSyms>>
  BY DEF PoppingSteps, popSym, popTySym, popPendingFunTySym, visitApart, swapBack, SameTables,
         Proceed, Leave, assembly
<1>2. /\ syms \in Seq(S) /\ tySyms \in Seq(U) /\ pendingFunTySyms \in Seq(U)
      /\ swapped \in Seq(Seq(U))
  BY DEF BinderInv, StacksAreOwn
<1> HIDE DEF S, U
<1>3. /\ syms' \in Seq(S) /\ tySyms' \in Seq(U) /\ pendingFunTySyms' \in Seq(U)
      /\ swapped' \in Seq(Seq(U))
  <2>1. CASE popSym
    BY <1>2, <2>1, Popped DEF popSym, Proceed
  <2>2. CASE popTySym
    BY <1>2, <2>2, Popped DEF popTySym, Proceed
  <2>3. CASE popPendingFunTySym
    BY <1>2, <2>3, Popped DEF popPendingFunTySym, Proceed
  <2>4. CASE visitApart
    <3>1. <<>> \in Seq(U)
      BY EmptySeq
    <3>2. <<tySyms>> \o swapped \in Seq(Seq(U))
      BY <1>2, Pushed
    <3> QED
      BY <1>2, <2>4, <3>1, <3>2 DEF visitApart
  <2>5. CASE swapBack
    <3>1. Head(swapped) \in Seq(U) /\ Tail(swapped) \in Seq(Seq(U))
      BY <1>2, <2>5, Popped DEF swapBack
    <3> QED
      BY <1>2, <2>5, <3>1 DEF swapBack
  <2> QED
    BY <2>1, <2>2, <2>3, <2>4, <2>5 DEF PoppingSteps
<1> QED
  BY <1>1, <1>3, Moves DEF S, U

TypeSteps ==
  \/ defaultToInt \/ visitEnumeratorDeclaration \/ visitBuiltinTypeSpecifier \/ visitTypedefName
  \/ visitTagTypeSpecifier \/ makeTag \/ visitPointerDeclarator \/ visitArrayDeclarator
  \/ visitFunctionDeclarator

LEMMA TypeStepsKeep ==
  ASSUME BinderInv, TypeSteps
  PROVE  Kept
<1>1. UNCHANGED <<unit, swapped>>
  BY DEF TypeSteps, defaultToInt, visitEnumeratorDeclaration, visitBuiltinTypeSpecifier,
         visitTypedefName, visitTagTypeSpecifier, makeTag, visitPointerDeclarator,
         visitArrayDeclarator, visitFunctionDeclarator, Proceed, Leave
<1>2. pendingFunTySyms' \in {pendingFunTySyms, <<Len(symUSEs) + 1>> \o pendingFunTySyms}
  BY DEF TypeSteps, defaultToInt, visitEnumeratorDeclaration, visitBuiltinTypeSpecifier,
         visitTypedefName, visitTagTypeSpecifier, makeTag, visitPointerDeclarator,
         visitArrayDeclarator, visitFunctionDeclarator
<1>3. \/ \E kind, of, named, name, builtin : MakeTySym(Type(kind, of, named, name, builtin))
      \/ UNCHANGED <<assembly, syms, tySyms, declSyms>> /\ UNCHANGED pendingFunTySyms
  BY DEF TypeSteps, defaultToInt, visitEnumeratorDeclaration, visitBuiltinTypeSpecifier,
         visitTypedefName, visitTagTypeSpecifier, makeTag, visitPointerDeclarator,
         visitArrayDeclarator, visitFunctionDeclarator, Builtin, Synonym, Tagged, Pointer, Array,
         Function
<1>4. CASE \E kind, of, named, name, builtin : MakeTySym(Type(kind, of, named, name, builtin))
  BY <1>1, <1>2, <1>4, TypeIsOfUnit, MakesType
<1>5. CASE UNCHANGED <<assembly, syms, tySyms, declSyms>> /\ UNCHANGED pendingFunTySyms
  BY <1>1, <1>5, Nothing DEF assembly, SameTables, SameStacks
<1> QED
  BY <1>3, <1>4, <1>5

SymbolSteps == visitTranslationUnit \/ visitTypeDeclaration \/ declareSym

LEMMA SymbolStepsKeep ==
  ASSUME BinderInv, SymbolSteps
  PROVE  Kept
<1>1. \E kind, name : MakeSymAndPushIt(kind, name)
  BY DEF SymbolSteps, visitTranslationUnit, visitTypeDeclaration, declareSym
<1>2. UNCHANGED <<unit, swapped, pendingFunTySyms, symUSEs, tySyms>>
  BY DEF SymbolSteps, visitTranslationUnit, visitTypeDeclaration, declareSym, Proceed, Leave
<1>3. Grown(symUSEs, symUSEs', unit, TypeFields)
  BY <1>2, SameTable DEF BinderInv, TablesAreTables
<1>4. tySyms' \in Seq(Owned(symUSEs', unit))
  BY <1>2 DEF BinderInv, StacksAreOwn
<1> QED
  BY <1>1, <1>2, <1>3, <1>4, MakesSymbol

LEMMA ParameterKeeps ==
  ASSUME BinderInv, declareParameter
  PROVE  Kept
<1> DEFINE adjusted == Len(symUSEs) + 1
           U == Owned(symUSEs, unit)
           V == Owned(symUSEs', unit)
<1>1. UNCHANGED <<unit, swapped, pendingFunTySyms>>
  BY DEF declareParameter, Proceed, Leave
<1>2. MakeSymAndPushIt("Parameter", At(here).text)
  BY DEF declareParameter
<1>3. tySyms \in Seq(U) /\ Tail(tySyms) \in Seq(U)
  BY Popped DEF BinderInv, StacksAreOwn, declareParameter, HasScopeAndType
<1>4. \/ \E type : /\ "tree" \in DOMAIN type /\ type.tree = unit
                   /\ \E upon \in {tySyms, Tail(tySyms)} : MakeTySymAndPushIt(type, upon)
      \/ UNCHANGED <<symUSEs, tySyms>>
  <2>1. ASSUME NEW to, NEW decay
        PROVE  /\ "tree" \in DOMAIN [Pointer(to) EXCEPT !.decay = decay]
               /\ [Pointer(to) EXCEPT !.decay = decay].tree = unit
    BY DEF Pointer, Type
  <2>2. \/ MakeTySymAndPushIt([Pointer(tySyms[2]) EXCEPT !.decay = "array"], Tail(tySyms))
        \/ MakeTySymAndPushIt([Pointer(Head(tySyms)) EXCEPT !.decay = "function"], tySyms)
        \/ UNCHANGED <<symUSEs, tySyms>>
    BY DEF declareParameter
  <2> QED
    BY <2>1, <2>2
<1>5. CASE UNCHANGED <<symUSEs, tySyms>>
  <2>1. Grown(symUSEs, symUSEs', unit, TypeFields)
    BY <1>5, SameTable DEF BinderInv, TablesAreTables
  <2> QED
    BY <1>1, <1>2, <1>3, <1>5, <2>1, MakesSymbol
<1>6. CASE \E type : /\ "tree" \in DOMAIN type /\ type.tree = unit
                     /\ \E upon \in {tySyms, Tail(tySyms)} : MakeTySymAndPushIt(type, upon)
  <2>1. PICK type : /\ "tree" \in DOMAIN type /\ type.tree = unit
                    /\ \E upon \in {tySyms, Tail(tySyms)} : MakeTySymAndPushIt(type, upon)
    BY <1>6
  <2>2. PICK upon \in {tySyms, Tail(tySyms)} : MakeTySymAndPushIt(type, upon)
    BY <2>1
  <2>3. symUSEs' = Append(symUSEs, type) /\ tySyms' = <<adjusted>> \o upon
    BY <2>2 DEF MakeTySymAndPushIt
  <2>4. Grown(symUSEs, symUSEs', unit, TypeFields) /\ adjusted \in V
    BY <2>1, <2>3, NewType
  <2>5. U \subseteq V
    BY <2>4, OwnedGrow DEF TypeFields
  <2>6. upon \in Seq(V)
    <3> HIDE DEF U, V
    <3>1. upon \in Seq(U)
      BY <1>3
    <3> QED
      BY <2>5, <3>1, StackOfMore
  <2>7. tySyms' \in Seq(V)
    <3> HIDE DEF adjusted, V
    <3> QED
      BY <2>3, <2>4, <2>6, Pushed
  <2> QED
    BY <1>1, <1>2, <2>4, <2>7, MakesSymbol
<1> QED
  BY <1>4, <1>5, <1>6

PatchingSteps == specify \/ visitTypeQualifier

LEMMA PatchingStepsKeep ==
  ASSUME BinderInv, PatchingSteps
  PROVE  Kept
<1> DEFINE h == Head(tySyms)
<1>1. SameStacks /\ UNCHANGED <<unit, declSyms, symDEFs>>
  BY DEF PatchingSteps, specify, visitTypeQualifier, SameStacks, stacks, Proceed, Leave
<1>2. tySyms # <<>> => h \in Owned(symUSEs, unit)
  BY Popped DEF BinderInv, StacksAreOwn
<1> DEFINE Const == [symUSEs[h] EXCEPT !.const = TRUE]
           Builtins(new) == [symUSEs[h] EXCEPT !.builtin = new, !.name = new]
<1>3. \/ symUSEs' = symUSEs
      \/ tySyms # <<>> /\ symUSEs' = [symUSEs EXCEPT ![h] = Const]
      \/ tySyms # <<>> /\ \E new : symUSEs' = [symUSEs EXCEPT ![h] = Builtins(new)]
  <2>1. CASE specify
    <3>1. /\ tySyms # <<>>
          /\ \E new : symUSEs' \in {symUSEs, [symUSEs EXCEPT ![h].builtin = new, ![h].name = new]}
      BY <2>1 DEF specify
    <3>2. h \in DOMAIN symUSEs
      BY <1>2, <3>1 DEF Owned
    <3>3. ASSUME NEW new
          PROVE  [symUSEs EXCEPT ![h].builtin = new, ![h].name = new]
                   = [symUSEs EXCEPT ![h] = Builtins(new)]
      BY <3>2
    <3> HIDE DEF Builtins
    <3> QED
      BY <3>1, <3>3
  <2>2. CASE visitTypeQualifier
    <3>1. \/ symUSEs' = symUSEs
          \/ tySyms # <<>> /\ symUSEs' = [symUSEs EXCEPT ![h].const = TRUE]
      BY <2>2 DEF visitTypeQualifier
    <3> QED
      BY <3>1
  <2> QED
    BY <2>1, <2>2 DEF PatchingSteps
<1>4. Grown(symUSEs, symUSEs', unit, TypeFields)
  <2>1. CASE symUSEs' = symUSEs
    BY <2>1, SameTable DEF BinderInv, TablesAreTables
  <2>2. ASSUME tySyms # <<>>, NEW r, r = Const \/ \E new : r = Builtins(new),
               symUSEs' = [symUSEs EXCEPT ![h] = r]
        PROVE  Grown(symUSEs, symUSEs', unit, TypeFields)
    <3>1. h \in Owned(symUSEs, unit) /\ "tree" \in DOMAIN symUSEs[h]
      BY <1>2, <2>2, OwnedType
    <3>2. "tree" \in DOMAIN r /\ r.tree = symUSEs[h].tree
      BY <2>2, <3>1
    <3> HIDE DEF h
    <3> QED
      BY <2>2, <3>1, <3>2, PatchedType
  <2> QED
    BY <1>3, <2>1, <2>2
<1>5. TablesGrow
  BY <1>1, <1>4, SameTable DEF TablesGrow, BinderInv, TablesAreTables
<1> QED
  BY <1>1, <1>5, Writes

LEMMA TypingKeeps ==
  ASSUME BinderInv, typeSymAtTop
  PROVE  Kept
<1>1. UNCHANGED <<unit, swapped, pendingFunTySyms, declSyms>>
  BY DEF typeSymAtTop, Proceed, Leave
<1>2. CASE HasTypeable /\ tySyms # <<>>
  <2> DEFINE s == Head(syms)
             p == Head(pendingFunTySyms)
             r == [symDEFs[s] EXCEPT !.type = Head(tySyms)]
  <2>1. /\ symDEFs' = [symDEFs EXCEPT ![s].type = Head(tySyms)]
        /\ symUSEs' = IF pendingFunTySyms = <<>> THEN symUSEs
                      ELSE [symUSEs EXCEPT ![p].params = Append(@, Head(tySyms))]
        /\ tySyms' \in {tySyms, Tail(tySyms)}
        /\ syms' = Tail(syms)
    BY <1>2 DEF typeSymAtTop
  <2>2. syms # <<>> /\ s # Null
    BY <1>2 DEF HasTypeable
  <2>3. s \in Owned(symDEFs, unit)
    BY <2>2, Popped DEF BinderInv, StacksAreOwn
  <2>4. s \in DOMAIN symDEFs /\ SymbolFields \subseteq DOMAIN symDEFs[s]
    BY <2>3 DEF Owned, BinderInv, TablesAreTables, IsTable
  <2>5. SymbolFields \subseteq DOMAIN r /\ \A f \in SymbolFields : r[f] = symDEFs[s][f]
    BY <2>4 DEF SymbolFields
  <2>6. symDEFs' = [symDEFs EXCEPT ![s] = r]
    BY <2>1
  <2>7. Grown(symDEFs, symDEFs', unit, SymbolFields)
    <3> HIDE DEF s, r
    <3> QED
      BY <2>3, <2>5, <2>6, PatchedTable DEF BinderInv, TablesAreTables
  <2>8. Grown(symUSEs, symUSEs', unit, TypeFields)
    <3>1. CASE pendingFunTySyms = <<>>
      BY <2>1, <3>1, SameTable DEF BinderInv, TablesAreTables
    <3>2. CASE pendingFunTySyms # <<>>
      <4> DEFINE q == [symUSEs[p] EXCEPT !.params = Append(@, Head(tySyms))]
      <4>1. p \in Owned(symUSEs, unit)
        BY <3>2, Popped DEF BinderInv, StacksAreOwn
      <4>2. "tree" \in DOMAIN symUSEs[p]
        BY <4>1, OwnedType
      <4>3. "tree" \in DOMAIN q /\ q.tree = symUSEs[p].tree
        BY <4>2
      <4>4. symUSEs' = [symUSEs EXCEPT ![p] = q]
        BY <2>1, <3>2
      <4> HIDE DEF p, q
      <4> QED
        BY <4>1, <4>3, <4>4, PatchedType
    <3> QED
      BY <3>1, <3>2
  <2>9. TablesGrow
    BY <2>7, <2>8 DEF TablesGrow
  <2>10. /\ syms' \in Seq(Owned(symDEFs, unit) \cup {Null})
         /\ tySyms' \in Seq(Owned(symUSEs, unit))
    BY <1>2, <2>1, <2>2, Popped DEF BinderInv, StacksAreOwn
  <2>11. StacksAreOwn'
    BY <1>1, <2>9, <2>10, StacksOutlast DEF BinderInv, StacksAreOwn
  <2> QED
    BY <1>1, <2>9, <2>11, StacksOutlast, DeclaredOutlast DEF Kept, BinderInv
<1>3. CASE ~(HasTypeable /\ tySyms # <<>>)
  <2>1. SameTables /\ SameStacks
    BY <1>1, <1>3 DEF typeSymAtTop, SameTables, SameStacks
  <2> QED
    BY <1>1, <2>1, Nothing
<1> QED
  BY <1>2, <1>3

LEMMA BindKeeps ==
  ASSUME BinderInv, Bind
  PROVE  Kept
BY ScopeStepsKeep, CallingStepsKeep, PoppingStepsKeep, TypeStepsKeep, SymbolStepsKeep,
   ParameterKeeps, PatchingStepsKeep, TypingKeeps
   DEF Bind, ScopeSteps, CallingSteps, PoppingSteps, TypeSteps, SymbolSteps, PatchingSteps

-----------------------------------------------------------------------------
(* What is left to do, and how it leaves the stacks.                       *)

ScopeKinds == {"File", "Block", "FunctionPrototype"}

(* What the stacks hold before a call: the kinds of the scopes, whether    *)
(* the stashed scope is fresh, and of the other stacks how much will be    *)
(* popped off them.                                                        *)
Standings ==
  [kinds : Seq(ScopeKinds \cup {"None"}) \ {<<>>}, fresh : BOOLEAN, pending : Nat, apart : Nat,
   held : Nat]

VisitingOps == {"visit", "visitApart", "visitIfTypeQualifier", "visitIfNotTypeQualifier"}
Ops ==
  {"openFile", "openBlock", "openFunctionPrototype", "reopenStashedScope", "closeScope",
   "closeScopeAndStashIt", "popPendingFunTySym", "swapBack", "popSym", "popTySym",
   typeSymAtTopAndPopIt, "defaultToInt", "declare", "makeTag"} \cup VisitingOps
Calls(f) == {c \in [op : Ops, node : Nat] : c.op \in VisitingOps => c.node \in DOMAIN f}

(* How a call leaves them, the steps that it leads to included.            *)
KindsLead(op, s, t) ==
  CASE op \in DOMAIN Opens -> t = <<Opens[op]>> \o s
    [] op = "reopenStashedScope" -> t = <<"Block">> \o s
    [] op = "closeScope" -> t # <<>> /\ \E kind \in ScopeKinds : s = <<kind>> \o t
    [] op = "closeScopeAndStashIt" -> t # <<>> /\ s = <<"FunctionPrototype">> \o t
    [] OTHER -> t = s

Quiet == {typeSymAtTopAndPopIt, "popPendingFunTySym"}
FreshLeads(f, call, s, t) ==
  /\ call.op = "reopenStashedScope" => s
  /\ t => \/ call.op = "closeScopeAndStashIt"
          \/ call.op = "visit" /\ IsSuffixed(f, call.node)
          \/ call.op \in Quiet /\ s

Taken(op, pop) == IF op = pop THEN 1 ELSE 0
Leads(f, call, s, t) ==
  /\ KindsLead(call.op, s.kinds, t.kinds)
  /\ FreshLeads(f, call, s.fresh, t.fresh)
  /\ s.pending = t.pending + Taken(call.op, "popPendingFunTySym")
  /\ s.apart = t.apart + Taken(call.op, "swapBack")
  /\ s.held = t.held + Taken(call.op, "popSym")

Way(f, calls, h) ==
  /\ calls \in Seq(Calls(f)) /\ h \in [1 .. Len(calls) + 1 -> Standings]
  /\ \A i \in 1 .. Len(calls) : Leads(f, calls[i], h[i], h[i + 1])
Fits(f, calls, s, t) == \E h : Way(f, calls, h) /\ h[1] = s /\ h[Len(calls) + 1] = t

-----------------------------------------------------------------------------
LEMMA FitsNone ==
  ASSUME NEW f, NEW s \in Standings
  PROVE  Fits(f, <<>>, s, s)
<1> DEFINE h == [i \in 1 .. 1 |-> s]
<1>1. <<>> \in Seq(Calls(f)) /\ Len(<<>>) = 0
  BY EmptySeq
<1>2. h \in [1 .. 0 + 1 -> Standings] /\ h[1] = s
  OBVIOUS
<1> HIDE DEF h
<1>3. Way(f, <<>>, h)
  BY <1>1, <1>2 DEF Way
<1> QED
  BY <1>1, <1>2, <1>3 DEF Fits

LEMMA FitsOne ==
  ASSUME NEW f, NEW call \in Calls(f), NEW s \in Standings, NEW t \in Standings,
         Leads(f, call, s, t)
  PROVE  Fits(f, <<call>>, s, t)
<1> DEFINE h == [i \in 1 .. 2 |-> IF i = 1 THEN s ELSE t]
<1>1. /\ <<call>> \in Seq(Calls(f)) /\ Len(<<call>>) = 1 /\ <<call>>[1] = call
      /\ h \in [1 .. 2 -> Standings] /\ h[1] = s /\ h[2] = t
  OBVIOUS
<1> HIDE DEF h
<1>2. Way(f, <<call>>, h)
  BY <1>1 DEF Way
<1> QED
  BY <1>1, <1>2 DEF Fits

LEMMA FitsFlat ==
  ASSUME NEW f, NEW calls \in Seq(Calls(f)), NEW s \in Standings,
         \A i \in 1 .. Len(calls) : Leads(f, calls[i], s, s)
  PROVE  Fits(f, calls, s, s)
<1> DEFINE h == [i \in 1 .. Len(calls) + 1 |-> s]
<1>1. Len(calls) \in Nat
  BY LenProperties
<1>2. /\ h \in [1 .. Len(calls) + 1 -> Standings] /\ h[1] = s /\ h[Len(calls) + 1] = s
      /\ \A i \in 1 .. Len(calls) : h[i] = s /\ h[i + 1] = s
  BY <1>1
<1> HIDE DEF h
<1>3. Way(f, calls, h)
  BY <1>2 DEF Way
<1> QED
  BY <1>2, <1>3 DEF Fits

LEMMA FitsBoth ==
  ASSUME NEW f, NEW a, NEW b, NEW s, NEW t, NEW u, Fits(f, a, s, t), Fits(f, b, t, u)
  PROVE  Fits(f, a \o b, s, u)
<1>1. PICK g : Way(f, a, g) /\ g[1] = s /\ g[Len(a) + 1] = t
  BY DEF Fits
<1>2. PICK k : Way(f, b, k) /\ k[1] = t /\ k[Len(b) + 1] = u
  BY DEF Fits
<1> DEFINE c == a \o b
           h == [i \in 1 .. Len(a) + Len(b) + 1 |-> IF i <= Len(a) THEN g[i] ELSE k[i - Len(a)]]
<1>3. Len(a) \in Nat /\ Len(b) \in Nat
  BY <1>1, <1>2, LenProperties DEF Way
<1>4. /\ c \in Seq(Calls(f)) /\ Len(c) = Len(a) + Len(b)
      /\ \A i \in 1 .. Len(c) : c[i] = IF i <= Len(a) THEN a[i] ELSE b[i - Len(a)]
  BY <1>1, <1>2, ConcatProperties DEF Way
<1> HIDE DEF c
<1>5. \A i \in 1 .. Len(a) + 1 : h[i] = g[i]
  BY <1>1, <1>2, <1>3
<1>6. \A i \in 1 .. Len(b) + 1 : h[Len(a) + i] = k[i]
  BY <1>1, <1>2, <1>3
<1>7. h \in [1 .. Len(a) + Len(b) + 1 -> Standings]
  BY <1>1, <1>2, <1>3 DEF Way
<1> HIDE DEF h
<1>8. ASSUME NEW i \in 1 .. Len(c)
      PROVE  Leads(f, c[i], h[i], h[i + 1])
  <2>1. CASE i <= Len(a)
    BY <1>1, <1>3, <1>4, <1>5, <2>1 DEF Way
  <2>2. CASE ~(i <= Len(a))
    <3> DEFINE j == i - Len(a)
    <3>1. j \in 1 .. Len(b) /\ i = Len(a) + j /\ i + 1 = Len(a) + (j + 1) /\ j + 1 \in 1 .. Len(b) + 1
      BY <1>3, <1>4, <2>2
    <3>2. c[i] = b[j]
      BY <1>4, <2>2
    <3> HIDE DEF j
    <3>3. h[i] = k[j] /\ h[i + 1] = k[j + 1]
      BY <1>3, <1>6, <3>1
    <3> QED
      BY <1>2, <3>1, <3>2, <3>3 DEF Way
  <2> QED
    BY <2>1, <2>2
<1>9. Way(f, c, h)
  BY <1>3, <1>4, <1>7, <1>8 DEF Way
<1>10. h[1] = s /\ h[Len(c) + 1] = u
  <2>1. 1 \in 1 .. Len(a) + 1 /\ Len(b) + 1 \in 1 .. Len(b) + 1 /\ Len(c) + 1 = Len(a) + (Len(b) + 1)
    BY <1>3, <1>4
  <2> QED
    BY <1>1, <1>2, <1>5, <1>6, <2>1
<1> QED
  BY <1>9, <1>10 DEF Fits, c

LEMMA FitsFirst ==
  ASSUME NEW f, NEW calls, NEW s, NEW t, Fits(f, calls, s, t), calls # <<>>
  PROVE  \E u \in Standings : /\ Head(calls) \in Calls(f) /\ s \in Standings
                              /\ Leads(f, Head(calls), s, u) /\ Fits(f, Tail(calls), u, t)
<1>1. PICK h : Way(f, calls, h) /\ h[1] = s /\ h[Len(calls) + 1] = t
  BY DEF Fits
<1> DEFINE rest == Tail(calls)
           k == [i \in 1 .. Len(calls) |-> h[i + 1]]
<1>2. /\ Len(calls) \in Nat /\ Len(calls) > 0
      /\ rest \in Seq(Calls(f)) /\ Len(rest) = Len(calls) - 1
      /\ \A i \in 1 .. Len(rest) : rest[i] = calls[i + 1]
      /\ Head(calls) = calls[1] /\ Head(calls) \in Calls(f)
  BY <1>1, HeadTailProperties, EmptySeq, LenProperties DEF Way
<1> HIDE DEF rest
<1>3. /\ k \in [1 .. Len(rest) + 1 -> Standings] /\ h[1] \in Standings /\ h[2] \in Standings
      /\ \A i \in 1 .. Len(calls) : k[i] = h[i + 1]
  <2>1. h \in [1 .. Len(calls) + 1 -> Standings]
    BY <1>1 DEF Way
  <2>2. /\ \A i \in 1 .. Len(calls) : i + 1 \in 1 .. Len(calls) + 1
        /\ 1 \in 1 .. Len(calls) + 1 /\ 2 \in 1 .. Len(calls) + 1 /\ Len(rest) + 1 = Len(calls)
    BY <1>2
  <2> QED
    BY <2>1, <2>2
<1> HIDE DEF k
<1>4. ASSUME NEW i \in 1 .. Len(rest)
      PROVE  Leads(f, rest[i], k[i], k[i + 1])
  <2>1. i \in 1 .. Len(calls) /\ i + 1 \in 1 .. Len(calls)
    BY <1>2
  <2>2. rest[i] = calls[i + 1] /\ k[i] = h[i + 1] /\ k[i + 1] = h[(i + 1) + 1]
    BY <1>2, <1>3, <2>1
  <2> QED
    BY <1>1, <2>1, <2>2 DEF Way
<1>5. Way(f, rest, k)
  BY <1>2, <1>3, <1>4 DEF Way
<1>6. k[1] = h[2] /\ k[Len(rest) + 1] = t /\ Leads(f, Head(calls), s, h[2])
  BY <1>1, <1>2, <1>3 DEF Way
<1> QED
  BY <1>1, <1>2, <1>3, <1>5, <1>6 DEF Fits, rest

-----------------------------------------------------------------------------
(* Sequences.                                                              *)

LEMMA Consed ==
  ASSUME NEW S, NEW a \in S, NEW s \in Seq(S)
  PROVE  LET c == <<a>> \o s
         IN  /\ c \in Seq(S) /\ c # <<>> /\ Len(s) \in Nat /\ Len(c) = Len(s) + 1 /\ c[1] = a
             /\ \A i \in 1 .. Len(s) : c[i + 1] = s[i]
             /\ \A i \in 1 .. Len(c) : i = 1 \/ (i - 1 \in 1 .. Len(s) /\ c[i] = s[i - 1])
<1> DEFINE c == <<a>> \o s
<1>1. <<a>> \in Seq(S) /\ Len(<<a>>) = 1 /\ <<a>>[1] = a
  OBVIOUS
<1>2. /\ c \in Seq(S) /\ Len(c) = 1 + Len(s)
      /\ \A i \in 1 .. 1 + Len(s) : c[i] = IF i <= 1 THEN <<a>>[i] ELSE s[i - 1]
  BY <1>1, ConcatProperties
<1>3. Len(s) \in Nat
  BY LenProperties
<1> HIDE DEF c
<1>4. c # <<>>
  BY <1>2, <1>3
<1>5. \A i \in 1 .. Len(s) : i + 1 \in 1 .. 1 + Len(s) /\ ~(i + 1 <= 1) /\ (i + 1) - 1 = i
  BY <1>3
<1>6. \A i \in 1 .. Len(c) : i = 1 \/ (i - 1 \in 1 .. Len(s) /\ ~(i <= 1))
  BY <1>2, <1>3
<1> QED
  BY <1>1, <1>2, <1>3, <1>4, <1>5, <1>6 DEF c

LEMMA Tailed ==
  ASSUME NEW S, NEW s \in Seq(S), s # <<>>
  PROVE  /\ Tail(s) \in Seq(S) /\ Len(s) \in Nat /\ Len(s) > 0 /\ Len(Tail(s)) = Len(s) - 1
         /\ Head(s) = s[1] /\ s[1] \in S
         /\ \A i \in 1 .. Len(s) - 1 : Tail(s)[i] = s[i + 1]
BY HeadTailProperties, LenProperties, EmptySeq

-----------------------------------------------------------------------------
(* How many of the symbols on a stack are of H.                            *)

Marks(ss, H, g, n) ==
  /\ g \in [1 .. n -> 1 .. Len(ss)]
  /\ \A i \in 1 .. n : ss[g[i]] \in H /\ \A j \in 1 .. i - 1 : g[j] < g[i]
Held(ss, H, n) == \E g : Marks(ss, H, g, n)

LEMMA HeldOfMore ==
  ASSUME NEW ss, NEW H, NEW I, NEW n, H \subseteq I, Held(ss, H, n)
  PROVE  Held(ss, I, n)
BY DEF Held, Marks

LEMMA HeldNone ==
  ASSUME NEW ss, NEW H
  PROVE  Held(ss, H, 0)
<1> DEFINE g == [i \in 1 .. 0 |-> i]
<1>1. Marks(ss, H, g, 0)
  BY DEF Marks
<1> QED
  BY <1>1 DEF Held

LEMMA HeldPushed ==
  ASSUME NEW S, NEW ss \in Seq(S), NEW a \in S, NEW H, NEW n \in Nat, Held(ss, H, n)
  PROVE  Held(<<a>> \o ss, H, n) /\ (a \in H => Held(<<a>> \o ss, H, n + 1))
<1> DEFINE c == <<a>> \o ss
<1>1. PICK g : Marks(ss, H, g, n)
  BY DEF Held
<1>2. /\ Len(ss) \in Nat /\ Len(c) = Len(ss) + 1 /\ c[1] = a
      /\ \A i \in 1 .. Len(ss) : c[i + 1] = ss[i]
  BY Consed
<1> HIDE DEF c
<1>3. \A i \in 1 .. n : /\ g[i] \in 1 .. Len(ss) /\ g[i] + 1 \in 1 .. Len(c) /\ c[g[i] + 1] \in H
                        /\ g[i] + 1 > 1
                        /\ \A j \in 1 .. i - 1 : j \in 1 .. n /\ g[j] + 1 < g[i] + 1
  <2> TAKE i \in 1 .. n
  <2>1. g[i] \in 1 .. Len(ss) /\ ss[g[i]] \in H
    BY <1>1 DEF Marks
  <2>2. g[i] + 1 \in 1 .. Len(c) /\ g[i] + 1 > 1 /\ c[g[i] + 1] \in H
    BY <1>2, <2>1
  <2>3. ASSUME NEW j \in 1 .. i - 1
        PROVE  j \in 1 .. n /\ g[j] + 1 < g[i] + 1
    <3>1. j \in 1 .. n
      OBVIOUS
    <3>2. g[j] \in 1 .. Len(ss) /\ g[j] < g[i]
      BY <1>1, <3>1 DEF Marks
    <3> QED
      BY <1>2, <2>1, <3>1, <3>2
  <2> QED
    BY <2>1, <2>2, <2>3
<1> DEFINE h == [i \in 1 .. n |-> g[i] + 1]
           k == [i \in 1 .. n + 1 |-> IF i = 1 THEN 1 ELSE g[i - 1] + 1]
<1>4. Marks(c, H, h, n)
  BY <1>3 DEF Marks
<1>5. ASSUME a \in H
      PROVE  Marks(c, H, k, n + 1)
  <2>1. \A i \in 1 .. n + 1 : i # 1 => i - 1 \in 1 .. n /\ k[i] = g[i - 1] + 1
    OBVIOUS
  <2>2. k[1] = 1 /\ 1 \in 1 .. Len(c) /\ c[1] \in H
    BY <1>2, <1>5
  <2>3. k \in [1 .. n + 1 -> 1 .. Len(c)]
    BY <1>3, <2>1, <2>2
  <2> HIDE DEF k
  <2>4. ASSUME NEW i \in 1 .. n + 1
        PROVE  c[k[i]] \in H /\ \A j \in 1 .. i - 1 : k[j] < k[i]
    <3>1. CASE i = 1
      BY <2>2, <3>1
    <3>2. CASE i # 1
      <4>1. i - 1 \in 1 .. n /\ k[i] = g[i - 1] + 1
        BY <2>1, <3>2
      <4>2. ASSUME NEW j \in 1 .. i - 1
            PROVE  k[j] < k[i]
        <5>1. CASE j = 1
          BY <1>3, <2>2, <4>1, <5>1
        <5>2. CASE j # 1
          <6>1. j - 1 \in 1 .. (i - 1) - 1 /\ k[j] = g[j - 1] + 1
            BY <2>1, <5>2
          <6> QED
            BY <1>3, <4>1, <6>1
        <5> QED
          BY <5>1, <5>2
      <4> QED
        BY <1>3, <4>1, <4>2
    <3> QED
      BY <3>1, <3>2
  <2> QED
    BY <2>3, <2>4 DEF Marks
<1> QED
  BY <1>4, <1>5 DEF Held, c

LEMMA HeldPopped ==
  ASSUME NEW S, NEW ss \in Seq(S), ss # <<>>, NEW H, NEW n \in Nat, Held(ss, H, n), Head(ss) \notin H
  PROVE  Held(Tail(ss), H, n)
<1> DEFINE c == Tail(ss)
<1>1. PICK g : Marks(ss, H, g, n)
  BY DEF Held
<1>2. /\ Len(ss) \in Nat /\ Len(c) = Len(ss) - 1 /\ Head(ss) = ss[1]
      /\ \A i \in 1 .. Len(ss) - 1 : c[i] = ss[i + 1]
  BY Tailed
<1> HIDE DEF c
<1>3. \A i \in 1 .. n : g[i] \in 1 .. Len(ss) /\ g[i] # 1 /\ ss[g[i]] \in H
  BY <1>1, <1>2 DEF Marks
<1>4. \A i \in 1 .. n : /\ g[i] - 1 \in 1 .. Len(c) /\ g[i] - 1 \in 1 .. Len(ss) - 1
                        /\ (g[i] - 1) + 1 = g[i]
  BY <1>2, <1>3
<1>5. \A i \in 1 .. n : c[g[i] - 1] \in H
  BY <1>2, <1>3, <1>4
<1>6. \A i \in 1 .. n : \A j \in 1 .. i - 1 : j \in 1 .. n /\ g[j] - 1 < g[i] - 1
  BY <1>1, <1>3 DEF Marks
<1> DEFINE h == [i \in 1 .. n |-> g[i] - 1]
<1>7. Marks(c, H, h, n)
  BY <1>4, <1>5, <1>6 DEF Marks
<1> QED
  BY <1>7 DEF Held, c

LEMMA HeldTaken ==
  ASSUME NEW S, NEW ss \in Seq(S), NEW H, NEW n \in Nat, Held(ss, H, n + 1), ss # <<>>,
         ss[Len(ss)] \notin H
  PROVE  Len(ss) > 1 /\ Held(Tail(ss), H, n)
<1> DEFINE c == Tail(ss)
<1>1. PICK g : Marks(ss, H, g, n + 1)
  BY DEF Held
<1>2. /\ Len(ss) \in Nat /\ Len(c) = Len(ss) - 1
      /\ \A i \in 1 .. Len(ss) - 1 : c[i] = ss[i + 1]
  BY Tailed
<1> HIDE DEF c
<1>3. 1 \in 1 .. n + 1 /\ g[1] \in 1 .. Len(ss) /\ ss[g[1]] \in H
  BY <1>1 DEF Marks
<1>4. \A i \in 1 .. n : i + 1 \in 1 .. n + 1 /\ 1 \in 1 .. (i + 1) - 1
  OBVIOUS
<1>5. \A i \in 1 .. n : g[i + 1] \in 1 .. Len(ss) /\ g[1] < g[i + 1] /\ ss[g[i + 1]] \in H
  BY <1>1, <1>4 DEF Marks
<1>6. \A i \in 1 .. n : /\ g[i + 1] - 1 \in 1 .. Len(c) /\ g[i + 1] - 1 \in 1 .. Len(ss) - 1
                        /\ (g[i + 1] - 1) + 1 = g[i + 1]
  BY <1>2, <1>3, <1>5
<1>7. \A i \in 1 .. n : c[g[i + 1] - 1] \in H
  BY <1>2, <1>5, <1>6
<1>8. \A i \in 1 .. n : \A j \in 1 .. i - 1 : g[j + 1] - 1 < g[i + 1] - 1
  <2> TAKE i \in 1 .. n
  <2> TAKE j \in 1 .. i - 1
  <2>1. j \in 1 .. n /\ j + 1 \in 1 .. (i + 1) - 1
    OBVIOUS
  <2>2. g[j + 1] < g[i + 1]
    BY <1>1, <1>4, <2>1 DEF Marks
  <2> QED
    BY <1>5, <2>1, <2>2
<1> DEFINE h == [i \in 1 .. n |-> g[i + 1] - 1]
<1>9. Marks(c, H, h, n)
  BY <1>6, <1>7, <1>8 DEF Marks
<1> QED
  BY <1>2, <1>3, <1>9 DEF Held, c

-----------------------------------------------------------------------------
(* The scopes.                                                             *)

KindAt(i) == IF i = Null THEN "None" ELSE scopeTable[i]

(* Below all scopes that are open, each once, is the outermost one.        *)
ScopesAreOpen ==
  /\ scopes \in Seq(Nat) /\ scopes # <<>>
  /\ \A i \in 1 .. Len(scopes) : scopes[i] = Null <=> i = Len(scopes)
  /\ \A i \in 1 .. Len(scopes) : scopes[i] # Null => scopes[i] \in DOMAIN scopeTable
  /\ \A i, j \in 1 .. Len(scopes) : scopes[i] = scopes[j] => i = j

Fresh ==
  /\ stashedScope \in DOMAIN scopeTable /\ scopeTable[stashedScope] = "FunctionPrototype"
  /\ \A i \in 1 .. Len(scopes) : scopes[i] # stashedScope

Scoped(kinds, fresh) ==
  /\ Len(kinds) = Len(scopes) /\ \A i \in 1 .. Len(scopes) : kinds[i] = KindAt(scopes[i])
  /\ fresh => Fresh

LEMMA KnownKinds ==
  ASSUME scopeTable \in Seq(ScopeKinds)
  PROVE  /\ Len(scopeTable) \in Nat /\ DOMAIN scopeTable = 1 .. Len(scopeTable)
         /\ Null \notin DOMAIN scopeTable
         /\ \A i \in DOMAIN scopeTable : scopeTable[i] \in ScopeKinds
BY LenProperties DEF Null

LEMMA Opening ==
  ASSUME scopeTable \in Seq(ScopeKinds), ScopesAreOpen, NEW kind \in ScopeKinds,
         NEW s \in Seq(ScopeKinds \cup {"None"}), Scoped(s, FALSE),
         scopeTable' = Append(scopeTable, kind), scopes' = <<Len(scopeTable) + 1>> \o scopes
  PROVE  scopeTable' \in Seq(ScopeKinds) /\ ScopesAreOpen' /\ Scoped(<<kind>> \o s, FALSE)'
<1> DEFINE new == Len(scopeTable) + 1
           t == <<kind>> \o s
<1>1. /\ Len(scopeTable) \in Nat /\ DOMAIN scopeTable = 1 .. Len(scopeTable) /\ new \in Nat
      /\ new # Null
  BY KnownKinds DEF Null
<1>2. /\ scopeTable' \in Seq(ScopeKinds) /\ DOMAIN scopeTable' = 1 .. new
      /\ \A i \in DOMAIN scopeTable : scopeTable'[i] = scopeTable[i]
      /\ scopeTable'[new] = kind
  BY <1>1, AppendProperties, LenProperties
<1>3. /\ scopes' \in Seq(Nat) /\ scopes' # <<>> /\ Len(scopes) \in Nat /\ Len(scopes) > 0
      /\ Len(scopes') = Len(scopes) + 1 /\ scopes'[1] = new
      /\ \A i \in 1 .. Len(scopes) : scopes'[i + 1] = scopes[i]
      /\ \A i \in 1 .. Len(scopes') : i = 1 \/ (i - 1 \in 1 .. Len(scopes) /\ scopes'[i] = scopes[i - 1])
  BY <1>1, Consed, Tailed DEF ScopesAreOpen
<1>4. /\ Len(t) = Len(s) + 1 /\ t[1] = kind /\ Len(s) \in Nat
      /\ \A i \in 1 .. Len(s) : t[i + 1] = s[i]
  BY Consed
<1> HIDE DEF new, t
<1>5. ASSUME NEW i \in 1 .. Len(scopes')
      PROVE  scopes'[i] = Null <=> i = Len(scopes')
  <2>1. CASE i = 1
    BY <1>1, <1>3, <2>1
  <2>2. CASE i # 1
    <3>1. i - 1 \in 1 .. Len(scopes) /\ scopes'[i] = scopes[i - 1]
      BY <1>3, <2>2
    <3>2. scopes[i - 1] = Null <=> i - 1 = Len(scopes)
      BY <3>1 DEF ScopesAreOpen
    <3> QED
      BY <1>3, <3>1, <3>2
  <2> QED
    BY <2>1, <2>2
<1>6. ASSUME NEW i \in 1 .. Len(scopes'), scopes'[i] # Null
      PROVE  scopes'[i] \in DOMAIN scopeTable'
  <2>1. CASE i = 1
    BY <1>1, <1>2, <1>3, <2>1
  <2>2. CASE i # 1
    <3>1. i - 1 \in 1 .. Len(scopes) /\ scopes'[i] = scopes[i - 1]
      BY <1>3, <2>2
    <3>2. scopes[i - 1] \in 1 .. Len(scopeTable)
      BY <1>1, <1>6, <3>1 DEF ScopesAreOpen
    <3> QED
      BY <1>1, <1>2, <3>1, <3>2
  <2> QED
    BY <2>1, <2>2
<1>7. \A i \in 1 .. Len(scopes) : scopes[i] # new
  BY <1>1 DEF ScopesAreOpen, new
<1>8. \A i, j \in 1 .. Len(scopes') : scopes'[i] = scopes'[j] => i = j
  <2> SUFFICES ASSUME NEW i \in 1 .. Len(scopes'), NEW j \in 1 .. Len(scopes'), scopes'[i] = scopes'[j]
               PROVE  i = j
    OBVIOUS
  <2>1. CASE i = 1 \/ j = 1
    BY <1>3, <1>7, <2>1
  <2>2. CASE i # 1 /\ j # 1
    <3>1. i - 1 \in 1 .. Len(scopes) /\ j - 1 \in 1 .. Len(scopes) /\ scopes[i - 1] = scopes[j - 1]
      BY <1>3, <2>2
    <3>2. i - 1 = j - 1
      BY <3>1 DEF ScopesAreOpen
    <3> QED
      BY <3>2
  <2> QED
    BY <2>1, <2>2
<1>9. \A i \in 1 .. Len(scopes') : t[i] = KindAt(scopes[i])'
  <2> TAKE i \in 1 .. Len(scopes')
  <2>1. CASE i = 1
    BY <1>1, <1>2, <1>3, <1>4, <2>1 DEF KindAt
  <2>2. CASE i # 1
    <3>1. i - 1 \in 1 .. Len(scopes) /\ scopes'[i] = scopes[i - 1] /\ (i - 1) + 1 = i
      BY <1>3, <2>2
    <3>2. t[i] = s[i - 1] /\ s[i - 1] = KindAt(scopes[i - 1])
      BY <1>4, <3>1 DEF Scoped
    <3> QED
      BY <1>2, <3>1, <3>2 DEF KindAt, ScopesAreOpen
  <2> QED
    BY <2>1, <2>2
<1> QED
  BY <1>2, <1>3, <1>4, <1>5, <1>6, <1>8, <1>9 DEF ScopesAreOpen, Scoped, t

LEMMA Closing ==
  ASSUME scopeTable \in Seq(ScopeKinds), ScopesAreOpen, NEW kind \in ScopeKinds,
         NEW t \in Seq(ScopeKinds \cup {"None"}), t # <<>>, Scoped(<<kind>> \o t, FALSE),
         UNCHANGED scopeTable, scopes' = Tail(scopes)
  PROVE  /\ ScopesAreOpen' /\ Scoped(t, FALSE)' /\ Len(scopes) > 1
         /\ scopes[1] \in DOMAIN scopeTable /\ scopeTable[scopes[1]] = kind /\ Head(scopes) = scopes[1]
         /\ \A i \in 1 .. Len(scopes') : scopes'[i] # scopes[1]
<1> DEFINE s == <<kind>> \o t
<1>1. /\ scopes' \in Seq(Nat) /\ Len(scopes) \in Nat /\ Len(scopes) > 0
      /\ Len(scopes') = Len(scopes) - 1 /\ Head(scopes) = scopes[1]
      /\ \A i \in 1 .. Len(scopes) - 1 : scopes'[i] = scopes[i + 1]
  BY Tailed DEF ScopesAreOpen
<1>2. /\ Len(s) = Len(t) + 1 /\ s[1] = kind /\ Len(t) \in Nat /\ Len(t) > 0
      /\ \A i \in 1 .. Len(t) : s[i + 1] = t[i]
  BY Consed, Tailed
<1>3. Len(s) = Len(scopes) /\ \A i \in 1 .. Len(scopes) : s[i] = KindAt(scopes[i])
  BY DEF Scoped
<1> HIDE DEF s
<1>4. Len(scopes) > 1 /\ scopes' # <<>> /\ Len(t) = Len(scopes')
  <2>1. Len(scopes) = Len(t) + 1
    BY <1>2, <1>3
  <2>2. Len(scopes) > 1 /\ Len(t) = Len(scopes') /\ Len(scopes') # 0
    BY <1>1, <1>2, <2>1
  <2> QED
    BY <2>2
<1>5. ASSUME NEW i \in 1 .. Len(scopes')
      PROVE  /\ i \in 1 .. Len(scopes) - 1 /\ i + 1 \in 1 .. Len(scopes) /\ i + 1 # 1
             /\ i = Len(scopes') <=> i + 1 = Len(scopes)
             /\ scopes'[i] = scopes[i + 1] /\ t[i] = s[i + 1]
  <2>1. i \in 1 .. Len(scopes) - 1 /\ i \in 1 .. Len(t)
    BY <1>1, <1>4, Zenon
  <2>2. Len(scopes) \in Nat /\ Len(scopes') = Len(scopes) - 1
    BY <1>1
  <2>3. /\ i + 1 \in 1 .. Len(scopes) /\ i + 1 # 1
        /\ i = Len(scopes') <=> i + 1 = Len(scopes)
    BY <2>1, <2>2
  <2> QED
    BY <1>1, <1>2, <2>1, <2>3, Zenon
<1>6. ScopesAreOpen'
  <2>1. \A i \in 1 .. Len(scopes') : scopes'[i] = Null <=> i = Len(scopes')
    <3> TAKE i \in 1 .. Len(scopes')
    <3>1. /\ i + 1 \in 1 .. Len(scopes) /\ scopes'[i] = scopes[i + 1]
          /\ i = Len(scopes') <=> i + 1 = Len(scopes)
      BY <1>5, Zenon
    <3>2. scopes[i + 1] = Null <=> i + 1 = Len(scopes)
      BY <3>1, Zenon DEF ScopesAreOpen
    <3> QED
      BY <3>1, <3>2, Zenon
  <2>2. \A i \in 1 .. Len(scopes') : scopes'[i] # Null => scopes'[i] \in DOMAIN scopeTable'
    BY <1>5, Zenon DEF ScopesAreOpen
  <2>3. \A i, j \in 1 .. Len(scopes') : scopes'[i] = scopes'[j] => i = j
    <3> TAKE i, j \in 1 .. Len(scopes')
    <3> HAVE scopes'[i] = scopes'[j]
    <3>1. /\ i + 1 \in 1 .. Len(scopes) /\ j + 1 \in 1 .. Len(scopes)
          /\ scopes[i + 1] = scopes[j + 1]
      BY <1>5, Zenon
    <3>2. i + 1 = j + 1
      BY <3>1, Zenon DEF ScopesAreOpen
    <3>3. i \in Int /\ j \in Int
      OBVIOUS
    <3> QED
      BY <3>2, <3>3
  <2>4. scopes' \in Seq(Nat) /\ scopes' # <<>>
    BY <1>1, <1>4, Zenon
  <2> QED
    BY <2>1, <2>2, <2>3, <2>4, Zenon DEF ScopesAreOpen
<1>7. Scoped(t, FALSE)'
  BY <1>3, <1>4, <1>5 DEF Scoped, KindAt
<1>8. 1 \in 1 .. Len(scopes) /\ 1 # Len(scopes)
  BY <1>4
<1>9. scopes[1] \in DOMAIN scopeTable /\ scopeTable[scopes[1]] = kind
  <2>1. scopes[1] # Null /\ scopes[1] \in DOMAIN scopeTable
    BY <1>8 DEF ScopesAreOpen
  <2> QED
    BY <1>2, <1>3, <1>8, <2>1 DEF KindAt
<1>10. \A i \in 1 .. Len(scopes') : scopes'[i] # scopes[1]
  BY <1>5, <1>8 DEF ScopesAreOpen
<1> QED
  BY <1>1, <1>4, <1>6, <1>7, <1>9, <1>10

LEMMA Reopening ==
  ASSUME scopeTable \in Seq(ScopeKinds), ScopesAreOpen, Fresh,
         NEW s \in Seq(ScopeKinds \cup {"None"}), Scoped(s, FALSE),
         scopeTable' = [scopeTable EXCEPT ![stashedScope] = "Block"],
         scopes' = <<stashedScope>> \o scopes
  PROVE  scopeTable' \in Seq(ScopeKinds) /\ ScopesAreOpen' /\ Scoped(<<"Block">> \o s, FALSE)'
<1> DEFINE t == <<"Block">> \o s
<1>1. /\ DOMAIN scopeTable = 1 .. Len(scopeTable) /\ Len(scopeTable) \in Nat
      /\ stashedScope \in DOMAIN scopeTable /\ stashedScope \in Nat /\ stashedScope # Null
      /\ \A i \in 1 .. Len(scopes) : scopes[i] # stashedScope
  BY KnownKinds DEF Fresh
<1>2. /\ scopeTable' \in Seq(ScopeKinds) /\ DOMAIN scopeTable' = DOMAIN scopeTable
      /\ \A i \in DOMAIN scopeTable : i # stashedScope => scopeTable'[i] = scopeTable[i]
      /\ scopeTable'[stashedScope] = "Block"
  BY <1>1, ExceptSeq DEF ScopeKinds
<1>3. /\ scopes' \in Seq(Nat) /\ scopes' # <<>> /\ Len(scopes) \in Nat /\ Len(scopes) > 0
      /\ Len(scopes') = Len(scopes) + 1 /\ scopes'[1] = stashedScope
      /\ \A i \in 1 .. Len(scopes') : i = 1 \/ (i - 1 \in 1 .. Len(scopes) /\ scopes'[i] = scopes[i - 1])
  BY <1>1, Consed, Tailed DEF ScopesAreOpen
<1>4. /\ Len(t) = Len(s) + 1 /\ t[1] = "Block" /\ Len(s) \in Nat
      /\ \A i \in 1 .. Len(s) : t[i + 1] = s[i]
  BY Consed DEF ScopeKinds
<1> HIDE DEF t
<1>5. ASSUME NEW i \in 1 .. Len(scopes')
      PROVE  scopes'[i] = Null <=> i = Len(scopes')
  <2>1. CASE i = 1
    BY <1>1, <1>3, <2>1
  <2>2. CASE i # 1
    <3>1. i - 1 \in 1 .. Len(scopes) /\ scopes'[i] = scopes[i - 1]
      BY <1>3, <2>2
    <3>2. scopes[i - 1] = Null <=> i - 1 = Len(scopes)
      BY <3>1 DEF ScopesAreOpen
    <3> QED
      BY <1>3, <3>1, <3>2
  <2> QED
    BY <2>1, <2>2
<1>6. ASSUME NEW i \in 1 .. Len(scopes'), scopes'[i] # Null
      PROVE  scopes'[i] \in DOMAIN scopeTable'
  <2>1. CASE i = 1
    BY <1>1, <1>2, <1>3, <2>1
  <2>2. CASE i # 1
    <3>1. i - 1 \in 1 .. Len(scopes) /\ scopes'[i] = scopes[i - 1]
      BY <1>3, <2>2
    <3> QED
      BY <1>2, <1>6, <3>1 DEF ScopesAreOpen
  <2> QED
    BY <2>1, <2>2
<1>7. \A i, j \in 1 .. Len(scopes') : scopes'[i] = scopes'[j] => i = j
  <2> SUFFICES ASSUME NEW i \in 1 .. Len(scopes'), NEW j \in 1 .. Len(scopes'), scopes'[i] = scopes'[j]
               PROVE  i = j
    OBVIOUS
  <2>1. CASE i = 1 \/ j = 1
    BY <1>1, <1>3, <2>1
  <2>2. CASE i # 1 /\ j # 1
    <3>1. i - 1 \in 1 .. Len(scopes) /\ j - 1 \in 1 .. Len(scopes) /\ scopes[i - 1] = scopes[j - 1]
      BY <1>3, <2>2
    <3>2. i - 1 = j - 1
      BY <3>1 DEF ScopesAreOpen
    <3> QED
      BY <3>2
  <2> QED
    BY <2>1, <2>2
<1>8. \A i \in 1 .. Len(scopes') : t[i] = KindAt(scopes[i])'
  <2> TAKE i \in 1 .. Len(scopes')
  <2>1. CASE i = 1
    BY <1>1, <1>2, <1>3, <1>4, <2>1 DEF KindAt
  <2>2. CASE i # 1
    <3>1. i - 1 \in 1 .. Len(scopes) /\ scopes'[i] = scopes[i - 1] /\ (i - 1) + 1 = i
      BY <1>3, <2>2
    <3>2. t[i] = s[i - 1] /\ s[i - 1] = KindAt(scopes[i - 1])
      BY <1>4, <3>1 DEF Scoped
    <3> QED
      BY <1>1, <1>2, <3>1, <3>2 DEF KindAt, ScopesAreOpen
  <2> QED
    BY <2>1, <2>2
<1> QED
  BY <1>2, <1>3, <1>4, <1>5, <1>6, <1>7, <1>8 DEF ScopesAreOpen, Scoped, t

-----------------------------------------------------------------------------
(* Calls that leave the stacks as they are.                                *)

Special ==
  DOMAIN Opens \cup {"reopenStashedScope", "closeScope", "closeScopeAndStashIt",
                     "popPendingFunTySym", "swapBack", "popSym"}
FlatCalls(f) == {c \in Calls(f) : c.op \notin Special}

LEMMA FlatLeads ==
  ASSUME NEW f, NEW call, call.op \notin Special, NEW s \in Standings, ~s.fresh
  PROVE  Leads(f, call, s, s)
<1>1. s.pending \in Nat /\ s.apart \in Nat /\ s.held \in Nat
  BY DEF Standings
<1>2. KindsLead(call.op, s.kinds, s.kinds) /\ FreshLeads(f, call, s.fresh, s.fresh)
  BY DEF KindsLead, FreshLeads, Special
<1> QED
  BY <1>1, <1>2 DEF Leads, Taken, Special

LEMMA FlatFits ==
  ASSUME NEW f, NEW calls \in Seq(FlatCalls(f)), NEW s \in Standings, ~s.fresh
  PROVE  Fits(f, calls, s, s)
<1>1. calls \in Seq(Calls(f)) /\ \A i \in 1 .. Len(calls) : calls[i] \in FlatCalls(f)
  <2>1. FlatCalls(f) \subseteq Calls(f)
    BY DEF FlatCalls
  <2> QED
    BY <2>1, StackOfMore, ElementOfSeq
<1>2. \A i \in 1 .. Len(calls) : Leads(f, calls[i], s, s)
  BY <1>1, FlatLeads DEF FlatCalls
<1> QED
  BY <1>1, <1>2, FitsFlat

(* A call that is not special leaves the stacks; it may make a stashed     *)
(* scope fresh.                                                            *)
LEMMA PlainLeads ==
  ASSUME NEW f, NEW call, call.op \notin Special, NEW s \in Standings, NEW u \in Standings,
         Leads(f, call, s, u)
  PROVE  /\ u = [s EXCEPT !.fresh = u.fresh]
         /\ u.fresh => \/ call.op = "visit" /\ IsSuffixed(f, call.node)
                       \/ call.op = typeSymAtTopAndPopIt /\ s.fresh
<1>1. u.kinds = s.kinds
  BY DEF Leads, KindsLead, Special
<1>2. u.pending = s.pending /\ u.apart = s.apart /\ u.held = s.held
  BY DEF Leads, Taken, Special, Standings
<1>3. u = [s EXCEPT !.fresh = u.fresh]
  BY <1>1, <1>2 DEF Standings
<1> QED
  BY <1>3 DEF Leads, FreshLeads, Special, Quiet

LEMMA EachFlat ==
  ASSUME NEW f, NEW S, S \subseteq Nat, NEW op \in Ops, op \notin Special,
         op \in VisitingOps => S \subseteq DOMAIN f, NEW ns \in Seq(S)
  PROVE  Each(op, ns) \in Seq(FlatCalls(f))
<1>1. Len(ns) \in Nat /\ DOMAIN ns = 1 .. Len(ns) /\ \A i \in 1 .. Len(ns) : ns[i] \in S
  BY LenProperties, ElementOfSeq
<1>2. \A i \in 1 .. Len(ns) : Do(op, ns[i]) \in FlatCalls(f)
  BY <1>1 DEF FlatCalls, Calls, Do
<1> DEFINE calls == [i \in 1 .. Len(ns) |-> Do(op, ns[i])]
<1>3. Each(op, ns) = calls
  BY <1>1 DEF Each
<1>4. \A i \in 1 .. Len(ns) : calls[i] \in FlatCalls(f)
  BY <1>2
<1>5. calls \in Seq(FlatCalls(f))
  <2>1. calls \in [1 .. Len(ns) -> FlatCalls(f)]
    BY <1>2
  <2> HIDE DEF calls
  <2> QED
    BY <1>1, <2>1
<1> QED
  BY <1>3, <1>5

LEMMA OneFlat ==
  ASSUME NEW f, NEW n \in Nat, NEW op \in Ops, op \notin Special, op \in VisitingOps => n \in DOMAIN f
  PROVE  <<Do(op, n)>> \in Seq(FlatCalls(f))
<1> DEFINE call == Do(op, n)
<1>1. call \in FlatCalls(f)
  BY DEF FlatCalls, Calls, Do
<1> HIDE DEF call
<1>2. <<call>> \in Seq(FlatCalls(f))
  BY <1>1
<1> QED
  BY <1>2 DEF call

LEMMA BothFlat ==
  ASSUME NEW f, NEW a \in Seq(FlatCalls(f)), NEW b \in Seq(FlatCalls(f))
  PROVE  a \o b \in Seq(FlatCalls(f))
BY ConcatProperties

LEMMA TreeParts ==
  ASSUME NEW f, IsTree(f)
  PROVE  /\ DOMAIN f \subseteq Nat /\ 1 \in DOMAIN f
         /\ \A n \in DOMAIN f : f[n].kids \in Seq(DOMAIN f) /\ f[n].specs \in Seq(DOMAIN f)
<1>1. f \in Seq(Nodes(f)) /\ Len(f) \in Nat /\ DOMAIN f = 1 .. Len(f) /\ Len(f) # 0
  BY LenProperties, EmptySeq DEF IsTree
<1>2. \A n \in DOMAIN f : f[n] \in Nodes(f)
  BY <1>1, ElementOfSeq
<1> QED
  BY <1>1, <1>2 DEF Nodes

LEMMA SuffixedParts ==
  ASSUME NEW f, NEW d, IsSuffixed(f, d)
  PROVE  /\ d \in DOMAIN f
         /\ f[d].kind \in {"PointerDeclarator", "ParenthesizedDeclarator", "ArrayOrFunctionDeclarator"}
         /\ f[d].kind # "ArrayOrFunctionDeclarator" =>
               Len(f[d].kids) = 1 /\ IsSuffixed(f, f[d].kids[1])
BY DEF IsSuffixed

-----------------------------------------------------------------------------
(* What the handlers lead to.                                              *)

LEMMA Pair ==
  ASSUME NEW a, NEW b
  PROVE  <<a, b>> = <<a>> \o <<b>>
<1> DEFINE S == {a, b}
           c == <<a>> \o <<b>>
           d == <<a, b>>
<1>1. /\ <<a>> \in Seq(S) /\ <<b>> \in Seq(S) /\ Len(<<a>>) = 1 /\ Len(<<b>>) = 1
      /\ <<a>>[1] = a /\ <<b>>[1] = b
  OBVIOUS
<1>2. c \in Seq(S) /\ Len(c) = 2 /\ c[1] = a /\ c[2] = b
  BY <1>1, ConcatProperties
<1>3. d \in Seq(S) /\ Len(d) = 2 /\ d[1] = a /\ d[2] = b
  OBVIOUS
<1> HIDE DEF c, d
<1>4. \A i \in 1 .. 2 : c[i] = d[i]
  <2> TAKE i \in 1 .. 2
  <2>1. i = 1 \/ i = 2
    OBVIOUS
  <2> QED
    BY <1>2, <1>3, <2>1
<1>5. c = d
  BY <1>2, <1>3, <1>4, SeqEqual
<1> QED
  BY <1>5 DEF c, d

LEMMA Triple ==
  ASSUME NEW a, NEW b, NEW c
  PROVE  <<a, b, c>> = <<a>> \o <<b, c>>
OBVIOUS

LEMMA Three ==
  ASSUME NEW a, NEW b, NEW c
  PROVE  <<a, b, c>> = <<a>> \o (<<b>> \o <<c>>)
<1>1. <<b, c>> = <<b>> \o <<c>>
  BY Pair
<1>2. <<a, b, c>> = <<a>> \o <<b, c>>
  BY Triple
<1> QED
  BY <1>1, <1>2, Zenon

LEMMA Quadruple ==
  ASSUME NEW a, NEW b, NEW c, NEW d
  PROVE  <<a, b, c, d>> = <<a>> \o <<b, c, d>>
OBVIOUS

(* A step of the stacks of scopes and of what it leads from and to.        *)
LEMMA StepFits ==
  ASSUME NEW f, NEW op \in Ops, op \notin VisitingOps, NEW s \in Standings, NEW t \in Standings,
         Leads(f, Step(op), s, t)
  PROVE  Fits(f, <<Step(op)>>, s, t)
<1>1. Step(op) \in Calls(f)
  BY DEF Step, Do, Calls, Null
<1> QED
  BY <1>1, FitsOne

Within(s, kind) == [s EXCEPT !.kinds = <<kind>> \o s.kinds]

LEMMA WithinStands ==
  ASSUME NEW s \in Standings, NEW kind \in ScopeKinds
  PROVE  /\ Within(s, kind) \in Standings /\ Within(s, kind).kinds = <<kind>> \o s.kinds
         /\ Within(s, kind).fresh = s.fresh /\ Within(s, kind).pending = s.pending
         /\ Within(s, kind).apart = s.apart /\ Within(s, kind).held = s.held
<1>1. s.kinds \in Seq(ScopeKinds \cup {"None"})
  BY DEF Standings
<1>2. <<kind>> \o s.kinds \in Seq(ScopeKinds \cup {"None"}) /\ <<kind>> \o s.kinds # <<>>
  BY <1>1, Consed
<1> QED
  BY <1>2 DEF Standings, Within

LEMMA OpenLeads ==
  ASSUME NEW f, NEW op \in DOMAIN Opens, NEW s \in Standings, ~s.fresh
  PROVE  Fits(f, <<Step(op)>>, s, Within(s, Opens[op]))
<1>1. /\ Opens[op] \in ScopeKinds /\ op \in Ops /\ op \notin VisitingOps
      /\ op \notin {"reopenStashedScope", "closeScope", "closeScopeAndStashIt",
                    "popPendingFunTySym", "swapBack", "popSym"}
  <2>1. op \in {"openFile", "openBlock", "openFunctionPrototype"}
    BY DEF Opens
  <2>2. Opens[op] \in ScopeKinds
    BY <2>1 DEF Opens, ScopeKinds
  <2>3. op \in Ops
    BY <2>1 DEF Ops
  <2>4. op \notin VisitingOps
    BY <2>1 DEF VisitingOps
  <2> QED
    BY <2>1, <2>2, <2>3, <2>4
<1>2. s.pending \in Nat /\ s.apart \in Nat /\ s.held \in Nat
  BY DEF Standings
<1>3. Leads(f, Step(op), s, Within(s, Opens[op]))
  BY <1>1, <1>2, WithinStands DEF Leads, KindsLead, FreshLeads, Taken, Step, Do
<1> QED
  BY <1>1, <1>3, WithinStands, StepFits

LEMMA CloseLeads ==
  ASSUME NEW f, NEW kind \in ScopeKinds, NEW s \in Standings, ~s.fresh
  PROVE  Fits(f, <<Step("closeScope")>>, Within(s, kind), s)
<1>1. s.pending \in Nat /\ s.apart \in Nat /\ s.held \in Nat /\ s.kinds # <<>>
  BY DEF Standings
<1> DEFINE t == Within(s, kind)
<1>2. "closeScope" \notin DOMAIN Opens /\ "closeScope" \notin VisitingOps
  BY DEF Opens, VisitingOps
<1>3. /\ t \in Standings /\ t.kinds = <<kind>> \o s.kinds /\ t.fresh = s.fresh
      /\ t.pending = s.pending /\ t.apart = s.apart /\ t.held = s.held
  BY WithinStands
<1> HIDE DEF t
<1>4. KindsLead("closeScope", t.kinds, s.kinds)
  BY <1>1, <1>2, <1>3 DEF KindsLead
<1>5. Leads(f, Step("closeScope"), t, s)
  BY <1>1, <1>3, <1>4 DEF Leads, FreshLeads, Taken, Step, Do
<1>6. Step("closeScope") \in Calls(f)
  BY <1>2 DEF Step, Do, Calls, Ops, Null
<1>7. Fits(f, <<Step("closeScope")>>, t, s)
  <2> DEFINE call == Step("closeScope")
  <2> HIDE DEF call
  <2> QED
    BY <1>3, <1>5, <1>6, FitsOne DEF call
<1> QED
  BY <1>7 DEF t

(* The body of a scope, between the step that opens it and the one that    *)
(* closes it.                                                              *)
LEMMA ScopeFits ==
  ASSUME NEW f, NEW op \in DOMAIN Opens, NEW calls \in Seq(FlatCalls(f)),
         NEW s \in Standings, ~s.fresh
  PROVE  Fits(f, <<Step(op)>> \o calls \o <<Step("closeScope")>>, s, s)
<1> DEFINE t == Within(s, Opens[op])
<1>1. Opens[op] \in ScopeKinds
  BY DEF Opens, ScopeKinds
<1>2. t \in Standings /\ ~t.fresh
  BY <1>1, WithinStands
<1>3. Fits(f, <<Step(op)>>, s, t) /\ Fits(f, calls, t, t) /\ Fits(f, <<Step("closeScope")>>, t, s)
  BY <1>1, <1>2, OpenLeads, FlatFits, CloseLeads
<1> HIDE DEF t
<1> QED
  BY <1>3, FitsBoth

Freshly(s, fresh) == [s EXCEPT !.fresh = fresh]

LEMMA FreshlyStands ==
  ASSUME NEW s \in Standings, NEW fresh \in BOOLEAN
  PROVE  /\ Freshly(s, fresh) \in Standings /\ Freshly(s, fresh).kinds = s.kinds
         /\ Freshly(s, fresh).fresh = fresh /\ Freshly(s, fresh).pending = s.pending
         /\ Freshly(s, fresh).apart = s.apart /\ Freshly(s, fresh).held = s.held
BY DEF Standings, Freshly

LEMMA StepIsCall ==
  ASSUME NEW f, NEW op \in Ops, op \notin VisitingOps
  PROVE  Step(op) \in Calls(f)
BY DEF Step, Do, Calls, Null

LEMMA VisitFits ==
  ASSUME NEW f, IsTree(f), NEW d \in DOMAIN f, NEW s \in Standings, ~s.fresh, NEW fresh \in BOOLEAN,
         fresh => IsSuffixed(f, d)
  PROVE  Fits(f, <<Visit(d)>>, s, Freshly(s, fresh))
<1> DEFINE u == Freshly(s, fresh)
           call == Visit(d)
<1>1. /\ u \in Standings /\ u.kinds = s.kinds /\ u.fresh = fresh /\ u.pending = s.pending
      /\ u.apart = s.apart /\ u.held = s.held
  BY FreshlyStands
<1>2. s.pending \in Nat /\ s.apart \in Nat /\ s.held \in Nat
  BY DEF Standings
<1>3. call.op = "visit" /\ call.node = d /\ "visit" \notin DOMAIN Opens
  BY DEF Visit, Do, Opens
<1>4. call \in Calls(f)
  BY TreeParts DEF Visit, Do, Calls, Ops, VisitingOps
<1> HIDE DEF u, call
<1>5. KindsLead("visit", s.kinds, u.kinds)
  BY <1>1, <1>3 DEF KindsLead
<1>6. Leads(f, call, s, u)
  BY <1>1, <1>2, <1>3, <1>5 DEF Leads, FreshLeads, Taken
<1> QED
  BY <1>1, <1>4, <1>6, FitsOne DEF u, call

LEMMA VisitsFlat ==
  ASSUME NEW f, IsTree(f), NEW ns \in Seq(DOMAIN f)
  PROVE  Visits(ns) \in Seq(FlatCalls(f))
BY TreeParts, EachFlat DEF Visits, Special, Opens, Ops, VisitingOps

LEMMA VisitFlat ==
  ASSUME NEW f, IsTree(f), NEW d \in DOMAIN f
  PROVE  <<Visit(d)>> \in Seq(FlatCalls(f))
<1>1. d \in Nat
  BY TreeParts
<1>2. "visit" \in Ops /\ "visit" \notin Special
  BY DEF Special, Opens, Ops, VisitingOps
<1> QED
  BY <1>1, <1>2, OneFlat DEF Visit

LEMMA StepFlat ==
  ASSUME NEW f, NEW op \in Ops, op \notin VisitingOps, op \notin Special
  PROVE  <<Step(op)>> \in Seq(FlatCalls(f))
BY OneFlat DEF Step, Null

(* The children of a node; when its declarator has a suffix, so has the    *)
(* declarator in it.                                                       *)
LEMMA ChildrenFit ==
  ASSUME NEW f, IsTree(f), NEW n \in DOMAIN f, f[n].kind # "ArrayOrFunctionDeclarator",
         NEW s \in Standings, ~s.fresh, NEW fresh \in BOOLEAN, fresh => IsSuffixed(f, n)
  PROVE  Fits(f, Visits(f[n].specs) \o Visits(f[n].kids), s, Freshly(s, fresh))
<1> DEFINE u == Freshly(s, fresh)
           kids == f[n].kids
           specs == Visits(f[n].specs)
<1>1. f[n].specs \in Seq(DOMAIN f) /\ kids \in Seq(DOMAIN f)
  BY TreeParts
<1>2. Fits(f, specs, s, s)
  BY <1>1, VisitsFlat, FlatFits
<1> HIDE DEF u, kids, specs
<1>3. Fits(f, Visits(kids), s, u)
  <2>1. CASE fresh
    <3>1. Len(kids) = 1 /\ IsSuffixed(f, kids[1]) /\ kids[1] \in DOMAIN f
      BY <2>1, SuffixedParts DEF kids
    <3>2. DOMAIN kids = 1 .. 1
      BY <1>1, <3>1, LenProperties
    <3>3. Visits(kids) = <<Visit(kids[1])>>
      BY <3>2 DEF Visits, Each, Visit
    <3> QED
      BY <3>1, <3>3, VisitFits DEF u
  <2>2. CASE ~fresh
    <3>1. u = s
      BY <2>2 DEF u, Freshly, Standings
    <3> QED
      BY <1>1, <3>1, VisitsFlat, FlatFits
  <2> QED
    BY <2>1, <2>2
<1> QED
  BY <1>2, <1>3, FitsBoth DEF u, kids, specs

LEMMA StashFits ==
  ASSUME NEW f, NEW s \in Standings, NEW fresh \in BOOLEAN
  PROVE  Fits(f, <<Step("closeScopeAndStashIt")>>, Within(Freshly(s, FALSE), "FunctionPrototype"),
              Freshly(s, fresh))
<1> DEFINE u == Freshly(s, fresh)
           v == Freshly(s, FALSE)
           t == Within(v, "FunctionPrototype")
           call == Step("closeScopeAndStashIt")
<1>1. /\ u \in Standings /\ u.kinds = s.kinds /\ u.fresh = fresh /\ u.pending = s.pending
      /\ u.apart = s.apart /\ u.held = s.held
  BY FreshlyStands
<1>2. /\ v \in Standings /\ v.kinds = s.kinds /\ v.fresh = FALSE /\ v.pending = s.pending
      /\ v.apart = s.apart /\ v.held = s.held
  BY FreshlyStands
<1>3. s.pending \in Nat /\ s.apart \in Nat /\ s.held \in Nat /\ s.kinds # <<>>
  BY DEF Standings
<1> HIDE DEF u, v
<1>4. /\ t \in Standings /\ t.kinds = <<"FunctionPrototype">> \o v.kinds /\ t.fresh = v.fresh
      /\ t.pending = v.pending /\ t.apart = v.apart /\ t.held = v.held
  BY <1>2, WithinStands DEF ScopeKinds
<1> HIDE DEF t
<1>5. call.op = "closeScopeAndStashIt" /\ "closeScopeAndStashIt" \notin DOMAIN Opens
  BY DEF Step, Do, Opens
<1>6. call \in Calls(f)
  BY StepIsCall DEF Ops, VisitingOps
<1> HIDE DEF call
<1>7. KindsLead("closeScopeAndStashIt", t.kinds, u.kinds)
  BY <1>1, <1>2, <1>3, <1>4, <1>5 DEF KindsLead
<1>8. Leads(f, call, t, u)
  BY <1>1, <1>2, <1>3, <1>4, <1>5, <1>7 DEF Leads, FreshLeads, Taken
<1>9. Fits(f, <<call>>, t, u)
  BY <1>1, <1>4, <1>6, <1>8, FitsOne
<1> QED
  BY <1>9 DEF call, t, u, v

LEMMA FitsThree ==
  ASSUME NEW f, NEW a, NEW b, NEW c,
         NEW s, NEW t, NEW u, NEW v, Fits(f, <<a>>, s, t), Fits(f, <<b>>, t, u), Fits(f, <<c>>, u, v)
  PROVE  Fits(f, <<a, b, c>>, s, v)
<1>1. <<b, c>> = <<b>> \o <<c>> /\ <<a, b, c>> = <<a>> \o <<b, c>>
  BY Pair, Triple
<1>2. Fits(f, <<b>> \o <<c>>, t, v)
  BY FitsBoth
<1> DEFINE d == <<b>> \o <<c>>
           e == <<a>>
<1> HIDE DEF d, e
<1>3. Fits(f, e \o d, s, v)
  BY <1>2, FitsBoth DEF d, e
<1> QED
  BY <1>1, <1>3 DEF d, e

LEMMA FitsFour ==
  ASSUME NEW f, NEW a, NEW b, NEW c, NEW d,
         NEW r, NEW s, NEW t, NEW u, NEW v,
         Fits(f, <<a>>, r, s), Fits(f, <<b>>, s, t), Fits(f, <<c>>, t, u), Fits(f, <<d>>, u, v)
  PROVE  Fits(f, <<a, b, c, d>>, r, v)
<1>1. <<a, b, c, d>> = <<a>> \o <<b, c, d>>
  BY Quadruple
<1>2. Fits(f, <<b, c, d>>, s, v)
  BY FitsThree
<1> DEFINE e == <<a>>
           g == <<b, c, d>>
<1> HIDE DEF e, g
<1>3. Fits(f, e \o g, r, v)
  BY <1>2, FitsBoth DEF e, g
<1> QED
  BY <1>1, <1>3 DEF e, g

LEMMA FreshlyOf ==
  ASSUME NEW s \in Standings
  PROVE  ~s.fresh => Freshly(s, FALSE) = s
BY DEF Freshly, Standings

(* A declarator with a suffix.                                             *)
LEMMA SuffixFits ==
  ASSUME NEW f, IsTree(f), NEW d \in DOMAIN f, NEW e \in DOMAIN f,
         NEW s \in Standings, ~s.fresh, NEW fresh \in BOOLEAN
  PROVE  Fits(f, <<Visit(d), Step("openFunctionPrototype"), Visit(e), Step("closeScopeAndStashIt")>>,
              s, Freshly(s, fresh))
<1> DEFINE t == Within(s, "FunctionPrototype")
           u == Freshly(s, fresh)
           a == Visit(d)
           b == Step("openFunctionPrototype")
           c == Visit(e)
           g == Step("closeScopeAndStashIt")
<1>1. Fits(f, <<a>>, s, s)
  BY VisitFlat, FlatFits
<1>2. Fits(f, <<b>>, s, t)
  <2>1. "openFunctionPrototype" \in DOMAIN Opens /\ Opens["openFunctionPrototype"] = "FunctionPrototype"
    BY DEF Opens
  <2> QED
    BY <2>1, OpenLeads
<1>3. Fits(f, <<c>>, t, t)
  <2>1. t \in Standings /\ ~t.fresh
    BY WithinStands DEF ScopeKinds
  <2> HIDE DEF t
  <2> QED
    BY <2>1, VisitFlat, FlatFits
<1>4. Fits(f, <<g>>, t, u)
  BY StashFits, FreshlyOf
<1> HIDE DEF a, b, c, g, t, u
<1>5. Fits(f, <<a, b, c, g>>, s, u)
  BY <1>1, <1>2, <1>3, <1>4, FitsFour
<1> QED
  BY <1>5 DEF a, b, c, g, u

(* What is popped from a stack when the rest is done.                      *)
Pending(s) == [s EXCEPT !.pending = s.pending + 1]
Apart(s) == [s EXCEPT !.apart = s.apart + 1]
Holding(s) == [s EXCEPT !.held = s.held + 1]

LEMMA PendingStands ==
  ASSUME NEW s \in Standings
  PROVE  /\ Pending(s) \in Standings /\ Pending(s).kinds = s.kinds
         /\ Pending(s).fresh = s.fresh /\ Pending(s).pending = s.pending + 1
         /\ Pending(s).apart = s.apart /\ Pending(s).held = s.held
BY DEF Standings, Pending

LEMMA ApartStands ==
  ASSUME NEW s \in Standings
  PROVE  /\ Apart(s) \in Standings /\ Apart(s).kinds = s.kinds
         /\ Apart(s).fresh = s.fresh /\ Apart(s).pending = s.pending
         /\ Apart(s).apart = s.apart + 1 /\ Apart(s).held = s.held
BY DEF Standings, Apart

LEMMA HoldingStands ==
  ASSUME NEW s \in Standings
  PROVE  /\ Holding(s) \in Standings /\ Holding(s).kinds = s.kinds
         /\ Holding(s).fresh = s.fresh /\ Holding(s).pending = s.pending
         /\ Holding(s).apart = s.apart /\ Holding(s).held = s.held + 1
BY DEF Standings, Holding

LEMMA TakenOnce ==
  /\ Taken("popPendingFunTySym", "popPendingFunTySym") = 1 /\ Taken("popPendingFunTySym", "swapBack") = 0
  /\ Taken("popPendingFunTySym", "popSym") = 0
  /\ Taken("swapBack", "popPendingFunTySym") = 0 /\ Taken("swapBack", "swapBack") = 1
  /\ Taken("swapBack", "popSym") = 0
  /\ Taken("popSym", "popPendingFunTySym") = 0 /\ Taken("popSym", "swapBack") = 0
  /\ Taken("popSym", "popSym") = 1
BY DEF Taken

(* A step that pops one of these stacks.                                   *)
LEMMA PopFits ==
  ASSUME NEW f, NEW op \in {"popPendingFunTySym", "swapBack", "popSym"},
         NEW s \in Standings, NEW u \in Standings, s.kinds = u.kinds, s.fresh = u.fresh,
         s.fresh => op = "popPendingFunTySym",
         s.pending = u.pending + Taken(op, "popPendingFunTySym"),
         s.apart = u.apart + Taken(op, "swapBack"), s.held = u.held + Taken(op, "popSym")
  PROVE  Fits(f, <<Step(op)>>, s, u)
<1> DEFINE call == Step(op)
<1>1. call.op = op /\ op \notin DOMAIN Opens
  BY DEF Step, Do, Opens
<1>2. call \in Calls(f)
  BY StepIsCall DEF Ops, VisitingOps
<1> HIDE DEF call
<1>3. KindsLead(op, s.kinds, u.kinds)
  BY <1>1 DEF KindsLead
<1>4. FreshLeads(f, call, s.fresh, u.fresh)
  BY <1>1 DEF FreshLeads, Quiet
<1>5. Leads(f, call, s, u)
  BY <1>1, <1>3, <1>4 DEF Leads
<1> QED
  BY <1>2, <1>5, FitsOne DEF call

LEMMA FunctionFits ==
  ASSUME NEW f, IsTree(f), NEW d \in DOMAIN f, NEW e \in DOMAIN f,
         NEW s \in Standings, ~s.fresh, NEW fresh \in BOOLEAN
  PROVE  Fits(f, <<Visit(d), Step("openFunctionPrototype"), Visit(e), Step("closeScopeAndStashIt")>>
                 \o <<Step("popPendingFunTySym")>>, Pending(s), Freshly(s, fresh))
<1> DEFINE a == <<Visit(d), Step("openFunctionPrototype"), Visit(e), Step("closeScopeAndStashIt")>>
           b == <<Step("popPendingFunTySym")>>
           t == Pending(s)
           u == Freshly(s, fresh)
           v == Freshly(t, fresh)
<1>1. t \in Standings /\ ~t.fresh
  BY PendingStands
<1>2. Fits(f, a, t, v)
  <2> HIDE DEF t
  <2> QED
    BY <1>1, SuffixFits
<1>3. Fits(f, b, v, u)
  <2>1. /\ v \in Standings /\ u \in Standings /\ v.kinds = u.kinds /\ v.fresh = u.fresh
        /\ v.pending = u.pending + 1 /\ v.apart = u.apart /\ v.held = u.held
        /\ v.apart \in Nat /\ v.held \in Nat
    <3>1. /\ u \in Standings /\ u.kinds = s.kinds /\ u.fresh = fresh /\ u.pending = s.pending
          /\ u.apart = s.apart /\ u.held = s.held
      BY FreshlyStands
    <3>2. /\ v \in Standings /\ v.kinds = t.kinds /\ v.fresh = fresh /\ v.pending = t.pending
          /\ v.apart = t.apart /\ v.held = t.held
      <4> HIDE DEF t
      <4> QED
        BY <1>1, FreshlyStands
    <3>3. t.kinds = s.kinds /\ t.pending = s.pending + 1 /\ t.apart = s.apart /\ t.held = s.held
      BY PendingStands
    <3> HIDE DEF t, u, v
    <3> QED
      BY <3>1, <3>2, <3>3 DEF Standings
  <2> HIDE DEF t, u, v
  <2> DEFINE op == "popPendingFunTySym"
  <2>2. /\ op \in {"popPendingFunTySym", "swapBack", "popSym"}
        /\ v.pending = u.pending + Taken(op, "popPendingFunTySym")
        /\ v.apart = u.apart + Taken(op, "swapBack") /\ v.held = u.held + Taken(op, "popSym")
    BY <2>1, TakenOnce
  <2>3. v.fresh => op = "popPendingFunTySym"
    OBVIOUS
  <2> HIDE DEF op
  <2>4. Fits(f, <<Step(op)>>, v, u)
    BY <2>1, <2>2, <2>3, PopFits
  <2> QED
    BY <2>4 DEF op
<1> HIDE DEF a, b, t, u, v
<1>4. Fits(f, a \o b, t, u)
  BY <1>2, <1>3, FitsBoth
<1> QED
  BY <1>4 DEF a, b, t, u

(* The members of a type, and what is visited with a stack of its own.     *)
LEMMA TypeDeclarationFits ==
  ASSUME NEW f, IsTree(f), NEW n \in DOMAIN f, NEW s \in Standings, ~s.fresh
  PROVE  Fits(f, Visits(f[n].kids) \o <<Step("popSym")>>, Holding(s), s)
<1> DEFINE t == Holding(s)
           a == Visits(f[n].kids)
           b == <<Step("popSym")>>
<1>1. /\ t \in Standings /\ t.kinds = s.kinds /\ t.fresh = s.fresh /\ t.pending = s.pending
      /\ t.apart = s.apart /\ t.held = s.held + 1
  BY HoldingStands
<1>2. s.pending \in Nat /\ s.apart \in Nat /\ s.held \in Nat
  BY DEF Standings
<1>3. a \in Seq(FlatCalls(f))
  BY TreeParts, VisitsFlat
<1> HIDE DEF t, a
<1>4. Fits(f, a, t, t)
  BY <1>1, <1>3, FlatFits
<1>5. Fits(f, b, t, s)
  <2> DEFINE op == "popSym"
  <2>1. /\ op \in {"popPendingFunTySym", "swapBack", "popSym"}
        /\ t.pending = s.pending + Taken(op, "popPendingFunTySym")
        /\ t.apart = s.apart + Taken(op, "swapBack") /\ t.held = s.held + Taken(op, "popSym")
    BY <1>1, <1>2, TakenOnce
  <2> HIDE DEF op
  <2>2. Fits(f, <<Step(op)>>, t, s)
    BY <1>1, <1>2, <2>1, PopFits
  <2> QED
    BY <2>2 DEF op
<1> HIDE DEF b
<1>6. Fits(f, a \o b, t, s)
  BY <1>4, <1>5, FitsBoth
<1> QED
  BY <1>6 DEF a, b, t

LEMMA ApartFits ==
  ASSUME NEW f, IsTree(f), NEW n \in DOMAIN f, NEW s \in Standings, ~s.fresh
  PROVE  Fits(f, <<Visit(n), Step("swapBack")>>, Apart(s), s)
<1> DEFINE t == Apart(s)
           a == Visit(n)
           b == Step("swapBack")
<1>1. /\ t \in Standings /\ t.kinds = s.kinds /\ t.fresh = s.fresh /\ t.pending = s.pending
      /\ t.apart = s.apart + 1 /\ t.held = s.held
  BY ApartStands
<1>2. s.pending \in Nat /\ s.apart \in Nat /\ s.held \in Nat
  BY DEF Standings
<1> HIDE DEF t
<1>3. Fits(f, <<a>>, t, t)
  BY <1>1, VisitFlat, FlatFits
<1>4. Fits(f, <<b>>, t, s)
  <2> DEFINE op == "swapBack"
  <2>1. /\ op \in {"popPendingFunTySym", "swapBack", "popSym"}
        /\ t.pending = s.pending + Taken(op, "popPendingFunTySym")
        /\ t.apart = s.apart + Taken(op, "swapBack") /\ t.held = s.held + Taken(op, "popSym")
    BY <1>1, <1>2, TakenOnce
  <2> HIDE DEF op
  <2>2. Fits(f, <<Step(op)>>, t, s)
    BY <1>1, <1>2, <2>1, PopFits
  <2> QED
    BY <2>2 DEF op
<1> HIDE DEF a, b
<1>5. Fits(f, <<a>> \o <<b>>, t, s) /\ <<a, b>> = <<a>> \o <<b>>
  BY <1>3, <1>4, FitsBoth, Pair
<1> QED
  BY <1>5 DEF a, b, t

LEMMA VisitIsFlat ==
  ASSUME NEW f, IsTree(f), NEW d \in DOMAIN f
  PROVE  Visit(d) \in FlatCalls(f)
<1>1. d \in Nat
  BY TreeParts
<1>2. "visit" \in Ops /\ "visit" \notin Special
  BY DEF Special, Opens, Ops, VisitingOps
<1> QED
  BY <1>1, <1>2 DEF FlatCalls, Calls, Visit, Do

LEMMA StepIsFlat ==
  ASSUME NEW f, NEW op \in {typeSymAtTopAndPopIt, "popTySym"}
  PROVE  Step(op) \in FlatCalls(f) /\ <<Step(op)>> \in Seq(FlatCalls(f))
<1>1. op \in Ops /\ op \notin VisitingOps /\ op \notin Special
  BY DEF Special, Opens, Ops, VisitingOps, typeSymAtTopAndPopIt
<1>2. Step(op) \in FlatCalls(f)
  BY <1>1 DEF FlatCalls, Calls, Step, Do, Null
<1> QED
  BY <1>1, <1>2, StepFlat

LEMMA HalfOf ==
  ASSUME NEW k \in Nat, NEW i \in 1 .. 2 * k, i % 2 = 1
  PROVE  (i + 1) \div 2 \in 1 .. k
OBVIOUS

LEMMA DeclaratorsFlat ==
  ASSUME IsTree(tree), NEW n \in DOMAIN tree
  PROVE  AtDeclarators(n) \in Seq(FlatCalls(tree))
<1> DEFINE ds == tree[n].kids
           one(i) == IF i % 2 = 1 THEN Visit(ds[(i + 1) \div 2]) ELSE Step(typeSymAtTopAndPopIt)
           a == [i \in 1 .. 2 * Len(ds) |-> one(i)]
<1>1. /\ ds \in Seq(DOMAIN tree) /\ Len(ds) \in Nat
      /\ \A i \in 1 .. Len(ds) : ds[i] \in DOMAIN tree
  BY TreeParts, LenProperties, ElementOfSeq
<1>2. AtDeclarators(n) = a \o <<Step("popTySym")>>
  BY DEF AtDeclarators, At
<1> HIDE DEF ds
<1>3. \A i \in 1 .. 2 * Len(ds) : one(i) \in FlatCalls(tree)
  <2> TAKE i \in 1 .. 2 * Len(ds)
  <2>1. CASE i % 2 = 1
    <3>1. ds[(i + 1) \div 2] \in DOMAIN tree
      BY <1>1, <2>1, HalfOf
    <3> QED
      BY <2>1, <3>1, VisitIsFlat
  <2>2. CASE i % 2 # 1
    BY <2>2, StepIsFlat
  <2> QED
    BY <2>1, <2>2
<1> HIDE DEF one
<1>4. a \in [1 .. 2 * Len(ds) -> FlatCalls(tree)] /\ 2 * Len(ds) \in Nat
  BY <1>1, <1>3
<1> HIDE DEF a
<1>5. a \in Seq(FlatCalls(tree))
  BY <1>4
<1> QED
  BY <1>2, <1>5, StepIsFlat, BothFlat

LEMMA SpecifiersFlat ==
  ASSUME IsTree(tree), NEW n \in DOMAIN tree
  PROVE  Each("visitIfNotTypeQualifier", tree[n].specs) \o <<Do("defaultToInt", n)>>
           \o Each("visitIfTypeQualifier", tree[n].specs) \in Seq(FlatCalls(tree))
<1> DEFINE a == Each("visitIfNotTypeQualifier", tree[n].specs)
           b == <<Do("defaultToInt", n)>>
           c == Each("visitIfTypeQualifier", tree[n].specs)
<1>1. tree[n].specs \in Seq(DOMAIN tree) /\ DOMAIN tree \subseteq Nat
  BY TreeParts
<1>2. /\ "visitIfNotTypeQualifier" \in Ops /\ "visitIfTypeQualifier" \in Ops /\ "defaultToInt" \in Ops
      /\ "visitIfNotTypeQualifier" \notin Special /\ "visitIfTypeQualifier" \notin Special
      /\ "defaultToInt" \notin Special /\ "defaultToInt" \notin VisitingOps
  BY DEF Special, Opens, Ops, VisitingOps, typeSymAtTopAndPopIt
<1>3. a \in Seq(FlatCalls(tree)) /\ c \in Seq(FlatCalls(tree))
  BY <1>1, <1>2, EachFlat
<1>4. b \in Seq(FlatCalls(tree))
  BY <1>1, <1>2, OneFlat
<1> HIDE DEF a, b, c
<1>5. (a \o b) \o c \in Seq(FlatCalls(tree))
  BY <1>3, <1>4, BothFlat
<1> QED
  BY <1>5 DEF a, b, c

LEMMA ReopenFits ==
  ASSUME NEW f, NEW s \in Standings, ~s.fresh
  PROVE  Fits(f, <<Step("reopenStashedScope")>>, Freshly(s, TRUE), Within(s, "Block"))
<1> DEFINE u == Freshly(s, TRUE)
           t == Within(s, "Block")
           call == Step("reopenStashedScope")
<1>1. /\ u \in Standings /\ u.kinds = s.kinds /\ u.fresh = TRUE /\ u.pending = s.pending
      /\ u.apart = s.apart /\ u.held = s.held
  BY FreshlyStands
<1>2. /\ t \in Standings /\ t.kinds = <<"Block">> \o s.kinds /\ t.fresh = s.fresh
      /\ t.pending = s.pending /\ t.apart = s.apart /\ t.held = s.held
  BY WithinStands DEF ScopeKinds
<1>3. s.pending \in Nat /\ s.apart \in Nat /\ s.held \in Nat
  BY DEF Standings
<1>4. call.op = "reopenStashedScope" /\ "reopenStashedScope" \notin DOMAIN Opens
  BY DEF Step, Do, Opens
<1>5. call \in Calls(f)
  BY StepIsCall DEF Ops, VisitingOps
<1> HIDE DEF u, t, call
<1>6. KindsLead("reopenStashedScope", u.kinds, t.kinds)
  BY <1>1, <1>2, <1>4 DEF KindsLead
<1>7. Leads(f, call, u, t)
  BY <1>1, <1>2, <1>3, <1>4, <1>6 DEF Leads, FreshLeads, Taken
<1>8. Fits(f, <<call>>, u, t)
  BY <1>1, <1>2, <1>5, <1>7, FitsOne
<1> QED
  BY <1>8 DEF call, u, t

LEMMA TypingFreshFits ==
  ASSUME NEW f, NEW s \in Standings
  PROVE  Fits(f, <<Step(typeSymAtTopAndPopIt)>>, s, s)
<1> DEFINE call == Step(typeSymAtTopAndPopIt)
<1>1. call.op = typeSymAtTopAndPopIt /\ typeSymAtTopAndPopIt \notin Special
  BY DEF Step, Do, Special, Opens, typeSymAtTopAndPopIt
<1>2. call \in Calls(f)
  BY StepIsCall DEF Ops, VisitingOps, typeSymAtTopAndPopIt
<1>3. s.pending \in Nat /\ s.apart \in Nat /\ s.held \in Nat
  BY DEF Standings
<1> HIDE DEF call
<1>4. Leads(f, call, s, s)
  BY <1>1, <1>3 DEF Leads, KindsLead, FreshLeads, Quiet, Taken, Special
<1> QED
  BY <1>2, <1>4, FitsOne DEF call

(* A definition: its declarator leaves the scope of the parameters stashed,*)
(* and that is the scope of its body.                                      *)
LEMMA DefinitionFits ==
  ASSUME IsTree(tree), NEW n \in DOMAIN tree, tree[n].kind = "FunctionDefinition",
         NEW s \in Standings, ~s.fresh
  PROVE  Fits(tree, AtDefinition(n), s, s)
<1> DEFINE kids == tree[n].kids
           u == Freshly(s, TRUE)
           t == Within(s, "Block")
           a == Visit(kids[1])
           b == Step(typeSymAtTopAndPopIt)
           c == Step("reopenStashedScope")
           d == Visits(Tail(kids))
           e == Step("closeScope")
           g == Step("popTySym")
<1>1. kids \in Seq(DOMAIN tree) /\ kids # <<>> /\ IsSuffixed(tree, kids[1])
  BY TreeParts DEF IsTree
<1>2. kids[1] \in DOMAIN tree /\ Tail(kids) \in Seq(DOMAIN tree)
  BY <1>1, Tailed
<1>3. u \in Standings /\ t \in Standings /\ ~t.fresh
  BY FreshlyStands, WithinStands DEF ScopeKinds
<1> HIDE DEF kids
<1>4. Fits(tree, <<a>>, s, u)
  BY <1>1, <1>2, VisitFits
<1>5. Fits(tree, <<c>>, u, t)
  BY ReopenFits
<1>6. Fits(tree, <<e>>, t, s)
  BY CloseLeads DEF ScopeKinds
<1>7. Fits(tree, <<g>>, s, s)
  BY StepIsFlat, FlatFits
<1> HIDE DEF u, t
<1>8. Fits(tree, <<b>>, u, u)
  BY <1>3, TypingFreshFits
<1>9. Fits(tree, d, t, t)
  BY <1>2, <1>3, VisitsFlat, FlatFits
<1>10. AtDefinition(n) = <<a, b, c>> \o d \o <<e, g>>
  BY DEF AtDefinition, At, kids
<1> HIDE DEF a, b, c, d, e, g
<1>11. Fits(tree, <<a, b, c>>, s, t)
  BY <1>4, <1>5, <1>8, FitsThree
<1>12. Fits(tree, <<e, g>>, t, s)
  <2>1. Fits(tree, <<e>> \o <<g>>, t, s)
    BY <1>6, <1>7, FitsBoth
  <2> QED
    BY <2>1, Pair
<1> DEFINE x == <<a, b, c>>
           y == <<e, g>>
<1>13. Fits(tree, x \o d \o y, s, s)
  <2> HIDE DEF x, y
  <2>1. Fits(tree, x \o d, s, t)
    BY <1>9, <1>11, FitsBoth DEF x
  <2>2. Fits(tree, y, t, s)
    BY <1>12 DEF y
  <2> QED
    BY <2>1, <2>2, FitsBoth
<1> QED
  BY <1>10, <1>13

-----------------------------------------------------------------------------
(* The stacks, and what is left to do with them.                           *)

(* The symbols that hold others: no declarator's type is given to them.    *)
Holders == {i \in DOMAIN symDEFs : symDEFs[i].kind \notin Typeable}

Stands(s) ==
  /\ Scoped(s.kinds, s.fresh)
  /\ s.pending = Len(pendingFunTySyms)
  /\ s.apart = Len(swapped)
  /\ Held(syms, Holders, s.held)

End == [kinds |-> <<"None">>, fresh |-> FALSE, pending |-> 0, apart |-> 0, held |-> 0]

SymsAreHeld == syms # <<>> /\ syms[Len(syms)] = Null
Followed == \E s \in Standings : Fits(tree, todo, s, End) /\ Stands(s)
Balanced == scopeTable \in Seq(ScopeKinds) /\ ScopesAreOpen /\ SymsAreHeld /\ Followed

(* What a step does to the stack of symbols.                               *)
SymsStay ==
  /\ SymsAreHeld'
  /\ \A n \in Nat : Held(syms, Holders, n) => Held(syms, Holders, n)'

LEMMA FirstCall ==
  ASSUME Balanced, todo # <<>>
  PROVE  \E s, u \in Standings : /\ Head(todo) \in Calls(tree) /\ Stands(s)
                                 /\ Leads(tree, Head(todo), s, u) /\ Fits(tree, Tail(todo), u, End)
<1>1. PICK s \in Standings : Fits(tree, todo, s, End) /\ Stands(s)
  BY DEF Balanced, Followed
<1> QED
  BY <1>1, FitsFirst

LEMMA Continuing ==
  ASSUME UNCHANGED <<files, unit>>, NEW calls, todo' = calls \o Tail(todo),
         NEW s \in Standings, NEW u, Fits(tree, calls, s, u), Fits(tree, Tail(todo), u, End), Stands(s)'
  PROVE  Followed'
<1>1. tree' = tree
  BY DEF tree
<1>2. Fits(tree, calls \o Tail(todo), s, End)
  BY FitsBoth
<1> QED
  BY <1>1, <1>2 DEF Followed

LEMMA ContinuingDone ==
  ASSUME Balanced, UNCHANGED <<files, unit>>, todo' = <<>> \o Tail(todo), todo # <<>>,
         NEW u \in Standings, Fits(tree, Tail(todo), u, End), Stands(u)'
  PROVE  Followed'
BY FitsNone, Continuing

LEMMA HeldsOutlast ==
  ASSUME TablesGrow
  PROVE  Holders \subseteq Holders'
<1> SUFFICES ASSUME NEW i \in DOMAIN symDEFs, symDEFs[i].kind \notin Typeable
             PROVE  i \in DOMAIN symDEFs' /\ symDEFs'[i].kind \notin Typeable
  BY DEF Holders
<1>1. i \in DOMAIN symDEFs' /\ symDEFs'[i]["kind"] = symDEFs[i]["kind"]
  BY DEF TablesGrow, Grown, SymbolFields
<1> QED
  BY <1>1

LEMMA SymsUntouched ==
  ASSUME TablesGrow, SymsAreHeld, UNCHANGED syms
  PROVE  SymsStay
BY HeldsOutlast, HeldOfMore DEF SymsStay, SymsAreHeld

(* The bottom of the stack is no symbol.                                   *)
LEMMA NullHoldsNothing ==
  ASSUME BinderInv
  PROVE  Null \notin Holders /\ Null \notin DOMAIN symDEFs
<1>1. IsTable(symDEFs, SymbolFields)
  BY DEF BinderInv, TablesAreTables
<1> QED
  BY <1>1, TableLength DEF Holders, Null

LEMMA SymsAreStack ==
  ASSUME BinderInv
  PROVE  syms \in Seq(DOMAIN symDEFs \cup {Null})
<1>1. Owned(symDEFs, unit) \cup {Null} \subseteq DOMAIN symDEFs \cup {Null}
  BY DEF Owned
<1> QED
  BY <1>1, StackOfMore DEF BinderInv, StacksAreOwn

LEMMA HeldBelow ==
  ASSUME NEW S, NEW a \in S, NEW s \in Seq(S), s # <<>>
  PROVE  <<a>> \o s # <<>> /\ (<<a>> \o s)[Len(<<a>> \o s)] = s[Len(s)]
<1> DEFINE c == <<a>> \o s
<1>1. /\ c # <<>> /\ Len(s) \in Nat /\ Len(c) = Len(s) + 1
      /\ \A i \in 1 .. Len(s) : c[i + 1] = s[i]
  BY Consed
<1> HIDE DEF c
<1>2. Len(s) \in 1 .. Len(s)
  BY Tailed
<1> QED
  BY <1>1, <1>2 DEF c

LEMMA SymsPushed ==
  ASSUME BinderInv, TablesGrow, SymsAreHeld, NEW kind, NEW name, MakeSymAndPushIt(kind, name)
  PROVE  /\ SymsStay
         /\ kind \notin Typeable => \A n \in Nat : Held(syms, Holders, n) => Held(syms, Holders, n + 1)'
<1> DEFINE new == Len(symDEFs) + 1
           sym == Symbol(kind, here, name, Head(scopes), Head(syms))
           S == DOMAIN symDEFs \cup {Null, new}
<1>1. symDEFs' = Append(symDEFs, sym) /\ syms' = <<new>> \o syms
  BY DEF MakeSymAndPushIt
<1>2. sym.kind = kind /\ SymbolFields \subseteq DOMAIN sym
  BY DEF Symbol, SymbolFields
<1> HIDE DEF sym
<1>3. new \in DOMAIN symDEFs' /\ symDEFs'[new] = sym
  BY <1>1, <1>2, AppendedTable DEF BinderInv, TablesAreTables
<1> HIDE DEF new
<1>4. syms \in Seq(S) /\ new \in S
  <2>1. DOMAIN symDEFs \cup {Null} \subseteq S
    OBVIOUS
  <2> HIDE DEF S
  <2>2. syms \in Seq(S)
    BY <2>1, SymsAreStack, StackOfMore
  <2> QED
    BY <2>2 DEF S
<1> HIDE DEF S
<1>5. SymsAreHeld'
  BY <1>1, <1>4, HeldBelow DEF SymsAreHeld
<1>6. ASSUME NEW n \in Nat, Held(syms, Holders, n)
      PROVE  Held(syms', Holders', n) /\ (kind \notin Typeable => Held(syms', Holders', n + 1))
  <2>1. Held(syms, Holders', n)
    BY <1>6, HeldsOutlast, HeldOfMore
  <2>2. kind \notin Typeable => new \in Holders'
    BY <1>2, <1>3 DEF Holders
  <2> QED
    BY <1>1, <1>4, <2>1, <2>2, HeldPushed
<1> QED
  BY <1>5, <1>6 DEF SymsStay

LEMMA HeldAbove ==
  ASSUME NEW S, NEW s \in Seq(S), Len(s) > 1
  PROVE  Tail(s) # <<>> /\ Tail(s)[Len(Tail(s))] = s[Len(s)]
<1> DEFINE c == Tail(s)
<1>1. s # <<>>
  OBVIOUS
<1>2. /\ Len(s) \in Nat /\ Len(c) = Len(s) - 1
      /\ \A i \in 1 .. Len(s) - 1 : c[i] = s[i + 1]
  BY <1>1, Tailed
<1> HIDE DEF c
<1>3. Len(c) # 0 /\ Len(c) \in 1 .. Len(s) - 1 /\ Len(c) + 1 = Len(s)
  BY <1>2
<1>4. c # <<>>
  BY <1>3
<1> QED
  BY <1>2, <1>3, <1>4 DEF c

LEMMA MoreThanOne ==
  ASSUME NEW n \in Nat, n > 0, n # 1
  PROVE  n > 1
OBVIOUS

LEMMA SymsGiven ==
  ASSUME BinderInv, TablesGrow, SymsAreHeld, HasTypeable, syms' = Tail(syms)
  PROVE  SymsStay
<1>1. syms \in Seq(DOMAIN symDEFs \cup {Null}) /\ syms # <<>>
  BY SymsAreStack DEF HasTypeable
<1>2. Len(syms) \in Nat /\ Len(syms) > 0 /\ Head(syms) = syms[1]
  BY <1>1, Tailed
<1>3. Head(syms) \notin Holders
  BY DEF HasTypeable, Holders
<1>4. Len(syms) > 1
  <2>1. Len(syms) # 1
    BY <1>2 DEF HasTypeable, SymsAreHeld
  <2> QED
    BY <1>2, <2>1, MoreThanOne
<1>5. SymsAreHeld'
  BY <1>1, <1>4, HeldAbove DEF SymsAreHeld
<1>6. ASSUME NEW n \in Nat, Held(syms, Holders, n)
      PROVE  Held(syms', Holders', n)
  <2>1. Held(syms', Holders, n)
    BY <1>1, <1>3, <1>6, HeldPopped
  <2> QED
    BY <2>1, HeldsOutlast, HeldOfMore
<1> QED
  BY <1>5, <1>6 DEF SymsStay

LEMMA SymsTaken ==
  ASSUME BinderInv, TablesGrow, SymsAreHeld, NEW n \in Nat, Held(syms, Holders, n + 1),
         syms' = Tail(syms)
  PROVE  Len(syms) > 1 /\ SymsAreHeld' /\ Held(syms, Holders, n)'
<1>1. syms \in Seq(DOMAIN symDEFs \cup {Null}) /\ syms # <<>>
  BY SymsAreStack DEF SymsAreHeld
<1>2. syms[Len(syms)] \notin Holders
  BY NullHoldsNothing DEF SymsAreHeld
<1>3. Len(syms) > 1 /\ Held(syms', Holders, n)
  BY <1>1, <1>2, HeldTaken
<1>4. SymsAreHeld'
  BY <1>1, <1>3, HeldAbove DEF SymsAreHeld
<1> QED
  BY <1>3, <1>4, HeldsOutlast, HeldOfMore

-----------------------------------------------------------------------------
(* The steps keep the stacks balanced.                                     *)

ScopesStay == UNCHANGED <<scopeTable, scopes, stashedScope>>

LEMMA ScopedStays ==
  ASSUME ScopesStay, ScopesAreOpen
  PROVE  /\ ScopesAreOpen'
         /\ \A kinds, fresh : Scoped(kinds, fresh) => Scoped(kinds, fresh)'
BY DEF ScopesStay, ScopesAreOpen, Scoped, Fresh, KindAt

(* A step that leaves the scopes and the stacks of pending and of swapped  *)
(* types, and whose calls fit in its place.                                *)
LEMMA StandingStays ==
  ASSUME ScopesStay, ScopesAreOpen, SymsStay, UNCHANGED <<pendingFunTySyms, swapped>>,
         NEW s \in Standings, Stands(s), NEW fresh \in BOOLEAN, fresh => s.fresh
  PROVE  Stands(Freshly(s, fresh))'
<1> DEFINE u == Freshly(s, fresh)
<1>1. /\ u \in Standings /\ u.kinds = s.kinds /\ u.fresh = fresh /\ u.pending = s.pending
      /\ u.apart = s.apart /\ u.held = s.held
  BY FreshlyStands
<1>2. s.held \in Nat
  BY DEF Standings
<1> HIDE DEF u
<1>3. Scoped(u.kinds, u.fresh)
  BY <1>1 DEF Stands, Scoped
<1>4. Scoped(u.kinds, u.fresh)'
  BY <1>3, ScopedStays
<1>5. Held(syms, Holders, u.held)'
  BY <1>1, <1>2 DEF SymsStay, Stands
<1> QED
  BY <1>1, <1>4, <1>5 DEF Stands, u

LEMMA RestingStep ==
  ASSUME Balanced, todo # <<>>, Head(todo).op \notin Special, Head(todo).op # typeSymAtTopAndPopIt,
         UNCHANGED <<files, unit, pendingFunTySyms, swapped>>, ScopesStay, SymsStay,
         NEW calls, todo' = calls \o Tail(todo),
         \A s \in Standings, fresh \in BOOLEAN :
            ~s.fresh /\ (fresh => Head(todo).op = "visit" /\ IsSuffixed(tree, here))
              => Fits(tree, calls, s, Freshly(s, fresh))
  PROVE  Balanced'
<1>1. PICK s \in Standings, u \in Standings :
             /\ Stands(s) /\ Leads(tree, Head(todo), s, u) /\ Fits(tree, Tail(todo), u, End)
  BY FirstCall
<1> DEFINE r == Freshly(s, FALSE)
<1>2. /\ u = Freshly(s, u.fresh) /\ u.fresh \in BOOLEAN
      /\ u.fresh => Head(todo).op = "visit" /\ IsSuffixed(tree, here)
  <2>1. u.fresh \in BOOLEAN
    BY DEF Standings
  <2>2. /\ u = [s EXCEPT !.fresh = u.fresh]
        /\ u.fresh => \/ Head(todo).op = "visit" /\ IsSuffixed(tree, Head(todo).node)
                      \/ Head(todo).op = typeSymAtTopAndPopIt /\ s.fresh
    BY <1>1, PlainLeads
  <2> QED
    BY <2>1, <2>2 DEF Freshly, here
<1>3. r \in Standings /\ ~r.fresh /\ Freshly(r, u.fresh) = Freshly(s, u.fresh)
  <2>1. r \in Standings /\ ~r.fresh
    BY FreshlyStands
  <2> QED
    BY <2>1 DEF Freshly, Standings
<1>4. Stands(r)'
  BY <1>1, StandingStays DEF Balanced
<1> HIDE DEF r
<1>5. Fits(tree, calls, r, u)
  BY <1>2, <1>3
<1>6. Followed'
  BY <1>1, <1>3, <1>4, <1>5, Continuing
<1>7. scopeTable' \in Seq(ScopeKinds) /\ ScopesAreOpen' /\ SymsAreHeld'
  BY ScopedStays DEF Balanced, ScopesStay, SymsStay
<1> QED
  BY <1>6, <1>7 DEF Balanced

(* Of these, one whose calls leave no scope stashed.                       *)
LEMMA StillStep ==
  ASSUME Balanced, todo # <<>>, Head(todo).op \notin Special, Head(todo).op # typeSymAtTopAndPopIt,
         ~(Head(todo).op = "visit" /\ IsSuffixed(tree, here)),
         UNCHANGED <<files, unit, pendingFunTySyms, swapped>>, ScopesStay, SymsStay,
         NEW calls, todo' = calls \o Tail(todo),
         \A s \in Standings : ~s.fresh => Fits(tree, calls, s, s)
  PROVE  Balanced'
<1>1. ASSUME NEW s \in Standings, NEW fresh \in BOOLEAN, ~s.fresh,
             fresh => Head(todo).op = "visit" /\ IsSuffixed(tree, here)
      PROVE  Fits(tree, calls, s, Freshly(s, fresh))
  <2>1. fresh = FALSE
    BY <1>1
  <2> QED
    BY <1>1, <2>1, FreshlyOf
<1> QED
  BY <1>1, RestingStep

LEMMA TypingBalances ==
  ASSUME BinderInv, Balanced, UNCHANGED files, typeSymAtTop
  PROVE  Balanced'
<1>1. /\ todo # <<>> /\ Head(todo).op = typeSymAtTopAndPopIt /\ todo' = <<>> \o Tail(todo)
      /\ UNCHANGED <<unit, swapped, pendingFunTySyms, scopeTable, scopes, stashedScope>>
  BY DEF typeSymAtTop, Running, Proceed, Leave
<1>2. TablesGrow
  BY TypingKeeps DEF Kept
<1>3. SymsStay
  <2>1. CASE HasTypeable /\ tySyms # <<>>
    BY <1>2, <2>1, SymsGiven DEF Balanced, typeSymAtTop
  <2>2. CASE ~(HasTypeable /\ tySyms # <<>>)
    BY <1>2, <2>2, SymsUntouched DEF Balanced, typeSymAtTop
  <2> QED
    BY <2>1, <2>2
<1>4. PICK s \in Standings, u \in Standings :
             /\ Stands(s) /\ Leads(tree, Head(todo), s, u) /\ Fits(tree, Tail(todo), u, End)
  BY <1>1, FirstCall
<1>5. u = Freshly(s, u.fresh) /\ u.fresh \in BOOLEAN /\ (u.fresh => s.fresh)
  <2>1. typeSymAtTopAndPopIt \notin Special /\ typeSymAtTopAndPopIt # "visit"
    BY DEF Special, Opens, typeSymAtTopAndPopIt
  <2> QED
    BY <1>1, <1>4, <2>1, PlainLeads DEF Freshly, Standings
<1>6. Stands(u)'
  <2>1. Stands(Freshly(s, u.fresh))'
    BY <1>1, <1>3, <1>4, <1>5, StandingStays DEF Balanced, ScopesStay
  <2> QED
    BY <1>5, <2>1
<1>7. Followed'
  BY <1>1, <1>4, <1>6, ContinuingDone
<1>8. scopeTable' \in Seq(ScopeKinds) /\ ScopesAreOpen' /\ SymsAreHeld'
  BY <1>1, <1>3, ScopedStays DEF Balanced, ScopesStay, SymsStay
<1> QED
  BY <1>7, <1>8 DEF Balanced

(* The steps that open and close scopes.                                   *)
ScopeOps == DOMAIN Opens \cup {"reopenStashedScope", "closeScope", "closeScopeAndStashIt"}

LEMMA ScopeLeads ==
  ASSUME NEW f, NEW call, NEW s \in Standings, NEW u \in Standings, Leads(f, call, s, u),
         call.op \in ScopeOps
  PROVE  /\ u.pending = s.pending /\ u.apart = s.apart /\ u.held = s.held /\ u.held \in Nat
         /\ s.kinds \in Seq(ScopeKinds \cup {"None"}) /\ u.kinds \in Seq(ScopeKinds \cup {"None"})
         /\ u.kinds # <<>> /\ KindsLead(call.op, s.kinds, u.kinds) /\ u.fresh \in BOOLEAN
         /\ u.fresh => call.op = "closeScopeAndStashIt"
         /\ call.op = "reopenStashedScope" => s.fresh
<1>1. call.op \in {"openFile", "openBlock", "openFunctionPrototype", "reopenStashedScope",
                   "closeScope", "closeScopeAndStashIt"}
  BY DEF ScopeOps, Opens
<1>2. u.pending = s.pending /\ u.apart = s.apart /\ u.held = s.held
  BY <1>1 DEF Leads, Taken, Standings
<1>3. FreshLeads(f, call, s.fresh, u.fresh) /\ KindsLead(call.op, s.kinds, u.kinds)
  BY DEF Leads
<1>4. call.op \notin Quiet /\ call.op # "visit"
  BY <1>1 DEF Quiet, typeSymAtTopAndPopIt
<1> QED
  BY <1>2, <1>3, <1>4 DEF FreshLeads, Standings

LEMMA ScopeStep ==
  ASSUME Balanced, BinderInv, ScopeSteps, UNCHANGED <<files, unit>>, todo # <<>>,
         todo' = <<>> \o Tail(todo), NEW s \in Standings, NEW u \in Standings, Stands(s),
         Fits(tree, Tail(todo), u, End), u.pending = s.pending, u.apart = s.apart, u.held = s.held,
         u.held \in Nat, scopeTable' \in Seq(ScopeKinds), ScopesAreOpen', Scoped(u.kinds, u.fresh)'
  PROVE  Balanced'
<1>1. UNCHANGED <<syms, pendingFunTySyms, swapped>>
  BY DEF ScopeSteps, openScope, closeScope, closeScopeAndStashIt, reopenStashedScope, Proceed
<1>2. SymsStay
  BY <1>1, ScopeStepsKeep, SymsUntouched DEF Kept, Balanced
<1>3. Stands(u)'
  BY <1>1, <1>2 DEF Stands, SymsStay
<1>4. Followed'
  BY <1>3, ContinuingDone
<1> QED
  BY <1>2, <1>4 DEF Balanced, SymsStay

LEMMA OpenBalances ==
  ASSUME BinderInv, Balanced, UNCHANGED files, NEW op \in DOMAIN Opens, openScope(op)
  PROVE  Balanced'
<1>1. /\ todo # <<>> /\ Head(todo).op = op /\ todo' = <<>> \o Tail(todo) /\ unit' = unit
      /\ scopeTable' = Append(scopeTable, Opens[op])
      /\ scopes' = <<Len(scopeTable) + 1>> \o scopes
  BY DEF openScope, Running, Proceed, Leave
<1>2. ScopeSteps
  BY DEF ScopeSteps
<1>3. PICK s \in Standings, u \in Standings :
             /\ Stands(s) /\ Leads(tree, Head(todo), s, u) /\ Fits(tree, Tail(todo), u, End)
  BY <1>1, FirstCall
<1> DEFINE call == Head(todo)
<1>4. call.op \in ScopeOps /\ call.op = op /\ op # "closeScopeAndStashIt"
  BY <1>1 DEF ScopeOps, Opens
<1> HIDE DEF call
<1>5. /\ u.pending = s.pending /\ u.apart = s.apart /\ u.held = s.held /\ u.held \in Nat
      /\ s.kinds \in Seq(ScopeKinds \cup {"None"}) /\ u.fresh = FALSE
      /\ KindsLead(op, s.kinds, u.kinds)
  BY <1>3, <1>4, ScopeLeads DEF call
<1>6. u.kinds = <<Opens[op]>> \o s.kinds
  BY <1>5 DEF KindsLead, Opens
<1>7. Opens[op] \in ScopeKinds
  BY DEF Opens, ScopeKinds
<1>8. Scoped(s.kinds, FALSE)
  BY <1>3 DEF Stands, Scoped
<1> DEFINE kind == Opens[op]
           kinds == s.kinds
<1>9. scopeTable' \in Seq(ScopeKinds) /\ ScopesAreOpen' /\ Scoped(<<kind>> \o kinds, FALSE)'
  <2> HIDE DEF kind, kinds
  <2> QED
    BY <1>1, <1>5, <1>7, <1>8, Opening DEF Balanced, kind, kinds
<1> QED
  BY <1>1, <1>2, <1>3, <1>5, <1>6, <1>9, ScopeStep

LEMMA CloseBalances ==
  ASSUME BinderInv, Balanced, UNCHANGED files, closeScope
  PROVE  Balanced'
<1>1. /\ todo # <<>> /\ Head(todo).op = "closeScope" /\ todo' = <<>> \o Tail(todo) /\ unit' = unit
      /\ scopeTable' = scopeTable /\ scopes' = Tail(scopes)
  BY DEF closeScope, Running, Proceed, Leave, assembly
<1>2. ScopeSteps
  BY DEF ScopeSteps
<1>3. PICK s \in Standings, u \in Standings :
             /\ Stands(s) /\ Leads(tree, Head(todo), s, u) /\ Fits(tree, Tail(todo), u, End)
  BY <1>1, FirstCall
<1> DEFINE call == Head(todo)
<1>4. call.op \in ScopeOps /\ call.op = "closeScope" /\ "closeScope" \notin DOMAIN Opens
  BY <1>1 DEF ScopeOps, Opens
<1> HIDE DEF call
<1>5. /\ u.pending = s.pending /\ u.apart = s.apart /\ u.held = s.held /\ u.held \in Nat
      /\ u.kinds \in Seq(ScopeKinds \cup {"None"}) /\ u.kinds # <<>> /\ u.fresh = FALSE
      /\ KindsLead("closeScope", s.kinds, u.kinds)
  BY <1>3, <1>4, ScopeLeads DEF call
<1>6. PICK kind \in ScopeKinds : s.kinds = <<kind>> \o u.kinds
  BY <1>4, <1>5 DEF KindsLead
<1>7. Scoped(<<kind>> \o u.kinds, FALSE)
  BY <1>3, <1>6 DEF Stands, Scoped
<1> DEFINE kinds == u.kinds
<1>8. ScopesAreOpen' /\ Scoped(kinds, FALSE)'
  <2> HIDE DEF kinds
  <2> QED
    BY <1>1, <1>5, <1>7, Closing DEF Balanced, kinds
<1>9. scopeTable' \in Seq(ScopeKinds)
  BY <1>1 DEF Balanced
<1> QED
  BY <1>1, <1>2, <1>3, <1>5, <1>8, <1>9, ScopeStep

LEMMA StashBalances ==
  ASSUME BinderInv, Balanced, UNCHANGED files, closeScopeAndStashIt
  PROVE  Balanced'
<1>1. /\ todo # <<>> /\ Head(todo).op = "closeScopeAndStashIt" /\ todo' = <<>> \o Tail(todo)
      /\ unit' = unit /\ scopeTable' = scopeTable /\ scopes' = Tail(scopes)
      /\ stashedScope' = Head(scopes)
  BY DEF closeScopeAndStashIt, Running, Proceed, Leave, assembly
<1>2. ScopeSteps
  BY DEF ScopeSteps
<1>3. PICK s \in Standings, u \in Standings :
             /\ Stands(s) /\ Leads(tree, Head(todo), s, u) /\ Fits(tree, Tail(todo), u, End)
  BY <1>1, FirstCall
<1> DEFINE call == Head(todo)
           kind == "FunctionPrototype"
           kinds == u.kinds
<1>4. /\ call.op \in ScopeOps /\ call.op = "closeScopeAndStashIt"
      /\ "closeScopeAndStashIt" \notin DOMAIN Opens
  BY <1>1 DEF ScopeOps, Opens
<1> HIDE DEF call
<1>5. /\ u.pending = s.pending /\ u.apart = s.apart /\ u.held = s.held /\ u.held \in Nat
      /\ u.kinds \in Seq(ScopeKinds \cup {"None"}) /\ u.kinds # <<>>
      /\ KindsLead("closeScopeAndStashIt", s.kinds, u.kinds)
  BY <1>3, <1>4, ScopeLeads DEF call
<1>6. s.kinds = <<kind>> \o u.kinds
  BY <1>4, <1>5 DEF KindsLead
<1>7. Scoped(<<kind>> \o u.kinds, FALSE)
  BY <1>3, <1>6 DEF Stands, Scoped
<1>8. /\ ScopesAreOpen' /\ Scoped(kinds, FALSE)'
      /\ scopes[1] \in DOMAIN scopeTable /\ scopeTable[scopes[1]] = kind /\ Head(scopes) = scopes[1]
      /\ \A i \in 1 .. Len(scopes') : scopes'[i] # scopes[1]
  <2>1. kind \in ScopeKinds
    BY DEF ScopeKinds
  <2> HIDE DEF kinds, kind
  <2> QED
    BY <1>1, <1>5, <1>7, <2>1, Closing DEF Balanced, kinds
<1>9. scopeTable' \in Seq(ScopeKinds)
  BY <1>1 DEF Balanced
<1>10. Scoped(u.kinds, u.fresh)'
  BY <1>1, <1>8 DEF Scoped, Fresh
<1> QED
  BY <1>1, <1>2, <1>3, <1>5, <1>8, <1>9, <1>10, ScopeStep

LEMMA ReopenBalances ==
  ASSUME BinderInv, Balanced, UNCHANGED files, reopenStashedScope
  PROVE  Balanced'
<1>1. /\ todo # <<>> /\ Head(todo).op = "reopenStashedScope" /\ todo' = <<>> \o Tail(todo)
      /\ unit' = unit /\ scopeTable' = [scopeTable EXCEPT ![stashedScope] = "Block"]
      /\ scopes' = <<stashedScope>> \o scopes
  BY DEF reopenStashedScope, Running, Proceed, Leave
<1>2. ScopeSteps
  BY DEF ScopeSteps
<1>3. PICK s \in Standings, u \in Standings :
             /\ Stands(s) /\ Leads(tree, Head(todo), s, u) /\ Fits(tree, Tail(todo), u, End)
  BY <1>1, FirstCall
<1> DEFINE call == Head(todo)
           kinds == s.kinds
<1>4. /\ call.op \in ScopeOps /\ call.op = "reopenStashedScope"
      /\ "reopenStashedScope" \notin DOMAIN Opens
  BY <1>1 DEF ScopeOps, Opens
<1> HIDE DEF call
<1>5. /\ u.pending = s.pending /\ u.apart = s.apart /\ u.held = s.held /\ u.held \in Nat
      /\ s.kinds \in Seq(ScopeKinds \cup {"None"}) /\ u.fresh = FALSE /\ s.fresh
      /\ KindsLead("reopenStashedScope", s.kinds, u.kinds)
  BY <1>3, <1>4, ScopeLeads DEF call
<1>6. u.kinds = <<"Block">> \o s.kinds
  BY <1>4, <1>5 DEF KindsLead
<1>7. Scoped(s.kinds, FALSE) /\ Fresh
  BY <1>3, <1>5 DEF Stands, Scoped
<1>8. scopeTable' \in Seq(ScopeKinds) /\ ScopesAreOpen' /\ Scoped(<<"Block">> \o kinds, FALSE)'
  <2> HIDE DEF kinds
  <2> QED
    BY <1>1, <1>5, <1>7, Reopening DEF Balanced, kinds
<1> QED
  BY <1>1, <1>2, <1>3, <1>5, <1>6, <1>8, ScopeStep

(* The steps that pop what a visit pushed.                                 *)
LEMMA PopLeads ==
  ASSUME NEW f, NEW call, NEW s \in Standings, NEW u \in Standings, Leads(f, call, s, u),
         NEW op \in {"popPendingFunTySym", "swapBack", "popSym"}, call.op = op
  PROVE  /\ u.kinds = s.kinds /\ u.fresh \in BOOLEAN /\ s.fresh \in BOOLEAN
         /\ u.fresh => s.fresh
         /\ s.pending = u.pending + Taken(op, "popPendingFunTySym")
         /\ s.apart = u.apart + Taken(op, "swapBack")
         /\ s.held = u.held + Taken(op, "popSym")
         /\ u.pending \in Nat /\ u.apart \in Nat /\ u.held \in Nat
<1>1. op \notin DOMAIN Opens /\ op \notin {"reopenStashedScope", "closeScope", "closeScopeAndStashIt", "visit"}
  BY DEF Opens
<1>2. u.kinds = s.kinds
  BY <1>1 DEF Leads, KindsLead
<1>3. u.fresh => s.fresh
  BY <1>1 DEF Leads, FreshLeads
<1> QED
  BY <1>2, <1>3 DEF Leads, Standings

(* A step that leaves the scopes, from what the other stacks hold to what  *)
(* they hold.                                                              *)
LEMMA StackStep ==
  ASSUME Balanced, UNCHANGED <<files, unit>>, ScopesStay, SymsAreHeld', NEW s \in Standings, Stands(s),
         NEW v \in Standings, v.kinds = s.kinds, v.fresh => s.fresh,
         v.pending = Len(pendingFunTySyms'), v.apart = Len(swapped'), Held(syms', Holders', v.held),
         NEW u, NEW calls, todo' = calls \o Tail(todo), Fits(tree, calls, v, u),
         Fits(tree, Tail(todo), u, End)
  PROVE  Balanced'
<1>1. Scoped(v.kinds, v.fresh)
  BY DEF Stands, Scoped
<1>2. Stands(v)'
  BY <1>1, ScopedStays DEF Stands, Balanced
<1>3. Followed'
  BY <1>2, Continuing
<1> QED
  BY <1>3, ScopedStays DEF Balanced, ScopesStay

LEMMA PopSymBalances ==
  ASSUME BinderInv, Balanced, UNCHANGED files, popSym
  PROVE  Balanced'
<1>1. /\ todo # <<>> /\ Head(todo).op = "popSym" /\ todo' = <<>> \o Tail(todo) /\ unit' = unit
      /\ syms' = Tail(syms)
      /\ UNCHANGED <<scopeTable, scopes, stashedScope, pendingFunTySyms, swapped>>
  BY DEF popSym, Running, Proceed, Leave, assembly
<1>2. PICK s \in Standings, u \in Standings :
             /\ Stands(s) /\ Leads(tree, Head(todo), s, u) /\ Fits(tree, Tail(todo), u, End)
  BY <1>1, FirstCall
<1> DEFINE call == Head(todo)
           op == "popSym"
<1>3. call.op = op /\ op \in {"popPendingFunTySym", "swapBack", "popSym"}
  BY <1>1
<1>4. /\ u.kinds = s.kinds /\ (u.fresh => s.fresh)
      /\ s.pending = u.pending + Taken(op, "popPendingFunTySym")
      /\ s.apart = u.apart + Taken(op, "swapBack") /\ s.held = u.held + Taken(op, "popSym")
      /\ u.pending \in Nat /\ u.apart \in Nat /\ u.held \in Nat
  <2> HIDE DEF call, op
  <2> QED
    BY <1>2, <1>3, PopLeads DEF call
<1>5. s.pending = u.pending /\ s.apart = u.apart /\ s.held = u.held + 1
  BY <1>4, TakenOnce
<1>6. TablesGrow
  BY PoppingStepsKeep DEF PoppingSteps, Kept
<1>7. SymsAreHeld' /\ Held(syms', Holders', u.held)
  BY <1>1, <1>2, <1>4, <1>5, <1>6, SymsTaken DEF Stands, Balanced
<1>8. Fits(tree, <<>>, u, u)
  BY FitsNone
<1>9. u.pending = Len(pendingFunTySyms') /\ u.apart = Len(swapped')
  BY <1>1, <1>2, <1>5 DEF Stands
<1> QED
  BY <1>1, <1>2, <1>4, <1>7, <1>8, <1>9, StackStep DEF ScopesStay

LEMMA SwapBackBalances ==
  ASSUME BinderInv, Balanced, UNCHANGED files, swapBack
  PROVE  Balanced'
<1>1. /\ todo # <<>> /\ Head(todo).op = "swapBack" /\ todo' = <<>> \o Tail(todo) /\ unit' = unit
      /\ swapped # <<>> /\ swapped' = Tail(swapped)
      /\ UNCHANGED <<scopeTable, scopes, stashedScope, pendingFunTySyms, syms>>
  BY DEF swapBack, Running, Leave, assembly
<1>2. PICK s \in Standings, u \in Standings :
             /\ Stands(s) /\ Leads(tree, Head(todo), s, u) /\ Fits(tree, Tail(todo), u, End)
  BY <1>1, FirstCall
<1> DEFINE call == Head(todo)
           op == "swapBack"
<1>3. call.op = op /\ op \in {"popPendingFunTySym", "swapBack", "popSym"}
  BY <1>1
<1>4. /\ u.kinds = s.kinds /\ (u.fresh => s.fresh)
      /\ s.pending = u.pending + Taken(op, "popPendingFunTySym")
      /\ s.apart = u.apart + Taken(op, "swapBack") /\ s.held = u.held + Taken(op, "popSym")
      /\ u.pending \in Nat /\ u.apart \in Nat /\ u.held \in Nat
  <2> HIDE DEF call, op
  <2> QED
    BY <1>2, <1>3, PopLeads DEF call
<1>5. s.pending = u.pending /\ s.apart = u.apart + 1 /\ s.held = u.held
  BY <1>4, TakenOnce
<1>6. SymsStay
  BY <1>1, PoppingStepsKeep, SymsUntouched DEF PoppingSteps, Kept, Balanced
<1>7. SymsAreHeld' /\ Held(syms', Holders', u.held)
  BY <1>2, <1>4, <1>5, <1>6 DEF Stands, SymsStay
<1>8. Fits(tree, <<>>, u, u)
  BY FitsNone
<1>9. u.pending = Len(pendingFunTySyms') /\ u.apart = Len(swapped')
  <2>1. Len(Tail(swapped)) = Len(swapped) - 1
    BY <1>1, Tailed DEF BinderInv, StacksAreOwn
  <2> QED
    BY <1>1, <1>2, <1>4, <1>5, <2>1 DEF Stands
<1> QED
  BY <1>1, <1>2, <1>4, <1>7, <1>8, <1>9, StackStep DEF ScopesStay

LEMMA PopPendingBalances ==
  ASSUME BinderInv, Balanced, UNCHANGED files, popPendingFunTySym
  PROVE  Balanced'
<1>1. /\ todo # <<>> /\ Head(todo).op = "popPendingFunTySym" /\ todo' = <<>> \o Tail(todo)
      /\ unit' = unit /\ pendingFunTySyms # <<>> /\ pendingFunTySyms' = Tail(pendingFunTySyms)
      /\ UNCHANGED <<scopeTable, scopes, stashedScope, swapped, syms>>
  BY DEF popPendingFunTySym, Running, Proceed, Leave, assembly
<1>2. PICK s \in Standings, u \in Standings :
             /\ Stands(s) /\ Leads(tree, Head(todo), s, u) /\ Fits(tree, Tail(todo), u, End)
  BY <1>1, FirstCall
<1> DEFINE call == Head(todo)
           op == "popPendingFunTySym"
<1>3. call.op = op /\ op \in {"popPendingFunTySym", "swapBack", "popSym"}
  BY <1>1
<1>4. /\ u.kinds = s.kinds /\ (u.fresh => s.fresh)
      /\ s.pending = u.pending + Taken(op, "popPendingFunTySym")
      /\ s.apart = u.apart + Taken(op, "swapBack") /\ s.held = u.held + Taken(op, "popSym")
      /\ u.pending \in Nat /\ u.apart \in Nat /\ u.held \in Nat
  <2> HIDE DEF call, op
  <2> QED
    BY <1>2, <1>3, PopLeads DEF call
<1>5. s.pending = u.pending + 1 /\ s.apart = u.apart /\ s.held = u.held
  BY <1>4, TakenOnce
<1>6. SymsStay
  BY <1>1, PoppingStepsKeep, SymsUntouched DEF PoppingSteps, Kept, Balanced
<1>7. SymsAreHeld' /\ Held(syms', Holders', u.held)
  BY <1>2, <1>4, <1>5, <1>6 DEF Stands, SymsStay
<1>8. Fits(tree, <<>>, u, u)
  BY FitsNone
<1>9. u.pending = Len(pendingFunTySyms') /\ u.apart = Len(swapped')
  <2>1. Len(Tail(pendingFunTySyms)) = Len(pendingFunTySyms) - 1
    BY <1>1, Tailed DEF BinderInv, StacksAreOwn
  <2> QED
    BY <1>1, <1>2, <1>4, <1>5, <2>1 DEF Stands
<1> QED
  BY <1>1, <1>2, <1>4, <1>7, <1>8, <1>9, StackStep DEF ScopesStay

(* The steps that push what a later step pops.                             *)
LEMMA Visited ==
  ASSUME Balanced, todo # <<>>, Head(todo).op \notin Special, Head(todo).op # typeSymAtTopAndPopIt
  PROVE  \E r \in Standings, fresh \in BOOLEAN :
            /\ Stands(r) /\ ~r.fresh /\ (fresh => Head(todo).op = "visit" /\ IsSuffixed(tree, here))
            /\ Fits(tree, Tail(todo), Freshly(r, fresh), End)
<1>1. PICK s \in Standings, u \in Standings :
             /\ Stands(s) /\ Leads(tree, Head(todo), s, u) /\ Fits(tree, Tail(todo), u, End)
  BY FirstCall
<1> DEFINE r == Freshly(s, FALSE)
<1>2. u.fresh \in BOOLEAN
  BY DEF Standings
<1>3. /\ u = [s EXCEPT !.fresh = u.fresh]
      /\ u.fresh => Head(todo).op = "visit" /\ IsSuffixed(tree, here)
  <2>1. /\ u = [s EXCEPT !.fresh = u.fresh]
        /\ u.fresh => \/ Head(todo).op = "visit" /\ IsSuffixed(tree, Head(todo).node)
                      \/ Head(todo).op = typeSymAtTopAndPopIt /\ s.fresh
    BY <1>1, PlainLeads
  <2> QED
    BY <2>1 DEF here
<1>4. /\ r \in Standings /\ r.kinds = s.kinds /\ r.fresh = FALSE /\ r.pending = s.pending
      /\ r.apart = s.apart /\ r.held = s.held
  BY FreshlyStands
<1>5. u = Freshly(r, u.fresh)
  BY <1>3 DEF Freshly, Standings
<1> HIDE DEF r
<1>6. Stands(r)
  BY <1>1, <1>4 DEF Stands, Scoped
<1> QED
  BY <1>1, <1>2, <1>3, <1>4, <1>5, <1>6

LEMMA NotSuffixed ==
  ASSUME NEW f, NEW n, f[n].kind \notin {"PointerDeclarator", "ParenthesizedDeclarator",
                                         "ArrayOrFunctionDeclarator"}
  PROVE  ~IsSuffixed(f, n)
BY SuffixedParts

LEMMA VisitedNode ==
  ASSUME Balanced, todo # <<>>, Head(todo).op \in VisitingOps
  PROVE  here \in DOMAIN tree
BY FirstCall DEF Calls, here

LEMMA TypeDeclarationBalances ==
  ASSUME BinderInv, Balanced, IsTree(tree), UNCHANGED files, visitTypeDeclaration
  PROVE  Balanced'
<1> DEFINE calls == Visits(tree[here].kids) \o <<Step("popSym")>>
           k == tree[here].kind
<1>1. /\ todo # <<>> /\ Head(todo).op = "visit" /\ todo' = calls \o Tail(todo) /\ unit' = unit
      /\ k \in TypeDeclarations /\ MakeSymAndPushIt(k, tree[here].text)
      /\ UNCHANGED <<scopeTable, scopes, stashedScope, pendingFunTySyms, swapped>>
  BY DEF visitTypeDeclaration, Visiting, Running, Proceed, Leave, At
<1>2. here \in DOMAIN tree /\ "visit" \notin Special /\ "visit" # typeSymAtTopAndPopIt
  BY <1>1, VisitedNode DEF VisitingOps, Special, Opens, typeSymAtTopAndPopIt
<1>3. ~IsSuffixed(tree, here) /\ k \notin Typeable
  BY <1>1, NotSuffixed DEF TypeDeclarations, Typeable
<1>4. PICK r \in Standings, fresh \in BOOLEAN :
         /\ Stands(r) /\ ~r.fresh /\ ~fresh /\ Fits(tree, Tail(todo), Freshly(r, fresh), End)
  BY <1>1, <1>2, <1>3, Visited
<1> DEFINE v == Holding(r)
<1>5. /\ v \in Standings /\ v.kinds = r.kinds /\ v.fresh = r.fresh /\ v.pending = r.pending
      /\ v.apart = r.apart /\ v.held = r.held + 1 /\ r.held \in Nat
  BY HoldingStands DEF Standings
<1>6. Fits(tree, calls, v, r) /\ Freshly(r, fresh) = r
  BY <1>2, <1>4, TypeDeclarationFits, FreshlyOf
<1> HIDE DEF calls, v, k
<1>7. TablesGrow
  BY SymbolStepsKeep DEF SymbolSteps, Kept
<1>8. SymsAreHeld' /\ Held(syms', Holders', v.held)
  BY <1>1, <1>3, <1>4, <1>5, <1>7, SymsPushed DEF Stands, Balanced, SymsStay
<1>9. v.pending = Len(pendingFunTySyms') /\ v.apart = Len(swapped')
  BY <1>1, <1>4, <1>5 DEF Stands
<1> QED
  BY <1>1, <1>4, <1>5, <1>6, <1>8, <1>9, StackStep DEF ScopesStay

LEMMA ApartBalances ==
  ASSUME BinderInv, Balanced, IsTree(tree), UNCHANGED files, visitApart
  PROVE  Balanced'
<1> DEFINE calls == <<Visit(here), Step("swapBack")>>
<1>1. /\ todo # <<>> /\ Head(todo).op = "visitApart" /\ todo' = calls \o Tail(todo) /\ unit' = unit
      /\ swapped' = <<tySyms>> \o swapped
      /\ UNCHANGED <<scopeTable, scopes, stashedScope, pendingFunTySyms, syms>>
  BY DEF visitApart, Running, Leave, assembly
<1>2. here \in DOMAIN tree /\ "visitApart" \notin Special /\ "visitApart" # typeSymAtTopAndPopIt
  BY <1>1, VisitedNode DEF VisitingOps, Special, Opens, typeSymAtTopAndPopIt
<1>3. PICK r \in Standings, fresh \in BOOLEAN :
         /\ Stands(r) /\ ~r.fresh /\ ~fresh /\ Fits(tree, Tail(todo), Freshly(r, fresh), End)
  BY <1>1, <1>2, Visited
<1> DEFINE v == Apart(r)
<1>4. /\ v \in Standings /\ v.kinds = r.kinds /\ v.fresh = r.fresh /\ v.pending = r.pending
      /\ v.apart = r.apart + 1 /\ v.held = r.held /\ r.held \in Nat
  BY ApartStands DEF Standings
<1>5. Fits(tree, calls, v, r) /\ Freshly(r, fresh) = r
  BY <1>2, <1>3, ApartFits, FreshlyOf
<1> HIDE DEF calls, v
<1>6. SymsStay
  BY <1>1, PoppingStepsKeep, SymsUntouched DEF PoppingSteps, Kept, Balanced
<1>7. SymsAreHeld' /\ Held(syms', Holders', v.held)
  BY <1>3, <1>4, <1>6 DEF Stands, SymsStay
<1>8. v.pending = Len(pendingFunTySyms') /\ v.apart = Len(swapped')
  <2>1. Len(<<tySyms>> \o swapped) = Len(swapped) + 1
    BY Consed DEF BinderInv, StacksAreOwn
  <2> QED
    BY <1>1, <1>3, <1>4, <2>1 DEF Stands
<1> QED
  BY <1>1, <1>3, <1>4, <1>5, <1>7, <1>8, StackStep DEF ScopesStay

LEMMA FunctionBalances ==
  ASSUME BinderInv, Balanced, IsTree(tree), UNCHANGED files, visitFunctionDeclarator
  PROVE  Balanced'
<1> DEFINE calls == AroundSuffix \o <<Step("popPendingFunTySym")>>
<1>1. /\ todo # <<>> /\ Head(todo).op = "visit" /\ todo' = calls \o Tail(todo) /\ unit' = unit
      /\ tree[here].kind = "ArrayOrFunctionDeclarator"
      /\ pendingFunTySyms' = <<Len(symUSEs) + 1>> \o pendingFunTySyms
      /\ UNCHANGED <<scopeTable, scopes, stashedScope, swapped, syms>>
  BY DEF visitFunctionDeclarator, Visiting, Running, Proceed, Leave, At, MakeTySym
<1>2. here \in DOMAIN tree /\ "visit" \notin Special /\ "visit" # typeSymAtTopAndPopIt
  BY <1>1, VisitedNode DEF VisitingOps, Special, Opens, typeSymAtTopAndPopIt
<1>3. PICK r \in Standings, fresh \in BOOLEAN :
         /\ Stands(r) /\ ~r.fresh /\ Fits(tree, Tail(todo), Freshly(r, fresh), End)
  BY <1>1, <1>2, Visited
<1> DEFINE v == Pending(r)
           u == Freshly(r, fresh)
<1>4. /\ v \in Standings /\ v.kinds = r.kinds /\ v.fresh = r.fresh /\ v.pending = r.pending + 1
      /\ v.apart = r.apart /\ v.held = r.held /\ r.held \in Nat
  BY PendingStands DEF Standings
<1>5. Fits(tree, calls, v, u)
  <2>1. tree[here].kids[1] \in DOMAIN tree /\ tree[here].kids[2] \in DOMAIN tree
    <3>1. tree[here].kids \in Seq(DOMAIN tree) /\ Len(tree[here].kids) = 2
      BY <1>1, <1>2, TreeParts DEF IsTree
    <3> QED
      BY <3>1, ElementOfSeq
  <2> QED
    BY <1>3, <2>1, FunctionFits DEF AroundSuffix, At
<1> HIDE DEF calls, v, u
<1>6. SymsStay
  BY <1>1, TypeStepsKeep, SymsUntouched DEF TypeSteps, Kept, Balanced
<1>7. SymsAreHeld' /\ Held(syms', Holders', v.held)
  BY <1>3, <1>4, <1>6 DEF Stands, SymsStay
<1>8. v.pending = Len(pendingFunTySyms') /\ v.apart = Len(swapped')
  <2>1. Len(<<Len(symUSEs) + 1>> \o pendingFunTySyms) = Len(pendingFunTySyms) + 1
    <3>1. IsTable(symUSEs, TypeFields) /\ pendingFunTySyms \in Seq(Owned(symUSEs, unit))
      BY DEF BinderInv, TablesAreTables, StacksAreOwn
    <3>2. Len(symUSEs) + 1 \in Nat /\ Owned(symUSEs, unit) \subseteq Nat
      BY <3>1, TableLength DEF Owned
    <3>3. pendingFunTySyms \in Seq(Nat)
      BY <3>1, <3>2, StackOfMore
    <3> QED
      BY <3>2, <3>3, Consed
  <2> QED
    BY <1>1, <1>3, <1>4, <2>1 DEF Stands
<1>9. Fits(tree, Tail(todo), u, End)
  BY <1>3 DEF u
<1> QED
  BY <1>1, <1>3, <1>4, <1>5, <1>7, <1>8, <1>9, StackStep DEF ScopesStay

(* The other steps.                                                        *)
PlainOps == VisitingOps \cup {"defaultToInt", "popTySym", "makeTag", "declare"}

LEMMA PlainIsNotSpecial ==
  ASSUME NEW op \in PlainOps
  PROVE  op \notin Special /\ op # typeSymAtTopAndPopIt
BY DEF PlainOps, VisitingOps, Special, Opens, typeSymAtTopAndPopIt

(* Those that declare nothing.                                             *)
Undeclaring ==
  \/ visitIncompleteDeclaration \/ visitDeclaration \/ visitIf \/ defaultToInt
  \/ visitEnumeratorDeclaration \/ popTySym \/ visitBuiltinTypeSpecifier \/ specify
  \/ visitTypedefName \/ visitTagTypeSpecifier \/ visitTypeDeclarationAsSpecifier \/ makeTag
  \/ visitTypeQualifier \/ visitParameterSuffix
Declarings == declareSym \/ declareParameter

LEMMA PlainFrame ==
  ASSUME Undeclaring \/ Declarings
  PROVE  /\ todo # <<>> /\ Head(todo).op \in PlainOps /\ ScopesStay
         /\ UNCHANGED <<unit, pendingFunTySyms, swapped>>
         /\ Head(todo).op = "visit" => tree[here].kind \notin
               {"PointerDeclarator", "ParenthesizedDeclarator", "ArrayOrFunctionDeclarator"}
<1>1. CASE visitIncompleteDeclaration \/ visitDeclaration \/ visitTypeDeclarationAsSpecifier \/ visitParameterSuffix
  BY <1>1 DEF visitIncompleteDeclaration, visitDeclaration, visitTypeDeclarationAsSpecifier,
              visitParameterSuffix, Visiting, Running, Proceed, Leave, assembly, stacks, ScopesStay,
              PlainOps, VisitingOps, DeclaratorDeclarations, At
<1>2. CASE visitIf
  BY <1>2 DEF visitIf, Running, Proceed, Leave, assembly, stacks, ScopesStay, PlainOps, VisitingOps
<1>3. CASE defaultToInt \/ popTySym \/ makeTag
  BY <1>3 DEF defaultToInt, popTySym, makeTag, MakeTySym, Running, Proceed, Leave, assembly,
              ScopesStay, PlainOps, VisitingOps
<1>4. CASE visitEnumeratorDeclaration \/ visitBuiltinTypeSpecifier
  BY <1>4 DEF visitEnumeratorDeclaration, visitBuiltinTypeSpecifier, MakeTySym, Visiting, Running,
              Proceed, Leave, assembly, ScopesStay, PlainOps, VisitingOps, At
<1>5. CASE specify \/ visitTypeQualifier
  BY <1>5 DEF specify, visitTypeQualifier, Visiting, Running, Proceed, Leave, stacks,
              ScopesStay, PlainOps, VisitingOps, At
<1>6. CASE visitTypedefName \/ visitTagTypeSpecifier
  BY <1>6 DEF visitTypedefName, visitTagTypeSpecifier, MakeTySym, Visiting, Running, Proceed, Leave,
              assembly, ScopesStay, PlainOps, VisitingOps, TypeSpecifiers, At
<1>7. CASE Declarings
  BY <1>7 DEF Declarings, declareSym, declareParameter, Declaring, Visiting, Running, Proceed, Leave,
              ScopesStay, PlainOps, VisitingOps, At
<1> QED
  BY <1>1, <1>2, <1>3, <1>4, <1>5, <1>6, <1>7 DEF Undeclaring

LEMMA PlainSyms ==
  ASSUME BinderInv, Balanced, Undeclaring \/ Declarings
  PROVE  SymsStay
<1>1. TablesGrow
  BY CallingStepsKeep, PoppingStepsKeep, TypeStepsKeep, SymbolStepsKeep, ParameterKeeps,
     PatchingStepsKeep
     DEF Undeclaring, Declarings, CallingSteps, PoppingSteps, TypeSteps, SymbolSteps, PatchingSteps,
         Kept
<1>2. CASE Undeclaring
  <2>1. syms' = syms
    BY <1>2 DEF Undeclaring, visitIncompleteDeclaration, visitDeclaration, visitIf, defaultToInt,
                visitEnumeratorDeclaration, popTySym, visitBuiltinTypeSpecifier, specify,
                visitTypedefName, visitTagTypeSpecifier, visitTypeDeclarationAsSpecifier, makeTag,
                visitTypeQualifier, visitParameterSuffix, MakeTySym, stacks
  <2> QED
    BY <1>1, <2>1, SymsUntouched DEF Balanced
<1>3. CASE Declarings
  <2>1. \E kind, name : MakeSymAndPushIt(kind, name)
    BY <1>3 DEF Declarings, declareSym, declareParameter
  <2> QED
    BY <1>1, <2>1, SymsPushed DEF Balanced
<1> QED
  BY <1>2, <1>3

LEMMA EachApartFlat ==
  ASSUME IsTree(tree), NEW n \in DOMAIN tree
  PROVE  Each("visitApart", tree[n].kids) \in Seq(FlatCalls(tree))
<1>1. tree[n].kids \in Seq(DOMAIN tree) /\ DOMAIN tree \subseteq Nat
  BY TreeParts
<1>2. "visitApart" \in Ops /\ "visitApart" \notin Special
  BY DEF Ops, VisitingOps, Special, Opens
<1> QED
  BY <1>1, <1>2, EachFlat

LEMMA NodeStepFlat ==
  ASSUME IsTree(tree), NEW n \in DOMAIN tree, NEW op \in {"declare", "makeTag"}
  PROVE  <<Do(op, n)>> \in Seq(FlatCalls(tree))
<1>1. n \in Nat
  BY TreeParts
<1>2. op \in Ops /\ op \notin VisitingOps /\ op \notin Special
  BY DEF Ops, VisitingOps, Special, Opens
<1> QED
  BY <1>1, <1>2, OneFlat

(* What they call leaves the stacks, too.                                  *)
LEMMA PlainCalls ==
  ASSUME Balanced, IsTree(tree), Undeclaring \/ Declarings,
         ~(Head(todo).op = "visit" /\ tree[here].kind = "FunctionDefinition")
  PROVE  \E calls \in Seq(FlatCalls(tree)) : todo' = calls \o Tail(todo)
<1>1. <<>> \in Seq(FlatCalls(tree))
  BY EmptySeq
<1>2. CASE \/ visitIncompleteDeclaration \/ defaultToInt \/ popTySym \/ visitBuiltinTypeSpecifier
           \/ specify \/ visitTypedefName \/ makeTag \/ visitTypeQualifier \/ Declarings
  <2>1. todo' = <<>> \o Tail(todo)
    BY <1>2 DEF visitIncompleteDeclaration, defaultToInt, popTySym, visitBuiltinTypeSpecifier,
                specify, visitTypedefName, makeTag, visitTypeQualifier, Declarings, declareSym,
                declareParameter, Proceed, Leave
  <2> QED
    BY <1>1, <2>1
<1>3. CASE visitDeclaration
  <2> DEFINE a == Each("visitIfNotTypeQualifier", tree[here].specs) \o <<Do("defaultToInt", here)>>
                  \o Each("visitIfTypeQualifier", tree[here].specs)
             b == IF tree[here].kind = "ParameterDeclaration" THEN AtParameter(here)
                  ELSE AtDeclarators(here)
  <2>1. /\ todo # <<>> /\ Head(todo).op = "visit" /\ tree[here].kind # "FunctionDefinition"
        /\ todo' = (a \o b) \o Tail(todo)
    BY <1>3 DEF visitDeclaration, Visiting, Running, Proceed, Leave, At
  <2>2. here \in DOMAIN tree
    BY <2>1, VisitedNode DEF VisitingOps
  <2>3. a \in Seq(FlatCalls(tree))
    BY <2>2, SpecifiersFlat
  <2>4. b \in Seq(FlatCalls(tree))
    <3>1. CASE tree[here].kind = "ParameterDeclaration"
      <4>1. tree[here].kids[1] \in DOMAIN tree
        <5>1. tree[here].kids \in Seq(DOMAIN tree) /\ tree[here].kids # <<>>
          BY <2>2, <3>1, TreeParts DEF IsTree
        <5> QED
          BY <5>1, Tailed
      <4> DEFINE x == Visit(tree[here].kids[1])
                 y == Step(typeSymAtTopAndPopIt)
      <4>2. <<x>> \in Seq(FlatCalls(tree)) /\ <<y>> \in Seq(FlatCalls(tree))
        BY <4>1, VisitFlat, StepIsFlat
      <4>3. b = <<x, y>>
        BY <3>1 DEF AtParameter, At
      <4> HIDE DEF x, y, b
      <4> QED
        BY <4>2, <4>3, BothFlat, Pair
    <3>2. CASE tree[here].kind # "ParameterDeclaration"
      BY <2>2, <3>2, DeclaratorsFlat
    <3> QED
      BY <3>1, <3>2
  <2> HIDE DEF a, b
  <2> QED
    BY <2>1, <2>3, <2>4, BothFlat
<1>4. CASE visitIf
  <2>1. todo # <<>> /\ Head(todo).op \in VisitingOps
    BY <1>4 DEF visitIf, Running, VisitingOps
  <2>2. <<Visit(here)>> \in Seq(FlatCalls(tree))
    BY <2>1, VisitedNode, VisitFlat
  <2>3. \E calls \in {<<>>, <<Visit(here)>>} : todo' = calls \o Tail(todo)
    BY <1>4 DEF visitIf, Proceed, Leave
  <2> QED
    BY <1>1, <2>2, <2>3
<1>5. CASE visitEnumeratorDeclaration
  <2> DEFINE x == Do("declare", here)
             y == Step(typeSymAtTopAndPopIt)
             z == Step("popTySym")
  <2>1. todo # <<>> /\ Head(todo).op = "visit" /\ todo' = <<x, y, z>> \o Tail(todo)
    BY <1>5 DEF visitEnumeratorDeclaration, Visiting, Running, Proceed, Leave
  <2>2. here \in DOMAIN tree
    BY <2>1, VisitedNode DEF VisitingOps
  <2>3. /\ <<x>> \in Seq(FlatCalls(tree)) /\ <<y>> \in Seq(FlatCalls(tree))
        /\ <<z>> \in Seq(FlatCalls(tree))
    BY <2>2, NodeStepFlat, StepIsFlat
  <2> HIDE DEF x, y, z
  <2>4. <<x, y, z>> = <<x>> \o (<<y>> \o <<z>>)
    BY Three, Zenon
  <2> DEFINE c == <<x>>
             d == <<y>>
             e == <<z>>
  <2> HIDE DEF c, d, e
  <2>5. c \o (d \o e) \in Seq(FlatCalls(tree))
    BY <2>3, BothFlat DEF c, d, e
  <2> QED
    BY <2>1, <2>4, <2>5 DEF c, d, e
<1>6. CASE visitTagTypeSpecifier \/ visitParameterSuffix
  <2>1. /\ todo # <<>> /\ Head(todo).op = "visit"
        /\ todo' = Each("visitApart", tree[here].kids) \o Tail(todo)
    BY <1>6 DEF visitTagTypeSpecifier, visitParameterSuffix, Visiting, Running, Proceed, Leave, At
  <2>2. here \in DOMAIN tree
    BY <2>1, VisitedNode DEF VisitingOps
  <2> QED
    BY <2>1, <2>2, EachApartFlat
<1>7. CASE visitTypeDeclarationAsSpecifier
  <2> DEFINE x == Visit(tree[here].kids[1])
             y == Do("makeTag", tree[here].kids[1])
  <2>1. /\ todo # <<>> /\ Head(todo).op = "visit" /\ todo' = <<x, y>> \o Tail(todo)
        /\ tree[here].kind = "TypeDeclarationAsSpecifier"
    BY <1>7 DEF visitTypeDeclarationAsSpecifier, Visiting, Running, Proceed, Leave, At
  <2>2. here \in DOMAIN tree
    BY <2>1, VisitedNode DEF VisitingOps
  <2>3. tree[here].kids[1] \in DOMAIN tree
    <3>1. tree[here].kids \in Seq(DOMAIN tree) /\ tree[here].kids # <<>>
      BY <2>1, <2>2, TreeParts DEF IsTree
    <3> QED
      BY <3>1, Tailed
  <2>4. <<x>> \in Seq(FlatCalls(tree)) /\ <<y>> \in Seq(FlatCalls(tree))
    BY <2>3, VisitFlat, NodeStepFlat
  <2> HIDE DEF x, y
  <2> QED
    BY <2>1, <2>4, BothFlat, Pair
<1> QED
  BY <1>2, <1>3, <1>4, <1>5, <1>6, <1>7 DEF Undeclaring

LEMMA PlainBalances ==
  ASSUME BinderInv, Balanced, IsTree(tree), UNCHANGED files, Undeclaring \/ Declarings
  PROVE  Balanced'
<1>1. /\ todo # <<>> /\ Head(todo).op \in PlainOps /\ ScopesStay
      /\ UNCHANGED <<unit, pendingFunTySyms, swapped>>
      /\ Head(todo).op = "visit" => tree[here].kind \notin
            {"PointerDeclarator", "ParenthesizedDeclarator", "ArrayOrFunctionDeclarator"}
  BY PlainFrame
<1>2. Head(todo).op \notin Special /\ Head(todo).op # typeSymAtTopAndPopIt
  BY <1>1, PlainIsNotSpecial
<1>3. ~(Head(todo).op = "visit" /\ IsSuffixed(tree, here))
  BY <1>1, NotSuffixed
<1>4. SymsStay
  BY PlainSyms
<1>5. \E calls : /\ todo' = calls \o Tail(todo)
                 /\ \A s \in Standings : ~s.fresh => Fits(tree, calls, s, s)
  <2>1. CASE Head(todo).op = "visit" /\ tree[here].kind = "FunctionDefinition"
    <3> DEFINE a == Each("visitIfNotTypeQualifier", tree[here].specs) \o <<Do("defaultToInt", here)>>
                    \o Each("visitIfTypeQualifier", tree[here].specs)
               b == AtDefinition(here)
    <3>1. visitDeclaration
      <4>1. ~visitIf /\ ~defaultToInt /\ ~popTySym /\ ~makeTag
        BY <2>1 DEF visitIf, defaultToInt, popTySym, makeTag, Running
      <4>2. /\ ~visitIncompleteDeclaration /\ ~visitEnumeratorDeclaration
            /\ ~visitBuiltinTypeSpecifier /\ ~specify /\ ~visitTypedefName /\ ~visitTagTypeSpecifier
            /\ ~visitTypeDeclarationAsSpecifier /\ ~visitTypeQualifier /\ ~visitParameterSuffix
        BY <2>1 DEF visitIncompleteDeclaration, visitEnumeratorDeclaration,
                    visitBuiltinTypeSpecifier, specify, visitTypedefName, visitTagTypeSpecifier,
                    visitTypeDeclarationAsSpecifier, visitTypeQualifier, visitParameterSuffix,
                    Visiting, At, TypeSpecifiers
      <4>3. ~Declarings
        BY <2>1 DEF Declarings, declareSym, declareParameter, Declaring, Visiting, Running, At
      <4> QED
        BY <4>1, <4>2, <4>3 DEF Undeclaring
    <3>2. todo' = (a \o b) \o Tail(todo)
      BY <2>1, <3>1 DEF visitDeclaration, Proceed, Leave, At
    <3>3. here \in DOMAIN tree
      BY <1>1, <2>1, VisitedNode DEF VisitingOps
    <3>4. a \in Seq(FlatCalls(tree))
      BY <3>3, SpecifiersFlat
    <3>5. ASSUME NEW s \in Standings, ~s.fresh
          PROVE  Fits(tree, b, s, s)
      BY <2>1, <3>3, <3>5, DefinitionFits
    <3> HIDE DEF a, b
    <3>6. \A s \in Standings : ~s.fresh => Fits(tree, a \o b, s, s)
      BY <3>4, <3>5, FlatFits, FitsBoth
    <3> QED
      BY <3>2, <3>6
  <2>2. CASE ~(Head(todo).op = "visit" /\ tree[here].kind = "FunctionDefinition")
    BY <2>2, PlainCalls, FlatFits
  <2> QED
    BY <2>1, <2>2
<1>6. PICK calls : /\ todo' = calls \o Tail(todo)
                   /\ \A s \in Standings : ~s.fresh => Fits(tree, calls, s, s)
  BY <1>5
<1> QED
  BY <1>1, <1>2, <1>3, <1>4, <1>6, StillStep

(* A translation unit, and a block.                                        *)
LEMMA ScopedVisits ==
  ASSUME IsTree(tree), NEW op \in DOMAIN Opens, NEW n \in DOMAIN tree, NEW s \in Standings, ~s.fresh
  PROVE  Fits(tree, <<Step(op)>> \o Visits(tree[n].kids) \o <<Step("closeScope")>>, s, s)
<1> DEFINE calls == Visits(tree[n].kids)
<1>1. calls \in Seq(FlatCalls(tree))
  BY TreeParts, VisitsFlat
<1> HIDE DEF calls
<1>2. Fits(tree, <<Step(op)>> \o calls \o <<Step("closeScope")>>, s, s)
  BY <1>1, ScopeFits
<1> QED
  BY <1>2 DEF calls

LEMMA ScopedBalances ==
  ASSUME BinderInv, Balanced, IsTree(tree), UNCHANGED files,
         visitTranslationUnit \/ visitCompoundStatement
  PROVE  Balanced'
<1> DEFINE calls(op) == <<Step(op)>> \o Visits(tree[here].kids) \o <<Step("closeScope")>>
<1>1. /\ todo # <<>> /\ Head(todo).op = "visit" /\ ScopesStay
      /\ UNCHANGED <<unit, pendingFunTySyms, swapped>>
      /\ tree[here].kind \in {"TranslationUnit", "CompoundStatement"}
      /\ \E op \in {"openFile", "openBlock"} : todo' = calls(op) \o Tail(todo)
  BY DEF visitTranslationUnit, visitCompoundStatement, Visiting, Running, Proceed, Leave, At,
         assembly, stacks, ScopesStay
<1>2. here \in DOMAIN tree /\ Head(todo).op \notin Special /\ Head(todo).op # typeSymAtTopAndPopIt
  BY <1>1, VisitedNode, PlainIsNotSpecial DEF PlainOps, VisitingOps
<1>3. ~IsSuffixed(tree, here)
  BY <1>1, NotSuffixed
<1>4. SymsStay
  <2>1. CASE visitTranslationUnit
    <3>1. TablesGrow /\ MakeSymAndPushIt("Library", "")
      BY <2>1, SymbolStepsKeep DEF SymbolSteps, Kept, visitTranslationUnit
    <3> QED
      BY <3>1, SymsPushed DEF Balanced
  <2>2. CASE visitCompoundStatement
    BY <2>2, CallingStepsKeep, SymsUntouched
       DEF CallingSteps, Kept, Balanced, visitCompoundStatement, stacks
  <2> QED
    BY <2>1, <2>2
<1>5. PICK op \in {"openFile", "openBlock"} : todo' = calls(op) \o Tail(todo)
  BY <1>1
<1>6. \A s \in Standings : ~s.fresh => Fits(tree, calls(op), s, s)
  <2>1. op \in DOMAIN Opens
    BY DEF Opens
  <2> QED
    BY <1>2, <2>1, ScopedVisits
<1> HIDE DEF calls
<1> QED
  BY <1>1, <1>2, <1>3, <1>4, <1>5, <1>6, StillStep

(* A declarator, and what has no handler.                                  *)
Resting == visitPointerDeclarator \/ visitArrayDeclarator \/ visitChildren

LEMMA RestingBalances ==
  ASSUME BinderInv, Balanced, IsTree(tree), UNCHANGED files, Resting
  PROVE  Balanced'
<1>1. /\ todo # <<>> /\ Head(todo).op = "visit" /\ ScopesStay
      /\ UNCHANGED <<unit, pendingFunTySyms, swapped, syms>>
  BY DEF Resting, visitPointerDeclarator, visitArrayDeclarator, visitChildren, MakeTySym, Visiting,
         Running, Proceed, Leave, At, assembly, stacks, ScopesStay
<1>2. here \in DOMAIN tree /\ Head(todo).op \notin Special /\ Head(todo).op # typeSymAtTopAndPopIt
  BY <1>1, VisitedNode, PlainIsNotSpecial DEF PlainOps, VisitingOps
<1>3. SymsStay
  BY <1>1, TypeStepsKeep, CallingStepsKeep, SymsUntouched
     DEF Resting, TypeSteps, CallingSteps, Kept, Balanced
<1>4. CASE visitPointerDeclarator \/ visitChildren
  <2> DEFINE calls == Visits(tree[here].specs) \o Visits(tree[here].kids)
  <2>1. todo' = calls \o Tail(todo) /\ tree[here].kind # "ArrayOrFunctionDeclarator"
    BY <1>4 DEF visitPointerDeclarator, visitChildren, Visiting, Running, Proceed, Leave, At, Handled
  <2>2. ASSUME NEW s \in Standings, NEW fresh \in BOOLEAN, ~s.fresh, fresh => IsSuffixed(tree, here)
        PROVE  Fits(tree, calls, s, Freshly(s, fresh))
    BY <1>2, <2>1, <2>2, ChildrenFit
  <2> HIDE DEF calls
  <2> QED
    BY <1>1, <1>2, <1>3, <2>1, <2>2, RestingStep
<1>5. CASE visitArrayDeclarator
  <2> DEFINE calls == AroundSuffix
  <2>1. todo' = calls \o Tail(todo) /\ tree[here].kind = "ArrayOrFunctionDeclarator"
    BY <1>5 DEF visitArrayDeclarator, Visiting, Running, Proceed, Leave, At
  <2>2. tree[here].kids[1] \in DOMAIN tree /\ tree[here].kids[2] \in DOMAIN tree
    <3>1. tree[here].kids \in Seq(DOMAIN tree) /\ Len(tree[here].kids) = 2
      BY <1>2, <2>1, TreeParts DEF IsTree
    <3> QED
      BY <3>1, ElementOfSeq
  <2>3. ASSUME NEW s \in Standings, NEW fresh \in BOOLEAN, ~s.fresh
        PROVE  Fits(tree, calls, s, Freshly(s, fresh))
    BY <2>2, <2>3, SuffixFits DEF AroundSuffix, At
  <2> HIDE DEF calls
  <2> QED
    BY <1>1, <1>2, <1>3, <2>1, <2>3, RestingStep
<1> QED
  BY <1>4, <1>5 DEF Resting

LEMMA BindBalances ==
  ASSUME BinderInv, Balanced, IsTree(tree), UNCHANGED files, Bind
  PROVE  outcome' = "undefined" \/ Balanced'
<1>1. ASSUME UsesNothing
      PROVE  outcome' = "undefined"
  BY <1>1 DEF UsesNothing, Undefined
<1> QED
  BY <1>1, OpenBalances, CloseBalances, StashBalances, ReopenBalances, PopSymBalances,
     SwapBackBalances, PopPendingBalances, TypeDeclarationBalances, ApartBalances,
     FunctionBalances, TypingBalances, PlainBalances, ScopedBalances, RestingBalances
     DEF Bind, Undeclaring, Declarings, Resting

-----------------------------------------------------------------------------
(* What is found on the stacks when it is popped, and at the end.          *)

LEMMA NothingPopped ==
  ASSUME NEW S, NEW ss \in Seq(S), Len(ss) = 0
  PROVE  ss = <<>>
BY EmptySeq, LenProperties

LEMMA ClosingFinds ==
  ASSUME Balanced, todo # <<>>, NEW op \in {"closeScope", "closeScopeAndStashIt"}, Head(todo).op = op
  PROVE  Len(scopes) > 1 /\ (op = "closeScopeAndStashIt" => ScopeAtTop = "FunctionPrototype")
<1>1. PICK s \in Standings, u \in Standings :
             /\ Stands(s) /\ Leads(tree, Head(todo), s, u) /\ Fits(tree, Tail(todo), u, End)
  BY FirstCall
<1> DEFINE call == Head(todo)
<1>2. call.op \in ScopeOps /\ call.op = op /\ op \notin DOMAIN Opens
  BY DEF ScopeOps, Opens
<1> HIDE DEF call
<1>3. /\ u.kinds \in Seq(ScopeKinds \cup {"None"}) /\ u.kinds # <<>>
      /\ KindsLead(op, s.kinds, u.kinds)
  BY <1>1, <1>2, ScopeLeads DEF call
<1>4. /\ \E kind \in ScopeKinds : s.kinds = <<kind>> \o u.kinds
      /\ op = "closeScopeAndStashIt" => s.kinds = <<"FunctionPrototype">> \o u.kinds
  BY <1>2, <1>3 DEF KindsLead, ScopeKinds
<1>5. PICK kind \in ScopeKinds : /\ s.kinds = <<kind>> \o u.kinds
                                 /\ op = "closeScopeAndStashIt" => kind = "FunctionPrototype"
  BY <1>4 DEF ScopeKinds
<1>6. /\ Len(s.kinds) = Len(u.kinds) + 1 /\ s.kinds[1] = kind /\ Len(u.kinds) \in Nat
      /\ Len(u.kinds) > 0
  <2> DEFINE t == u.kinds
  <2>1. t \in Seq(ScopeKinds \cup {"None"}) /\ kind \in ScopeKinds \cup {"None"} /\ t # <<>>
    BY <1>3
  <2> HIDE DEF t
  <2>2. Len(<<kind>> \o t) = Len(t) + 1 /\ (<<kind>> \o t)[1] = kind /\ Len(t) \in Nat /\ Len(t) > 0
    BY <2>1, Consed, Tailed
  <2> QED
    BY <1>5, <2>2 DEF t
<1>7. Len(scopes) = Len(u.kinds) + 1 /\ Len(scopes) > 1
  BY <1>1, <1>6 DEF Stands, Scoped
<1>8. scopes \in Seq(Nat) /\ scopes # <<>> /\ Head(scopes) = scopes[1]
  BY Tailed DEF Balanced, ScopesAreOpen
<1>9. 1 \in 1 .. Len(scopes) /\ 1 # Len(scopes)
  BY <1>6, <1>7
<1>10. scopes[1] # Null
  BY <1>9 DEF Balanced, ScopesAreOpen
<1>11. scopeTable[scopes[1]] = kind
  BY <1>1, <1>6, <1>9, <1>10 DEF Stands, Scoped, KindAt
<1> QED
  BY <1>5, <1>7, <1>8, <1>11 DEF ScopeAtTop

LEMMA ReopeningFinds ==
  ASSUME Balanced, todo # <<>>, Head(todo).op = "reopenStashedScope"
  PROVE  /\ stashedScope # Null /\ scopeTable[stashedScope] = "FunctionPrototype"
         /\ \A i \in DOMAIN scopes : scopes[i] # stashedScope
<1>1. PICK s \in Standings, u \in Standings :
             /\ Stands(s) /\ Leads(tree, Head(todo), s, u) /\ Fits(tree, Tail(todo), u, End)
  BY FirstCall
<1>2. s.fresh
  BY <1>1 DEF Leads, FreshLeads
<1>3. Fresh
  BY <1>1, <1>2 DEF Stands, Scoped
<1>4. DOMAIN scopes = 1 .. Len(scopes)
  BY LenProperties DEF Balanced, ScopesAreOpen
<1> QED
  BY <1>3, <1>4, KnownKinds DEF Fresh, Balanced

LEMMA PoppingFinds ==
  ASSUME BinderInv, Balanced, todo # <<>>, NEW op \in {"popPendingFunTySym", "swapBack", "popSym"},
         Head(todo).op = op
  PROVE  /\ op = "popSym" => Len(syms) > 1
         /\ op = "popPendingFunTySym" => pendingFunTySyms # <<>>
         /\ op = "swapBack" => swapped # <<>>
<1>1. PICK s \in Standings, u \in Standings :
             /\ Stands(s) /\ Leads(tree, Head(todo), s, u) /\ Fits(tree, Tail(todo), u, End)
  BY FirstCall
<1>2. /\ s.pending = u.pending + Taken(op, "popPendingFunTySym")
      /\ s.apart = u.apart + Taken(op, "swapBack") /\ s.held = u.held + Taken(op, "popSym")
      /\ u.pending \in Nat /\ u.apart \in Nat /\ u.held \in Nat
  BY <1>1, PopLeads
<1>3. CASE op = "popSym"
  <2>1. s.held = u.held + 1
    BY <1>2, <1>3, TakenOnce
  <2>2. /\ syms \in Seq(DOMAIN symDEFs \cup {Null}) /\ syms # <<>>
        /\ syms[Len(syms)] \notin Holders
    BY SymsAreStack, NullHoldsNothing DEF Balanced, SymsAreHeld
  <2>3. Held(syms, Holders, u.held + 1)
    BY <1>1, <2>1 DEF Stands
  <2>4. Len(syms) > 1
    BY <1>2, <2>2, <2>3, HeldTaken
  <2> QED
    BY <1>3, <2>4
<1>4. CASE op = "popPendingFunTySym"
  <2>1. Len(pendingFunTySyms) = u.pending + 1
    BY <1>1, <1>2, <1>4, TakenOnce DEF Stands
  <2>2. Len(pendingFunTySyms) # 0
    BY <1>2, <2>1
  <2> QED
    BY <1>4, <2>2
<1>5. CASE op = "swapBack"
  <2>1. Len(swapped) = u.apart + 1
    BY <1>1, <1>2, <1>5, TakenOnce DEF Stands
  <2>2. Len(swapped) # 0
    BY <1>2, <2>1
  <2> QED
    BY <1>5, <2>2
<1> QED
  BY <1>3, <1>4, <1>5

LEMMA EndFinds ==
  ASSUME BinderInv, Balanced, todo = <<>>
  PROVE  /\ scopes = <<Null>> /\ pendingFunTySyms = <<>> /\ swapped = <<>>
         /\ syms # <<>> /\ syms[Len(syms)] = Null
<1>1. PICK s \in Standings : Fits(tree, <<>>, s, End) /\ Stands(s)
  BY DEF Balanced, Followed
<1>2. s = End
  <2>1. PICK h : h[1] = s /\ h[Len(<<>>) + 1] = End
    BY <1>1 DEF Fits
  <2>2. Len(<<>>) + 1 = 1
    BY EmptySeq
  <2> QED
    BY <2>1, <2>2
<1>3. s.kinds = <<"None">> /\ s.pending = 0 /\ s.apart = 0
  BY <1>2 DEF End
<1>4. Len(scopes) = 1
  BY <1>1, <1>3 DEF Stands, Scoped
<1>5. scopes = <<Null>>
  <2>1. scopes \in Seq(Nat) /\ scopes[1] = Null
    BY <1>4 DEF Balanced, ScopesAreOpen
  <2>2. <<Null>> \in Seq(Nat) /\ Len(<<Null>>) = 1 /\ <<Null>>[1] = Null
    BY DEF Null
  <2>3. \A i \in 1 .. 1 : scopes[i] = <<Null>>[i]
    BY <2>1, <2>2
  <2> QED
    BY <1>4, <2>1, <2>2, <2>3, SeqEqual
<1>6. pendingFunTySyms = <<>> /\ swapped = <<>>
  BY <1>1, <1>3, NothingPopped DEF Stands, BinderInv, StacksAreOwn
<1> QED
  BY <1>5, <1>6 DEF Balanced, SymsAreHeld
=============================================================================
