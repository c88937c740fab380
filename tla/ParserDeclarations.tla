-------------------------- MODULE ParserDeclarations --------------------------
(***************************************************************************)
(* Parser_Declarations.cpp and Parser_Common.cpp: one action per routine.  *)
(* The node of a specifier list is the sequence of its kinds; the node of  *)
(* a declarator is the sequence of its kinds from the outermost to the     *)
(* innermost, without the parentheses of a named declarator.               *)
(***************************************************************************)
EXTENDS ParserExpressions, Integers

DeclarationOrFunctionDefinition == Call("DeclarationOrFunctionDefinition")
Declarator(variety) == CallIn("Declarator", variety)
TypeQualifiersAndAttributes == Call("TypeQualifiersAndAttributes")
AttributeSpecifierList == Call("AttributeSpecifierList")
Initializer == Call("Initializer")

(* The variety of a declarator: the scope of a named one, or abstract.     *)
Varieties == {"File", "Block", "FunctionPrototype", "Abstract"}

(* An attribute list whose outcome the caller ignores.                     *)
MaybeAttributes == Call("MaybeAttributes")
parseMaybeAttributes ==
  /\ Runs("MaybeAttributes")
  /\ \/ /\ Peek = "__attribute__"
        /\ Continue(0, <<AttributeSpecifierList, OrProceed>>)
     \/ Peek # "__attribute__" /\ Continue(0, <<>>)

-----------------------------------------------------------------------------
(* Translation unit and external declarations.                             *)

parseTranslationUnit ==
  /\ Runs("TranslationUnit")
  /\ \/ Peek = "EOF" /\ Return(0, <<"TranslationUnit">>)
     \/ /\ Peek = "__extension__"
        /\ Continue(1, <<Call("ExternalDeclaration"), OrProceed,
                         Call("TranslationUnit")>>)
     \/ /\ Peek \notin {"EOF", "__extension__"}
        /\ Continue(0, <<Call("ExternalDeclaration"),
                         Call("TranslationUnit")>>)

(* Mutant: the token that ends what is ignored is not consumed.            *)
ignoreDeclarationOrDefinition_NotConsuming ==
  /\ Unwinds("TranslationUnit")
  /\ InTokens
  /\ \/ Peek \in JustReturn \cup {";", "}"} /\ Recover(0, <<Head(todo)>>)
     \/ Peek \notin JustReturn \cup {";", "}"} /\ SkipToken

ignoreDeclarationOrDefinition ==
  /\ Unwinds("TranslationUnit")
  /\ InTokens
  /\ \/ Peek \in JustReturn /\ Recover(0, <<Head(todo)>>)
     \/ Peek \in {";", "}"} /\ Recover(1, <<Head(todo)>>)
     \/ Peek \notin JustReturn \cup {";", "}"} /\ SkipToken

parseExternalDeclaration ==
  /\ Runs("ExternalDeclaration")
  /\ \/ Peek = ";" /\ Continue(1, <<>>)
     \/ /\ Peek = "_Static_assert"
        /\ Continue(0, <<Call("StaticAssertDeclaration")>>)
     \/ Peek = "asm" /\ Continue(0, <<Call("AsmStatementDeclaration")>>)
     \/ /\ Peek = "_Template"
        /\ Continue(1, <<DeclarationOrFunctionDefinition, OrProceed>>)
     \/ /\ Peek \notin {";", "_Static_assert", "asm", "_Template"}
        /\ Continue(0, <<DeclarationOrFunctionDefinition>>)

parseStaticAssertDeclaration_AtFirst ==
  /\ Runs("StaticAssertDeclaration")
  /\ Continue(1, <<Match("("), Conditional, Match(","), Call("StringLiteral"),
                   Match(")"), Match(";"), OrSkipTo(":")>>)

parseExtGNU_AsmStatementDeclaration_AtFirst ==
  /\ Runs("AsmStatementDeclaration")
  /\ DiagnoseIf(Lacks("ExtGNU_Asm"), "ExpectedFeature")
  /\ Expand(1, <<Match("("), Call("StringLiteral"), Match(")"),
                 OrSkipTo(")")>>, node)

-----------------------------------------------------------------------------
(* Declarations and function definitions.                                  *)

parseDeclarationOrFunctionDefinition ==
  /\ Runs("DeclarationOrFunctionDefinition")
  /\ Continue(0, <<Call("DeclarationSpecifiers"),
                   CallIn("Declaration_AtFollowOfSpecifiers", "File")>>)

(* parseDeclaration, after the specifiers.                                 *)
parseDeclaration ==
  /\ Runs("Declaration_AtFollowOfSpecifiers")
  /\ \/ Peek = ";" /\ Continue(1, <<>>)
     \/ /\ Peek # ";"
        /\ DiagnoseIf(node = <<>>, IF Arg = "File"
                                     THEN "ExpectedTypeSpecifier"
                                     ELSE "ExpectedFIRSTofSpecifierQualifier")
        /\ Expand(0, <<Call(IF Arg = "File" THEN "InitDeclarators"
                                            ELSE "StructDeclarators")>>, node)

(* The declarators that may have an initializer.                           *)
AcceptsInitializer(decltor) ==
  \/ Head(decltor) \in {"Identifier", "Pointer", "Array"}
  \/ Head(decltor) = "Function" /\ Len(decltor) > 1 /\ decltor[2] = "Pointer"

(* The innermost declarator around the name is a function declarator.      *)
DeclaresFunction(decltor) ==
  /\ Len(decltor) > 1
  /\ decltor[Len(decltor)] = "Identifier"
  /\ decltor[Len(decltor) - 1] = "Function"

ignoreDeclarator ==
  /\ Runs("ignoreDeclarator")
  /\ \/ Peek \in {"EOF", ",", "Identifier", "*"} /\ FailSilently
     \/ Peek \in {";", "}"} /\ ReturnFalse(1) /\ UNCHANGED diagVars
     \/ /\ Peek \notin {"EOF", ",", "Identifier", "*", ";", "}"}
        /\ Continue(1, <<Head(todo)>>)

parseInitDeclarators ==
  \/ /\ Runs("InitDeclarators")
     /\ Continue(0, <<Declarator("File"),
                      Call("InitDeclarator_AtInitializer")>>)
  \/ /\ Runs("InitDeclarator_AtInitializer")
     /\ \/ /\ Peek # "="
           /\ Continue(0, <<CallWith("InitDeclarator_AtFollow", "", node)>>)
        \/ /\ Peek = "=" /\ AcceptsInitializer(node)
           /\ Continue(1, <<Initializer,
                            CallWith("InitDeclarator_AtFollow", "=", node)>>)
        \/ /\ Peek = "=" /\ ~AcceptsInitializer(node)
           /\ Expand(0, <<Call("ignoreDeclarator")>>, node)
           /\ diagnose("UnexpectedInitializerOfDeclarator")

(* Anything else than the end of the declaration may be the parameters of  *)
(* a K&R function definition.                                              *)
InitDeclarator_AtFollow ==
  LET defines == Peek = "{" /\ DeclaresFunction(Acc)
  IN /\ Runs("InitDeclarator_AtFollow")
     /\ \/ Peek = "," /\ Continue(1, <<Call("InitDeclarators")>>)
        \/ Peek = ";" /\ Continue(1, <<>>)
        \/ /\ defines
           /\ Continue(0, <<Call("FunctionBody"), OrProceed>>)
        \/ /\ Peek \notin {",", ";"} /\ ~defines /\ Arg = "="
           /\ Fail("ExpectedFOLLOWofDeclaratorAndInitializer")
        \/ /\ Peek \notin {",", ";"} /\ ~defines /\ Arg # "="
           /\ Try(0, <<Call("KR_ParameterDeclarationList")>>,
                  "NotKR_FunctionDefinition",
                  <<CallWith("KR_FunctionDefinition", "", Acc)>>)

(* Mutant: that it is no K&R function definition either is not reported.   *)
NotKR_FunctionDefinition_Silent ==
  Runs("NotKR_FunctionDefinition") /\ FailSilently

NotKR_FunctionDefinition ==
  Runs("NotKR_FunctionDefinition") /\ Fail("ExpectedFOLLOWofDeclarator")

FunctionBody ==
  /\ Runs("FunctionBody")
  /\ Continue(0, <<CallIn("CompoundStatement_AtFirst", "None")>>)

KR_FunctionDefinition ==
  \/ /\ Runs("KR_FunctionDefinition")
     /\ \/ /\ DeclaresFunction(Acc)
           /\ Continue(0, <<Call("FunctionBody"), OrProceed,
                            Call("ClearDelayedDiags")>>)
        \/ ~DeclaresFunction(Acc) /\ FailSilently
  \/ /\ mode = "run"
     /\ todo # <<>>
     /\ Head(todo).do = "ClearDelayedDiags"
     /\ delayedDiags' = {}
     /\ Expand(0, <<>>, node)
     /\ UNCHANGED <<diags, omitted, failedAsserts>>

parseExtKR_ParameterDeclarationList ==
  \/ /\ Runs("KR_ParameterDeclarationList")
     /\ Continue(0, <<Call("KR_ParameterDeclaration"),
                      Call("KR_AtNextParameter")>>)
  \/ /\ Runs("KR_AtNextParameter")
     /\ \/ Peek = "{" /\ Continue(0, <<>>)
        \/ /\ Peek # "{"
           /\ Continue(0, <<Call("KR_ParameterDeclarationList")>>)

parseExtKR_ParameterDeclaration ==
  \/ /\ Runs("KR_ParameterDeclaration")
     /\ Continue(0, <<Call("DeclarationSpecifiers"), Call("KR_Declarators")>>)
  \/ /\ Runs("KR_Declarators")
     /\ Continue(0, <<Declarator("FunctionPrototype"),
                      Call("KR_AtFollowOfDeclarator")>>)
  \/ /\ Runs("KR_AtFollowOfDeclarator")
     /\ \/ Peek = "," /\ Continue(1, <<Call("KR_Declarators")>>)
        \/ Peek = ";" /\ Continue(1, <<>>)
        \/ Peek \notin {",", ";"} /\ FailSilently

-----------------------------------------------------------------------------
(* Specifiers.                                                             *)

SeenType(specs) ==
  \E i \in DOMAIN specs :
    specs[i] \in {"TypeSpecifier", "TypedefName", "TagDeclaration"}

(* determineIdentifierRole: whether the identifier at the cursor, no type  *)
(* being seen yet, is a typedef-name.  The scan starts after it; paren is  *)
(* the depth of parentheses, kr whether a comma made a K&R list likely.    *)
TypeKeywords == BuiltinTypeSpecifiers \cup TagKeywords
Transparent == StorageClasses \cup TypeQualifiers \cup FunctionSpecifiers
                 \cup {"_Alignas"}

RoleIsTypedefName ==
  LET scan[i \in Nat, seen \in BOOLEAN, paren \in Int, kr \in BOOLEAN] ==
        LET t == tks[i] IN
        CASE t \in {"Identifier"} \cup TypeKeywords ->
               IF kr THEN scan[i + 1, seen, paren, kr]
               ELSE IF seen THEN FALSE
               ELSE IF t = "Identifier" /\ paren = 0 THEN TRUE
               ELSE scan[i + 1, TRUE, paren, kr]
          [] t \in Transparent -> scan[i + 1, seen, paren, kr]
          [] t = "__attribute__" ->
               (~kr /\ paren = 0) \/ scan[i + 1, seen, paren, kr]
          [] t = "*" -> paren = 0 \/ scan[i + 1, seen, paren, kr]
          [] t = "(" -> scan[i + 1, seen, paren + 1, kr]
          [] t = ")" ->
               IF kr THEN tks[i + 1] = ";"
               ELSE IF paren = 1 THEN seen
               ELSE scan[i + 1, seen, paren - 1, kr]
          [] t = "," ->
               IF paren # 0 THEN paren < 0
               ELSE seen \/ scan[i + 1, seen, paren, TRUE]
          [] t = ";" -> paren < 0
          [] t = "EOF" -> ~seen
          [] OTHER -> kr /\ scan[i + 1, seen, paren, kr]
  IN scan[curTkIdx + 1, FALSE, 0, FALSE]

(* parseDeclarationSpecifiers and parseSpecifierQualifierList share their  *)
(* cases; the entry's Acc has the specifiers so far.                       *)
SpecifierLists == {"DeclarationSpecifiers", "SpecifierQualifierList"}

TrivialSpecifiers(list) ==
  IF list = "DeclarationSpecifiers"
    THEN StorageClasses \cup TypeQualifiers \cup FunctionSpecifiers
    ELSE TypeQualifiers

SpecifierRoutine(list) ==
  [k \in {"_Alignas", "typeof", "__attribute__"}
           \cup (IF list = "DeclarationSpecifiers" THEN {"_Forall"} ELSE {}) |->
     CASE k \in {"_Alignas", "typeof"} -> "AlignmentOrTypeofSpecifier"
       [] k = "__attribute__" -> "AttributeSpecifier"
       [] k = "_Forall" -> "QuantifiedTypeSpecifier"]

AtAtomicType == Peek = "_Atomic" /\ PeekAt(2) = "("

parseSpecifiers(list) ==
  LET More(kind) == CallWith(list, "", Append(Acc, kind))
      known == TrivialSpecifiers(list) \cup DOMAIN SpecifierRoutine(list)
                 \cup TypeKeywords \cup {"Identifier"}
  IN /\ Runs(list)
     /\ \/ /\ Peek \in TrivialSpecifiers(list) /\ ~AtAtomicType
           /\ Continue(1, <<More("Specifier")>>)
        \/ /\ AtAtomicType
           /\ Continue(0, <<Call("AtomicTypeSpecifier"), More("Specifier")>>)
        \/ /\ Peek \in BuiltinTypeSpecifiers
           /\ Continue(1, <<More("TypeSpecifier")>>)
        \/ /\ Peek \in TagKeywords
           /\ Continue(0, <<CallIn("TagTypeSpecifier", Peek),
                            CallWith("Specifiers_AtFollowOfTag", list, Acc)>>)
        \/ /\ Peek = "Identifier"
           /\ \/ SeenType(Acc)
              \/ list = "DeclarationSpecifiers" /\ ~RoleIsTypedefName
           /\ Return(0, Acc)
        \/ /\ Peek = "Identifier"
           /\ ~SeenType(Acc)
           /\ list = "DeclarationSpecifiers" => RoleIsTypedefName
           /\ Continue(1, <<More("TypedefName")>>)
        \/ /\ Peek \in DOMAIN SpecifierRoutine(list)
           /\ Continue(0, <<Call(SpecifierRoutine(list)[Peek]),
                            More("Specifier")>>)
        \/ /\ Peek \notin known
           /\ list = "DeclarationSpecifiers" \/ Acc # <<>>
           /\ Return(0, Acc)
        \/ /\ Peek \notin known
           /\ list = "SpecifierQualifierList" /\ Acc = <<>>
           /\ Fail("ExpectedFIRSTofSpecifierQualifier")

parseDeclarationSpecifiers == parseSpecifiers("DeclarationSpecifiers")
parseSpecifierQualifierList == parseSpecifiers("SpecifierQualifierList")

(* A tag type that is declared here ends the list, but for qualifiers.     *)
Specifiers_AtFollowOfTag ==
  \/ /\ Runs("Specifiers_AtFollowOfTag")
     /\ \/ /\ node = <<"TagDeclaration">>
           /\ Continue(0, <<TypeQualifiersAndAttributes,
                            CallWith("Specifiers_End", "",
                                     Append(Acc, "TagDeclaration"))>>)
        \/ /\ node # <<"TagDeclaration">>
           /\ Continue(0, <<CallWith(Arg, "", Append(Acc, "TypeSpecifier"))>>)
  \/ Runs("Specifiers_End") /\ Return(0, Acc)

parseAlignmentOrTypeofSpecifier_AtFirst ==
  /\ Runs("AlignmentOrTypeofSpecifier")
  /\ Continue(1, <<Call("ParenthesizedTypeNameOrExpression")>>)

parseAtomiceTypeSpecifier_AtFirst ==
  /\ Runs("AtomicTypeSpecifier")
  /\ Continue(1, <<Match("("), TypeName, MatchOrSkipTo(")")>>)

parseExtPSY_QuantifiedTypeSpecifier_AtFirst ==
  /\ Runs("QuantifiedTypeSpecifier")
  /\ Continue(1, <<Match("("), Match("Identifier"), Match(")")>>)

parseTypeQualifiersAndAttributes ==
  \/ /\ Runs("TypeQualifiersAndAttributes")
     /\ \/ Peek = "__attribute__" /\ Continue(0, <<AttributeSpecifierList>>)
        \/ /\ Peek = "asm"
           /\ Continue(0, <<Call("AsmLabel"), Call("AsmLabel_Inverted")>>)
        \/ /\ Peek \in TypeQualifiers
           /\ Continue(1, <<TypeQualifiersAndAttributes>>)
        \/ /\ Peek \notin TypeQualifiers \cup {"__attribute__", "asm"}
           /\ Continue(0, <<>>)

(* The label's outcome is taken for its opposite.                          *)
AsmLabel_Inverted ==
  \/ /\ mode = "run"
     /\ todo # <<>>
     /\ Head(todo).do = "AsmLabel_Inverted"
     /\ FailSilently
  \/ /\ Unwinds("AsmLabel_Inverted")
     /\ Recover(0, <<TypeQualifiersAndAttributes>>)

parseExtGNU_AsmLabel_AtFirst ==
  /\ Runs("AsmLabel")
  /\ Continue(1, <<Match("("), Call("StringLiteral"), Match(")")>>)

-----------------------------------------------------------------------------
(* Struct, union and enum.                                                 *)

parseTagTypeSpecifier_AtFirst ==
  \/ /\ Runs("TagTypeSpecifier")
     /\ Continue(1, <<MaybeAttributes, CallIn("TagTypeSpecifier_AtTag", Arg)>>)
  \/ /\ Runs("TagTypeSpecifier_AtTag")
     /\ LET members == CallIn("MemberDeclarations",
                              IF Arg = "enum" THEN "Enumerator"
                                              ELSE "StructDeclaration")
        IN \/ Peek = "{" /\ Continue(1, <<members>>)
           \/ /\ Peek = "Identifier" /\ PeekAt(2) = "{"
              /\ Continue(2, <<members>>)
           \/ /\ Peek = "Identifier" /\ PeekAt(2) # "{"
              /\ Return(1, <<IF PeekAt(2) = ";" /\ Arg # "enum"
                               THEN "TagDeclaration" ELSE "TagSpecifier">>)
           \/ /\ Peek \notin {"{", "Identifier"}
              /\ Fail("ExpectedFOLLOWofStructOrUnionOrEnum")

(* The loop over the members: it goes on after a member that fails, unless *)
(* that leaves it at the end of the file.                                  *)
MemberDeclarations_Loop ==
  /\ Runs("MemberDeclarations")
  /\ \/ /\ Peek = "}"
        /\ Continue(1, <<MaybeAttributes, Call("MemberDeclarations_End")>>)
     \/ /\ Peek # "}"
        /\ Continue(0, <<Call(Arg), Head(todo)>>)

MemberDeclarations_End ==
  Runs("MemberDeclarations_End") /\ Return(0, <<"TagDeclaration">>)

ignoreMemberDeclaration ==
  /\ Unwinds("MemberDeclarations")
  /\ InTokens
  /\ \/ Peek = "EOF" /\ FailSilently
     \/ Peek \in JustReturn \ {"EOF"} /\ Recover(0, <<Head(todo)>>)
     \/ /\ Peek \in {",", ";"}
        /\ \/ PeekAt(2) = "EOF" /\ ReturnFalse(1) /\ UNCHANGED diagVars
           \/ PeekAt(2) # "EOF" /\ Recover(1, <<Head(todo)>>)
     \/ Peek \notin JustReturn \cup {",", ";"} /\ SkipToken

parseStructDeclaration ==
  /\ Runs("StructDeclaration")
  /\ \/ /\ Peek = "_Static_assert"
        /\ Continue(0, <<Call("StaticAssertDeclaration")>>)
     \/ /\ Peek # "_Static_assert"
        /\ Continue(IF Peek = "__extension__" THEN 1 ELSE 0,
                    <<Call("SpecifierQualifierList"),
                      CallIn("Declaration_AtFollowOfSpecifiers", "Block")>>)

parseStructDeclarators ==
  \/ /\ Runs("StructDeclarators")
     /\ Continue(0, <<Declarator("Block"), Call("StructDeclarator_AtFollow")>>)
  \/ /\ Runs("StructDeclarator_AtFollow")
     /\ \/ Peek = "," /\ Continue(1, <<Call("StructDeclarators")>>)
        \/ Peek = ";" /\ Continue(1, <<>>)
        \/ Peek \notin {",", ";"} /\ Fail("ExpectedFOLLOWofStructDeclarator")

(* The comma between two enumerators is optional.                          *)
parseEnumerator ==
  \/ /\ Runs("Enumerator")
     /\ \/ /\ Peek = "Identifier"
           /\ Continue(1, <<MaybeAttributes, Call("Enumerator_AtValue")>>)
        \/ Peek # "Identifier" /\ Fail("ExpectedFIRSTofEnumerationConstant")
  \/ /\ Runs("Enumerator_AtValue")
     /\ \/ /\ Peek = "="
           /\ Continue(1, <<Conditional, Call("Enumerator_AtComma")>>)
        \/ Peek # "=" /\ Continue(0, <<Call("Enumerator_AtComma")>>)
  \/ /\ Runs("Enumerator_AtComma")
     /\ Continue(IF Peek = "," THEN 1 ELSE 0, <<>>)

-----------------------------------------------------------------------------
(* GNU attributes.                                                         *)

parseExtGNU_AttributeSpecifierList_AtFirst ==
  \/ /\ Runs("AttributeSpecifierList")
     /\ Continue(0, <<Call("AttributeSpecifier"),
                      Call("AttributeSpecifierList_AtNext")>>)
  \/ /\ Runs("AttributeSpecifierList_AtNext")
     /\ \/ Peek = "__attribute__" /\ Continue(0, <<AttributeSpecifierList>>)
        \/ Peek # "__attribute__" /\ Continue(0, <<>>)

parseExtGNU_AttributeSpecifier_AtFirst ==
  /\ Runs("AttributeSpecifier")
  /\ Continue(1, <<Match("("), Match("("), Call("AttributeList"), Match(")"),
                   Match(")"), OrSkipTo(")")>>)

parseExtGNU_AttributeList ==
  \/ /\ Runs("AttributeList")
     /\ Continue(0, <<Call("Attribute"), Call("AttributeList_AtNext")>>)
  \/ /\ Runs("AttributeList_AtNext")
     /\ \/ Peek = "," /\ Continue(1, <<Call("AttributeList")>>)
        \/ Peek = ")" /\ Continue(0, <<>>)
        \/ Peek \notin {",", ")"} /\ Fail("ExpectedTokenWithin")

(* Whether the identifier is `availability', whose arguments are those of  *)
(* LLVM, is its spelling, which is abstracted.                             *)
parseExtGNU_Attribute ==
  \/ /\ Runs("Attribute")
     /\ \/ /\ Peek \in {"Identifier", "const"} /\ PeekAt(2) # "("
           /\ Continue(1, <<>>)
        \/ /\ Peek \in {"Identifier", "const"} /\ PeekAt(2) = "("
           /\ Continue(2, <<CommaSeparatedItems("CallArgument"),
                            MatchOrSkipTo(")")>>)
        \/ /\ Peek = "Identifier" /\ PeekAt(2) = "("
           /\ Continue(2, <<Call("AttributeArgumentsLLVM"),
                            MatchOrSkipTo(")")>>)
        \/ Peek \in {",", ")"} /\ Continue(0, <<>>)
        \/ /\ Peek \notin {"Identifier", "const", ",", ")"}
           /\ Fail("ExpectedTokenWithin")

parseExtGNU_AttributeArgumentsLLVM ==
  \/ /\ Runs("AttributeArgumentsLLVM")
     /\ DiagnoseIf(Lacks("ExtGNU_AttributeSpecifiersLLVM"), "ExpectedFeature")
     /\ Expand(0, <<Call("IdentifierName"), Call("LLVM_AtComma")>>, node)
  \/ /\ Runs("LLVM_AtComma")
     /\ \/ /\ Peek = ","
           /\ Continue(1, <<Call("IdentifierName"), Call("LLVM_AtEquals"),
                            Call("LLVM_AtComma")>>)
        \/ Peek # "," /\ Continue(0, <<>>)
  \/ /\ Runs("LLVM_AtEquals")
     /\ \/ /\ Peek = "=" /\ PeekAt(2) = "StringLiteral"
           /\ Continue(1, <<Call("StringLiteral")>>)
        \/ /\ Peek = "=" /\ PeekAt(2) # "StringLiteral"
           /\ Continue(1, <<Call("Constant"), Call("LLVM_AtInteger")>>)
        \/ Peek # "=" /\ Continue(0, <<>>)
  \/ /\ Runs("LLVM_AtInteger")
     /\ Continue(IF Peek = "IntegerConstant" THEN 1 ELSE 0, <<>>)

-----------------------------------------------------------------------------
(* Declarators.                                                            *)

parseDeclarator ==
  \/ /\ Runs("Declarator")
     /\ Continue(0, <<MaybeAttributes, CallIn("Declarator_AtPointer", Arg)>>)
  \/ /\ Runs("Declarator_AtPointer")
     /\ \/ /\ Peek = "*"
           /\ Continue(1, <<TypeQualifiersAndAttributes, Declarator(Arg),
                            Call("PointerDeclarator_End")>>)
        \/ /\ Peek # "*"
           /\ Continue(0, <<CallIn("DirectDeclarator", Arg)>>)
  \/ Runs("PointerDeclarator_End") /\ Return(0, <<"Pointer">> \o node)

Suffix(variety) == CallIn("DirectDeclaratorSuffix", variety)
MaybeBitfield(variety) == CallIn("MaybeBitfield", variety)
LabelAndAttributes == Call("LabelAndAttributes")

(* `(' in an abstract declarator: a parameter list, or else parentheses    *)
(* around an abstract declarator, or else a parameter list after all.      *)
parseDirectDeclarator ==
  /\ Runs("DirectDeclarator")
  /\ \/ /\ Peek = "Identifier" /\ Arg = "Abstract"
        /\ FailSilently
     \/ /\ Peek = "Identifier" /\ Arg # "Abstract"
        /\ Expand(1, <<Suffix(Arg), LabelAndAttributes, MaybeBitfield(Arg)>>,
                  <<"Identifier">>)
        /\ UNCHANGED diagVars
     \/ /\ Peek = "(" /\ Arg # "Abstract"
        /\ Continue(1, <<Declarator(Arg), Match(")"), Suffix(Arg),
                         MaybeBitfield(Arg)>>)
     \/ /\ Peek = "(" /\ Arg = "Abstract" /\ PeekAt(2) = ")"
        /\ Expand(0, <<Suffix(Arg)>>, <<>>)
        /\ UNCHANGED diagVars
     \/ /\ Peek = "(" /\ Arg = "Abstract" /\ PeekAt(2) # ")"
        /\ Try(1, <<Declarator(Arg), Call("AtCloseParenOfAbstract")>>,
               "AbstractDeclaratorSuffix", <<>>)
     \/ /\ Peek = "[" /\ Arg = "Abstract"
        /\ Continue(0, <<Call("AbstractDeclaratorSuffix")>>)
     \/ /\ Peek = ":" /\ Arg = "Block"
        /\ Continue(1, <<Conditional, Call("Bitfield_End"), MaybeBitfield(Arg)>>)
     \/ /\ Peek \notin {"Identifier", "(", "["} /\ Arg = "Abstract"
        /\ Return(0, <<"Abstract">>)
     \/ /\ Peek \notin {"Identifier", "("} /\ Arg # "Abstract"
        /\ ~(Peek = ":" /\ Arg = "Block")
        /\ Fail("ExpectedFIRSTofDirectDeclarator")

AtCloseParenOfAbstract ==
  /\ Runs("AtCloseParenOfAbstract")
  /\ \/ /\ Peek = ")"
        /\ DiscardEarly(1, <<Suffix("Abstract")>>, <<"Parenthesized">> \o node)
     \/ Peek # ")" /\ FailSilently

AbstractDeclaratorSuffix ==
  /\ Runs("AbstractDeclaratorSuffix")
  /\ Expand(0, <<Suffix("Abstract")>>, <<"Abstract">>)
  /\ UNCHANGED diagVars

parseBitfieldDeclarator ==
  \/ /\ Runs("MaybeBitfield")
     /\ \/ /\ Peek = ":" /\ Arg = "Block"
           /\ Continue(1, <<Conditional, Call("Bitfield_End"),
                            MaybeAttributes>>)
        \/ ~(Peek = ":" /\ Arg = "Block") /\ Return(0, node)
  \/ Runs("Bitfield_End") /\ Return(0, <<"Bitfield">>)

(* An asm label and attributes, each optional.                             *)
parseLabelAndAttributes ==
  \/ /\ Runs("LabelAndAttributes")
     /\ \/ /\ Peek = "asm"
           /\ Continue(0, <<CallWith("LabelThenAttributes", "", node)>>)
        \/ /\ Peek = "__attribute__"
           /\ Continue(0, <<AttributeSpecifierList,
                            CallWith("Specifiers_End", "", node)>>)
        \/ Peek \notin {"asm", "__attribute__"} /\ Return(0, node)
  \/ /\ Runs("LabelThenAttributes")
     /\ Continue(0, <<Call("AsmLabel"),
                      CallWith("AttributesAfterLabel", "", Acc)>>)
  \/ /\ Runs("AttributesAfterLabel")
     /\ \/ /\ Peek = "__attribute__"
           /\ Continue(0, <<AttributeSpecifierList,
                            CallWith("Specifiers_End", "", Acc)>>)
        \/ Peek # "__attribute__" /\ Return(0, Acc)

(* The parameters of a function declarator, or the brackets of an array.   *)
parseDirectDeclaratorSuffix ==
  \/ /\ Runs("DirectDeclaratorSuffix")
     /\ \/ /\ Peek = "("
           /\ Continue(1, <<Call("ParameterDeclarationListAndOrEllipsis"),
                            Match(")"),
                            CallWith("ParameterSuffix_End", "", node),
                            LabelAndAttributes, Suffix(Arg)>>)
        \/ /\ Peek = "["
           /\ Continue(1, <<CallIn("ArraySuffix", Arg), MatchOrSkipTo("]"),
                            CallWith("SubscriptSuffix_End", "", node),
                            LabelAndAttributes, Suffix(Arg)>>)
        \/ Peek \notin {"(", "["} /\ Return(0, node)
  \/ /\ Runs("ParameterSuffix_End")
     /\ Return(IF Peek = "_omission" THEN 1 ELSE 0, <<"Function">> \o Acc)
  \/ Runs("SubscriptSuffix_End") /\ Return(0, <<"Array">> \o Acc)

(* What is between the brackets.  C99 forms are diagnosed in an older      *)
(* dialect (checkDialect), and outside of a function prototype             *)
(* (validateContext), where the parse then fails.                          *)
QualifiersInArray == TypeQualifiers \cup {"__attribute__"}
Size == <<Assignment, OrSkipTo("]")>>

ArraySuffix ==
  \/ /\ Runs("ArraySuffix")
     /\ \/ Peek = "]" /\ Continue(0, <<>>)
        \/ /\ Peek \in QualifiersInArray \cup {"*", "static"}
           /\ DiagnoseIf(~C99, "ExpectedFeature")
           /\ Expand(0, <<CallIn("ArraySuffix_AtC99", Arg), OrSkipTo("]")>>,
                     node)
        \/ /\ Peek \notin QualifiersInArray \cup {"*", "static", "]"}
           /\ Continue(0, Size)
  \/ /\ Runs("ArraySuffix_AtC99")
     /\ \/ /\ Arg \notin {"FunctionPrototype", "Abstract"}
           /\ Fail(IF Peek = "*"
                     THEN "UnexpectedPointerInArrayDeclarator"
                     ELSE "UnexpectedStaticOrTypeQualifiersInArrayDeclarator")
        \/ /\ Arg \in {"FunctionPrototype", "Abstract"}
           /\ \/ Peek = "*" /\ Continue(1, <<>>)
              \/ /\ Peek \in QualifiersInArray
                 /\ Continue(0, <<TypeQualifiersAndAttributes,
                                  Call("ArraySuffix_AtFollowOfQualifiers")>>)
              \/ /\ Peek = "static"
                 /\ Continue(0, <<Call("ArraySuffix_AtStatic")>>)
  \/ /\ Runs("ArraySuffix_AtFollowOfQualifiers")
     /\ \/ Peek = "*" /\ Continue(1, <<>>)
        \/ /\ Peek = "static"
           /\ DiagnoseIf(~C99, "ExpectedFeature")
           /\ Expand(0, <<Call("ArraySuffix_AtStatic")>>, node)
        \/ Peek \notin {"*", "static"} /\ Continue(0, <<Assignment>>)
  \/ /\ Runs("ArraySuffix_AtStatic")
     /\ Continue(1, <<Call("ArraySuffix_AtQualifiersAfterStatic"), Assignment>>)
  \/ /\ Runs("ArraySuffix_AtQualifiersAfterStatic")
     /\ Continue(0, IF Peek \in QualifiersInArray \ {"_Atomic"}
                      THEN <<TypeQualifiersAndAttributes>> ELSE <<>>)

-----------------------------------------------------------------------------
(* Parameters.                                                             *)

parseParameterDeclarationListAndOrEllipsis ==
  \/ /\ Runs("ParameterDeclarationListAndOrEllipsis")
     /\ \/ Peek = ")" /\ Continue(0, <<>>)
        \/ /\ Peek = "..."
           /\ diagnose("ExpectedNamedParameterBeforeEllipsis")
           /\ Expand(1, <<>>, node)
        \/ /\ Peek \notin {")", "..."}
           /\ Continue(0, <<Call("ParameterDeclarationList"),
                            Call("ParameterDeclarationList_AtFollow")>>)
  \/ /\ Runs("ParameterDeclarationList_AtFollow")
     /\ Continue(IF Peek = "..." THEN 1 ELSE 0, <<>>)

(* A type specifier that is missing is not reported at once: what follows  *)
(* the list may be the declarations of K&R parameters.                     *)
parseParameterDeclarationList ==
  \/ /\ Runs("ParameterDeclarationList")
     /\ IDsForDelay' = IDsForDelay \cup {"ExpectedTypeSpecifier"}
     /\ todo' = <<Call("ParameterDeclaration"),
                  Call("ParameterDeclarationList_AtComma"),
                  CallIn("~DiagnosticsReporterDelayer",
                         "ExpectedTypeSpecifier")>>
                  \o Tail(todo)
     /\ UNCHANGED <<tks, curTkIdx, node, backtracker, diagVars, ambigVars,
                    mode, recovered>>
  \/ /\ Runs("ParameterDeclarationList_AtComma")
     /\ \/ Peek = "," /\ PeekAt(2) = "..." /\ Continue(1, <<>>)
        \/ /\ Peek = "," /\ PeekAt(2) # "..."
           /\ Continue(1, <<Call("ParameterDeclaration"), Head(todo)>>)
        \/ Peek # "," /\ Continue(0, <<>>)

parseParameterDeclaration ==
  \/ /\ Runs("ParameterDeclaration")
     /\ Continue(0, <<Call("DeclarationSpecifiers"),
                      Call("ParameterDeclaration_AtFollowOfSpecifiers")>>)
  \/ /\ Runs("ParameterDeclaration_AtFollowOfSpecifiers")
     /\ \/ /\ node # <<>> \/ Peek = "Identifier"
           /\ DiagnoseIf(node = <<>>, "ExpectedTypeSpecifier")
           /\ Expand(0, <<Call("ParameterDeclaration_AtDeclarator")>>, node)
        \/ /\ node = <<>> /\ Peek # "Identifier"
           /\ Fail("ExpectedFIRSTofParameterDeclaration")
  \/ /\ Runs("ParameterDeclaration_AtDeclarator")
     /\ Try(0, <<Declarator("FunctionPrototype")>>, "AbstractDeclarator", <<>>)

parseAbstractDeclarator ==
  Runs("AbstractDeclarator") /\ Continue(0, <<Declarator("Abstract")>>)

-----------------------------------------------------------------------------
(* Initializers.                                                           *)

parseInitializer ==
  /\ Runs("Initializer")
  /\ \/ Peek = "{" /\ Continue(0, <<Call("BraceEnclosedInitializer")>>)
     \/ Peek # "{" /\ Continue(0, <<Assignment>>)

parseBraceEnclosedInitializer_AtFirst ==
  \/ /\ Runs("BraceEnclosedInitializer")
     /\ Continue(1, <<Call("BraceEnclosedInitializer_AtList")>>)
  \/ /\ Runs("BraceEnclosedInitializer_AtList")
     /\ \/ /\ Peek = "}"
           /\ diagnose("ExpectedBraceEnclosedInitializerList")
           /\ Expand(1, <<>>, node)
        \/ /\ Peek # "}"
           /\ Continue(0, <<CommaSeparatedItems("InitializerListItem"),
                            OrSkipPast("}"), MatchOrSkipTo("}")>>)

(* A comma where the first initializer should be is attached to a list     *)
(* that does not exist yet.                                                *)
parseInitializerListItem ==
  /\ Runs("InitializerListItem")
  /\ \/ Peek = "}" /\ Continue(0, <<>>)
     \/ Peek = "," /\ PeekAt(2) = "}" /\ Acc = <<>> /\ NullNode
     \/ Peek = "," /\ PeekAt(2) = "}" /\ Acc # <<>> /\ Continue(1, <<>>)
     \/ Peek = "," /\ PeekAt(2) # "}" /\ Fail("ExpectedFIRSTofExpression")
     \/ Peek \in {".", "["} /\ Continue(0, <<Call("DesignatedInitializer")>>)
     \/ Peek \notin {"}", ",", ".", "["} /\ Continue(0, <<Initializer>>)

parseDesignatedInitializer_AtFirst ==
  \/ /\ Runs("DesignatedInitializer")
     /\ DiagnoseIf(~C99 /\ Lacks("ExtGNU_DesignatedInitializers"),
                   "ExpectedFeature")
     /\ Expand(0, <<Call("DesignatorList"),
                    Call("DesignatedInitializer_AtEquals")>>, node)
  \/ /\ Runs("DesignatedInitializer_AtEquals")
     /\ \/ Peek = "=" /\ Continue(1, <<Initializer>>)
        \/ /\ Peek # "="
           /\ diagnose("ExpectedFOLLOWofDesignatedInitializer")
           /\ Expand(0, <<Initializer>>, node)

(* A list that is not there is an empty one, after `offsetof' only.        *)
parseDesignatorList_AtFirst ==
  \/ /\ Runs("DesignatorList")
     /\ \/ /\ Peek = "."
           /\ Continue(1, <<Call("FieldDesignator"), Call("DesignatorList")>>)
        \/ /\ Peek = "["
           /\ Continue(1, <<Conditional, MatchOrSkipTo("]"),
                            Call("DesignatorList")>>)
        \/ Peek \notin {".", "["} /\ Continue(0, <<>>)
  \/ /\ Runs("FieldDesignator")
     /\ \/ Peek = "Identifier" /\ Continue(1, <<>>)
        \/ Peek # "Identifier" /\ Fail("ExpectedFieldDesignator")

parseOffsetOfDesignator ==
  /\ Runs("OffsetOfDesignator")
  /\ \/ Peek = "Identifier" /\ Continue(1, <<Call("DesignatorList")>>)
     \/ Peek # "Identifier" /\ Fail("ExpectedTokenOfCategoryIdentifier")

-----------------------------------------------------------------------------
(* Parser_Common.cpp: type names, and what is a type name or an expression.*)

parseTypeName ==
  \/ /\ Runs("TypeName")
     /\ Continue(0, <<Call("SpecifierQualifierList"),
                      Call("TypeName_AtDeclarator")>>)
  \/ /\ Runs("TypeName_AtDeclarator")
     /\ Continue(0, <<Declarator("Abstract"),
                      CallWith("TypeName_End", "", node)>>)
  \/ /\ Runs("TypeName_End")
     /\ Return(0, <<IF Acc = <<"TypedefName">> /\ node = <<"Abstract">>
                      THEN "SoleTypedefName" ELSE "TypeName">>)

parseParenthesizedTypeNameOrExpression ==
  \/ /\ Runs("ParenthesizedTypeNameOrExpression")
     /\ \/ /\ Peek = "("
           /\ Try(0, <<Unary, Call("maybeAmbiguateTypeReference")>>,
                  "ParenthesizedTypeName", <<>>)
        \/ Peek # "(" /\ Continue(0, <<Unary>>)
  \/ /\ Runs("ParenthesizedTypeName")
     /\ Continue(1, <<TypeName, MatchOrSkipTo(")")>>)

(* A plain name in parentheses may be an expression or the name of a type. *)
maybeAmbiguateTypeReference ==
  /\ Runs("maybeAmbiguateTypeReference")
  /\ \/ /\ node = <<"ParenthesizedName">>
        /\ Ambiguate("AmbiguousTypeNameOrExpressionAsTypeReference")
     \/ node # <<"ParenthesizedName">> /\ Return(0, node)

DeclarationsNext ==
  \/ parseMaybeAttributes
  \/ parseTranslationUnit \/ ignoreDeclarationOrDefinition
  \/ parseExternalDeclaration \/ parseStaticAssertDeclaration_AtFirst
  \/ parseExtGNU_AsmStatementDeclaration_AtFirst
  \/ parseDeclarationOrFunctionDefinition \/ parseDeclaration
  \/ parseInitDeclarators \/ ignoreDeclarator \/ InitDeclarator_AtFollow
  \/ NotKR_FunctionDefinition \/ FunctionBody \/ KR_FunctionDefinition
  \/ parseExtKR_ParameterDeclarationList \/ parseExtKR_ParameterDeclaration
  \/ parseDeclarationSpecifiers \/ parseSpecifierQualifierList
  \/ Specifiers_AtFollowOfTag \/ parseAlignmentOrTypeofSpecifier_AtFirst
  \/ parseAtomiceTypeSpecifier_AtFirst
  \/ parseExtPSY_QuantifiedTypeSpecifier_AtFirst
  \/ parseTypeQualifiersAndAttributes \/ AsmLabel_Inverted
  \/ parseExtGNU_AsmLabel_AtFirst
  \/ parseTagTypeSpecifier_AtFirst \/ MemberDeclarations_Loop
  \/ MemberDeclarations_End \/ ignoreMemberDeclaration
  \/ parseStructDeclaration \/ parseStructDeclarators \/ parseEnumerator
  \/ parseExtGNU_AttributeSpecifierList_AtFirst
  \/ parseExtGNU_AttributeSpecifier_AtFirst \/ parseExtGNU_AttributeList
  \/ parseExtGNU_Attribute \/ parseExtGNU_AttributeArgumentsLLVM
  \/ parseDeclarator \/ parseDirectDeclarator \/ AtCloseParenOfAbstract
  \/ AbstractDeclaratorSuffix \/ parseBitfieldDeclarator
  \/ parseLabelAndAttributes \/ parseDirectDeclaratorSuffix \/ ArraySuffix
  \/ parseParameterDeclarationListAndOrEllipsis
  \/ parseParameterDeclarationList \/ parseParameterDeclaration
  \/ parseAbstractDeclarator
  \/ parseInitializer \/ parseBraceEnclosedInitializer_AtFirst
  \/ parseInitializerListItem \/ parseDesignatedInitializer_AtFirst
  \/ parseDesignatorList_AtFirst \/ parseOffsetOfDesignator
  \/ parseTypeName \/ parseParenthesizedTypeNameOrExpression
  \/ maybeAmbiguateTypeReference

=============================================================================
