----------------------------- MODULE BoundTrees -----------------------------
(***************************************************************************)
(* The trees that a compilation is given, and what binding makes of them:  *)
(* scopes, the symbols that are declared (symDEFs_ of the Assembly) and    *)
(* the types that are used (symUSEs_).                                     *)
(*                                                                         *)
(* A tree is a table of nodes; node 1 is the root.  A node has a kind, the *)
(* text of the token that the binder reads of it, its specifiers, and its  *)
(* other children in order.  A declarator's children are the inner one and *)
(* the suffix; a type declaration's text is its tag, its children the      *)
(* members.  Left out is what the binder never reaches (initializers, the  *)
(* sizes of arrays, the values of enumerators), and attributes.            *)
(***************************************************************************)
EXTENDS Naturals, Sequences

VARIABLES
    files,         \* the trees
    unit,          \* the tree that is bound, 0 when none is
    scopeTable,    \* the scopes opened so far: their kinds
    symDEFs,       \* the symbols declared so far
    symUSEs,       \* the types used so far
    diagnostics    \* what was diagnosed: the tree, the node, and of what

assembly == <<scopeTable, symDEFs, symUSEs>>

Null == 0
tree == files[unit]

Symbol(kind, node, name, scope, containing) ==
    [kind |-> kind, tree |-> unit, node |-> node, name |-> name, scope |-> scope,
     containing |-> containing, type |-> Null]

\* A type symbol.  Only that of a builtin type has its builtin kind set: the
\* member is read all the same, and holds anything.
Unset == "unset"
Type(kind, of, named, name, builtin) ==
    [kind |-> kind, tree |-> unit, of |-> of, named |-> named, name |-> name,
     builtin |-> builtin, const |-> FALSE, params |-> <<>>, decay |-> "none"]
Builtin(builtTyK) == Type("Named", Null, "Builtin", builtTyK, builtTyK)
Synonym(name) == Type("Named", Null, "Synonym", name, Unset)
Tagged(choice, tag) == Type("Named", Null, choice, tag, Unset)
Pointer(to) == Type("Pointer", to, "none", "", Unset)
Array(of) == Type("Array", of, "none", "", Unset)
Function(returning) == Type("Function", returning, "none", "", Unset)

-----------------------------------------------------------------------------
(* What the parser makes.                                                  *)

\* Of a definition's declarator: under pointers and parentheses there is one with
\* a suffix.  (The innermost is that of a function; parseFunctionDefinition_
\* AtOpenBrace takes nothing else.)
IsSuffixed(f, d) ==
    \E S \in SUBSET {n \in DOMAIN f : f[n].kind \in {"PointerDeclarator", "ParenthesizedDeclarator",
                                                     "ArrayOrFunctionDeclarator"}} :
        /\ d \in S
        /\ \A n \in S :
              \/ f[n].kind = "ArrayOrFunctionDeclarator"
              \/ Len(f[n].kids) = 1 /\ f[n].kids[1] \in S

Nodes(f) == [kind : STRING, text : STRING, specs : Seq(DOMAIN f), kids : Seq(DOMAIN f)]
IsTree(f) ==
    /\ f \in Seq(Nodes(f)) /\ f # <<>>
    /\ \A n \in DOMAIN f :
          /\ f[n].kind \in {"ParameterDeclaration", "TypeDeclarationAsSpecifier"} => f[n].kids # <<>>
          /\ f[n].kind = "ArrayOrFunctionDeclarator" => Len(f[n].kids) = 2
          /\ f[n].kind = "FunctionDefinition" =>
                f[n].kids # <<>> /\ IsSuffixed(f, f[n].kids[1])

-----------------------------------------------------------------------------
(* ConstraintsInTypeSpecifiers::combine.                                   *)

\* (Those left out are never made, and go together as Float does.)
BuiltinKinds ==
    {"Void", "Char", "Char_S", "Char_U", "Short", "Short_S", "Short_U", "Int", "Int_S", "Int_U",
     "Long", "Long_S", "Long_U", "Float", "Double", "Bool", "DoubleComplex", "UNSPECIFIED"}

\* The builtin type that a keyword denotes on its own.
Alone ==
    [void |-> "Void", char |-> "Char", short |-> "Short", int |-> "Int", long |-> "Long",
     float |-> "Float", double |-> "Double", _Bool |-> "Bool", _Complex |-> "DoubleComplex",
     signed |-> "Int_S", unsigned |-> "Int_U"]

\* The pairs of a builtin type and a keyword that make another type.
Pairs ==
    [Char |-> [signed |-> "Char_S", unsigned |-> "Char_U"],
     Short |-> [signed |-> "Short_S", unsigned |-> "Short_U"],
     Int |-> [long |-> "Long", signed |-> "Int_S", unsigned |-> "Int_U"],
     Long |-> [int |-> "Long", signed |-> "Long_S", unsigned |-> "Long_U"],
     UNSPECIFIED |-> Alone]

\* Those of which nothing more is made, without a diagnostic; and of the rest,
\* the last of the switch, nothing is known any more.
Final == {"Void", "Char", "Char_S", "Char_U", "Short", "Short_S", "Short_U", "Int_S", "Int_U",
          "Long_S", "Long_U"}
IsPair(builtTyK, keyword) == builtTyK \in DOMAIN Pairs /\ keyword \in DOMAIN Pairs[builtTyK]
combine(keyword, builtTyK) ==
    IF IsPair(builtTyK, keyword) THEN Pairs[builtTyK][keyword]
    ELSE IF builtTyK \in Final \cup {"Int", "Long"} THEN builtTyK
    ELSE "UNSPECIFIED"

\* Mutant: the keywords that may follow are not looked at.
IsSecondDataType_AnyKeyword(keyword, builtTyK) == builtTyK \in {"Int", "Long"}

\* Only a second data type behind int or long is diagnosed.
IsSecondDataType(keyword, builtTyK) == builtTyK \in {"Int", "Long"} /\ ~IsPair(builtTyK, keyword)
=============================================================================
