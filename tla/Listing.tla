------------------------------- MODULE Listing -------------------------------
(***************************************************************************)
(* The list of nodes that a walk over a tree hands over, node by node, as  *)
(* SyntaxNamePrinter::dump_ holds it, and what is true of it in any walk:  *)
(* the reader of the list does not see the tree.                           *)
(***************************************************************************)
EXTENDS Integers, Sequences

VARIABLE dump   \* the nodes that were handed over

\* A node, as getCFG asks for it: whether it has a first and a last token, and
\* its place, the path to it from the root of the tree.
Entries == [kind : STRING, level : Nat, place : Seq(Nat), hasTokens : BOOLEAN]

\* One node is in another.
Within(e, d) ==
    Len(d.place) < Len(e.place) /\ d.place = SubSeq(e.place, 1, Len(d.place))

Loops == {"WhileStatement", "ForStatement"}

(* The walk hands over a node before those in it, and those in it before   *)
(* all others, one level deeper at least.                                  *)
IsListedAt(list, j) ==
    /\ list[j] \in Entries
    /\ list[j].kind \in Loops \cup {"FunctionDefinition"} => list[j].hasTokens
    /\ \A i \in 1..(j - 1) :
        /\ ~Within(list[i], list[j])
        /\ Within(list[j], list[i]) =>
                /\ list[i].level < list[j].level
                /\ \A k \in (i + 1)..(j - 1) : Within(list[k], list[i])
==============================================================================
