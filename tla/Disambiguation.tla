---------------------------- MODULE Disambiguation ----------------------------
(***************************************************************************)
(* What the reparser promises: it learns which names are types and which   *)
(* are not, and only when it has learned all it will does it touch the     *)
(* tree.  It then replaces ambiguous nodes, one at a time and each in the  *)
(* place that holds it: by the reading as a type if the name is known to   *)
(* be one, by the reading as an expression if it is known to be something  *)
(* else and not a type.  Nothing else of the tree ever changes.            *)
(***************************************************************************)
EXTENDS Naturals, Sequences

CONSTANT AmbiguousKinds

VARIABLES tree, types, names, deciding

Init == ~deciding /\ types = {} /\ names = {}

Learn ==
  /\ ~deciding
  /\ types \subseteq types'
  /\ names \subseteq names'
  /\ UNCHANGED <<tree, deciding>>

StopLearning ==
  /\ ~deciding
  /\ deciding' = TRUE
  /\ UNCHANGED <<tree, types, names>>

Reading(s) == IF s \in types THEN 1 ELSE 2

Decide(n, i) ==
  LET ambiguity == tree[tree[n].kids[i]]
  IN  /\ deciding
      /\ ambiguity.kind \in AmbiguousKinds
      /\ ambiguity.name \in types \cup names
      /\ tree' = [tree EXCEPT ![n].kids[i] = ambiguity.kids[Reading(ambiguity.name)]]
      /\ UNCHANGED <<types, names, deciding>>

Next ==
  \/ Learn
  \/ StopLearning
  \/ \E n \in 1 .. Len(tree) : \E i \in 1 .. Len(tree[n].kids) :
        tree[n].kids[i] # 0 /\ Decide(n, i)

Spec == Init /\ [][Next]_<<tree, types, names, deciding>>
===============================================================================
