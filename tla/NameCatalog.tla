------------------------------ MODULE NameCatalog ------------------------------
(***************************************************************************)
(* The names of a program, split into those that are known to be types and *)
(* the others, by levels.  A level is keyed by the node that opens it and  *)
(* starts with the names of the level around it.                           *)
(***************************************************************************)
EXTENDS SyntaxWalk

VARIABLES
  levels,    \* from the node of a level to the names known in it
  levelKeys  \* the levels entered and not yet left, the innermost one last

catalogVars == <<levels, levelKeys>>

NoNames == [types |-> {}, names |-> {}]
NoLevels == [n \in {} |-> NoNames]

levelExists(n) == n \in DOMAIN levels
CurrentKey == levelKeys[Len(levelKeys)]
HasLevel == levelKeys # <<>>

(* currentLevel: with no level entered the answer is a null pointer.       *)
currentLevel == IF HasLevel THEN levels[CurrentKey] ELSE NoNames

(* Mutant: the level is entered, but not inserted.                       *)
createLevelAndEnter_NotInserted(n) ==
  /\ ~levelExists(n)
  /\ levelKeys' = Append(levelKeys, n)
  /\ UNCHANGED levels
createLevelAndEnter(n) ==
  /\ ~levelExists(n)
  /\ levels' = [k \in DOMAIN levels \cup {n} |->
                  IF k = n THEN currentLevel ELSE levels[k]]
  /\ levelKeys' = Append(levelKeys, n)

enterLevel(n) ==
  /\ levelExists(n)
  /\ levelKeys' = Append(levelKeys, n)
  /\ UNCHANGED levels

exitLevel ==
  /\ levelKeys' = SubSeq(levelKeys, 1, Len(levelKeys) - 1)
  /\ UNCHANGED levels

catalogTypeName(s) ==
  /\ levels' = [levels EXCEPT ![CurrentKey].types = @ \cup {s}]
  /\ UNCHANGED levelKeys

catalogName(s) ==
  /\ levels' = [levels EXCEPT ![CurrentKey].names = @ \cup {s}]
  /\ UNCHANGED levelKeys

(* A name that is not found is compared, as an iterator, with the end of   *)
(* the other set of the level; the ends of two unordered sets of the       *)
(* library that the program is built with are the same null pointer.       *)
containsTypeName(s) == s \in currentLevel.types
containsName(s) == s \in currentLevel.names
================================================================================
