---------------------------- MODULE LexerProofs ----------------------------
(***************************************************************************)
(* What holds for every text, under all options, in the tokens that are    *)
(* read first as in those that are read back: the types of the lexer, the  *)
(* order of its tokens in the text, and the matching of its braces.  And,  *)
(* of the tokens that are read first, the positions.                       *)
(***************************************************************************)
EXTENDS Unparsing, ScanningProofs, FiniteSetTheorems

Open == <<"{">>
Close == <<"}">>

LEMMA DistinctKinds == Open # Close /\ Open # EndOfFile /\ Close # EndOfFile
BY DEF Open, Close, EndOfFile

LEMMA EmptyIsSequence == IsSequence(<<>>) /\ Len(<<>>) = 0
BY DEF IsSequence

LEMMA AppendedIsSequence ==
  ASSUME NEW s, IsSequence(s), NEW e
  PROVE  /\ IsSequence(Append(s, e))
         /\ Len(Append(s, e)) = Len(s) + 1
         /\ DOMAIN Append(s, e) = 1..(Len(s) + 1)
         /\ \A k \in 1..Len(s) : Append(s, e)[k] = s[k]
         /\ Append(s, e)[Len(s) + 1] = e
<1> DEFINE S == {s[k] : k \in 1..Len(s)} \cup {e}
<1>1. s \in Seq(S) /\ e \in S
  BY DEF IsSequence
<1> HIDE DEF S
<1>2. /\ Append(s, e) \in Seq(S)
      /\ Len(Append(s, e)) = Len(s) + 1
      /\ \A k \in 1..Len(s) : Append(s, e)[k] = s[k]
      /\ Append(s, e)[Len(s) + 1] = e
  BY <1>1, AppendProperties
<1>3. DOMAIN Append(s, e) = 1..(Len(s) + 1)
  BY <1>2, LenProperties
<1>4. IsSequence(Append(s, e))
  BY <1>2, LenProperties DEF IsSequence
<1> QED
  BY <1>2, <1>3, <1>4

-----------------------------------------------------------------------------
(* Counting braces.                                                        *)

LEMMA CountIsNatural ==
  ASSUME NEW c, NEW i \in Nat, NEW j \in Nat
  PROVE  Count(c, i, j) \in Nat
<1>1. IsFiniteSet(i..j)
  BY FS_Interval
<1>2. {k \in i..j : tokens[k].kind = c} \in SUBSET (i..j)
  OBVIOUS
<1> QED
  BY <1>1, <1>2, FS_Subset, FS_CardinalityType DEF Count

LEMMA ExcessIsInteger ==
  ASSUME NEW i \in Nat, NEW j \in Nat
  PROVE  Excess(i, j) \in Int
<1>1. Count(Open, i, j) \in Nat /\ Count(Close, i, j) \in Nat
  BY CountIsNatural
<1>2. Excess(i, j) = Count(Open, i, j) - Count(Close, i, j)
  BY DEF Excess, Open, Close
<1> QED
  BY <1>1, <1>2

(* A step that adds one token.                                             *)
Adds(kind) ==
    /\ IsSequence(tokens) /\ IsSequence(tokens')
    /\ Len(tokens') = Len(tokens) + 1
    /\ \A k \in 1..Len(tokens) : tokens'[k] = tokens[k]
    /\ tokens'[Len(tokens) + 1].kind = kind

LEMMA CountBefore ==
  ASSUME NEW kind, Adds(kind), NEW c, NEW i \in Nat \ {0}, NEW j \in Nat, j <= Len(tokens)
  PROVE  Count(c, i, j)' = Count(c, i, j)
<1>1. Len(tokens) \in Nat
  BY DEF Adds, IsSequence
<1>2. \A k \in i..j : tokens'[k] = tokens[k]
  BY <1>1 DEF Adds
<1> QED
  BY <1>2 DEF Count

LEMMA CountOfLast ==
  ASSUME NEW kind, Adds(kind), NEW n, n = Len(tokens),
         NEW c, NEW i \in Nat \ {0}, i <= n + 1
  PROVE  Count(c, i, n + 1)' = Count(c, i, n) + (IF kind = c THEN 1 ELSE 0)
<1> DEFINE old == {k \in i..n : tokens[k].kind = c}
           new == {k \in i..(n + 1) : tokens'[k].kind = c}
<1>1. n \in Nat /\ n + 1 \notin old
  BY DEF Adds, IsSequence
<1>2. \A k \in i..n : tokens'[k] = tokens[k]
  BY <1>1 DEF Adds
<1>3. tokens'[n + 1].kind = kind
  BY DEF Adds
<1>4. new = old \cup (IF kind = c THEN {n + 1} ELSE {})
  BY <1>1, <1>2, <1>3
<1>5. IsFiniteSet(old) /\ Cardinality(old) \in Nat
  <2>1. IsFiniteSet(i..n)
    BY <1>1, FS_Interval
  <2>2. old \in SUBSET (i..n)
    OBVIOUS
  <2> QED
    BY <2>1, <2>2, FS_Subset, FS_CardinalityType
<1>6. Cardinality(new) = Cardinality(old) + (IF kind = c THEN 1 ELSE 0)
  <2> HIDE DEF old, new
  <2>1. CASE kind = c
    BY <2>1, <1>1, <1>4, <1>5, FS_AddElement
  <2>2. CASE kind # c
    BY <2>2, <1>4, <1>5
  <2> QED
    BY <2>1, <2>2
<1> QED
  BY <1>6 DEF Count

(* What a token does to the excess: nothing before it, and one more or one *)
(* less behind it.                                                         *)
Step(kind) == IF kind = Open THEN 1 ELSE IF kind = Close THEN -1 ELSE 0

LEMMA ExcessBefore ==
  ASSUME NEW kind, Adds(kind), NEW i \in Nat \ {0}, NEW j \in Nat, j <= Len(tokens)
  PROVE  Excess(i, j)' = Excess(i, j)
BY CountBefore DEF Excess

LEMMA ExcessOfLast ==
  ASSUME NEW kind, Adds(kind), NEW n, n = Len(tokens), NEW i \in Nat \ {0}, i <= n + 1
  PROVE  Excess(i, n + 1)' = Excess(i, n) + Step(kind)
<1>1. n \in Nat
  BY DEF Adds, IsSequence
<1>2. /\ Count(Open, i, n + 1)' = Count(Open, i, n) + (IF kind = Open THEN 1 ELSE 0)
      /\ Count(Close, i, n + 1)' = Count(Close, i, n) + (IF kind = Close THEN 1 ELSE 0)
  BY CountOfLast
<1>3. Count(Open, i, n) \in Nat /\ Count(Close, i, n) \in Nat
  BY <1>1, CountIsNatural
<1>4. /\ Excess(i, n) = Count(Open, i, n) - Count(Close, i, n)
      /\ Excess(i, n + 1)' = Count(Open, i, n + 1)' - Count(Close, i, n + 1)'
  BY DEF Excess, Open, Close
<1> QED
  BY <1>2, <1>3, <1>4, DistinctKinds DEF Step

LEMMA ExcessOfNone ==
  ASSUME NEW n \in Nat
  PROVE  Excess(n + 1, n) = 0
<1>1. (n + 1)..n = {}
  OBVIOUS
<1>2. Count(Open, n + 1, n) = 0 /\ Count(Close, n + 1, n) = 0
  BY <1>1, FS_EmptySet DEF Count
<1>3. Excess(n + 1, n) = Count(Open, n + 1, n) - Count(Close, n + 1, n)
  BY DEF Excess, Open, Close
<1> QED
  BY <1>2, <1>3

-----------------------------------------------------------------------------
(* The inductive invariant.                                                *)

(* The brace at a place of the stack: from it on as many openings as there *)
(* are braces above are still open, itself included, and there was one at  *)
(* every place between.                                                    *)
StaysOpen(k) ==
    /\ braces[k] \in Openings
    /\ Excess(braces[k], Len(tokens)) = Len(braces) - k + 1
    /\ \A j \in braces[k]..Len(tokens) : Excess(braces[k], j) > 0

IsBalanced(i) ==
    /\ matching[i] \in DOMAIN tokens
    /\ Excess(i, matching[i]) = 0
    /\ \A j \in i..(matching[i] - 1) : Excess(i, j) # 0

IsLeftOpen(i) ==
    /\ pc = "done"
    /\ matching[i] = Len(tokens) + 1
    /\ \A j \in i..Len(tokens) : Excess(i, j) # 0

IInv ==
    /\ IsSequence(tokens) /\ braces \in Seq(Nat) /\ "kind" \in DOMAIN tk
    /\ Openings = DOMAIN matching \cup {braces[k] : k \in DOMAIN braces}
    /\ \A k \in DOMAIN braces : StaysOpen(k)
    /\ \A i \in DOMAIN matching : i \in Openings /\ (IsBalanced(i) \/ IsLeftOpen(i))
    /\ pc = "done" => braces = <<>>

LEMMA InvariantImpliesMatch == IInv => BracesMatch
<1> SUFFICES ASSUME IInv, pc = "done"
             PROVE  /\ DOMAIN matching = Openings
                    /\ \A i \in Openings :
                        /\ matching[i] \in 1..(Len(tokens) + 1)
                        /\ matching[i] \in DOMAIN tokens => Excess(i, matching[i]) = 0
                        /\ \A k \in i..(matching[i] - 1) : Excess(i, k) # 0
  BY DEF BracesMatch
<1>1. DOMAIN matching = Openings
  <2>1. DOMAIN braces = {}
    BY EmptySeq DEF IInv
  <2> QED
    BY <2>1 DEF IInv
<1>2. Len(tokens) \in Nat /\ DOMAIN tokens = 1..Len(tokens)
  BY LenProperties DEF IInv, IsSequence
<1>3. ASSUME NEW i \in Openings
      PROVE  /\ matching[i] \in 1..(Len(tokens) + 1)
             /\ matching[i] \in DOMAIN tokens => Excess(i, matching[i]) = 0
             /\ \A k \in i..(matching[i] - 1) : Excess(i, k) # 0
  <2>1. CASE IsBalanced(i)
    BY <2>1, <1>2 DEF IsBalanced
  <2>2. CASE IsLeftOpen(i)
    <3>1. matching[i] - 1 = Len(tokens)
      BY <2>2, <1>2 DEF IsLeftOpen
    <3> QED
      BY <3>1, <2>2, <1>2 DEF IsLeftOpen
  <2> QED
    BY <1>1, <2>1, <2>2 DEF IInv
<1> QED
  BY <1>1, <1>3

-----------------------------------------------------------------------------
(* The steps that add no token.                                            *)

Quiet ==
    /\ UNCHANGED <<tokens, braces, matching>>
    /\ pc' = "done" <=> pc = "done"
    /\ "kind" \in DOMAIN tk'

LEMMA FreshHasKind == "kind" \in DOMAIN Fresh
BY DEF Fresh

LEMMA ReadingIsQuiet ==
  ASSUME "kind" \in DOMAIN tk, Blank \/ ReadEndOfText \/ ReadBackslash \/ ReadComment \/ ReadToken
  PROVE  Quiet
<1>1. CASE Blank
  BY <1>1 DEF Blank, tree, Quiet
<1>2. CASE ReadEndOfText
  BY <1>2 DEF ReadEndOfText, Return, tree, Quiet
<1>3. CASE ReadBackslash
  BY <1>3 DEF ReadBackslash, tree, Quiet
<1>4. CASE ReadComment
  <2>1. UNCHANGED <<tokens, braces, matching, pc>>
    BY <1>4 DEF ReadComment, tree
  <2>2. "kind" \in DOMAIN tk'
    BY <1>4 DEF ReadComment, Return
  <2> QED
    BY <2>1, <2>2 DEF Quiet
<1>5. CASE ReadToken
  <2>1. UNCHANGED <<tokens, braces, matching, pc>>
    BY <1>5 DEF ReadToken, tree
  <2>2. "kind" \in DOMAIN tk'
    BY <1>5 DEF ReadToken, Return
  <2> QED
    BY <2>1, <2>2 DEF Quiet
<1> QED
  BY <1>1, <1>2, <1>3, <1>4, <1>5

LEMMA AwaitingIsQuiet ==
  ASSUME NEW place, place # "done", Await(place) \/ Reconsider(place),
         "kind" \in DOMAIN tk
  PROVE  pc' # "done" /\ "kind" \in DOMAIN tk'
BY FreshHasKind DEF Await, Reconsider, reading

LEMMA DirectivesAreQuiet ==
  ASSUME "kind" \in DOMAIN tk,
         \/ Directive \/ DirectiveName \/ DirectiveNumber \/ DirectiveFile \/ DirectiveRest
         \/ Mark \/ SkipToken \/ MarkData \/ GeneratedTokens \/ Colon \/ Column
         \/ KeepComment
  PROVE  Quiet
<1>1. UNCHANGED <<tokens, braces, matching>> /\ pc # "done"
  BY DEF Directive, DirectiveName, DirectiveNumber, DirectiveFile, DirectiveRest, Mark, SkipToken,
         MarkData, GeneratedTokens, Colon, Column, KeepComment, Ready, tree
<1>2. \E place \in {"token", "hash", "number", "file", "rest", "mark", "skip", "data",
                    "generated", "colon", "column"} : Await(place) \/ Reconsider(place)
  BY DEF Directive, DirectiveName, DirectiveNumber, DirectiveFile, DirectiveRest, Mark, SkipToken,
         MarkData, GeneratedTokens, Colon, Column, KeepComment
<1> QED
  BY <1>1, <1>2, AwaitingIsQuiet DEF Quiet

LEMMA QuietKeeps == IInv /\ Quiet => IInv'
<1> SUFFICES ASSUME IInv, Quiet PROVE IInv'
  OBVIOUS
<1>1. UNCHANGED <<tokens, braces, matching>> /\ (pc' = "done" <=> pc = "done")
  BY DEF Quiet
<1>2. \A k : StaysOpen(k)' <=> StaysOpen(k)
  BY <1>1 DEF StaysOpen, Openings, Excess, Count
<1>3. \A i : (IsBalanced(i)' <=> IsBalanced(i)) /\ (IsLeftOpen(i)' <=> IsLeftOpen(i))
  BY <1>1 DEF IsBalanced, IsLeftOpen, Excess, Count
<1>4. Openings' = Openings
  BY <1>1 DEF Openings
<1>5. "kind" \in DOMAIN tk'
  BY DEF Quiet
<1> QED
  BY <1>1, <1>2, <1>3, <1>4, <1>5 DEF IInv

-----------------------------------------------------------------------------
(* The step that adds a token.                                             *)

(* What AddToken does to the state of the braces, case by case.            *)
Pushed(n) == braces' = Append(braces, n) /\ matching' = matching
Popped(n) ==
    /\ braces # <<>>
    /\ matching' = Closed({braces[Len(braces)]}, n)
    /\ braces' = SubSeq(braces, 1, Len(braces) - 1)
Emptied(n) ==
    /\ matching' = Closed({braces[k] : k \in DOMAIN braces}, n + 1)
    /\ braces' = <<>>

LEMMA MarkKeepsKind ==
  ASSUME "kind" \in DOMAIN tk, NEW e, NEW m
  PROVE  WithMark(tk, e, m).kind = tk.kind
BY DEF WithMark

LEMMA AddedToken ==
  ASSUME IInv, AddToken
  PROVE  /\ Adds(tk.kind)
         /\ "kind" \in DOMAIN tk'
         /\ pc # "done"
         /\ pc' = "done" <=> tk.kind = EndOfFile
         /\ MatchBraces(Len(tokens) + 1)
<1>1. PICK e, m : tokens' = Append(tokens, WithMark(tk, e, m))
  BY DEF AddToken
<1>2. Adds(tk.kind)
  <2>1. IsSequence(tokens) /\ WithMark(tk, e, m).kind = tk.kind
    BY MarkKeepsKind DEF IInv
  <2> QED
    BY <1>1, <2>1, AppendedIsSequence DEF Adds
<1>3. pc = "token" /\ MatchBraces(Len(tokens) + 1)
  BY DEF AddToken, Ready
<1>4. CASE tk.kind = EndOfFile
  BY <1>4, <1>2, <1>3 DEF AddToken, Reconsider, reading, IInv
<1>5. CASE tk.kind # EndOfFile
  BY <1>5, <1>2, <1>3, FreshHasKind DEF AddToken, Await
<1> QED
  BY <1>4, <1>5

LEMMA BracesOfToken ==
  ASSUME IInv, NEW n, MatchBraces(n)
  PROVE  \/ tk.kind = Open /\ Pushed(n)
         \/ tk.kind = Close /\ Popped(n)
         \/ tk.kind = EndOfFile /\ Emptied(n)
         \/ /\ tk.kind # Open /\ (tk.kind \in {Close, EndOfFile} => braces = <<>>)
            /\ UNCHANGED <<braces, matching>>
BY DistinctKinds DEF MatchBraces, Open, Close, Pushed, Popped, Emptied

(* The openings after the step.                                            *)
LEMMA OpeningsAfter ==
  ASSUME NEW kind, Adds(kind), NEW n, n = Len(tokens)
  PROVE  /\ Openings' = Openings \cup (IF kind = Open THEN {n + 1} ELSE {})
         /\ Openings \subseteq 1..n
         /\ DOMAIN tokens = 1..n /\ DOMAIN tokens' = 1..(n + 1)
<1>1. n \in Nat /\ DOMAIN tokens = 1..n /\ DOMAIN tokens' = 1..(n + 1)
  BY LenProperties DEF Adds, IsSequence
<1>2. \A k \in 1..n : tokens'[k] = tokens[k]
  BY DEF Adds
<1>3. tokens'[n + 1].kind = kind
  BY DEF Adds
<1>4. Openings = {k \in 1..n : tokens[k].kind = Open}
  BY <1>1 DEF Openings, Open
<1>5. Openings' = {k \in 1..(n + 1) : tokens'[k].kind = Open}
  BY <1>1 DEF Openings, Open
<1> QED
  BY <1>1, <1>2, <1>3, <1>4, <1>5

(* A brace of the stack that is still there, and a match that was found.   *)
LEMMA StillOpen ==
  ASSUME NEW kind, Adds(kind), IInv, NEW k \in DOMAIN braces, NEW i, i = braces[k],
         NEW n, n = Len(tokens), NEW depth \in Nat,
         StaysOpen(k), braces'[k] = i, Len(braces') = depth,
         depth = Len(braces) + Step(kind), k <= depth
  PROVE  StaysOpen(k)'
<1>1. n \in Nat /\ i \in 1..n /\ Len(tokens') = n + 1
  BY OpeningsAfter DEF StaysOpen, Adds, IsSequence
<1>2. Len(braces) \in Nat /\ k \in 1..Len(braces)
  BY LenProperties DEF IInv
<1>3. Step(kind) \in {-1, 0, 1}
  BY DEF Step
<1>4. Excess(i, n + 1)' = Excess(i, n) + Step(kind)
  BY <1>1, ExcessOfLast
<1>5. Excess(i, n) = Len(braces) - k + 1 /\ \A j \in i..n : Excess(i, j) > 0
  BY DEF StaysOpen
<1>6. \A j \in i..n : Excess(i, j)' = Excess(i, j)
  BY <1>1, ExcessBefore
<1>7. Excess(i, n + 1)' = depth - k + 1 /\ Excess(i, n + 1)' > 0
  BY <1>2, <1>3, <1>4, <1>5
<1>8. \A j \in i..(n + 1) : Excess(i, j)' > 0
  <2>1. \A j \in i..(n + 1) : j \in i..n \/ j = n + 1
    BY <1>1
  <2> QED
    BY <2>1, <1>5, <1>6, <1>7
<1>9. i \in Openings'
  BY OpeningsAfter DEF StaysOpen
<1> QED
  BY <1>1, <1>7, <1>8, <1>9 DEF StaysOpen

LEMMA StillBalanced ==
  ASSUME NEW kind, Adds(kind), NEW i \in Openings, NEW j, matching[i] = j, matching'[i] = j,
         IsBalanced(i)
  PROVE  IsBalanced(i)'
<1> DEFINE n == Len(tokens)
<1>1. n \in Nat /\ DOMAIN tokens = 1..n /\ DOMAIN tokens' = 1..(n + 1) /\ i \in 1..n
  BY OpeningsAfter DEF Adds, IsSequence
<1>2. j \in 1..n /\ Excess(i, j) = 0 /\ \A k \in i..(j - 1) : Excess(i, k) # 0
  BY <1>1 DEF IsBalanced
<1>3. \A k \in i..j : Excess(i, k)' = Excess(i, k)
  BY <1>1, <1>2, ExcessBefore
<1>4. Excess(i, j)' = 0
  BY <1>1, <1>2, ExcessBefore
<1>5. \A k \in i..(j - 1) : Excess(i, k)' # 0
  BY <1>1, <1>2, <1>3
<1>6. j \in DOMAIN tokens'
  BY <1>1, <1>2
<1> QED
  BY <1>4, <1>5, <1>6 DEF IsBalanced

(* The invariant, part by part, for the step of a token.                   *)
LEMMA KeptByParts ==
  ASSUME IInv, AddToken, braces' \in Seq(Nat),
         Openings' = DOMAIN matching' \cup {braces'[k] : k \in DOMAIN braces'},
         \A k \in DOMAIN braces' : StaysOpen(k)',
         \A i \in DOMAIN matching' : i \in Openings' /\ (IsBalanced(i)' \/ IsLeftOpen(i)'),
         tk.kind = EndOfFile => braces' = <<>>
  PROVE  IInv'
<1>1. IsSequence(tokens') /\ "kind" \in DOMAIN tk' /\ (pc' = "done" => braces' = <<>>)
  BY AddedToken DEF Adds
<1> QED
  BY <1>1 DEF IInv

LEMMA MatchesBefore ==
  ASSUME IInv, AddToken, NEW i \in DOMAIN matching, matching'[i] = matching[i]
  PROVE  i \in Openings' /\ IsBalanced(i)'
<1>1. Adds(tk.kind) /\ i \in Openings /\ IsBalanced(i)
  BY AddedToken DEF IInv, IsLeftOpen
<1> QED
  BY <1>1, StillBalanced, OpeningsAfter

LEMMA OpeningKeeps ==
  ASSUME IInv, AddToken, tk.kind = Open, Pushed(Len(tokens) + 1)
  PROVE  IInv'
<1>0. PICK n, depth : n = Len(tokens) /\ depth = Len(braces)
  OBVIOUS
<1>1. Adds(Open) /\ n \in Nat /\ depth \in Nat /\ Len(tokens') = n + 1
  BY <1>0, AddedToken, LenProperties DEF IInv, Adds, IsSequence
<1>2. /\ braces' \in Seq(Nat) /\ Len(braces') = depth + 1
      /\ DOMAIN braces = 1..depth /\ DOMAIN braces' = 1..(depth + 1)
      /\ \A k \in 1..depth : braces'[k] = braces[k]
      /\ braces'[depth + 1] = n + 1
  BY <1>0, <1>1, AppendProperties, LenProperties DEF Pushed, IInv
<1>3. matching' = matching
  BY DEF Pushed
<1>4. Step(Open) = 1
  BY DEF Step
<1>5. Openings' = Openings \cup {n + 1}
  BY <1>0, <1>1, OpeningsAfter
<1>6. ASSUME NEW k \in 1..depth PROVE StaysOpen(k)'
  <2>1. StaysOpen(k) /\ depth + 1 = Len(braces) + Step(Open)
    BY <1>0, <1>2, <1>4 DEF IInv
  <2>2. k \in DOMAIN braces /\ k <= depth + 1 /\ depth + 1 \in Nat /\ braces'[k] = braces[k]
    BY <1>1, <1>2
  <2> QED
    BY <2>1, <2>2, <1>0, <1>1, <1>2, StillOpen
<1>7. StaysOpen(depth + 1)'
  <2>1. Excess(n + 1, n + 1)' = Excess(n + 1, n) + Step(Open)
    BY <1>0, <1>1, ExcessOfLast
  <2>2. Excess(n + 1, n + 1)' = 1
    BY <2>1, <1>1, <1>4, ExcessOfNone
  <2> QED
    BY <2>2, <1>1, <1>2, <1>5 DEF StaysOpen
<1>8. \A k \in DOMAIN braces' : StaysOpen(k)'
  BY <1>1, <1>2, <1>6, <1>7
<1>9. Openings' = DOMAIN matching' \cup {braces'[k] : k \in DOMAIN braces'}
  <2>1. 1..(depth + 1) = 1..depth \cup {depth + 1}
    BY <1>1
  <2>2. {braces'[k] : k \in DOMAIN braces'} = {braces[k] : k \in DOMAIN braces} \cup {n + 1}
    <3>1. \A k \in 1..depth : braces'[k] = braces[k]
      BY <1>2
    <3>2. {braces'[k] : k \in 1..depth} = {braces[k] : k \in 1..depth}
      BY <3>1
    <3>3. {braces'[k] : k \in 1..depth \cup {depth + 1}}
            = {braces'[k] : k \in 1..depth} \cup {braces'[depth + 1]}
      OBVIOUS
    <3> QED
      BY <1>2, <2>1, <3>2, <3>3, Zenon
  <2>3. Openings = DOMAIN matching \cup {braces[k] : k \in DOMAIN braces}
    BY DEF IInv
  <2> QED
    BY <1>3, <1>5, <2>2, <2>3, Zenon
<1>10. \A i \in DOMAIN matching' : i \in Openings' /\ IsBalanced(i)'
  BY <1>3, MatchesBefore
<1> QED
  BY <1>2, <1>8, <1>9, <1>10, DistinctKinds, KeptByParts

LEMMA ClosingKeeps ==
  ASSUME IInv, AddToken, tk.kind = Close, Popped(Len(tokens) + 1)
  PROVE  IInv'
<1>0. PICK n, depth : n = Len(tokens) /\ depth = Len(braces)
  OBVIOUS
<1>1. Adds(Close) /\ n \in Nat /\ depth \in Nat \ {0} /\ Len(tokens') = n + 1
  BY <1>0, AddedToken, LenProperties, EmptySeq DEF IInv, Adds, IsSequence, Popped
<1>2. /\ braces' \in Seq(Nat) /\ Len(braces') = depth - 1
      /\ DOMAIN braces = 1..depth /\ DOMAIN braces' = 1..(depth - 1)
      /\ \A k \in 1..(depth - 1) : braces'[k] = braces[k]
  BY <1>0, <1>1, SubSeqProperties, LenProperties DEF Popped, IInv
<1>3. PICK last : last = braces[depth]
  OBVIOUS
<1>4. /\ DOMAIN matching' = {last} \cup DOMAIN matching
      /\ \A i \in DOMAIN matching' : matching'[i] = IF i = last THEN n + 1 ELSE matching[i]
  BY <1>0, <1>3 DEF Popped, Closed
<1>5. Openings' = Openings
  BY <1>0, <1>1, DistinctKinds, OpeningsAfter
<1>6. Step(Close) = -1
  BY DistinctKinds DEF Step
<1>7. ASSUME NEW k \in 1..(depth - 1) PROVE StaysOpen(k)'
  <2>1. depth - 1 = Len(braces) + Step(Close) /\ depth - 1 \in Nat
    BY <1>0, <1>1, <1>6
  <2>2. k \in DOMAIN braces /\ k <= depth - 1 /\ braces'[k] = braces[k]
    BY <1>1, <1>2
  <2>3. StaysOpen(k)
    BY <2>2 DEF IInv
  <2> QED
    BY <2>1, <2>2, <2>3, <1>0, <1>1, <1>2, StillOpen
<1>8. last \in Openings' /\ IsBalanced(last)'
  <2>1. /\ last \in Openings /\ last \in 1..n /\ Excess(last, n) = 1
        /\ \A j \in last..n : Excess(last, j) > 0
    <3>1. StaysOpen(depth)
      BY <1>1, <1>2 DEF IInv
    <3> QED
      BY <3>1, <1>0, <1>1, <1>3, OpeningsAfter DEF StaysOpen
  <2>2. Excess(last, n + 1)' = 0
    <3>1. Excess(last, n + 1)' = Excess(last, n) + Step(Close)
      BY <2>1, <1>0, <1>1, ExcessOfLast
    <3> QED
      BY <3>1, <2>1, <1>6
  <2>3. \A j \in last..n : Excess(last, j)' # 0
    <3>1. \A j \in last..n : Excess(last, j)' = Excess(last, j) /\ Excess(last, j) > 0
      BY <2>1, <1>0, <1>1, ExcessBefore
    <3> QED
      BY <3>1
  <2>4. matching'[last] = n + 1 /\ n + 1 \in DOMAIN tokens' /\ (n + 1) - 1 = n
    BY <1>0, <1>1, <1>4, OpeningsAfter
  <2> QED
    BY <2>1, <2>2, <2>3, <2>4, <1>5 DEF IsBalanced
<1>9. \A k \in DOMAIN braces' : StaysOpen(k)'
  BY <1>2, <1>7
<1>10. Openings' = DOMAIN matching' \cup {braces'[k] : k \in DOMAIN braces'}
  <2>1. Openings = DOMAIN matching \cup {braces[k] : k \in 1..depth}
    BY <1>2 DEF IInv
  <2>2. {braces[k] : k \in 1..depth} = {last} \cup {braces'[k] : k \in 1..(depth - 1)}
    BY <1>1, <1>2, <1>3
  <2> QED
    BY <2>1, <2>2, <1>2, <1>4, <1>5
<1>11. \A i \in DOMAIN matching' : i \in Openings' /\ IsBalanced(i)'
  <2>1. ASSUME NEW i \in DOMAIN matching', i # last PROVE i \in Openings' /\ IsBalanced(i)'
    BY <2>1, <1>4, MatchesBefore
  <2> QED
    BY <2>1, <1>8
<1> QED
  BY <1>2, <1>9, <1>10, <1>11, DistinctKinds, KeptByParts

LEMMA EndKeeps ==
  ASSUME IInv, AddToken, tk.kind = EndOfFile, Emptied(Len(tokens) + 1)
  PROVE  IInv'
<1>0. PICK n : n = Len(tokens)
  OBVIOUS
<1>1. Adds(EndOfFile) /\ n \in Nat /\ Len(tokens') = n + 1 /\ pc' = "done"
  BY <1>0, AddedToken DEF IInv, Adds, IsSequence
<1>2. PICK open : open = {braces[k] : k \in DOMAIN braces}
  OBVIOUS
<1>3. /\ DOMAIN matching' = open \cup DOMAIN matching
      /\ \A i \in DOMAIN matching' : matching'[i] = IF i \in open THEN n + 2 ELSE matching[i]
  BY <1>0, <1>1, <1>2 DEF Emptied, Closed
<1>4. Openings' = Openings
  BY <1>0, <1>1, DistinctKinds, OpeningsAfter
<1>5. Step(EndOfFile) = 0
  BY DistinctKinds DEF Step
<1>6. braces' = <<>> /\ DOMAIN braces' = {} /\ braces' \in Seq(Nat)
  BY EmptySeq DEF Emptied
<1>7. ASSUME NEW i \in open PROVE i \in Openings' /\ IsLeftOpen(i)'
  <2>1. PICK k \in DOMAIN braces : i = braces[k]
    BY <1>2, <1>7
  <2>2. Len(braces) \in Nat /\ k \in 1..Len(braces) /\ StaysOpen(k)
    BY <2>1, LenProperties DEF IInv
  <2>3. /\ i \in Openings /\ i \in 1..n /\ Excess(i, n) > 0
        /\ \A j \in i..n : Excess(i, j) > 0
    BY <2>1, <2>2, <1>0, <1>1, OpeningsAfter DEF StaysOpen
  <2>4. Excess(i, n + 1)' > 0
    <3>1. Excess(i, n + 1)' = Excess(i, n) + Step(EndOfFile)
      BY <2>3, <1>0, <1>1, ExcessOfLast
    <3> QED
      BY <3>1, <2>3, <1>1, <1>5, ExcessIsInteger
  <2>5. \A j \in i..n : Excess(i, j)' > 0
    <3>1. \A j \in i..n : Excess(i, j)' = Excess(i, j)
      BY <2>3, <1>0, <1>1, ExcessBefore
    <3> QED
      BY <3>1, <2>3
  <2>6. \A j \in i..(n + 1) : Excess(i, j)' # 0
    <3>1. \A j \in i..(n + 1) : j \in i..n \/ j = n + 1
      BY <1>1, <2>3
    <3> QED
      BY <3>1, <2>4, <2>5
  <2>7. matching'[i] = (n + 1) + 1
    BY <1>1, <1>3, <1>7
  <2> QED
    BY <2>3, <2>6, <2>7, <1>1, <1>4 DEF IsLeftOpen
<1>8. Openings' = DOMAIN matching' \cup {braces'[k] : k \in DOMAIN braces'}
  BY <1>2, <1>3, <1>4, <1>6 DEF IInv
<1>9. ASSUME NEW i \in DOMAIN matching', i \notin open PROVE i \in Openings' /\ IsBalanced(i)'
  BY <1>9, <1>3, MatchesBefore
<1> QED
  BY <1>6, <1>7, <1>8, <1>9, KeptByParts

LEMMA OtherKeeps ==
  ASSUME IInv, AddToken, UNCHANGED <<braces, matching>>,
         tk.kind # Open, tk.kind \in {Close, EndOfFile} => braces = <<>>
  PROVE  IInv'
<1>0. PICK n, depth : n = Len(tokens) /\ depth = Len(braces)
  OBVIOUS
<1>1. Adds(tk.kind) /\ n \in Nat /\ depth \in Nat
  BY <1>0, AddedToken, LenProperties DEF IInv, Adds, IsSequence
<1>2. DOMAIN braces = 1..depth
  BY <1>0, LenProperties DEF IInv
<1>3. Openings' = Openings
  BY <1>0, <1>1, OpeningsAfter
<1>4. ASSUME NEW k \in DOMAIN braces PROVE StaysOpen(k)'
  <2>1. braces # <<>>
    BY <1>4, EmptySeq
  <2>2. Step(tk.kind) = 0
    BY <2>1 DEF Step
  <2>3. StaysOpen(k) /\ depth = Len(braces) + Step(tk.kind) /\ k <= depth
    BY <2>2, <1>0, <1>1, <1>2, <1>4 DEF IInv
  <2> QED
    BY <2>3, <1>0, <1>1, <1>4, StillOpen
<1>5. Openings' = DOMAIN matching' \cup {braces'[k] : k \in DOMAIN braces'}
  BY <1>3 DEF IInv
<1>6. \A i \in DOMAIN matching' : i \in Openings' /\ IsBalanced(i)'
  BY MatchesBefore
<1>7. braces' \in Seq(Nat)
  BY DEF IInv
<1> QED
  BY <1>4, <1>5, <1>6, <1>7, KeptByParts

-----------------------------------------------------------------------------

LEMMA StartEstablishes == ASSUME Start PROVE IInv
<1>1. tokens = <<>> /\ braces = <<>> /\ matching = <<>> /\ tk = Fresh
  BY DEF Start
<1>2. DOMAIN matching = {} /\ DOMAIN braces = {} /\ Openings = {}
  BY <1>1, EmptySeq DEF Openings
<1> QED
  BY <1>1, <1>2, EmptyIsSequence, EmptySeq, FreshHasKind DEF IInv

LEMMA StepsKeep == IInv /\ [Next]_allVars => IInv'
<1> SUFFICES ASSUME IInv, [Next]_allVars PROVE IInv'
  OBVIOUS
<1>1. CASE Blank \/ ReadEndOfText \/ ReadBackslash \/ ReadComment \/ ReadToken
  BY <1>1, ReadingIsQuiet, QuietKeeps DEF IInv
<1>2. CASE \/ Directive \/ DirectiveName \/ DirectiveNumber \/ DirectiveFile \/ DirectiveRest
           \/ Mark \/ SkipToken \/ MarkData \/ GeneratedTokens \/ Colon \/ Column
           \/ KeepComment
  BY <1>2, DirectivesAreQuiet, QuietKeeps DEF IInv
<1>3. CASE AddToken
  <2>1. MatchBraces(Len(tokens) + 1)
    BY <1>3, AddedToken
  <2> QED
    BY <2>1, <1>3, BracesOfToken, OpeningKeeps, ClosingKeeps, EndKeeps, OtherKeeps
<1>4. CASE Unparse
  <2>1. Start'
    BY <1>4 DEF Unparse, Start
  <2> QED
    BY <2>1, StartEstablishes, PTL
<1>5. CASE UNCHANGED allVars
  <2>1. Quiet
    BY <1>5 DEF Quiet, IInv, allVars, vars, tree, reading
  <2> QED
    BY <2>1, QuietKeeps
<1> QED
  BY <1>1, <1>2, <1>3, <1>4, <1>5 DEF Next, Lex

(* The inductive invariant: every opening brace is on the stack, with as    *)
(* many openings left from it on as there are braces above it, or matched.  *)
THEOREM LexerInvariance == Spec => []IInv
<1>1. Init => IInv
  BY StartEstablishes DEF Init
<1> QED
  BY <1>1, StepsKeep, PTL DEF Spec

(* Whatever the text, the match of an opening brace is the closing brace   *)
(* that balances it, or the index past the last token when none does       *)
(* (Lexer.cpp:218).                                                        *)
THEOREM BracesAreMatched == Spec => []BracesMatch
BY LexerInvariance, InvariantImpliesMatch, PTL

-----------------------------------------------------------------------------
(* Where the tokens are: the second inductive invariant, beside the first. *)

Places == {"token", "hash", "number", "file", "rest", "mark", "skip", "data",
           "generated", "colon", "column"}

\* What was read is in the text, and has a character but for the end of the file.
WellRead(token) ==
    /\ token.to \in 1..End /\ token.from \in 1..token.to
    /\ token.from = token.to => token.kind = EndOfFile
    /\ IsSequence(token.kind)
    /\ token.low \in 1..End /\ token.high \in Int

ReadingOK ==
    /\ IsText
    /\ at \in 0..End /\ within \in BOOLEAN /\ lexing \in BOOLEAN
    /\ {"kind", "from", "to", "low", "high"} \subseteq DOMAIN tk
    /\ lexing => tk.from = 0 /\ tk.to = 0
    /\ ~lexing => WellRead(tk) /\ tk.to = at

ControlOK ==
    /\ pc \in Places \cup {"done"} /\ (lexing => pc # "done")
    /\ lineno \in Nat /\ skip \in 0..3 /\ (pc = "skip" => skip # 0)
    /\ IsSequence(expansions) /\ expansionIdx \in 0..Len(expansions)

DiagnosedOK == diagnostics \in Seq(Nat) /\ \A i \in DOMAIN diagnostics : diagnostics[i] <= Len(tokens)

\* The place behind the tokens of the tree: a token that waits to be looked
\* at is not one of them yet.
Reached == IF lexing \/ pc = "done" THEN at ELSE tk.from

PlacedOK ==
    /\ IsSequence(tokens)
    /\ \A i \in DOMAIN tokens :
        /\ WellRead(tokens[i]) /\ tokens[i].to <= Reached
        /\ tokens[i].kind = EndOfFile => pc = "done" /\ i = Len(tokens)
        /\ \A j \in DOMAIN tokens : i < j => tokens[i].to <= tokens[j].from
    /\ pc = "done" => tokens # <<>> /\ tokens[Len(tokens)].kind = EndOfFile

PInv == ReadingOK /\ ControlOK /\ DiagnosedOK /\ PlacedOK

LEMMA TextHasEnd ==
  ASSUME ReadingOK
  PROVE  End \in Nat /\ End >= 1 /\ at \in Nat
BY Terminated DEF ReadingOK

(* The step that returns a token, from what was read.                      *)
LEMMA ReturnIsRead ==
  ASSUME ReadingOK, at >= 1, NEW read, InText(read, at), read.end = at => read.kind = EndOfFile, Return(read),
         UNCHANGED text
  PROVE  /\ at' \in 0..End /\ at' >= at /\ lexing' = FALSE
         /\ {"kind", "from", "to", "low", "high"} \subseteq DOMAIN tk'
         /\ WellRead(tk)' /\ tk'.to = at' /\ tk'.from = at
<1>1. End \in Nat /\ at \in Nat /\ End' = End
  BY TextHasEnd DEF End
<1>2. /\ tk'.kind = read.kind /\ tk'.from = at /\ tk'.to = read.end
      /\ tk'.low = read.low /\ tk'.high = read.high
      /\ {"kind", "from", "to", "low", "high"} \subseteq DOMAIN tk'
  BY DEF Return, ReadingOK
<1>3. at' = read.end /\ lexing' = FALSE
  BY DEF Return
<1>4. read.end \in at..End /\ IsSequence(read.kind) /\ read.low \in 1..End /\ read.high \in Int
  BY DEF InText
<1>5. WellRead(tk)'
  <2>1. /\ tk'.to \in 1..End /\ tk'.from \in 1..tk'.to /\ (tk'.from = tk'.to => tk'.kind = EndOfFile)
        /\ IsSequence(tk'.kind) /\ tk'.low \in 1..End /\ tk'.high \in Int
    BY <1>1, <1>2, <1>4
  <2> QED
    BY <1>1, <2>1 DEF WellRead
<1> QED
  BY <1>1, <1>2, <1>3, <1>4, <1>5

(* The steps of yylex_core: further on in the text, or to a token.         *)
Further ==
    /\ at' \in at..End /\ within' \in BOOLEAN
    /\ {"kind", "from", "to", "low", "high"} \subseteq DOMAIN tk'
    /\ \/ lexing' = lexing /\ tk'.from = tk.from /\ tk'.to = tk.to
       \/ lexing' = FALSE /\ WellRead(tk)' /\ tk'.to = at' /\ tk'.from = at

LEMMA ReturnGoesFurther ==
  ASSUME ReadingOK, at >= 1, NEW read, InText(read, at), read.end = at => read.kind = EndOfFile,
         Return(read), UNCHANGED text, within' \in BOOLEAN
  PROVE  Further
<1>1. /\ at' \in 0..End /\ at' >= at /\ lexing' = FALSE
      /\ {"kind", "from", "to", "low", "high"} \subseteq DOMAIN tk'
      /\ WellRead(tk)' /\ tk'.to = at' /\ tk'.from = at
  BY ReturnIsRead
<1>2. at' \in at..End
  BY <1>1, TextHasEnd
<1> QED
  BY <1>1, <1>2 DEF Further

LEMMA BlankGoesFurther == ASSUME ReadingOK, Blank PROVE Further
<1>1. End \in Nat /\ at \in Nat /\ at < End
  <2>1. End \in Nat /\ at \in Nat /\ Char(at) # NUL
    BY TextHasEnd, TerminatorIsNothing DEF Blank
  <2> QED
    BY <2>1, Terminated DEF ReadingOK
<1>2. at' \in at..End /\ lexing' = lexing
  BY <1>1 DEF Blank
<1>3. within' \in BOOLEAN
  BY DEF Blank, ReadingOK
<1>4. /\ {"kind", "from", "to", "low", "high"} \subseteq DOMAIN tk'
      /\ tk'.from = tk.from /\ tk'.to = tk.to
  BY DEF Blank, ReadingOK
<1> QED
  BY <1>2, <1>3, <1>4 DEF Further

LEMMA BackslashGoesFurther == ASSUME ReadingOK, ReadBackslash PROVE Further
<1>1. End \in Nat /\ at \in Nat /\ at < End
  <2>1. End \in Nat /\ at \in Nat /\ Char(at) # NUL
    BY TextHasEnd DEF ReadBackslash, NUL
  <2> QED
    BY <2>1, Terminated DEF ReadingOK
<1>2. at' \in at..End /\ lexing' = lexing /\ within' \in BOOLEAN /\ tk' = tk
  BY <1>1 DEF ReadBackslash
<1> QED
  BY <1>2 DEF Further, ReadingOK

LEMMA EndGoesFurther == ASSUME ReadingOK, ReadEndOfText PROVE Further
<1> DEFINE read == Read(EndOfFile, at, at, at)
<1>1. /\ End \in Nat /\ at \in Nat /\ at \in 0..End /\ Char(at) = NUL /\ UNCHANGED text
      /\ within' \in BOOLEAN
  BY TextHasEnd DEF ReadEndOfText, ReadingOK
<1>2. at >= 1
  <2>1. "\n" # NUL
    BY DEF NUL
  <2>2. at # 0
    BY <1>1, <2>1 DEF Char
  <2> QED
    BY <1>1, <2>2
<1>3. at \in at..End /\ at \in 1..End /\ at \in Int
  BY <1>1, <1>2
<1>4. InText(read, at) /\ read.kind = EndOfFile
  BY <1>3, KindsOfLiterals, ReadInText DEF Read
<1>5. Return(read)
  BY DEF ReadEndOfText
<1>6. read.end = at => read.kind = EndOfFile
  BY <1>4
<1> HIDE DEF read
<1> QED
  BY <1>1, <1>2, <1>4, <1>5, <1>6, ReturnGoesFurther

LEMMA CommentGoesFurther == ASSUME ReadingOK, ReadComment PROVE Further
<1> DEFINE read == IF Char(at + 1) = "/" THEN LineCommentAt(at + 2) ELSE BlockCommentAt(at + 2)
<1>1. End \in Nat /\ at \in Nat /\ at >= 1 /\ UNCHANGED text /\ within' \in BOOLEAN
  <2>1. Char(at) = "/" /\ at \in Nat /\ End \in Nat
    BY TextHasEnd DEF ReadComment, AtComment
  <2>2. at # 0
    BY <2>1 DEF Char
  <2>3. UNCHANGED text /\ within' \in BOOLEAN
    BY DEF ReadComment
  <2> QED
    BY <2>1, <2>2, <2>3
<1>2. at + 2 \in 1..End
  <2>1. at + 1 \in Nat /\ Char(at + 1) # NUL
    BY <1>1 DEF ReadComment, AtComment, NUL
  <2>2. at + 1 < End
    BY <2>1, Terminated DEF ReadingOK
  <2> QED
    BY <1>1, <2>2
<1>3. InText(read, at + 2)
  BY <1>2, LineCommentInText, BlockCommentInText DEF ReadingOK
<1>4. \/ Return(read)
      \/ at' = read.end /\ UNCHANGED <<lexing, tk>>
  BY DEF ReadComment
<1> HIDE DEF read
<1>5. InText(read, at) /\ read.end \in at..End /\ read.end # at
  BY <1>1, <1>2, <1>3 DEF InText
<1>6. CASE Return(read)
  BY <1>1, <1>5, <1>6, ReturnGoesFurther
<1>7. CASE at' = read.end /\ UNCHANGED <<lexing, tk>>
  BY <1>1, <1>5, <1>7 DEF Further, ReadingOK
<1> QED
  BY <1>4, <1>6, <1>7

LEMMA TokenGoesFurther == ASSUME ReadingOK, ReadToken PROVE Further
<1>1. End \in Nat /\ at \in Nat /\ at >= 1 /\ at < End /\ UNCHANGED text /\ within' \in BOOLEAN
  <2>1. Char(at) \notin Blanks /\ Char(at) # NUL /\ at \in Nat /\ End \in Nat
    BY TextHasEnd DEF ReadToken
  <2>2. at # 0
    BY <2>1 DEF Char, Blanks
  <2>3. at < End
    BY <2>1, Terminated DEF ReadingOK
  <2>4. UNCHANGED text /\ within' \in BOOLEAN
    BY DEF ReadToken
  <2> QED
    BY <2>1, <2>2, <2>3, <2>4
<1>2. InText(TokenAt(at), at + 1)
  BY <1>1, TokenInText DEF ReadingOK
<1>3. Return(TokenAt(at))
  BY DEF ReadToken
<1>4. PICK read : read = TokenAt(at)
  OBVIOUS
<1>5. InText(read, at) /\ read.end \in at..End /\ read.end # at /\ Return(read)
  BY <1>1, <1>2, <1>3, <1>4 DEF InText
<1> QED
  BY <1>1, <1>5, ReturnGoesFurther

-----------------------------------------------------------------------------
(* The invariant through the steps of yylex_core.                          *)

LEMMA PlacedByQuiet ==
  ASSUME PlacedOK, UNCHANGED <<tokens, text>>, pc' = "done" <=> pc = "done",
         Reached' \in Int, Reached \in Int, Reached' >= Reached, End \in Nat
  PROVE  PlacedOK'
<1>1. End' = End
  BY DEF End
<1>2. \A i \in DOMAIN tokens : WellRead(tokens[i])'
  BY <1>1 DEF PlacedOK, WellRead
<1>3. \A i \in DOMAIN tokens : tokens[i].to <= Reached'
  <2>1. \A i \in DOMAIN tokens : tokens[i].to \in Int /\ tokens[i].to <= Reached
    BY DEF PlacedOK, WellRead
  <2> QED
    BY <2>1
<1> QED
  BY <1>2, <1>3 DEF PlacedOK

LEMMA ReadingKeeps ==
  ASSUME PInv, Blank \/ ReadEndOfText \/ ReadBackslash \/ ReadComment \/ ReadToken
  PROVE  PInv'
<1>1. Further /\ lexing
  BY BlankGoesFurther, BackslashGoesFurther, EndGoesFurther, CommentGoesFurther, TokenGoesFurther
     DEF PInv, Blank, ReadEndOfText, ReadBackslash, ReadComment, ReadToken
<1>2. UNCHANGED <<text, pc, lineno, skip, expansions, expansionIdx, tokens>>
  BY DEF Blank, ReadEndOfText, ReadBackslash, ReadComment, ReadToken, marking, tree
<1>3. End' = End /\ End \in Nat /\ at \in Nat /\ at \in 0..End /\ at' \in Nat
  BY <1>1, <1>2, TextHasEnd DEF End, PInv, ReadingOK, Further
<1>4. ReadingOK'
  <2>1. IsText' /\ at' \in 0..End' /\ within' \in BOOLEAN
    BY <1>1, <1>2, <1>3 DEF PInv, ReadingOK, IsText, Further
  <2>2. /\ {"kind", "from", "to", "low", "high"} \subseteq DOMAIN tk' /\ lexing' \in BOOLEAN
        /\ lexing' => tk'.from = 0 /\ tk'.to = 0
        /\ ~lexing' => WellRead(tk)' /\ tk'.to = at'
    BY <1>1 DEF PInv, ReadingOK, Further
  <2> QED
    BY <2>1, <2>2 DEF ReadingOK
<1>5. ControlOK'
  BY <1>1, <1>2 DEF PInv, ControlOK, Further
<1>6. DiagnosedOK'
  <2>1. CASE UNCHANGED diagnostics
    BY <2>1, <1>2 DEF PInv, DiagnosedOK
  <2>2. CASE ReadToken /\ diagnostics' # diagnostics
    <3> DEFINE lacks == Incompatibilities(TokenAt(at))
               more == [i \in 1..Cardinality(lacks) |-> Len(tokens)]
    <3>1. IsFiniteSet(lacks)
      <4>1. /\ IsFiniteSet({"IncompatibleLanguageDialect"})
            /\ IsFiniteSet({"IncompatibleLanguageExtension"})
        BY FS_Singleton
      <4>2. IsFiniteSet({"IncompatibleLanguageDialect"} \cup {"IncompatibleLanguageExtension"})
        BY <4>1, FS_Union
      <4>3. lacks \subseteq {"IncompatibleLanguageDialect"} \cup {"IncompatibleLanguageExtension"}
        BY DEF Incompatibilities
      <4> QED
        BY <4>2, <4>3, FS_Subset
    <3>2. Cardinality(lacks) \in Nat
      BY <3>1, FS_CardinalityType
    <3>3. diagnostics' = diagnostics \o more
      BY <2>2 DEF ReadToken
    <3>4. Len(tokens) \in Nat
      BY DEF PInv, PlacedOK, IsSequence
    <3> DEFINE B == 0..Len(tokens)
    <3>5. diagnostics \in Seq(B)
      <4>1. Len(diagnostics) \in Nat /\ \A i \in 1..Len(diagnostics) : diagnostics[i] \in B
        BY <3>4 DEF PInv, DiagnosedOK
      <4>2. diagnostics \in [1..Len(diagnostics) -> B]
        BY <4>1 DEF PInv, DiagnosedOK
      <4> QED
        BY <4>1, <4>2
    <3>6. more \in Seq(B)
      <4> HIDE DEF lacks
      <4>1. more \in [1..Cardinality(lacks) -> B]
        BY <3>4
      <4> QED
        BY <3>2, <4>1
    <3> HIDE DEF more, B
    <3>7. diagnostics' \in Seq(B)
      BY <3>3, <3>5, <3>6
    <3>8. diagnostics' \in Seq(Nat) /\ \A i \in DOMAIN diagnostics' : diagnostics'[i] \in B
      BY <3>4, <3>7 DEF B
    <3>9. \A i \in DOMAIN diagnostics' : diagnostics'[i] <= Len(tokens')
      BY <1>2, <3>4, <3>8 DEF B
    <3> QED
      BY <3>8, <3>9 DEF DiagnosedOK
  <2>3. CASE ~ReadToken
    <3>1. UNCHANGED diagnostics
      BY <2>3 DEF Blank, ReadEndOfText, ReadBackslash, ReadComment
    <3> QED
      BY <2>1, <3>1
  <2> QED
    BY <2>1, <2>2, <2>3
<1>7. PlacedOK'
  <2>1. Reached = at /\ Reached \in Int
    BY <1>1, <1>3 DEF Reached
  <2>2. lexing' \in BOOLEAN /\ pc # "done" /\ pc' = pc
    BY <1>1, <1>2, <1>4 DEF PInv, ControlOK, ReadingOK
  <2>3. Reached' \in Int /\ Reached' >= Reached
    <3>1. CASE lexing' = lexing
      <4>1. Reached' = at' /\ at' \in at..End
        BY <1>1, <3>1 DEF Reached, Further
      <4> QED
        BY <1>3, <2>1, <4>1
    <3>2. CASE lexing' # lexing
      <4>1. Reached' = at
        BY <1>1, <2>2, <3>2 DEF Reached, Further
      <4> QED
        BY <1>3, <2>1, <4>1
    <3> QED
      BY <3>1, <3>2
  <2> QED
    BY <1>2, <1>3, <2>1, <2>2, <2>3, PlacedByQuiet DEF PInv
<1> QED
  BY <1>4, <1>5, <1>6, <1>7 DEF PInv

-----------------------------------------------------------------------------
(* The invariant through the steps of lex() that add no token.             *)

LEMMA NumeralsAreDigits ==
  ASSUME NEW c \in Digits
  PROVE  (CHOOSE n \in 0..9 : Numerals[n + 1] = c) \in 0..9
<1>1. \E k \in 1..10 : Numerals[k] = c
  <2>1. /\ Numerals[1] = "0" /\ Numerals[2] = "1" /\ Numerals[3] = "2" /\ Numerals[4] = "3"
        /\ Numerals[5] = "4" /\ Numerals[6] = "5" /\ Numerals[7] = "6" /\ Numerals[8] = "7"
        /\ Numerals[9] = "8" /\ Numerals[10] = "9"
    BY DEF Numerals
  <2> HIDE DEF Numerals
  <2>2. 1 \in 1..10 /\ 2 \in 1..10 /\ 3 \in 1..10 /\ 4 \in 1..10 /\ 5 \in 1..10 /\ 6 \in 1..10
        /\ 7 \in 1..10 /\ 8 \in 1..10 /\ 9 \in 1..10 /\ 10 \in 1..10
    OBVIOUS
  <2> QED
    BY <2>1, <2>2, Zenon DEF Digits
<1>2. PICK k \in 1..10 : Numerals[k] = c
  BY <1>1
<1>3. k - 1 \in 0..9 /\ (k - 1) + 1 = k
  OBVIOUS
<1> QED
  BY <1>2, <1>3

(* The number that a token spells is a number.                             *)
LEMMA ValueIsNatural ==
  ASSUME ReadingOK, ~lexing
  PROVE  Value \in Nat
<1> DEFINE base == IF Char(tk.low) = "0" THEN 8 ELSE 10
           chars == IF base = 8 THEN Octals ELSE Digits
           last == Skip(chars, tk.low) - 1
           digit(c) == CHOOSE n \in 0..9 : Numerals[n + 1] = c
           Reads(f) == f = [j \in (tk.low - 1)..last |->
                                IF j < tk.low THEN 0 ELSE base * f[j - 1] + digit(text[j])]
           read == CHOOSE f : Reads(f)
           m == tk.low - 1
           step == [j \in (m + 1)..last |-> [v \in Nat |-> base * v + digit(text[j])]]
<1>1. Value = IF tk.kind = IntegerConstant THEN read[last] ELSE 0
  BY DEF Value
<1>2. /\ End \in Nat /\ tk.low \in 1..End /\ tk.low \in 0..End /\ End = Len(text) + 1
      /\ Len(text) \in Nat
  BY TextHasEnd DEF ReadingOK, WellRead, End, IsText, IsSequence
<1>3. NUL \notin chars /\ chars \subseteq Digits
  <2>1. NUL \notin Octals /\ NUL \notin Digits /\ Octals \subseteq Digits
    BY TerminatorIsNothing DEF Octals
  <2> QED
    BY <2>1
<1>4. base \in Nat
  OBVIOUS
<1> HIDE DEF base, chars
<1>5. last \in m..(End - 1) /\ \A j \in tk.low..last : Char(j) \in Digits
  <2>1. /\ Skip(chars, tk.low) \in tk.low..End
        /\ \A j \in tk.low..(Skip(chars, tk.low) - 1) : Char(j) \in chars
    BY <1>2, <1>3, SkipStays DEF ReadingOK
  <2> HIDE DEF m
  <2>2. last \in (tk.low - 1)..(End - 1)
    BY <1>2, <2>1
  <2> QED
    BY <1>3, <2>1, <2>2 DEF m
<1>6. m \in Nat /\ last \in Nat /\ m <= last /\ m + 1 = tk.low
  BY <1>2, <1>5
<1>7. \A j \in (m + 1)..last : digit(text[j]) \in Nat
  <2> TAKE j \in (m + 1)..last
  <2>1. j \in tk.low..last /\ j # 0 /\ j < End
    BY <1>2, <1>5, <1>6
  <2>2. text[j] \in Digits
    BY <1>5, <2>1 DEF Char
  <2>3. digit(text[j]) \in 0..9
    BY <2>2, NumeralsAreDigits
  <2> HIDE DEF digit
  <2> QED
    BY <2>3
<1> HIDE DEF digit, last, m
<1>8. \A j \in (m + 1)..last : \A v \in Nat : step[j][v] = base * v + digit(text[j])
                                           /\ step[j][v] \in Nat
  BY <1>4, <1>7
<1>9. PICK f : IsRecursion(f, m, last, Nat, 0, step)
  <2> HIDE DEF step
  <2>1. StepsStay(step, m, last, Nat)
    BY <1>8 DEF StepsStay
  <2> QED
    BY <1>6, <2>1, RecursionIsDefined
<1>10. Reads(f)
  <2>1. \A j \in m..last : f[j] = IF j < tk.low THEN 0 ELSE base * f[j - 1] + digit(text[j])
    <3> TAKE j \in m..last
    <3>1. CASE j = m
      BY <3>1, <1>6, <1>9 DEF IsRecursion
    <3>2. CASE j # m
      <4>1. j \in (m + 1)..last /\ ~(j < tk.low) /\ j - 1 \in m..last
        BY <3>2, <1>2, <1>6
      <4>2. f[j - 1] \in Nat
        BY <4>1, <1>9 DEF IsRecursion
      <4> HIDE DEF step
      <4>3. f[j] = base * f[j - 1] + digit(text[j])
        BY <4>1, <4>2, <1>8, <1>9 DEF IsRecursion
      <4> QED
        BY <4>1, <4>3
    <3> QED
      BY <3>1, <3>2
  <2> HIDE DEF step
  <2>2. f = [j \in m..last |-> f[j]]
    BY <1>9 DEF IsRecursion
  <2> QED
    BY <2>1, <2>2 DEF m
<1>11. Reads(read)
  <2> HIDE DEF Reads
  <2> QED
    BY <1>10
<1>12. \A j \in m..last : read[j] = IF j < tk.low THEN 0 ELSE base * read[j - 1] + digit(text[j])
  <2>1. read = [j \in m..last |-> IF j < tk.low THEN 0 ELSE base * read[j - 1] + digit(text[j])]
    BY <1>11 DEF m
  <2> HIDE DEF read
  <2> QED
    BY <2>1
<1> HIDE DEF read, Reads, step
<1>13. read[m] \in Nat
  BY <1>2, <1>6, <1>12
<1>14. \A j \in (m + 1)..last : read[j - 1] \in Nat => read[j] \in Nat
  <2> TAKE j \in (m + 1)..last
  <2> HAVE read[j - 1] \in Nat
  <2>1. j \in m..last /\ ~(j < tk.low)
    BY <1>2, <1>6
  <2> QED
    BY <2>1, <1>4, <1>7, <1>12
<1>15. \A j \in m..last : read[j] \in Nat
  BY <1>6, <1>13, <1>14, RecursionStays
<1> QED
  BY <1>1, <1>6, <1>15

LEMMA ReachedByWaiting ==
  ASSUME PInv, ~lexing, pc # "done", NEW place \in Places, Await(place) \/ Reconsider(place)
  PROVE  /\ ReadingOK' /\ pc' = place /\ pc' # "done" /\ End \in Nat /\ UNCHANGED text
         /\ Reached \in Int /\ Reached' \in Int /\ Reached' >= Reached
<1>1. pc' = place /\ place # "done" /\ UNCHANGED <<text, at, within>> /\ End' = End /\ End \in Nat
  BY TextHasEnd DEF Await, Reconsider, reading, Places, End, PInv
<1>2. Reached = tk.from /\ tk.from \in 1..tk.to /\ tk.to = at /\ at \in 1..End
  BY DEF Reached, PInv, ReadingOK, WellRead
<1>3. CASE Await(place)
  <2>1. lexing' = TRUE /\ tk' = Fresh
    BY <1>3 DEF Await
  <2>2. /\ {"kind", "from", "to", "low", "high"} \subseteq DOMAIN tk'
        /\ tk'.from = 0 /\ tk'.to = 0
    BY <2>1 DEF Fresh
  <2>3. ReadingOK'
    BY <1>1, <2>1, <2>2 DEF PInv, ReadingOK, IsText
  <2>4. Reached' = at
    BY <1>1, <2>1 DEF Reached
  <2> QED
    BY <1>1, <1>2, <2>3, <2>4
<1>4. CASE Reconsider(place)
  <2>1. UNCHANGED <<lexing, tk>>
    BY <1>4 DEF Reconsider, reading
  <2>2. WellRead(tk)'
    BY <1>1, <2>1 DEF WellRead, PInv, ReadingOK
  <2>3. ReadingOK'
    BY <1>1, <2>1, <2>2 DEF PInv, ReadingOK, IsText
  <2>4. Reached' = Reached
    BY <1>1, <2>1 DEF Reached
  <2> QED
    BY <1>1, <1>2, <2>3, <2>4
<1> QED
  BY <1>3, <1>4

LEMMA WaitingKeeps ==
  ASSUME PInv, ~lexing, pc # "done", NEW place \in Places, Await(place) \/ Reconsider(place),
         UNCHANGED <<tokens, diagnostics>>,
         lineno' \in Nat, skip' \in 0..3, place = "skip" => skip' # 0,
         IsSequence(expansions'), expansionIdx' \in 0..Len(expansions')
  PROVE  PInv'
<1>1. /\ ReadingOK' /\ pc' = place /\ pc' # "done" /\ End \in Nat /\ UNCHANGED text
      /\ Reached \in Int /\ Reached' \in Int /\ Reached' >= Reached
  BY ReachedByWaiting
<1>2. ControlOK'
  BY <1>1 DEF ControlOK
<1>3. DiagnosedOK'
  BY DEF PInv, DiagnosedOK
<1>4. PlacedOK'
  BY <1>1, PlacedByQuiet DEF PInv
<1> QED
  BY <1>1, <1>2, <1>3, <1>4 DEF PInv

(* The steps that leave alone what is counted.                             *)
Idle == UNCHANGED <<tokens, diagnostics, expansions, expansionIdx, skip, lineno>>

LEMMA IdleKeeps ==
  ASSUME PInv, ~lexing, pc # "done", Idle,
         NEW place \in Places, place # "skip", Await(place) \/ Reconsider(place)
  PROVE  PInv'
<1>1. UNCHANGED <<tokens, diagnostics, expansions, expansionIdx, skip, lineno>>
  BY DEF Idle
<1>2. /\ lineno \in Nat /\ skip \in 0..3
      /\ IsSequence(expansions) /\ expansionIdx \in 0..Len(expansions)
  BY DEF PInv, ControlOK
<1>3. /\ lineno' \in Nat /\ skip' \in 0..3
      /\ IsSequence(expansions') /\ expansionIdx' \in 0..Len(expansions')
  BY <1>1, <1>2
<1> QED
  BY <1>1, <1>3, WaitingKeeps

LEMMA IdleDirectivesKeep ==
  ASSUME PInv, Directive \/ DirectiveName \/ DirectiveFile \/ DirectiveRest \/ Colon \/ KeepComment
  PROVE  PInv'
<1>1. ~lexing /\ pc # "done" /\ Idle
  BY DEF Directive, DirectiveName, DirectiveFile, DirectiveRest, Colon, KeepComment, Ready, marking,
         tree, Idle
<1>2. \E place \in Places \ {"skip"} : Await(place) \/ Reconsider(place)
  BY DEF Directive, DirectiveName, DirectiveFile, DirectiveRest, Colon, KeepComment, Places
<1> QED
  BY <1>1, <1>2, IdleKeeps

LEMMA NumbersKeep ==
  ASSUME PInv, DirectiveNumber \/ MarkData
  PROVE  PInv'
<1>1. ~lexing /\ pc # "done" /\ UNCHANGED <<tokens, diagnostics, expansions, expansionIdx, skip>>
  BY DEF DirectiveNumber, MarkData, Ready, marking, tree
<1>2. \E place \in Places \ {"skip"} : Await(place) \/ Reconsider(place)
  BY DEF DirectiveNumber, MarkData, Places
<1>3. lineno' = lineno \/ lineno' = Value
  BY DEF DirectiveNumber, MarkData
<1>4. Value \in Nat
  BY <1>1, ValueIsNatural DEF PInv
<1>5. /\ lineno \in Nat /\ skip \in 0..3
      /\ IsSequence(expansions) /\ expansionIdx \in 0..Len(expansions)
  BY DEF PInv, ControlOK
<1>6. lineno' \in Nat
  BY <1>3, <1>4, <1>5
<1>7. skip' \in 0..3 /\ IsSequence(expansions') /\ expansionIdx' \in 0..Len(expansions')
  BY <1>1, <1>5
<1> QED
  BY <1>1, <1>2, <1>6, <1>7, WaitingKeeps

LEMMA MarkKeeps ==
  ASSUME PInv, Mark
  PROVE  PInv'
<1>1. ~lexing /\ pc # "done" /\ UNCHANGED <<tokens, diagnostics, lineno>>
  BY DEF Mark, Ready, tree
<1>2. /\ lineno \in Nat /\ skip \in 0..3
      /\ IsSequence(expansions) /\ expansionIdx \in 0..Len(expansions)
  BY DEF PInv, ControlOK
<1>3. CASE IsWord("begin")
  <2>1. /\ Await("skip") /\ skip' = 3 /\ UNCHANGED <<expansions, expansionIdx>>
        /\ "skip" \in Places
    <3>1. ~IsWord("end")
      BY <1>3 DEF IsWord
    <3> QED
      BY <1>3, <3>1 DEF Mark, Places
  <2>2. skip' \in 0..3 /\ skip' # 0
    BY <2>1
  <2>3. lineno' \in Nat /\ IsSequence(expansions') /\ expansionIdx' \in 0..Len(expansions')
    BY <1>1, <1>2, <2>1
  <2> QED
    BY <1>1, <2>1, <2>2, <2>3, WaitingKeeps
<1>4. CASE IsWord("end") /\ ~IsWord("begin")
  <2>1. /\ Await("token") /\ expansions' = <<>> /\ expansionIdx' = 0 /\ UNCHANGED skip
        /\ "token" \in Places
    BY <1>4 DEF Mark, Places
  <2>2. IsSequence(expansions') /\ expansionIdx' \in 0..Len(expansions')
    BY <2>1, EmptyIsSequence
  <2>3. lineno' \in Nat /\ skip' \in 0..3
    BY <1>1, <1>2, <2>1
  <2> QED
    BY <1>1, <2>1, <2>2, <2>3, WaitingKeeps
<1>5. CASE ~IsWord("end") /\ ~IsWord("begin")
  <2>1. Reconsider("token") /\ UNCHANGED marking /\ "token" \in Places
    BY <1>5 DEF Mark, Places
  <2>2. Idle
    BY <1>1, <2>1 DEF Idle, marking
  <2> QED
    BY <1>1, <2>1, <2>2, IdleKeeps
<1> QED
  BY <1>3, <1>4, <1>5

LEMMA SkippingKeeps ==
  ASSUME PInv, SkipToken
  PROVE  PInv'
<1>1. /\ ~lexing /\ pc = "skip"
      /\ UNCHANGED <<tokens, diagnostics, lineno, expansions, expansionIdx>> /\ skip' = skip - 1
  BY DEF SkipToken, Ready, tree
<1>2. /\ lineno \in Nat /\ skip \in 1..3
      /\ IsSequence(expansions) /\ expansionIdx \in 0..Len(expansions)
  BY <1>1 DEF PInv, ControlOK
<1>3. /\ lineno' \in Nat /\ skip' \in 0..3
      /\ IsSequence(expansions') /\ expansionIdx' \in 0..Len(expansions')
  BY <1>1, <1>2
<1>4. PICK place \in {"data", "skip"} : Await(place) /\ (place = "skip" => skip # 1)
  BY DEF SkipToken
<1>5. place \in Places /\ (place = "skip" => skip' # 0)
  BY <1>1, <1>2, <1>4 DEF Places
<1> QED
  BY <1>1, <1>3, <1>4, <1>5, WaitingKeeps

LEMMA ExpansionsKeep ==
  ASSUME PInv, GeneratedTokens \/ Column
  PROVE  PInv'
<1>1. /\ ~lexing /\ pc # "done" /\ UNCHANGED <<tokens, diagnostics, lineno, skip, expansionIdx>>
      /\ Await("data") /\ "data" \in Places
  BY DEF GeneratedTokens, Column, Ready, tree, Places
<1>2. /\ lineno \in Nat /\ skip \in 0..3
      /\ IsSequence(expansions) /\ expansionIdx \in 0..Len(expansions)
  BY DEF PInv, ControlOK
<1>3. Value \in Nat
  BY <1>1, ValueIsNatural DEF PInv
<1>4. IsSequence(expansions') /\ Len(expansions') \in Nat /\ Len(expansions') >= Len(expansions)
  <2>1. CASE GeneratedTokens
    <3> DEFINE more == [i \in 1..Value |-> Generated]
               S == {expansions[k] : k \in 1..Len(expansions)} \cup {Generated}
    <3>1. expansions \in Seq(S)
      <4>1. expansions \in Seq({expansions[k] : k \in 1..Len(expansions)})
        BY <1>2 DEF IsSequence
      <4>2. {expansions[k] : k \in 1..Len(expansions)} \subseteq S
        OBVIOUS
      <4> HIDE DEF S
      <4> QED
        BY <4>1, <4>2, SeqMonotonic
    <3>2. more \in Seq(S) /\ Len(more) = Value
      <4>1. more \in [1..Value -> S]
        OBVIOUS
      <4> HIDE DEF S
      <4> QED
        BY <1>3, <4>1
    <3>3. expansions' = expansions \o more
      BY <2>1 DEF GeneratedTokens
    <3> HIDE DEF more, S
    <3>4. expansions' \in Seq(S) /\ Len(expansions') = Len(expansions) + Value
      BY <3>1, <3>2, <3>3, ConcatProperties
    <3>5. IsSequence(expansions')
      BY <3>4, InSeqIsSequence
    <3> QED
      BY <1>2, <1>3, <3>4, <3>5 DEF IsSequence
  <2>2. CASE Column
    <3>1. PICK e : expansions' = Append(expansions, e)
      BY <2>2 DEF Column
    <3>2. IsSequence(expansions') /\ Len(expansions') = Len(expansions) + 1
      BY <1>2, <3>1, AppendedIsSequence
    <3> QED
      BY <1>2, <3>2 DEF IsSequence
  <2> QED
    BY <2>1, <2>2
<1>5. expansionIdx' \in 0..Len(expansions')
  BY <1>1, <1>2, <1>4 DEF IsSequence
<1>6. lineno' \in Nat /\ skip' \in 0..3
  BY <1>1, <1>2
<1> QED
  BY <1>1, <1>4, <1>5, <1>6, WaitingKeeps

-----------------------------------------------------------------------------
(* The invariant through the step that adds a token.                       *)

LEMMA TokenAdded ==
  ASSUME PInv, AddToken
  PROVE  /\ IsSequence(tokens') /\ Len(tokens') = Len(tokens) + 1
         /\ DOMAIN tokens = 1..Len(tokens) /\ DOMAIN tokens' = 1..(Len(tokens) + 1)
         /\ \A k \in 1..Len(tokens) : tokens'[k] = tokens[k]
         /\ WellRead(tokens'[Len(tokens) + 1])
         /\ tokens'[Len(tokens) + 1].kind = tk.kind
         /\ tokens'[Len(tokens) + 1].from = tk.from
         /\ tokens'[Len(tokens) + 1].to = tk.to
<1>1. PICK e, m : tokens' = Append(tokens, WithMark(tk, e, m))
  BY DEF AddToken
<1>2. PICK token : token = WithMark(tk, e, m)
  OBVIOUS
<1>3. /\ token.kind = tk.kind /\ token.from = tk.from /\ token.to = tk.to
      /\ token.low = tk.low /\ token.high = tk.high
  BY <1>2 DEF WithMark, PInv, ReadingOK
<1>4. ~lexing /\ WellRead(tk)
  BY DEF AddToken, Ready, PInv, ReadingOK
<1>5. WellRead(token)
  BY <1>3, <1>4 DEF WellRead
<1>6. IsSequence(tokens)
  BY DEF PInv, PlacedOK
<1>7. DOMAIN tokens = 1..Len(tokens)
  BY <1>6, LenProperties DEF IsSequence
<1> QED
  BY <1>1, <1>2, <1>3, <1>5, <1>6, <1>7, AppendedIsSequence

LEMMA AddingKeeps ==
  ASSUME PInv, AddToken
  PROVE  PInv'
<1>1. /\ ~lexing /\ pc = "token" /\ pc # "done"
      /\ UNCHANGED <<lineno, skip, expansions, diagnostics>>
  BY DEF AddToken, Ready
<1>2. PICK n : n = Len(tokens)
  OBVIOUS
<1>3. n \in Nat /\ IsSequence(expansions) /\ expansionIdx \in 0..Len(expansions) /\ Len(expansions) \in Nat
  BY <1>2 DEF PInv, PlacedOK, ControlOK, IsSequence
<1>4. expansionIdx' \in 0..Len(expansions')
  BY <1>1, <1>3 DEF AddToken
<1>5. /\ WellRead(tk) /\ tk.to = at /\ Reached = tk.from /\ End \in Nat
      /\ \A i \in DOMAIN tokens : /\ WellRead(tokens[i]) /\ tokens[i].to <= tk.from
                                  /\ tokens[i].kind # EndOfFile
                                  /\ \A j \in DOMAIN tokens : i < j => tokens[i].to <= tokens[j].from
  BY <1>1, TextHasEnd DEF PInv, ReadingOK, PlacedOK, Reached
<1>6. /\ ReadingOK' /\ ControlOK' /\ Reached' = at /\ UNCHANGED text
      /\ pc' = "done" <=> tk.kind = EndOfFile
  <2>1. CASE tk.kind = EndOfFile
    <3>1. pc' = "done" /\ UNCHANGED <<text, options, at, within, lexing, tk>>
      BY <2>1 DEF AddToken, Reconsider, reading
    <3>2. End' = End
      BY <3>1 DEF End
    <3>3. WellRead(tk)'
      BY <1>5, <3>1, <3>2 DEF WellRead
    <3>4. ReadingOK'
      BY <3>1, <3>2, <3>3 DEF PInv, ReadingOK, IsText
    <3>5. ControlOK'
      BY <1>1, <1>4, <3>1 DEF PInv, ControlOK
    <3> QED
      BY <2>1, <3>1, <3>4, <3>5 DEF Reached
  <2>2. CASE tk.kind # EndOfFile
    <3>1. Await("token") /\ "token" \in Places
      BY <2>2 DEF AddToken, Places
    <3>2. ReadingOK' /\ pc' = "token" /\ UNCHANGED text
      BY <1>1, <3>1, ReachedByWaiting
    <3>3. lexing' = TRUE /\ at' = at
      BY <3>1 DEF Await
    <3>4. ControlOK'
      BY <1>1, <1>4, <3>1, <3>2 DEF PInv, ControlOK
    <3> QED
      BY <2>2, <3>2, <3>3, <3>4 DEF Reached
  <2> QED
    BY <2>1, <2>2
<1>7. DiagnosedOK'
  <2>1. Len(tokens') = n + 1
    BY <1>2, TokenAdded
  <2> QED
    BY <1>1, <1>2, <1>3, <2>1 DEF PInv, DiagnosedOK
<1>8. PlacedOK'
  <2>1. End' = End
    BY <1>6 DEF End
  <2>2. /\ IsSequence(tokens') /\ Len(tokens') = n + 1
        /\ DOMAIN tokens = 1..n /\ DOMAIN tokens' = 1..(n + 1)
        /\ \A k \in 1..n : tokens'[k] = tokens[k]
        /\ WellRead(tokens'[n + 1])
        /\ tokens'[n + 1].kind = tk.kind /\ tokens'[n + 1].from = tk.from /\ tokens'[n + 1].to = tk.to
    BY <1>2, TokenAdded
  <2>3. \A i \in 1..(n + 1) : i \in 1..n \/ i = n + 1
    BY <1>3
  <2>4. \A i \in 1..n : tokens[i].to \in Nat
    BY <1>5, <2>2 DEF WellRead
  <2>5. tk.from \in Nat /\ tk.to \in Nat /\ tk.from <= tk.to
    BY <1>5 DEF WellRead
  <2>6. \A i \in 1..(n + 1) : WellRead(tokens'[i])
    BY <1>5, <2>2, <2>3
  <2>7. \A i \in 1..(n + 1) : WellRead(tokens[i])'
    BY <2>1, <2>6 DEF WellRead
  <2>8. \A i \in 1..(n + 1) : tokens'[i].to <= at
    BY <1>5, <2>2, <2>3, <2>4, <2>5
  <2>9. \A i \in 1..(n + 1) : tokens'[i].kind = EndOfFile => pc' = "done" /\ i = n + 1
    BY <1>5, <1>6, <2>2, <2>3
  <2>10. \A i, j \in 1..(n + 1) : i < j => tokens'[i].to <= tokens'[j].from
    <3> TAKE i, j \in 1..(n + 1)
    <3> HAVE i < j
    <3>1. i \in 1..n
      BY <1>3
    <3>2. CASE j \in 1..n
      BY <1>5, <2>2, <3>1, <3>2
    <3>3. CASE j = n + 1
      BY <1>5, <2>2, <3>1, <3>3
    <3> QED
      BY <2>3, <3>2, <3>3
  <2>11. pc' = "done" => tokens' # <<>> /\ tokens'[n + 1].kind = EndOfFile
    <3>1. tokens' # <<>>
      BY <1>3, <2>2, EmptyIsSequence
    <3> QED
      BY <1>6, <2>2, <3>1
  <2> QED
    BY <1>6, <2>2, <2>7, <2>8, <2>9, <2>10, <2>11 DEF PlacedOK
<1> QED
  BY <1>6, <1>7, <1>8 DEF PInv

-----------------------------------------------------------------------------
(* What is written of the tokens is a text.                                *)

LEMMA TerminalIsSequence ==
  ASSUME IsText, NEW token, IsSequence(token.kind), token.low \in 1..End, token.high \in Int
  PROVE  IsSequence(Terminal(token))
<1>1. End \in Nat /\ End = Len(text) + 1 /\ Len(text) \in Nat
  BY DEF IsText, IsSequence, End
<1>2. IsSequence(ValueText(token))
  <2> DEFINE last == IF token.high < End THEN token.high ELSE Len(text)
  <2>1. last \in Int /\ last <= Len(text) /\ token.low \in Nat \ {0}
    BY <1>1
  <2> HIDE DEF last
  <2>2. IsSequence(SubSeq(text, token.low, last))
    BY <2>1, PartIsSequence DEF IsText
  <2> QED
    BY <2>2 DEF ValueText, last
<1>3. IsSequence(ValueText(token) \o <<"\n">>) /\ IsSequence(ValueText(token) \o <<" ">>)
  BY <1>2, TuplesAreSequences, JoinedIsSequence
<1>4. IsSequence(<<>>)
  BY TuplesAreSequences
<1> QED
  BY <1>3, <1>4 DEF Terminal

LEMMA WrittenIsSequence ==
  ASSUME ReadingOK, PlacedOK
  PROVE  IsSequence(Written)
<1> DEFINE n == Len(tokens)
           S == UNION {{Terminal(tokens[k])[j] : j \in 1..Len(Terminal(tokens[k]))} : k \in 1..n}
           V == Seq(S)
           Writes(f) == f = [k \in 0..Len(tokens) |->
                                IF k = 0 THEN <<>> ELSE f[k - 1] \o Terminal(tokens[k])]
           written == CHOOSE f : Writes(f)
           step == [k \in 1..n |-> [v \in V |-> v \o Terminal(tokens[k])]]
<1>1. Written = written[n]
  BY DEF Written
<1>2. n \in Nat /\ DOMAIN tokens = 1..n
  BY LenProperties DEF PlacedOK, IsSequence
<1>3. \A k \in 1..n : Terminal(tokens[k]) \in V
  <2> TAKE k \in 1..n
  <2> DEFINE A == {Terminal(tokens[k])[j] : j \in 1..Len(Terminal(tokens[k]))}
  <2>1. IsSequence(Terminal(tokens[k]))
    BY <1>2, TerminalIsSequence DEF ReadingOK, PlacedOK, WellRead
  <2>2. Terminal(tokens[k]) \in Seq(A)
    BY <2>1 DEF IsSequence
  <2>3. A \subseteq S
    OBVIOUS
  <2> HIDE DEF A, S
  <2> QED
    BY <2>2, <2>3, SeqMonotonic
<1> HIDE DEF S
<1>4. <<>> \in V /\ \A v, w \in V : v \o w \in V
  BY EmptySeq, ConcatProperties
<1> HIDE DEF V, n
<1>5. \A k \in 1..n : \A v \in V : step[k][v] = v \o Terminal(tokens[k]) /\ step[k][v] \in V
  BY <1>3, <1>4
<1> HIDE DEF step
<1>6. PICK f : IsRecursion(f, 0, n, V, <<>>, step)
  <2>1. StepsStay(step, 0, n, V)
    BY <1>5 DEF StepsStay
  <2>2. 0 \in Nat /\ 0 <= n
    BY <1>2
  <2> QED
    BY <1>2, <1>4, <2>1, <2>2, RecursionIsDefined
<1>7. Writes(f)
  <2>1. \A k \in 0..n : f[k] = IF k = 0 THEN <<>> ELSE f[k - 1] \o Terminal(tokens[k])
    <3> TAKE k \in 0..n
    <3>1. CASE k = 0
      BY <3>1, <1>6 DEF IsRecursion
    <3>2. CASE k # 0
      <4>1. k \in 1..n /\ k \in (0 + 1)..n /\ k - 1 \in 0..n
        BY <3>2, <1>2
      <4>2. f[k] = step[k][f[k - 1]] /\ f[k - 1] \in V
        BY <4>1, <1>6 DEF IsRecursion
      <4>3. f[k] = f[k - 1] \o Terminal(tokens[k])
        BY <4>1, <4>2, <1>5
      <4> QED
        BY <3>2, <4>3
    <3> QED
      BY <3>1, <3>2
  <2>2. f = [k \in 0..n |-> f[k]]
    BY <1>6 DEF IsRecursion
  <2> QED
    BY <2>1, <2>2 DEF n
<1>8. Writes(written)
  <2> HIDE DEF Writes
  <2> QED
    BY <1>7
<1>9. \A k \in 0..n : written[k] = IF k = 0 THEN <<>> ELSE written[k - 1] \o Terminal(tokens[k])
  <2>1. written = [k \in 0..n |-> IF k = 0 THEN <<>> ELSE written[k - 1] \o Terminal(tokens[k])]
    BY <1>8, Zenon DEF n
  <2> HIDE DEF written
  <2> QED
    BY <2>1, Zenon
<1> HIDE DEF written, Writes
<1>10. \A k \in 0..n : written[k] \in V
  <2>1. written[0] \in V
    BY <1>2, <1>4, <1>9
  <2>2. \A k \in (0 + 1)..n : written[k - 1] \in V => written[k] \in V
    <3> TAKE k \in (0 + 1)..n
    <3>1. k \in 0..n /\ k # 0 /\ k \in 1..n
      BY <1>2
    <3> QED
      BY <3>1, <1>3, <1>4, <1>9
  <2>3. 0 \in Nat
    OBVIOUS
  <2> QED
    BY <1>2, <2>1, <2>2, <2>3, RecursionStays
<1>11. written[n] \in V
  BY <1>2, <1>10
<1> QED
  BY <1>1, <1>11, InSeqIsSequence DEF V

-----------------------------------------------------------------------------

LEMMA StartIsPlaced == ASSUME Start, IsText PROVE PInv
<1>1. /\ at = 0 /\ within = FALSE /\ lexing = TRUE /\ tk = Fresh /\ pc = "token" /\ lineno = 0
      /\ skip = 0 /\ expansions = <<>> /\ expansionIdx = 0 /\ tokens = <<>> /\ diagnostics = <<>>
  BY DEF Start
<1>2. End \in Nat /\ End >= 1
  BY Terminated
<1>3. ReadingOK
  <2>1. /\ {"kind", "from", "to", "low", "high"} \subseteq DOMAIN Fresh
        /\ Fresh.from = 0 /\ Fresh.to = 0
    BY DEF Fresh
  <2>2. at \in 0..End
    BY <1>1, <1>2
  <2>3. within \in BOOLEAN /\ lexing \in BOOLEAN
    BY <1>1
  <2>4. lexing = TRUE /\ tk = Fresh
    BY <1>1
  <2> QED
    BY <2>1, <2>2, <2>3, <2>4 DEF ReadingOK
<1>4. ControlOK
  BY <1>1, EmptyIsSequence DEF ControlOK, Places
<1>5. DiagnosedOK /\ PlacedOK
  <2>1. DOMAIN <<>> = {} /\ <<>> \in Seq(Nat)
    BY EmptySeq
  <2>2. pc # "done"
    BY <1>1
  <2> QED
    BY <1>1, <2>1, <2>2, EmptyIsSequence DEF DiagnosedOK, PlacedOK
<1> QED
  BY <1>3, <1>4, <1>5 DEF PInv

LEMMA UnparsingKeeps ==
  ASSUME PInv, Unparse
  PROVE  PInv'
<1>1. Start'
  BY DEF Unparse, Start
<1>2. IsText'
  BY WrittenIsSequence DEF PInv, Unparse, IsText
<1> QED
  BY <1>1, <1>2, StartIsPlaced, PTL

LEMMA StepsKeepPlaces == PInv /\ [Next]_allVars => PInv'
<1> SUFFICES ASSUME PInv, [Next]_allVars PROVE PInv'
  OBVIOUS
<1>1. CASE Blank \/ ReadEndOfText \/ ReadBackslash \/ ReadComment \/ ReadToken
  BY <1>1, ReadingKeeps
<1>2. CASE Directive \/ DirectiveName \/ DirectiveFile \/ DirectiveRest \/ Colon \/ KeepComment
  BY <1>2, IdleDirectivesKeep
<1>3. CASE DirectiveNumber \/ MarkData
  BY <1>3, NumbersKeep
<1>4. CASE Mark
  BY <1>4, MarkKeeps
<1>5. CASE SkipToken
  BY <1>5, SkippingKeeps
<1>6. CASE GeneratedTokens \/ Column
  BY <1>6, ExpansionsKeep
<1>7. CASE AddToken
  BY <1>7, AddingKeeps
<1>8. CASE Unparse
  BY <1>8, UnparsingKeeps
<1>9. CASE UNCHANGED allVars
  <2>1. UNCHANGED <<text, at, within, lexing, tk, pc, lineno, skip, expansions, expansionIdx,
                    tokens, diagnostics>>
    BY <1>9 DEF allVars, vars, reading, marking, tree
  <2>2. End' = End /\ Reached' = Reached
    BY <2>1 DEF End, Reached
  <2>3. ReadingOK'
    BY <2>1, <2>2 DEF PInv, ReadingOK, IsText, WellRead
  <2>4. ControlOK' /\ DiagnosedOK'
    BY <2>1 DEF PInv, ControlOK, DiagnosedOK
  <2>5. \A i \in DOMAIN tokens : WellRead(tokens[i])'
    BY <2>1, <2>2 DEF WellRead, PInv, PlacedOK
  <2>6. PlacedOK'
    BY <2>1, <2>2, <2>5 DEF PInv, PlacedOK
  <2> QED
    BY <2>3, <2>4, <2>6 DEF PInv
<1> QED
  BY <1>1, <1>2, <1>3, <1>4, <1>5, <1>6, <1>7, <1>8, <1>9 DEF Next, Lex

LEMMA StartingText == Init => Start /\ IsText
<1> SUFFICES ASSUME Init PROVE IsText
  BY DEF Init
<1>1. PICK input \in Inputs : text = input.text
  BY DEF Init
<1>2. text \in Seq(STRING)
  BY <1>1, InputsAssumption
<1> QED
  BY <1>2, InSeqIsSequence DEF IsText

(* The second invariant: what is read is in the text, behind what was read *)
(* before, and the end of the file ends the reading.                       *)
THEOREM PlacesInvariance == Spec => []PInv
<1>1. Init => PInv
  BY StartingText, StartIsPlaced
<1> QED
  BY <1>1, StepsKeepPlaces, PTL DEF Spec

LEMMA InvariantsImplyType == IInv /\ PInv => TypeOK
<1> SUFFICES ASSUME IInv, PInv PROVE TypeOK
  OBVIOUS
<1>1. End \in Nat /\ End >= 1
  BY TextHasEnd DEF PInv
<1>2. tk.from \in 0..End /\ tk.to \in 0..End
  <2>1. CASE lexing
    BY <1>1, <2>1 DEF PInv, ReadingOK
  <2>2. CASE ~lexing
    BY <1>1, <2>2 DEF PInv, ReadingOK, WellRead
  <2> QED
    BY <2>1, <2>2
<1>3. Len(tokens) \in Nat /\ DOMAIN tokens = 1..Len(tokens) /\ Openings \subseteq 1..Len(tokens)
  BY LenProperties DEF IInv, IsSequence, Openings
<1>4. \A i \in DOMAIN braces : braces[i] \in 1..(Len(tokens) + 1)
  <2>1. \A i \in DOMAIN braces : braces[i] \in 1..Len(tokens)
    BY <1>3 DEF IInv
  <2> QED
    BY <1>3, <2>1
<1>5. DOMAIN matching \subseteq 1..Len(tokens)
  BY <1>3 DEF IInv
<1>6. \A i \in DOMAIN diagnostics : diagnostics[i] \in 0..Len(tokens)
  <2> TAKE i \in DOMAIN diagnostics
  <2>1. diagnostics[i] \in Nat /\ diagnostics[i] <= Len(tokens)
    BY DEF PInv, DiagnosedOK
  <2> QED
    BY <1>3, <2>1
<1>7. /\ pc \in {"token", "hash", "number", "file", "rest", "mark", "skip", "data",
                 "generated", "colon", "column", "done"}
      /\ lineno \in Nat /\ skip \in 0..3 /\ expansionIdx \in 0..Len(expansions)
  BY DEF PInv, ControlOK, Places
<1>8. at \in 0..End /\ within \in BOOLEAN /\ lexing \in BOOLEAN
  BY DEF PInv, ReadingOK
<1> QED
  BY <1>2, <1>4, <1>5, <1>6, <1>7, <1>8 DEF TypeOK

LEMMA InvariantImpliesOrder == PInv => TokensInOrder
<1> SUFFICES ASSUME PInv PROVE TokensInOrder
  OBVIOUS
<1>1. at \in Nat /\ End \in Nat
  BY TextHasEnd DEF PInv
<1>2. Reached \in Int /\ Reached <= at
  <2>1. CASE lexing \/ pc = "done"
    BY <1>1, <2>1 DEF Reached
  <2>2. CASE ~(lexing \/ pc = "done")
    BY <1>1, <2>2 DEF Reached, PInv, ReadingOK, WellRead
  <2> QED
    BY <2>1, <2>2
<1>3. \A i \in DOMAIN tokens : tokens[i].from \in 1..tokens[i].to /\ tokens[i].to \in 1..at
  <2> TAKE i \in DOMAIN tokens
  <2>1. tokens[i].to \in 1..End /\ tokens[i].from \in 1..tokens[i].to /\ tokens[i].to <= Reached
    BY DEF PInv, PlacedOK, WellRead
  <2> QED
    BY <1>1, <1>2, <2>1
<1>4. \A i \in DOMAIN tokens : tokens[i].from = tokens[i].to => tokens[i].kind = EndOfFile
  BY DEF PInv, PlacedOK, WellRead
<1> QED
  BY <1>3, <1>4 DEF TokensInOrder, PInv, PlacedOK

(* Lexer.cpp:141, 311: whatever the text, the places of the lexer stay in  *)
(* it, and its counters in the sequences that they count.                  *)
THEOREM LexerTypes == Spec => []TypeOK
BY LexerInvariance, PlacesInvariance, InvariantsImplyType, PTL

(* Lexer.cpp:141: whatever the text, and in what is read back as well, the *)
(* tokens of the tree are in the order of the text and share no character, *)
(* none is empty but the end of the file, and that is the last one, there  *)
(* as soon as lex() returns and not before.                                *)
THEOREM TokensAreInOrder == Spec => []TokensInOrder
BY PlacesInvariance, InvariantImpliesOrder, PTL

-----------------------------------------------------------------------------
(* Offsets.                                                                *)

HasUnits == \A j \in 1..Len(text) : Units(text[j]) \in Nat \ {0}

LEMMA OffsetIsDefined ==
  ASSUME IsText, HasUnits
  PROVE  /\ Offset(1) = 0
         /\ \A j \in 1..End : Offset(j) \in Nat
         /\ \A j \in 1..(End - 1) : Offset(j + 1) = Offset(j) + Units(text[j])
<1> DEFINE Counts(f) == f = [j \in 1..End |->
                                IF j = 1 THEN 0 ELSE f[j - 1] + Units(text[j - 1])]
           before == CHOOSE f : Counts(f)
           step == [j \in 2..End |-> [v \in Nat |-> v + Units(text[j - 1])]]
<1>1. \A i : Offset(i) = before[i]
  BY DEF Offset
<1>2. End \in Nat /\ 1 <= End /\ 1 \in Nat /\ 0 \in Nat /\ End - 1 = Len(text) /\ 1 + 1 = 2
  BY DEF IsText, IsSequence, End
<1>3. \A j \in 2..End : Units(text[j - 1]) \in Nat
  BY <1>2 DEF HasUnits
<1>4. \A j \in 2..End : \A v \in Nat : step[j][v] = v + Units(text[j - 1])
  OBVIOUS
<1> HIDE DEF step
<1>5. PICK f : IsRecursion(f, 1, End, Nat, 0, step)
  <2>1. StepsStay(step, 1, End, Nat)
    <3>1. \A j \in 2..End : \A v \in Nat : v + Units(text[j - 1]) \in Nat
      BY <1>3
    <3>2. \A j \in 2..End : \A v \in Nat : step[j][v] \in Nat
      BY <1>4, <3>1, Zenon
    <3> QED
      BY <1>2, <3>2, Zenon DEF StepsStay
  <2> QED
    BY <1>2, <2>1, RecursionIsDefined
<1>6. /\ f \in [1..End -> Nat] /\ f[1] = 0
      /\ \A j \in 2..End : f[j] = step[j][f[j - 1]]
  BY <1>2, <1>5 DEF IsRecursion
<1>7. \A j \in 1..End : f[j] = IF j = 1 THEN 0 ELSE f[j - 1] + Units(text[j - 1])
  <2> TAKE j \in 1..End
  <2>1. CASE j = 1
    BY <2>1, <1>6
  <2>2. CASE j # 1
    <3>1. j \in 2..End /\ j - 1 \in 1..End
      BY <2>2, <1>2
    <3>2. f[j - 1] \in Nat
      BY <1>6, <3>1
    <3> QED
      BY <2>2, <1>4, <1>6, <3>1, <3>2
  <2> QED
    BY <2>1, <2>2
<1>8. Counts(f)
  <2>1. f = [j \in 1..End |-> f[j]]
    BY <1>6
  <2> QED
    BY <1>7, <2>1
<1>9. Counts(before)
  <2> HIDE DEF Counts
  <2> QED
    BY <1>8
<1>10. \A j \in 1..End : before[j] = IF j = 1 THEN 0 ELSE before[j - 1] + Units(text[j - 1])
  <2>1. before = [j \in 1..End |-> IF j = 1 THEN 0 ELSE before[j - 1] + Units(text[j - 1])]
    BY <1>9, Zenon
  <2> HIDE DEF before
  <2> QED
    BY <2>1, Zenon
<1> HIDE DEF before, Counts
<1>11. before[1] = 0
  BY <1>2, <1>10
<1>12. \A j \in 1..(End - 1) : before[j + 1] = before[j] + Units(text[j])
  <2> TAKE j \in 1..(End - 1)
  <2>1. j + 1 \in 1..End /\ j + 1 # 1 /\ (j + 1) - 1 = j
    BY <1>2
  <2>2. before[j + 1] = before[(j + 1) - 1] + Units(text[(j + 1) - 1])
    BY <1>10, <2>1, Zenon
  <2> QED
    BY <2>1, <2>2
<1>13. \A j \in 1..End : before[j] \in Nat
  <2>1. \A j \in (1 + 1)..End : before[j - 1] \in Nat => before[j] \in Nat
    <3> TAKE j \in (1 + 1)..End
    <3>1. j \in 1..End /\ j # 1 /\ j \in 2..End
      BY <1>2
    <3> QED
      BY <1>3, <1>10, <3>1
  <2>2. before[1] \in Nat
    BY <1>11
  <2> QED
    BY <1>2, <2>1, <2>2, RecursionStays
<1> QED
  BY <1>1, <1>11, <1>12, <1>13

LEMMA OffsetGrows ==
  ASSUME IsText, HasUnits, NEW i \in 1..End, NEW j \in 1..End, i < j
  PROVE  Offset(i) < Offset(j)
<1> DEFINE f == [k \in 1..End |-> Offset(k)]
           V == {v \in Nat : v > Offset(i)}
<1>1. End \in Nat /\ i \in Nat /\ j \in Nat /\ i + 1 \in Nat /\ End - 1 = Len(text)
  BY DEF IsText, IsSequence, End
<1>2. \A k \in 1..(End - 1) :
          /\ f[k] \in Nat /\ f[k + 1] \in Nat /\ Units(text[k]) \in Nat \ {0}
          /\ f[k + 1] = f[k] + Units(text[k])
  <2> TAKE k \in 1..(End - 1)
  <2>1. k \in 1..End /\ k + 1 \in 1..End
    BY <1>1
  <2> QED
    BY <1>1, <2>1, OffsetIsDefined DEF HasUnits
<1>3. f[i] = Offset(i) /\ f[j] = Offset(j)
  OBVIOUS
<1> HIDE DEF f
<1>4. f[i + 1] \in V
  <2>1. i \in 1..(End - 1)
    BY <1>1
  <2> QED
    BY <1>2, <1>3, <2>1
<1>5. \A k \in ((i + 1) + 1)..End : f[k - 1] \in V => f[k] \in V
  <2> TAKE k \in ((i + 1) + 1)..End
  <2>1. k - 1 \in 1..(End - 1) /\ (k - 1) + 1 = k
    BY <1>1
  <2>2. f[k - 1] \in Nat /\ Units(text[k - 1]) \in Nat /\ f[k] = f[k - 1] + Units(text[k - 1])
    BY <1>2, <2>1
  <2>3. Offset(i) \in Nat
    BY OffsetIsDefined
  <2> QED
    BY <2>2, <2>3
<1> HIDE DEF V
<1>6. \A k \in (i + 1)..End : f[k] \in V
  BY <1>1, <1>4, <1>5, RecursionStays
<1>7. f[j] \in V
  BY <1>1, <1>6
<1> QED
  BY <1>3, <1>7 DEF V

\* So a place is known by its offset.
LEMMA OffsetsTellPlaces ==
  ASSUME IsText, HasUnits, NEW i \in 1..End
  PROVE  /\ Offset(i) \in Nat
         /\ \A j \in 1..End : (i < j <=> Offset(i) < Offset(j)) /\ (Offset(i) = Offset(j) => i = j)
         /\ PlaceOf(Offset(i)) = i
<1>1. Offset(i) \in Nat
  BY OffsetIsDefined
<1>2. \A j \in 1..End : (i < j <=> Offset(i) < Offset(j)) /\ (Offset(i) = Offset(j) => i = j)
  <2> TAKE j \in 1..End
  <2>1. i \in Int /\ j \in Int /\ Offset(j) \in Nat
    BY OffsetIsDefined
  <2>2. i < j => Offset(i) < Offset(j)
    BY OffsetGrows
  <2>3. j < i => Offset(j) < Offset(i)
    BY OffsetGrows
  <2> QED
    BY <1>1, <2>1, <2>2, <2>3
<1>3. PlaceOf(Offset(i)) = i
  BY <1>2 DEF PlaceOf
<1> QED
  BY <1>1, <1>2, <1>3

-----------------------------------------------------------------------------
(* Lines: the newlines before a place.                                     *)

LEMMA NewlinesAreFinite ==
  ASSUME NEW i \in Nat
  PROVE  /\ NewlinesBefore(i) \in SUBSET (1..(i - 1)) /\ IsFiniteSet(NewlinesBefore(i))
         /\ PhysicalLine(i) \in Nat
<1>1. NewlinesBefore(i) \in SUBSET (1..(i - 1))
  BY DEF NewlinesBefore
<1>2. IsFiniteSet(1..(i - 1))
  BY FS_Interval
<1>3. IsFiniteSet(NewlinesBefore(i))
  BY <1>1, <1>2, FS_Subset
<1> QED
  BY <1>1, <1>3, FS_CardinalityType DEF PhysicalLine

LEMMA NewlineEndsLine ==
  ASSUME NEW i \in Nat \ {0}
  PROVE  PhysicalLine(i + 1) = PhysicalLine(i) + (IF Char(i) = "\n" THEN 1 ELSE 0)
<1>1. /\ IsFiniteSet(NewlinesBefore(i)) /\ i \notin NewlinesBefore(i)
      /\ PhysicalLine(i) \in Nat
  BY NewlinesAreFinite
<1>2. \A k \in 1..((i + 1) - 1) : k \in 1..(i - 1) \/ k = i
  OBVIOUS
<1>3. i \in 1..((i + 1) - 1) /\ \A k \in 1..(i - 1) : k \in 1..((i + 1) - 1)
  OBVIOUS
<1>4. CASE Char(i) = "\n"
  <2>1. NewlinesBefore(i + 1) = NewlinesBefore(i) \cup {i}
    BY <1>2, <1>3, <1>4 DEF NewlinesBefore
  <2>2. Cardinality(NewlinesBefore(i) \cup {i}) = Cardinality(NewlinesBefore(i)) + 1
    BY <1>1, FS_AddElement
  <2> QED
    BY <1>4, <2>1, <2>2 DEF PhysicalLine
<1>5. CASE Char(i) # "\n"
  <2>1. NewlinesBefore(i + 1) = NewlinesBefore(i)
    BY <1>2, <1>3, <1>5 DEF NewlinesBefore
  <2> QED
    BY <1>1, <1>5, <2>1 DEF PhysicalLine
<1> QED
  BY <1>4, <1>5

LEMMA LinesGrow ==
  ASSUME NEW i \in Nat, NEW j \in Nat, i <= j
  PROVE  /\ PhysicalLine(i) \in Nat /\ PhysicalLine(j) \in Nat
         /\ PhysicalLine(i) <= PhysicalLine(j)
<1>1. NewlinesBefore(i) \in SUBSET NewlinesBefore(j)
  <2>1. \A k \in 1..(i - 1) : k \in 1..(j - 1)
    OBVIOUS
  <2> QED
    BY <2>1 DEF NewlinesBefore
<1>2. IsFiniteSet(NewlinesBefore(j)) /\ PhysicalLine(i) \in Nat /\ PhysicalLine(j) \in Nat
  BY NewlinesAreFinite
<1> QED
  BY <1>1, <1>2, FS_Subset DEF PhysicalLine

\* Newlines are known by the lines that they end.
LEMMA NewlinesAreInOrder ==
  ASSUME NEW i \in Nat \ {0}, NEW j \in Nat, Char(i) = "\n"
  PROVE  i < j <=> PhysicalLine(i) < PhysicalLine(j)
<1>1. /\ PhysicalLine(i) \in Nat /\ PhysicalLine(j) \in Nat
      /\ PhysicalLine(i + 1) = PhysicalLine(i) + 1
  BY NewlinesAreFinite, NewlineEndsLine
<1>2. i < j => PhysicalLine(i + 1) <= PhysicalLine(j)
  <2> HAVE i < j
  <2>1. i + 1 \in Nat /\ i + 1 <= j
    OBVIOUS
  <2> QED
    BY <2>1, LinesGrow
<1>3. j <= i => PhysicalLine(j) <= PhysicalLine(i)
  BY LinesGrow
<1> QED
  BY <1>1, <1>2, <1>3

\* There is one at the end of every line but the last.
LEMMA LineHasNewline ==
  ASSUME NEW n \in Nat \ {0}, NEW k \in 0..(PhysicalLine(n) - 1)
  PROVE  \E j \in NewlinesBefore(n) : PhysicalLine(j) = k
<1> DEFINE X == {x \in 1..n : PhysicalLine(x) > k}
<1>1. n \in X /\ X \in SUBSET Nat
  BY NewlinesAreFinite
<1> HIDE DEF X
<1>2. PICK x \in X : \A y \in X : x <= y
  BY <1>1, LeastNumber
<1>3. x \in 1..n /\ PhysicalLine(x) > k
  BY <1>2 DEF X
<1>4. x # 1
  <2>1. NewlinesBefore(1) = {}
    BY DEF NewlinesBefore
  <2>2. PhysicalLine(1) = 0
    BY <2>1, FS_EmptySet DEF PhysicalLine
  <2> QED
    BY <1>3, <2>2
<1> DEFINE j == x - 1
<1>5. j \in 1..(n - 1) /\ j \in Nat \ {0} /\ j + 1 = x /\ ~(x <= j) /\ j \in 1..n
  BY <1>3, <1>4
<1> HIDE DEF j
<1>6. ~(PhysicalLine(j) > k) /\ PhysicalLine(j) \in Nat
  <2>1. j \notin X
    BY <1>2, <1>5
  <2> QED
    BY <1>5, <2>1, NewlinesAreFinite DEF X
<1>7. PhysicalLine(x) = PhysicalLine(j) + (IF Char(j) = "\n" THEN 1 ELSE 0)
  BY <1>5, NewlineEndsLine
<1>8. Char(j) = "\n" /\ PhysicalLine(j) = k
  BY <1>3, <1>6, <1>7
<1>9. j \in NewlinesBefore(n)
  BY <1>5, <1>8 DEF NewlinesBefore
<1> QED
  BY <1>8, <1>9

-----------------------------------------------------------------------------
(* The starts of the lines, and the searches in them.                      *)

\* The place behind what was read.
Limit == IF at < End THEN at + 1 ELSE End

LEMMA LimitInText ==
  ASSUME ReadingOK
  PROVE  /\ Limit \in 1..End /\ End \in Nat /\ Limit \in Nat \ {0}
         /\ PhysicalLine(Limit) \in Nat /\ at \in Nat
         /\ \A i \in 1..at : i \in 1..Limit
<1>1. at \in 0..End /\ End \in Nat /\ End >= 1
  BY TextHasEnd DEF ReadingOK
<1>2. Limit \in 1..End
  BY <1>1 DEF Limit
<1>3. \A i \in 1..at : i \in 1..Limit
  BY <1>1 DEF Limit
<1> QED
  BY <1>1, <1>2, <1>3, NewlinesAreFinite

LEMMA StartsOfLines ==
  ASSUME ReadingOK, HasUnits
  PROVE  /\ Len(LineStarts) = PhysicalLine(Limit) + 1
         /\ LineStarts[1] = 0
         /\ \A j \in NewlinesBefore(Limit) : LineStarts[PhysicalLine(j) + 2] = Offset(j) + 1
<1> DEFINE newlines == NewlinesBefore(Limit)
           n == Cardinality(newlines)
           nth == [k \in 1..n |->
                      CHOOSE j \in newlines : Cardinality({i \in newlines : i < j}) = k - 1]
           after == [k \in DOMAIN nth |-> Offset(nth[k]) + 1]
<1>1. LineStarts = <<0>> \o after
  BY DEF LineStarts, Limit
<1>2. /\ Limit \in Nat /\ n \in Nat /\ n = PhysicalLine(Limit)
      /\ newlines \in SUBSET (1..(Limit - 1))
  BY LimitInText, NewlinesAreFinite DEF PhysicalLine
<1>3. \A j \in newlines : /\ j \in Nat \ {0} /\ j < Limit /\ Char(j) = "\n"
                          /\ Cardinality({i \in newlines : i < j}) = PhysicalLine(j)
  <2> TAKE j \in newlines
  <2>1. j \in 1..(Limit - 1) /\ j \in Nat \ {0} /\ j < Limit /\ Char(j) = "\n"
    BY <1>2 DEF NewlinesBefore
  <2>2. {i \in newlines : i < j} = NewlinesBefore(j)
    BY <1>2, <2>1 DEF NewlinesBefore
  <2> QED
    BY <2>1, <2>2 DEF PhysicalLine
<1>4. \A j \in newlines : PhysicalLine(j) + 1 \in 1..n /\ nth[PhysicalLine(j) + 1] = j
  <2> TAKE j \in newlines
  <2> DEFINE k == PhysicalLine(j) + 1
  <2>1. PhysicalLine(j) \in Nat /\ PhysicalLine(j) < PhysicalLine(Limit)
    BY <1>2, <1>3, NewlinesAreInOrder, NewlinesAreFinite
  <2>2. k \in 1..n /\ k - 1 = PhysicalLine(j)
    BY <1>2, <2>1
  <2>3. \A m \in newlines : PhysicalLine(m) = PhysicalLine(j) => m = j
    <3> TAKE m \in newlines
    <3>1. /\ m \in Nat /\ j \in Nat
          /\ m < j <=> PhysicalLine(m) < PhysicalLine(j)
          /\ j < m <=> PhysicalLine(j) < PhysicalLine(m)
      BY <1>3, NewlinesAreInOrder
    <3>2. PhysicalLine(j) \in Nat /\ PhysicalLine(m) \in Nat
      BY <1>3, NewlinesAreFinite
    <3> QED
      BY <3>1, <3>2
  <2> HIDE DEF k, newlines, n
  <2>4. nth[k] = CHOOSE m \in newlines : Cardinality({i \in newlines : i < m}) = k - 1
    BY <2>2
  <2>5. \A m \in newlines : Cardinality({i \in newlines : i < m}) = k - 1 => m = j
    BY <1>3, <2>2, <2>3
  <2>6. Cardinality({i \in newlines : i < j}) = k - 1
    BY <1>3, <2>2
  <2>7. nth[k] = j
    <3> HIDE DEF nth
    <3> QED
      BY <2>4, <2>5, <2>6, Zenon
  <2> QED
    BY <2>2, <2>7 DEF k
<1>5. DOMAIN nth = 1..n
  OBVIOUS
<1> HIDE DEF nth
<1>6. DOMAIN after = 1..n /\ \A k \in 1..n : after[k] = Offset(nth[k]) + 1
  BY <1>5
<1> DEFINE S == {0} \cup {after[k] : k \in 1..n}
<1>7. <<0>> \in Seq(S) /\ after \in Seq(S) /\ Len(after) = n
  <2>1. after = [k \in 1..n |-> after[k]]
    BY <1>5
  <2> HIDE DEF after, n
  <2>2. after \in [1..n -> S]
    BY <2>1
  <2>3. <<0>> \in Seq(S)
    OBVIOUS
  <2> HIDE DEF S
  <2> QED
    BY <1>2, <2>2, <2>3
<1> HIDE DEF S, after
<1>8. /\ Len(<<0>> \o after) = 1 + n
      /\ \A k \in 1..(1 + n) :
            (<<0>> \o after)[k] = IF k <= 1 THEN <<0>>[k] ELSE after[k - 1]
  <2>1. Len(<<0>>) = 1
    OBVIOUS
  <2> QED
    BY <1>7, <2>1, ConcatProperties
<1>9. LineStarts[1] = 0
  <2>1. 1 \in 1..(1 + n)
    BY <1>2
  <2> QED
    BY <1>1, <1>8, <2>1
<1>10. ASSUME NEW j \in newlines PROVE LineStarts[PhysicalLine(j) + 2] = Offset(j) + 1
  <2>1. PhysicalLine(j) \in Nat /\ PhysicalLine(j) + 1 \in 1..n /\ nth[PhysicalLine(j) + 1] = j
    BY <1>3, <1>4, NewlinesAreFinite
  <2> DEFINE k == PhysicalLine(j) + 2
  <2>2. k \in 1..(1 + n) /\ ~(k <= 1) /\ k - 1 = PhysicalLine(j) + 1
    BY <1>2, <2>1
  <2> HIDE DEF k, n
  <2>3. LineStarts[k] = after[PhysicalLine(j) + 1]
    BY <1>1, <1>8, <2>2
  <2> QED
    BY <1>6, <2>1, <2>3 DEF k
<1>11. Len(LineStarts) = PhysicalLine(Limit) + 1
  <2> HIDE DEF n, newlines
  <2> QED
    BY <1>1, <1>2, <1>8
<1> QED
  BY <1>9, <1>10, <1>11

LEMMA StartsAreInOrder ==
  ASSUME ReadingOK, HasUnits
  PROVE  /\ \A k \in 1..Len(LineStarts) : LineStarts[k] \in Nat
         /\ \A k, m \in 1..Len(LineStarts) : k < m => LineStarts[k] < LineStarts[m]
<1> DEFINE n == PhysicalLine(Limit)
           At(k) == CHOOSE j \in NewlinesBefore(Limit) : PhysicalLine(j) = k - 2
<1>1. /\ IsText /\ n \in Nat /\ Limit \in Nat \ {0} /\ Limit \in 1..End /\ End \in Nat
      /\ Len(LineStarts) = n + 1 /\ LineStarts[1] = 0
  BY LimitInText, StartsOfLines DEF ReadingOK
<1>2. ASSUME NEW k \in 2..(n + 1)
      PROVE  /\ At(k) \in NewlinesBefore(Limit) /\ At(k) \in Nat \ {0} /\ At(k) \in 1..End
             /\ PhysicalLine(At(k)) = k - 2 /\ Char(At(k)) = "\n"
             /\ Offset(At(k)) \in Nat /\ LineStarts[k] = Offset(At(k)) + 1
  <2>1. k - 2 \in 0..(n - 1) /\ (k - 2) + 2 = k
    BY <1>1
  <2>2. \E j \in NewlinesBefore(Limit) : PhysicalLine(j) = k - 2
    BY <1>1, <2>1, LineHasNewline
  <2>3. At(k) \in NewlinesBefore(Limit) /\ PhysicalLine(At(k)) = k - 2
    BY <2>2
  <2> HIDE DEF At, n
  <2>4. At(k) \in 1..(Limit - 1) /\ Char(At(k)) = "\n"
    BY <2>3 DEF NewlinesBefore
  <2>5. At(k) \in 1..End /\ At(k) \in Nat \ {0}
    BY <1>1, <2>4
  <2>6. Offset(At(k)) \in Nat
    BY <1>1, <2>5, OffsetIsDefined
  <2>7. LineStarts[k] = Offset(At(k)) + 1
    <3>1. LineStarts[PhysicalLine(At(k)) + 2] = Offset(At(k)) + 1
      BY <2>3, StartsOfLines
    <3> QED
      BY <2>1, <2>3, <3>1
  <2> QED
    BY <2>3, <2>4, <2>5, <2>6, <2>7
<1> HIDE DEF At, n
<1>3. \A k \in 1..(n + 1) : k = 1 \/ k \in 2..(n + 1)
  BY <1>1
<1>4. \A k \in 1..Len(LineStarts) : LineStarts[k] \in Nat
  <2> TAKE k \in 1..Len(LineStarts)
  <2>1. CASE k = 1
    BY <1>1, <2>1
  <2>2. CASE k \in 2..(n + 1)
    <3>1. Offset(At(k)) \in Nat /\ LineStarts[k] = Offset(At(k)) + 1
      BY <1>2, <2>2
    <3> QED
      BY <3>1
  <2> QED
    BY <1>1, <1>3, <2>1, <2>2
<1>5. ASSUME NEW k \in 1..(n + 1), NEW m \in 1..(n + 1), k < m
      PROVE  LineStarts[k] < LineStarts[m]
  <2>1. m \in 2..(n + 1)
    BY <1>1, <1>5
  <2>2. Offset(At(m)) \in Nat /\ LineStarts[m] = Offset(At(m)) + 1
    BY <1>2, <2>1
  <2>3. CASE k = 1
    BY <1>1, <2>2, <2>3
  <2>4. CASE k \in 2..(n + 1)
    <3>1. Offset(At(k)) \in Nat /\ LineStarts[k] = Offset(At(k)) + 1
      BY <1>2, <2>4
    <3>2. At(k) < At(m)
      <4>1. PhysicalLine(At(k)) < PhysicalLine(At(m))
        <5>1. k - 2 < m - 2
          BY <1>5
        <5>2. PhysicalLine(At(k)) = k - 2 /\ PhysicalLine(At(m)) = m - 2
          BY <1>2, <2>1, <2>4
        <5> QED
          BY <5>1, <5>2
      <4>2. At(k) \in Nat \ {0} /\ At(m) \in Nat /\ Char(At(k)) = "\n"
        BY <1>2, <2>1, <2>4
      <4> QED
        BY <4>1, <4>2, NewlinesAreInOrder
    <3>3. Offset(At(k)) < Offset(At(m))
      <4>1. At(k) \in 1..End /\ At(m) \in 1..End
        BY <1>2, <2>1, <2>4
      <4> QED
        BY <1>1, <3>2, <4>1, OffsetGrows
    <3> QED
      BY <2>2, <3>1, <3>3
  <2> QED
    BY <1>3, <2>3, <2>4
<1> QED
  BY <1>1, <1>4, <1>5

\* A column is the distance from the start of the line.
LEMMA ColumnFromStart ==
  ASSUME ReadingOK, HasUnits, NEW i \in 1..Limit
  PROVE  /\ PhysicalLine(i) + 1 \in 1..Len(LineStarts)
         /\ ColumnOf(i) = Offset(i) - LineStarts[PhysicalLine(i) + 1]
<1> DEFINE p == PhysicalLine(i)
<1>1. /\ IsText /\ Limit \in Nat \ {0} /\ Limit \in 1..End /\ End \in Nat
      /\ Len(LineStarts) = PhysicalLine(Limit) + 1 /\ LineStarts[1] = 0
  BY LimitInText, StartsOfLines DEF ReadingOK
<1>2. i \in Nat \ {0} /\ i <= Limit /\ i \in 1..End
  BY <1>1
<1>3. p \in Nat /\ PhysicalLine(Limit) \in Nat /\ p <= PhysicalLine(Limit)
  BY <1>1, <1>2, LinesGrow
<1>4. Offset(i) \in Nat
  BY <1>1, <1>2, OffsetIsDefined
<1>5. CASE NewlinesBefore(i) = {}
  <2>1. p = 0
    BY <1>5, FS_EmptySet DEF PhysicalLine
  <2>2. ColumnOf(i) = Offset(i) - 0
    BY <1>5 DEF ColumnOf
  <2> QED
    BY <1>1, <1>3, <1>4, <2>1, <2>2
<1>6. CASE NewlinesBefore(i) # {}
  <2>1. p # 0
    <3>1. IsFiniteSet(NewlinesBefore(i))
      BY <1>2, NewlinesAreFinite
    <3> QED
      BY <1>6, <3>1, FS_EmptySet DEF PhysicalLine
  <2>2. p - 1 \in 0..(p - 1)
    BY <1>3, <2>1
  <2>3. PICK j \in NewlinesBefore(i) : PhysicalLine(j) = p - 1
    BY <1>2, <2>2, LineHasNewline
  <2> DEFINE Last(m) == m \in NewlinesBefore(i) /\ \A k \in NewlinesBefore(i) : k <= m
  <2>4. \A k \in NewlinesBefore(i) : /\ k \in Nat \ {0} /\ k < i /\ Char(k) = "\n"
                                    /\ k \in 1..(Limit - 1)
    BY <1>1, <1>2 DEF NewlinesBefore
  <2>5. Last(j)
    <3> SUFFICES ASSUME NEW k \in NewlinesBefore(i) PROVE k <= j
      BY Zenon
    <3>1. PhysicalLine(k) \in Nat /\ PhysicalLine(k) < p
      BY <1>2, <2>4, NewlinesAreInOrder, NewlinesAreFinite
    <3>2. j < k <=> PhysicalLine(j) < PhysicalLine(k)
      BY <2>4, NewlinesAreInOrder
    <3>3. ~(p - 1 < PhysicalLine(k))
      BY <1>3, <3>1
    <3> QED
      BY <2>3, <2>4, <3>2, <3>3
  <2>6. \A m : Last(m) => m = j
    <3> TAKE m
    <3> HAVE Last(m)
    <3>1. m <= j /\ j <= m /\ m \in Nat /\ j \in Nat
      BY <2>4, <2>5
    <3> QED
      BY <3>1
  <2>7. (CHOOSE m \in NewlinesBefore(i) : \A k \in NewlinesBefore(i) : k <= m) = j
    BY <2>5, <2>6, Zenon
  <2>8. ColumnOf(i) = Offset(i) - (1 + Offset(j))
    BY <1>6, <2>7, Zenon DEF ColumnOf
  <2>9. j \in NewlinesBefore(Limit) /\ j \in 1..End
    BY <1>1, <2>4 DEF NewlinesBefore
  <2>10. LineStarts[PhysicalLine(j) + 2] = Offset(j) + 1 /\ Offset(j) \in Nat
    BY <1>1, <2>9, StartsOfLines, OffsetIsDefined
  <2>11. PhysicalLine(j) + 2 = p + 1
    BY <1>3, <2>3
  <2> HIDE DEF p
  <2>12. LineStarts[p + 1] = Offset(j) + 1
    BY <2>10, <2>11
  <2>13. ColumnOf(i) = Offset(i) - LineStarts[p + 1]
    BY <1>4, <2>8, <2>10, <2>12
  <2>14. p + 1 \in 1..Len(LineStarts)
    BY <1>1, <1>3
  <2> QED
    BY <2>13, <2>14 DEF p
<1> QED
  BY <1>5, <1>6

LEMMA LowerBoundIs ==
  ASSUME NEW s, Len(s) \in Nat, \A k \in 1..Len(s) : s[k] \in Int, NEW offset \in Int,
         NEW k \in 1..(Len(s) + 1),
         \A i \in 1..(k - 1) : s[i] < offset, k <= Len(s) => s[k] >= offset
  PROVE  LowerBound(s, offset) = k
<1> DEFINE Bounds(m) == /\ \A i \in 1..(m - 1) : s[i] < offset
                        /\ m <= Len(s) => s[m] >= offset
<1>1. Bounds(k)
  OBVIOUS
<1>2. ASSUME NEW m \in 1..(Len(s) + 1), Bounds(m) PROVE m = k
  <2>1. CASE m < k
    <3>1. m \in 1..(k - 1) /\ m \in 1..Len(s) /\ m <= Len(s)
      BY <2>1
    <3> QED
      BY <1>2, <3>1
  <2>2. CASE k < m
    <3>1. k \in 1..(m - 1) /\ k \in 1..Len(s) /\ k <= Len(s)
      BY <2>2
    <3> QED
      BY <1>2, <3>1
  <2> QED
    BY <2>1, <2>2
<1>3. LowerBound(s, offset) = CHOOSE m \in 1..(Len(s) + 1) : Bounds(m)
  BY DEF LowerBound
<1> HIDE DEF Bounds
<1> QED
  BY <1>1, <1>2, <1>3

(* A place that does not begin a line is found in its line.                *)
LEMMA LineIsFound ==
  ASSUME ReadingOK, HasUnits, NEW i \in 1..Limit, ColumnOf(i) > 0
  PROVE  /\ SearchForLineno(Offset(i)) = PhysicalLine(i)
         /\ SearchForColumn(Offset(i), PhysicalLine(i)) = ColumnOf(i)
<1> DEFINE p == PhysicalLine(i)
           n == Len(LineStarts)
           offset == Offset(i)
<1>1. /\ IsText /\ Limit \in Nat \ {0} /\ Limit \in 1..End /\ End \in Nat
      /\ n = PhysicalLine(Limit) + 1 /\ PhysicalLine(Limit) \in Nat
  BY LimitInText, StartsOfLines DEF ReadingOK
<1>2. i \in Nat \ {0} /\ i <= Limit /\ i \in 1..End /\ p \in Nat /\ n \in Nat
  <2>1. i \in Nat \ {0} /\ i <= Limit /\ i \in 1..End
    BY <1>1
  <2>2. p \in Nat
    BY <2>1, NewlinesAreFinite
  <2> HIDE DEF p, n
  <2> QED
    BY <1>1, <2>1, <2>2
<1>3. offset \in Nat
  BY <1>1, <1>2, OffsetIsDefined
<1>4. p + 1 \in 1..n /\ ColumnOf(i) = offset - LineStarts[p + 1]
  BY ColumnFromStart
<1>5. /\ \A k \in 1..n : LineStarts[k] \in Nat
      /\ \A k, m \in 1..n : k < m => LineStarts[k] < LineStarts[m]
  BY StartsAreInOrder
<1> HIDE DEF n, p, offset
<1>6. LineStarts[p + 1] \in Nat /\ LineStarts[p + 1] < offset
  BY <1>3, <1>4, <1>5
<1>7. \A k \in 1..(p + 1) : LineStarts[k] < offset
  <2> TAKE k \in 1..(p + 1)
  <2>1. k \in 1..n /\ (k = p + 1 \/ k < p + 1)
    BY <1>2, <1>4
  <2>2. LineStarts[k] \in Nat /\ (k < p + 1 => LineStarts[k] < LineStarts[p + 1])
    BY <1>4, <1>5, <2>1
  <2> QED
    BY <1>3, <1>6, <2>1, <2>2
<1>8. ASSUME p + 2 <= n PROVE LineStarts[p + 2] >= offset
  <2>1. p \in 0..(PhysicalLine(Limit) - 1)
    BY <1>1, <1>2, <1>8
  <2>2. PICK j \in NewlinesBefore(Limit) : PhysicalLine(j) = p
    BY <1>1, <2>1, LineHasNewline
  <2>3. j \in 1..End /\ j \in Nat \ {0} /\ Char(j) = "\n"
    <3>1. j \in 1..(Limit - 1) /\ Char(j) = "\n"
      BY <2>2 DEF NewlinesBefore
    <3> QED
      BY <1>1, <3>1
  <2>4. ~(j < i)
    <3>1. j < i <=> PhysicalLine(j) < PhysicalLine(i)
      BY <1>2, <2>3, NewlinesAreInOrder
    <3> QED
      BY <1>2, <2>2, <3>1 DEF p
  <2>5. Offset(j) \in Nat /\ ~(Offset(j) < offset)
    <3>1. Offset(j) \in Nat /\ (j < i <=> Offset(j) < Offset(i))
      BY <1>1, <1>2, <2>3, OffsetsTellPlaces
    <3> QED
      BY <2>4, <3>1 DEF offset
  <2>6. LineStarts[p + 2] = Offset(j) + 1
    BY <2>2, StartsOfLines
  <2> QED
    BY <1>3, <2>5, <2>6
<1>9. LowerBound(LineStarts, offset) = p + 2
  <2>1. p + 2 \in 1..(n + 1) /\ (p + 2) - 1 = p + 1 /\ offset \in Int
    BY <1>2, <1>3, <1>4
  <2>2. Len(LineStarts) = n /\ \A k \in 1..n : LineStarts[k] \in Int
    BY <1>5 DEF n
  <2> QED
    BY <1>2, <1>7, <1>8, <2>1, <2>2, LowerBoundIs
<1>10. SearchForLineno(offset) = p
  <2>1. SearchForLineno(offset) =
            IF p + 2 > n THEN n - 1 ELSE IF p + 2 = 1 THEN 0 ELSE (p + 2) - 2
    BY <1>9 DEF SearchForLineno, n
  <2>2. p + 2 > n => n - 1 = p
    BY <1>2, <1>4
  <2> QED
    BY <1>2, <2>1, <2>2
<1>11. SearchForColumn(offset, p) = ColumnOf(i)
  <2>1. offset # 0
    BY <1>3, <1>6
  <2> QED
    BY <1>4, <2>1 DEF SearchForColumn
<1> QED
  BY <1>10, <1>11 DEF p, offset

-----------------------------------------------------------------------------
(* The line directives: in the order of the text.                          *)

DirectiveOK(d) ==
    /\ d.offset \in Nat /\ d.lineno \in Nat /\ d.offset <= hash
    /\ d.offset = 0 \/ \E h \in 1..at : d.offset = Offset(h)

HashOK ==
    /\ hash \in Nat
    /\ hash = 0 \/ \E h \in 1..(IF lexing THEN at ELSE tk.from) : hash = Offset(h)

DirectivesOK ==
    /\ IsSequence(directives) /\ Len(directives) >= 1 /\ directives[1].offset = 0
    /\ \A m \in 1..Len(directives) : DirectiveOK(directives[m])
    /\ \A m, n \in 1..Len(directives) : m < n => directives[m].offset <= directives[n].offset

DInv == pass = 1 => HasUnits /\ HashOK /\ DirectivesOK

LEMMA HashInText ==
  ASSUME ReadingOK, HashOK
  PROVE  hash = 0 \/ \E h \in 1..at : hash = Offset(h)
<1> SUFFICES ASSUME hash # 0 PROVE \E h \in 1..at : hash = Offset(h)
  OBVIOUS
<1>1. PICK h \in 1..(IF lexing THEN at ELSE tk.from) : hash = Offset(h)
  BY DEF HashOK
<1>2. h \in 1..at
  <2>1. CASE lexing
    BY <2>1
  <2>2. CASE ~lexing
    BY <2>2 DEF ReadingOK, WellRead
  <2> QED
    BY <2>1, <2>2
<1> QED
  BY <1>1, <1>2

LEMMA StartIsDirected == ASSUME Start, HasUnits PROVE DInv
<1>1. hash = 0 /\ directives = <<[offset |-> 0, lineno |-> 1]>>
  BY DEF Start
<1>2. HashOK
  BY <1>1 DEF HashOK
<1>3. IsSequence(directives)
  BY <1>1, TuplesAreSequences
<1>4. Len(directives) = 1 /\ directives[1] = [offset |-> 0, lineno |-> 1]
  BY <1>1
<1>5. DirectiveOK(directives[1]) /\ directives[1].offset = 0
  BY <1>1, <1>4 DEF DirectiveOK
<1>6. DirectivesOK
  BY <1>3, <1>4, <1>5 DEF DirectivesOK
<1> QED
  BY <1>2, <1>6 DEF DInv

\* What was read stays read.
LEMMA DirectivesStay ==
  ASSUME HasUnits, DirectivesOK, UNCHANGED <<text, directives>>, at \in Nat, at' \in Nat, at <= at',
         hash \in Nat, hash' \in Nat, hash <= hash'
  PROVE  HasUnits' /\ DirectivesOK'
<1>1. HasUnits'
  BY DEF HasUnits
<1>2. End' = End /\ \A h : Offset(h)' = Offset(h)
  BY DEF End, Offset
<1>3. \A m \in 1..Len(directives) : DirectiveOK(directives[m])'
  <2> TAKE m \in 1..Len(directives)
  <2> DEFINE d == directives[m]
  <2>1. /\ d.offset \in Nat /\ d.lineno \in Nat /\ d.offset <= hash
        /\ d.offset = 0 \/ \E h \in 1..at : d.offset = Offset(h)
    BY DEF DirectivesOK, DirectiveOK
  <2>2. \A h \in 1..at : h \in 1..at'
    OBVIOUS
  <2>3. d.offset = 0 \/ \E h \in 1..at' : d.offset = Offset(h)'
    BY <1>2, <2>1, <2>2, Zenon
  <2>4. d.offset <= hash'
    BY <2>1
  <2> QED
    BY <2>1, <2>3, <2>4 DEF DirectiveOK
<1> QED
  BY <1>1, <1>3 DEF DirectivesOK

LEMMA ReadingKeepsDirectives ==
  ASSUME PInv, DInv, Blank \/ ReadEndOfText \/ ReadBackslash \/ ReadComment \/ ReadToken,
         UNCHANGED pass
  PROVE  DInv'
<1> SUFFICES ASSUME pass = 1 PROVE HasUnits' /\ HashOK' /\ DirectivesOK'
  BY DEF DInv
<1>1. HasUnits /\ HashOK /\ DirectivesOK
  BY DEF DInv
<1>2. Further /\ lexing
  BY BlankGoesFurther, BackslashGoesFurther, EndGoesFurther, CommentGoesFurther, TokenGoesFurther
     DEF PInv, Blank, ReadEndOfText, ReadBackslash, ReadComment, ReadToken
<1>3. UNCHANGED <<text, directives, hash>>
  BY DEF Blank, ReadEndOfText, ReadBackslash, ReadComment, ReadToken, tree
<1>4. at \in Nat /\ End \in Nat /\ at' \in at..End /\ at' \in Nat /\ at <= at'
  BY <1>2, TextHasEnd DEF PInv, Further
<1>5. hash \in Nat /\ hash' \in Nat /\ hash <= hash'
  BY <1>1, <1>3 DEF HashOK
<1>6. HasUnits' /\ DirectivesOK'
  BY <1>1, <1>3, <1>4, <1>5, DirectivesStay
<1>7. HashOK'
  <2>1. \A h : Offset(h)' = Offset(h)
    BY <1>3 DEF End, Offset
  <2>2. hash = 0 \/ \E h \in 1..at : hash = Offset(h)
    BY <1>1, <1>2 DEF HashOK
  <2>3. (IF lexing' THEN at' ELSE tk'.from) \in {at, at'}
    BY <1>2 DEF Further
  <2>4. \A h \in 1..at : h \in 1..(IF lexing' THEN at' ELSE tk'.from)
    BY <1>4, <2>3
  <2> QED
    BY <1>3, <1>5, <2>1, <2>2, <2>4 DEF HashOK
<1> QED
  BY <1>6, <1>7

\* The steps of lex(), but the one that begins a directive and the one that
\* adds it to the tree.
LEMMA WaitingKeepsHash ==
  ASSUME PInv, HasUnits, HashOK, ~lexing, NEW place, Await(place) \/ Reconsider(place),
         UNCHANGED hash
  PROVE  HasUnits' /\ HashOK'
<1>1. UNCHANGED <<text, at>> /\ at \in Nat /\ tk.from \in 1..at /\ hash \in Nat
  BY TextHasEnd DEF Await, Reconsider, reading, PInv, ReadingOK, WellRead, HashOK
<1>2. HasUnits'
  BY <1>1 DEF HasUnits
<1>3. \A h : Offset(h)' = Offset(h)
  BY <1>1 DEF End, Offset
<1>4. hash = 0 \/ \E h \in 1..tk.from : hash = Offset(h)
  BY DEF HashOK
<1>5. (IF lexing' THEN at' ELSE tk'.from) \in {at, tk.from}
  BY <1>1 DEF Await, Reconsider, reading
<1>6. \A h \in 1..tk.from : h \in 1..(IF lexing' THEN at' ELSE tk'.from)
  BY <1>1, <1>5
<1>7. HashOK'
  BY <1>1, <1>3, <1>4, <1>6 DEF HashOK
<1> QED
  BY <1>2, <1>7

LEMMA WaitingKeepsDirectives ==
  ASSUME PInv, DInv, ~lexing, NEW place, Await(place) \/ Reconsider(place),
         UNCHANGED <<pass, hash, directives>>
  PROVE  DInv'
<1> SUFFICES ASSUME pass = 1 PROVE HasUnits' /\ HashOK' /\ DirectivesOK'
  BY DEF DInv
<1>1. HasUnits /\ HashOK /\ DirectivesOK
  BY DEF DInv
<1>2. UNCHANGED <<text, at>> /\ at \in Nat /\ hash \in Nat
  BY <1>1, TextHasEnd DEF Await, Reconsider, reading, PInv, HashOK
<1>3. HasUnits' /\ DirectivesOK'
  BY <1>1, <1>2, DirectivesStay
<1>4. HashOK'
  BY <1>1, WaitingKeepsHash
<1> QED
  BY <1>3, <1>4

LEMMA DirectiveBegins ==
  ASSUME PInv, DInv, Directive, UNCHANGED pass
  PROVE  DInv'
<1> SUFFICES ASSUME pass = 1 PROVE HasUnits' /\ HashOK' /\ DirectivesOK'
  BY DEF DInv
<1>1. HasUnits /\ HashOK /\ DirectivesOK /\ IsText
  BY DEF DInv, PInv, ReadingOK
<1>2. /\ ~lexing /\ lexing' = TRUE /\ UNCHANGED <<text, at, directives>>
      /\ at \in Nat /\ End \in Nat /\ tk.from \in 1..at /\ tk.from \in 1..End
      /\ hash \in Nat /\ hash' = Offset(tk.from)
  BY <1>1, TextHasEnd DEF Directive, Ready, Await, tree, PInv, ReadingOK, WellRead, HashOK
<1>3. Offset(tk.from) \in Nat /\ hash <= Offset(tk.from)
  <2>1. Offset(tk.from) \in Nat
    BY <1>1, <1>2, OffsetsTellPlaces
  <2>2. CASE hash = 0
    BY <2>1, <2>2
  <2>3. CASE hash # 0
    <3>1. PICK h \in 1..tk.from : hash = Offset(h)
      BY <1>1, <1>2, <2>3 DEF HashOK
    <3>2. h \in 1..End /\ ~(tk.from < h)
      BY <1>2
    <3>3. tk.from < h <=> Offset(tk.from) < Offset(h)
      BY <1>1, <1>2, <3>2, OffsetsTellPlaces
    <3> QED
      BY <1>2, <2>1, <3>1, <3>2, <3>3
  <2> QED
    BY <2>2, <2>3
<1>4. HasUnits' /\ DirectivesOK'
  BY <1>1, <1>2, <1>3, DirectivesStay
<1>5. HashOK'
  <2>1. \A h : Offset(h)' = Offset(h)
    BY <1>2 DEF End, Offset
  <2>2. hash' \in Nat /\ tk.from \in 1..at' /\ hash' = Offset(tk.from)
    BY <1>2, <1>3
  <2>3. \E h \in 1..at' : hash' = Offset(h)'
    BY <2>1, <2>2, Zenon
  <2> QED
    BY <1>2, <2>2, <2>3 DEF HashOK
<1> QED
  BY <1>4, <1>5

LEMMA DirectiveIsAdded ==
  ASSUME PInv, DInv, DirectiveFile, UNCHANGED pass
  PROVE  DInv'
<1>1. ~lexing /\ UNCHANGED <<hash, lineno>> /\ \E place : Await(place) \/ Reconsider(place)
  BY DEF DirectiveFile, Ready
<1>2. CASE UNCHANGED directives
  BY <1>1, <1>2, WaitingKeepsDirectives
<1>3. CASE directives' = Append(directives, [offset |-> hash, lineno |-> lineno]) /\ pass = 1
  <2> DEFINE d == [offset |-> hash, lineno |-> lineno]
             m == Len(directives)
  <2>1. HasUnits /\ HashOK /\ DirectivesOK
    BY <1>3 DEF DInv
  <2>2. UNCHANGED <<text, at>>
    BY <1>1 DEF Await, Reconsider, reading
  <2>3. HasUnits' /\ HashOK'
    BY <1>1, <2>1, WaitingKeepsHash
  <2>4. /\ IsSequence(directives') /\ m \in Nat /\ Len(directives') = m + 1
        /\ directives'[m + 1] = d /\ \A k \in 1..m : directives'[k] = directives[k]
    <3>1. IsSequence(directives) /\ m \in Nat
      BY <2>1 DEF DirectivesOK, IsSequence
    <3> HIDE DEF d
    <3>2. directives' = Append(directives, d)
      BY <1>3 DEF d
    <3> QED
      BY <3>1, <3>2, AppendedIsSequence
  <2>5. /\ d.offset = hash /\ d.lineno = lineno /\ lineno \in Nat /\ hash \in Nat
        /\ hash = 0 \/ \E h \in 1..at : hash = Offset(h)
    BY <2>1, HashInText DEF PInv, ControlOK, HashOK
  <2> HIDE DEF d
  <2>6. DirectiveOK(d)
    BY <2>5 DEF DirectiveOK
  <2>7. \A k \in 1..m : DirectiveOK(directives[k])
    BY <2>1 DEF DirectivesOK
  <2> HIDE DEF m
  <2>8. \A k \in 1..(m + 1) : k \in 1..m \/ k = m + 1
    BY <2>4
  <2>9. \A k \in 1..(m + 1) : DirectiveOK(directives'[k])
    BY <2>4, <2>6, <2>7, <2>8
  <2>10. \A e : DirectiveOK(e) => DirectiveOK(e)'
    <3>1. \A h : Offset(h)' = Offset(h)
      BY <2>2 DEF End, Offset
    <3> QED
      BY <1>1, <2>2, <3>1 DEF DirectiveOK
  <2>11. \A k \in 1..Len(directives') : DirectiveOK(directives[k])'
    BY <2>4, <2>9, <2>10
  <2>12. ASSUME NEW k \in 1..(m + 1), NEW l \in 1..(m + 1), k < l
         PROVE  directives'[k].offset <= directives'[l].offset
    <3>1. k \in 1..m
      BY <2>4, <2>12
    <3>2. CASE l \in 1..m
      BY <2>1, <2>4, <2>12, <3>1, <3>2 DEF DirectivesOK, m
    <3>3. CASE l = m + 1
      BY <2>4, <2>5, <2>7, <3>1, <3>3 DEF DirectiveOK
    <3> QED
      BY <2>8, <3>2, <3>3
  <2>13. Len(directives') >= 1 /\ directives'[1].offset = 0
    <3>1. 1 \in 1..m /\ directives[1].offset = 0
      BY <2>1, <2>4 DEF DirectivesOK, m
    <3> QED
      BY <2>4, <3>1
  <2>14. DirectivesOK'
    BY <2>4, <2>11, <2>12, <2>13 DEF DirectivesOK
  <2> QED
    BY <2>3, <2>14 DEF DInv
<1>4. CASE pass # 1
  BY <1>4 DEF DInv
<1> QED
  BY <1>2, <1>3, <1>4 DEF DirectiveFile

LEMMA StepsKeepDirectives == PInv /\ DInv /\ [Next]_allVars => DInv'
<1> SUFFICES ASSUME PInv, DInv, [Next]_allVars PROVE DInv'
  OBVIOUS
<1>1. CASE (Blank \/ ReadEndOfText \/ ReadBackslash \/ ReadComment \/ ReadToken) /\ UNCHANGED pass
  BY <1>1, ReadingKeepsDirectives
<1>2. CASE Directive /\ UNCHANGED pass
  BY <1>2, DirectiveBegins
<1>3. CASE DirectiveFile /\ UNCHANGED pass
  BY <1>3, DirectiveIsAdded
<1>4. CASE (DirectiveName \/ DirectiveNumber \/ DirectiveRest \/ SkipToken) /\ UNCHANGED pass
  <2>1. /\ ~lexing /\ UNCHANGED <<pass, hash, directives>>
        /\ \E place : Await(place) \/ Reconsider(place)
    BY <1>4 DEF DirectiveName, DirectiveNumber, DirectiveRest, SkipToken, Ready, tree
  <2> QED
    BY <2>1, WaitingKeepsDirectives
<1>5. CASE (Mark \/ MarkData \/ GeneratedTokens \/ Colon \/ Column) /\ UNCHANGED pass
  <2>1. /\ ~lexing /\ UNCHANGED <<pass, hash, directives>>
        /\ \E place : Await(place) \/ Reconsider(place)
    BY <1>5 DEF Mark, MarkData, GeneratedTokens, Colon, Column, Ready, tree
  <2> QED
    BY <2>1, WaitingKeepsDirectives
<1>6. CASE (KeepComment \/ AddToken) /\ UNCHANGED pass
  <2>1. /\ ~lexing /\ UNCHANGED <<pass, hash, directives>>
        /\ \E place : Await(place) \/ Reconsider(place)
    BY <1>6 DEF KeepComment, AddToken, Ready
  <2> QED
    BY <2>1, WaitingKeepsDirectives
<1>7. CASE Unparse
  BY <1>7 DEF Unparse, DInv
<1>8. CASE UNCHANGED allVars
  <2>1. UNCHANGED <<text, at, lexing, tk, hash, directives, pass>>
    BY <1>8 DEF allVars, vars, reading, tree, unparsing
  <2>2. at \in Nat
    BY TextHasEnd DEF PInv
  <2>3. \A h : Offset(h)' = Offset(h)
    BY <2>1 DEF End, Offset
  <2>4. HashOK => HashOK'
    BY <2>1, <2>3 DEF HashOK
  <2>5. HasUnits /\ HashOK /\ DirectivesOK => HasUnits' /\ DirectivesOK'
    <3> HAVE HasUnits /\ HashOK /\ DirectivesOK
    <3>1. hash \in Nat /\ hash' = hash /\ at' = at
      BY <2>1 DEF HashOK
    <3> QED
      BY <2>1, <2>2, <3>1, DirectivesStay
  <2> QED
    BY <2>1, <2>4, <2>5 DEF DInv
<1>9. Next => Unparse \/ (Lex /\ UNCHANGED pass)
  BY DEF Next, unparsing
<1> QED
  BY <1>1, <1>2, <1>3, <1>4, <1>5, <1>6, <1>7, <1>8, <1>9 DEF Lex

LEMMA GivenHasUnits == Init => Start /\ HasUnits
<1> SUFFICES ASSUME Init PROVE HasUnits
  BY DEF Init
<1>1. PICK input \in Inputs : text = input.text
  BY DEF Init
<1> QED
  BY <1>1, InputsAssumption DEF HasUnits

-----------------------------------------------------------------------------
(* The positions.                                                          *)

\* The directive that the search finds is the last one before the place.
LEMMA DirectiveIsFound ==
  ASSUME IsText, HasUnits, DirectivesOK, NEW i \in 1..End
  PROVE  /\ SearchForLineDirective(Offset(i)) = InForce(i)
         /\ DirectiveOK(InForce(i))
<1> DEFINE m == Len(directives)
           o == Offset(i)
           s == [k \in DOMAIN directives |-> directives[k].offset]
           X == {k \in 1..(m + 1) : k = m + 1 \/ directives[k].offset >= o}
<1>1. /\ m \in Nat /\ m >= 1 /\ DOMAIN directives = 1..m /\ o \in Nat
      /\ \A k \in 1..m : directives[k].offset \in Nat
      /\ \A k, l \in 1..m : k < l => directives[k].offset <= directives[l].offset
  <2>1. m \in Nat /\ m >= 1 /\ DOMAIN directives = 1..m
    BY LenProperties DEF DirectivesOK, IsSequence
  <2>2. o \in Nat
    BY OffsetIsDefined
  <2>3. \A k \in 1..m : directives[k].offset \in Nat
    BY DEF DirectivesOK, DirectiveOK
  <2> QED
    BY <2>1, <2>2, <2>3 DEF DirectivesOK
<1> HIDE DEF m, o
<1>2. PICK l \in X : \A k \in X : l <= k
  <2>1. m + 1 \in X /\ X \in SUBSET Nat
    BY <1>1
  <2> HIDE DEF X
  <2> QED
    BY <2>1, LeastNumber
<1>3. l \in 1..(m + 1) /\ (l <= m => directives[l].offset >= o)
  BY <1>1, <1>2
<1>4. \A k \in 1..(l - 1) : k \in 1..m /\ directives[k].offset < o
  <2> TAKE k \in 1..(l - 1)
  <2>1. k \in 1..m /\ k \in 1..(m + 1) /\ k # m + 1 /\ ~(l <= k)
    BY <1>1, <1>3
  <2>2. k \notin X
    <3> HIDE DEF X
    <3> QED
      BY <1>2, <2>1
  <2> QED
    BY <1>1, <2>1, <2>2
<1>5. \A k \in l..m : directives[k].offset >= o
  <2> TAKE k \in l..m
  <2>1. k \in 1..m /\ l \in 1..m /\ (k = l \/ l < k)
    BY <1>1, <1>3
  <2>2. directives[l].offset >= o /\ directives[l].offset <= directives[k].offset
    BY <1>1, <1>3, <2>1
  <2>3. directives[l].offset \in Nat /\ directives[k].offset \in Nat
    BY <1>1, <2>1
  <2>4. o \in Nat
    BY <1>1
  <2> QED
    BY <2>2, <2>3, <2>4
<1> HIDE DEF X
<1>6. LowerBound(s, o) = l
  <2>1. Len(s) = m /\ \A k \in 1..m : s[k] = directives[k].offset
    BY <1>1, LenProperties
  <2> HIDE DEF s
  <2>2. l \in 1..(Len(s) + 1) /\ Len(s) \in Nat /\ o \in Int
    BY <1>1, <1>3, <2>1
  <2>3. \A k \in 1..Len(s) : s[k] \in Int
    BY <1>1, <2>1
  <2>4. \A k \in 1..(l - 1) : s[k] < o
    BY <1>4, <2>1
  <2>5. l <= Len(s) => s[l] >= o
    BY <1>1, <1>3, <2>1
  <2> QED
    BY <2>2, <2>3, <2>4, <2>5, LowerBoundIs
<1> DEFINE q == IF l = 1 THEN 1 ELSE l - 1
           Before == {k \in DOMAIN directives : k = 1 \/ directives[k].offset < o}
<1>7. SearchForLineDirective(o) = directives[q]
  BY <1>6 DEF SearchForLineDirective
<1>8. q \in 1..m /\ q \in Before /\ \A k \in Before : k <= q
  <2>1. q \in 1..m /\ (q = 1 \/ q \in 1..(l - 1))
    BY <1>1, <1>3
  <2>2. q \in Before
    BY <1>1, <1>4, <2>1
  <2>3. \A k \in Before : k <= q
    <3> TAKE k \in Before
    <3>1. k \in 1..m /\ (k = 1 \/ directives[k].offset < o)
      BY <1>1
    <3>2. CASE k \in l..m
      <4>1. directives[k].offset >= o /\ directives[k].offset \in Nat
        BY <1>1, <1>5, <3>1, <3>2
      <4>2. k = 1
        BY <1>1, <3>1, <4>1
      <4> QED
        BY <2>1, <4>2
    <3>3. CASE k \notin l..m
      BY <1>3, <3>1, <3>3
    <3> QED
      BY <3>2, <3>3
  <2> QED
    BY <2>1, <2>2, <2>3
<1>9. \A k \in Before : k \in Nat
  BY <1>1
<1> HIDE DEF q, Before
<1>10. (CHOOSE k \in Before : \A n \in Before : n <= k) = q
  <2>1. \A k \in Before : (\A n \in Before : n <= k) => k = q
    <3> TAKE k \in Before
    <3> HAVE \A n \in Before : n <= k
    <3>1. q <= k /\ k <= q /\ k \in Nat /\ q \in Nat
      BY <1>8, <1>9
    <3> QED
      BY <3>1
  <2> QED
    BY <1>8, <2>1, Zenon
<1>11. InForce(i) = directives[q]
  BY <1>10, Zenon DEF InForce, Before, o
<1>12. DirectiveOK(directives[q])
  BY <1>8 DEF DirectivesOK, m
<1> QED
  BY <1>7, <1>11, <1>12 DEF o

\* The line of a directive that does not begin it.
LEMMA LineOfDirective ==
  ASSUME ReadingOK, HasUnits, NEW d, DirectiveOK(d), d.offset > 0 => ColumnOf(PlaceOf(d.offset)) > 0
  PROVE  /\ SearchForLineno(d.offset) = PhysicalLine(PlaceOf(d.offset))
         /\ PhysicalLine(PlaceOf(d.offset)) \in Nat
<1>1. /\ IsText /\ 1 \in 1..End /\ d.offset \in Nat
      /\ \A h \in 1..at : h \in 1..Limit /\ h \in 1..End /\ h \in Nat
  <2>1. Limit \in 1..End /\ End \in Nat /\ at \in Nat /\ \A h \in 1..at : h \in 1..Limit
    BY LimitInText
  <2> QED
    BY <2>1 DEF ReadingOK, DirectiveOK
<1>2. CASE d.offset = 0
  <2>1. PlaceOf(0) = 1
    <3>1. Offset(1) = 0 /\ PlaceOf(Offset(1)) = 1
      BY <1>1, OffsetIsDefined, OffsetsTellPlaces
    <3> QED
      BY <3>1
  <2>2. PhysicalLine(1) = 0
    <3>1. NewlinesBefore(1) = {}
      BY DEF NewlinesBefore
    <3> QED
      BY <3>1, FS_EmptySet DEF PhysicalLine
  <2>3. SearchForLineno(0) = 0
    <3>1. /\ Len(LineStarts) \in Nat /\ Len(LineStarts) >= 1 /\ LineStarts[1] = 0
          /\ \A k \in 1..Len(LineStarts) : LineStarts[k] \in Int
      BY LimitInText, StartsOfLines, StartsAreInOrder
    <3>2. LowerBound(LineStarts, 0) = 1
      <4>1. 1 \in 1..(Len(LineStarts) + 1) /\ LineStarts[1] >= 0 /\ 1..(1 - 1) = {}
        BY <3>1
      <4> QED
        BY <3>1, <4>1, LowerBoundIs
    <3> QED
      BY <3>1, <3>2 DEF SearchForLineno
  <2> QED
    BY <1>2, <2>1, <2>2, <2>3
<1>3. CASE d.offset # 0
  <2>1. PICK h \in 1..at : d.offset = Offset(h)
    BY <1>3 DEF DirectiveOK
  <2>2. PlaceOf(d.offset) = h
    BY <1>1, <2>1, OffsetsTellPlaces
  <2>3. ColumnOf(h) > 0
    BY <1>1, <1>3, <2>2
  <2>4. SearchForLineno(Offset(h)) = PhysicalLine(h)
    BY <1>1, <2>3, LineIsFound
  <2>5. PhysicalLine(h) \in Nat
    BY <1>1, NewlinesAreFinite
  <2> QED
    BY <2>1, <2>2, <2>4, <2>5
<1> QED
  BY <1>2, <1>3

LEMMA InvariantImpliesPositions == PInv /\ DInv => PositionsInTheText
<1> SUFFICES ASSUME PInv, DInv, Read1, NEW k \in DOMAIN tokens,
                    ColumnOf(tokens[k].from) > 0, Offset(tokens[k].from) \notin DOMAIN marks,
                    InForce(tokens[k].from).offset > 0
                        => ColumnOf(PlaceOf(InForce(tokens[k].from).offset)) > 0
             PROVE  ComputePosition(Offset(tokens[k].from)) =
                        <<PhysicalLine(tokens[k].from)
                              - PhysicalLine(PlaceOf(InForce(tokens[k].from).offset)) - 1
                              + InForce(tokens[k].from).lineno,
                          ColumnOf(tokens[k].from)>>
  BY Zenon DEF PositionsInTheText
<1> DEFINE i == tokens[k].from
           d == InForce(i)
           place == PlaceOf(d.offset)
<1>1. ReadingOK /\ HasUnits /\ DirectivesOK /\ IsText
  BY DEF PInv, DInv, Read1, ReadingOK
<1>2. i \in 1..Limit /\ i \in 1..End /\ i \in Nat
  <2>1. i \in 1..at
    <3>1. tokens[k].from \in 1..tokens[k].to /\ tokens[k].to \in 1..at /\ at \in Nat
      BY <1>1, InvariantImpliesOrder, LimitInText DEF TokensInOrder
    <3> QED
      BY <3>1
  <2>2. Limit \in 1..End /\ End \in Nat /\ i \in 1..Limit
    BY <1>1, <2>1, LimitInText
  <2> QED
    BY <2>2
<1> HIDE DEF i
<1>3. SearchForLineDirective(Offset(i)) = d /\ DirectiveOK(d)
  BY <1>1, <1>2, DirectiveIsFound
<1>4. /\ SearchForLineno(Offset(i)) = PhysicalLine(i)
      /\ SearchForColumn(Offset(i), PhysicalLine(i)) = ColumnOf(i)
  BY <1>1, <1>2, LineIsFound DEF i
<1> HIDE DEF d
<1>5. SearchForLineno(d.offset) = PhysicalLine(place) /\ PhysicalLine(place) \in Nat
  BY <1>1, <1>3, LineOfDirective DEF i, d
<1>6. PhysicalLine(i) \in Nat /\ d.lineno \in Nat
  BY <1>2, <1>3, NewlinesAreFinite DEF DirectiveOK
<1>7. ComputePosition(Offset(i)) =
          <<PhysicalLine(i) - (PhysicalLine(place) + 1) + d.lineno, ColumnOf(i)>>
  BY <1>3, <1>4, <1>5 DEF ComputePosition, i
<1> HIDE DEF place
<1>8. PhysicalLine(i) - (PhysicalLine(place) + 1) + d.lineno =
          PhysicalLine(i) - PhysicalLine(place) - 1 + d.lineno
  BY <1>5, <1>6
<1>9. ComputePosition(Offset(i)) =
          <<PhysicalLine(i) - PhysicalLine(place) - 1 + d.lineno, ColumnOf(i)>>
  BY <1>7, <1>8
<1> QED
  BY <1>9 DEF i, d, place

(* SyntaxTree.cpp:351, Lexer.cpp:155: whatever the text and its line       *)
(* directives, the position of a token is where the text has it: the       *)
(* searches of the lines and of the directives find those it is in, and    *)
(* the directives are kept in the order of the text, which they rely on.   *)
THEOREM PositionsAreInTheText == Spec => []PositionsInTheText
<1>1. Init => DInv
  BY GivenHasUnits, StartIsDirected
<1> QED
  BY <1>1, PlacesInvariance, StepsKeepDirectives, InvariantImpliesPositions, PTL DEF Spec
=============================================================================
