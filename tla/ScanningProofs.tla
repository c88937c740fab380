--------------------------- MODULE ScanningProofs ---------------------------
(***************************************************************************)
(* The routines that scan a token stay in the text, whatever the text: each*)
(* ends behind the place at which it begins, and not past the terminator.  *)
(* So does the place that the recursive scans reach (of escapes, of        *)
(* suffixes), which takes an induction over the places of the text.        *)
(***************************************************************************)
EXTENDS Lexemes, Integers, SequenceTheorems, WellFoundedInduction, TLAPS

(* A set of numbers has a least one, if it has any: the induction behind   *)
(* the lemmas of this module, which are about sets of places.              *)
LEMMA LeastNumber ==
  ASSUME NEW S \in SUBSET Nat, S # {}
  PROVE  \E m \in S : \A k \in S : m <= k
<1> DEFINE R == OpToRel(<, Nat)
<1>1. IsWellFoundedOn(R, Nat)
  BY NatLessThanWellFounded
<1>2. R = {ss \in Nat \X Nat : ss[1] < ss[2]}
  BY Zenon DEF OpToRel
<1>3. \A k, m \in Nat : k < m => <<k, m>> \in R
  BY <1>2
<1> HIDE DEF R
<1>4. PICK m \in S : \A k \in S : ~(<<k, m>> \in R)
  BY <1>1, WFMin
<1>5. \A k \in S : m <= k
  <2> TAKE k \in S
  <2>1. ~(k < m)
    BY <1>3, <1>4
  <2> QED
    BY <2>1
<1> QED
  BY <1>5

(* The first of some places from i on.                                     *)
LEMMA FirstOfPlaces ==
  ASSUME NEW n \in Nat, NEW i \in Nat, NEW J \in SUBSET (i..n), J # {}
  PROVE  \E j \in i..n : j \in J /\ \A k \in i..(j - 1) : k \notin J
<1>1. J \in SUBSET Nat
  OBVIOUS
<1>2. PICK j \in J : \A k \in J : j <= k
  BY <1>1, LeastNumber
<1>3. \A k \in i..(j - 1) : k \notin J
  BY <1>2
<1> QED
  BY <1>2, <1>3

(* What is defined from each number by the number before is a function.    *)
StepsStay(step, m, n, V) == \A j \in (m + 1)..n : \A v \in V : step[j][v] \in V

IsRecursion(f, m, n, V, start, step) ==
    /\ f \in [m..n -> V]
    /\ f[m] = start
    /\ \A j \in (m + 1)..n : f[j] = step[j][f[j - 1]]

LEMMA RecursionIsDefined ==
  ASSUME NEW m \in Nat, NEW n \in Nat, m <= n, NEW V, NEW start \in V,
         NEW step, StepsStay(step, m, n, V)
  PROVE  \E f : IsRecursion(f, m, n, V, start, step)
<1> DEFINE Meets(f, k) == /\ f \in [m..k -> V] /\ f[m] = start
                          /\ \A j \in (m + 1)..k : f[j] = step[j][f[j - 1]]
           T == {h \in 0..(n - m) : \E f : Meets(f, n - h)}
<1>1. n - m \in T
  <2> DEFINE f == [j \in m..m |-> start]
  <2>1. Meets(f, m)
    <3>1. \A j \in (m + 1)..m : FALSE
      OBVIOUS
    <3>2. f \in [m..m -> V] /\ f[m] = start
      OBVIOUS
    <3> QED
      BY <3>1, <3>2
  <2>2. n - (n - m) = m /\ n - m \in 0..(n - m)
    OBVIOUS
  <2> HIDE DEF Meets
  <2> QED
    BY <2>1, <2>2
<1>2. PICK h \in T : \A k \in T : h <= k
  <2>1. T \in SUBSET Nat
    OBVIOUS
  <2> HIDE DEF T
  <2> QED
    BY <1>1, <2>1, LeastNumber
<1>3. ASSUME h # 0 PROVE h - 1 \in T
  <2> DEFINE k == n - h
  <2>1. k \in m..(n - 1) /\ n - (h - 1) = k + 1 /\ h - 1 \in 0..(n - m) /\ k \in Nat
    BY <1>3
  <2>2. PICK f : Meets(f, k)
    OBVIOUS
  <2> HIDE DEF k, T
  <2> DEFINE g == [j \in m..(k + 1) |-> IF j # k + 1 THEN f[j] ELSE step[k + 1][f[k]]]
  <2>3. \A j \in m..(k + 1) : j = k + 1 \/ j \in m..k
    BY <2>1
  <2>4. \A j \in m..k : g[j] = f[j] /\ f[j] \in V
    BY <2>1, <2>2
  <2>5. g[k + 1] = step[k + 1][f[k]] /\ k \in m..k /\ k + 1 \in (m + 1)..n
    BY <2>1
  <2>6. g[k + 1] \in V
    BY <2>4, <2>5 DEF StepsStay
  <2>7. g \in [m..(k + 1) -> V]
    BY <2>3, <2>4, <2>6
  <2>8. \A j \in (m + 1)..(k + 1) : g[j] = step[j][g[j - 1]]
    <3> TAKE j \in (m + 1)..(k + 1)
    <3>1. j - 1 \in m..k /\ j \in m..(k + 1) /\ j \in Int
      BY <2>1
    <3> HIDE DEF g
    <3>2. CASE j = k + 1
      <4>1. j - 1 = k
        BY <2>1, <3>2
      <4> QED
        BY <2>4, <2>5, <3>2, <4>1
    <3>3. CASE j # k + 1
      <4>1. j \in (m + 1)..k /\ j \in m..k
        BY <2>1, <3>1, <3>3
      <4> QED
        BY <2>2, <2>4, <3>1, <4>1
    <3> QED
      BY <3>2, <3>3
  <2>9. g[m] = start
    <3>1. m \in m..k
      BY <2>1
    <3> HIDE DEF g
    <3> QED
      BY <2>2, <2>4, <3>1
  <2>10. Meets(g, k + 1)
    <3> HIDE DEF g
    <3> QED
      BY <2>7, <2>8, <2>9
  <2> HIDE DEF Meets
  <2> QED
    BY <2>1, <2>10 DEF T
<1>4. h = 0
  <2>1. h \in Nat
    OBVIOUS
  <2> HIDE DEF T
  <2>2. h # 0 => h - 1 >= h
    BY <1>2, <1>3
  <2> QED
    BY <2>1, <2>2
<1>5. \E f : Meets(f, n)
  <2>1. n - 0 = n
    OBVIOUS
  <2> HIDE DEF Meets
  <2> QED
    BY <1>4, <2>1
<1> QED
  BY <1>5 DEF IsRecursion

(* What holds at the first number and goes from each to the next holds.    *)
LEMMA RecursionStays ==
  ASSUME NEW m \in Nat, NEW n \in Nat, NEW V, NEW f, f[m] \in V,
         \A j \in (m + 1)..n : f[j - 1] \in V => f[j] \in V
  PROVE  \A j \in m..n : f[j] \in V
<1> DEFINE T == {j \in m..n : f[j] \notin V}
<1> SUFFICES ASSUME T # {} PROVE FALSE
  OBVIOUS
<1>1. PICK k \in T : \A j \in T : k <= j
  <2>1. T \in SUBSET Nat
    OBVIOUS
  <2> HIDE DEF T
  <2> QED
    BY <2>1, LeastNumber
<1>2. k \in m..n /\ f[k] \notin V /\ k # m
  OBVIOUS
<1>3. k \in (m + 1)..n /\ k - 1 \in m..n /\ ~(k <= k - 1)
  BY <1>2
<1>4. k - 1 \notin T
  <2> HIDE DEF T
  <2> QED
    BY <1>1, <1>3
<1> QED
  BY <1>2, <1>3, <1>4

(* A scan that goes on, from each place but those of S, to a place further *)
(* on, is a function of the place where it begins, and only one is.        *)
IsScan(f, m, n, S, next) ==
    /\ f \in [m..n -> 0..n]
    /\ \A j \in m..n : /\ f[j] \in j..n
                       /\ f[j] = IF j \in S THEN j ELSE f[next[j]]

LEMMA ScanFromBefore ==
  ASSUME NEW n \in Nat, NEW S, n \in S,
         NEW next, \A j \in 0..n : j \notin S => next[j] \in (j + 1)..n,
         NEW p \in 0..(n - 1), NEW f, IsScan(f, p + 1, n, S, next)
  PROVE  \E g : IsScan(g, p, n, S, next)
<1> DEFINE g == [j \in p..n |-> IF j # p THEN f[j] ELSE IF p \in S THEN p ELSE f[next[p]]]
<1>1. \A j \in p..n : j = p \/ j \in (p + 1)..n
  OBVIOUS
<1>2. \A j \in (p + 1)..n : j \in p..n /\ j # p
  OBVIOUS
<1>3. \A j \in (p + 1)..n : g[j] = f[j]
  BY <1>2
<1>4. g[p] = IF p \in S THEN p ELSE f[next[p]]
  OBVIOUS
<1>5. \A j \in (p + 1)..n : f[j] \in j..n /\ f[j] = IF j \in S THEN j ELSE f[next[j]]
  BY DEF IsScan
<1>6. \A j \in p..n : j \notin S => next[j] \in (p + 1)..n
  <2> TAKE j \in p..n
  <2> HAVE j \notin S
  <2>1. j \in 0..n /\ j \in Nat /\ p \in Nat /\ p <= j
    OBVIOUS
  <2>2. next[j] \in (j + 1)..n
    BY <2>1
  <2> QED
    BY <2>1, <2>2
<1>7. DOMAIN g = p..n
  OBVIOUS
<1> HIDE DEF g
<1>8. \A j \in p..n : g[j] = IF j \in S THEN j ELSE g[next[j]]
  <2> TAKE j \in p..n
  <2>1. CASE j = p
    BY <2>1, <1>3, <1>4, <1>6
  <2>2. CASE j \in (p + 1)..n
    BY <2>2, <1>3, <1>5, <1>6
  <2> QED
    BY <2>1, <2>2, <1>1
<1>9. \A j \in p..n : g[j] \in j..n
  <2> TAKE j \in p..n
  <2>1. CASE j = p
    <3>1. CASE p \in S
      BY <2>1, <3>1, <1>4
    <3>2. CASE p \notin S
      <4>1. next[p] \in (p + 1)..n
        BY <2>1, <3>2, <1>6
      <4>2. f[next[p]] \in next[p]..n
        BY <4>1, <1>5
      <4>3. f[next[p]] \in p..n
        BY <4>1, <4>2
      <4> QED
        BY <2>1, <3>2, <4>3, <1>4
    <3> QED
      BY <3>1, <3>2
  <2>2. CASE j \in (p + 1)..n
    BY <2>2, <1>3, <1>5
  <2> QED
    BY <2>1, <2>2, <1>1
<1>10. g \in [p..n -> 0..n]
  <2>1. \A j \in p..n : g[j] \in 0..n
    <3> TAKE j \in p..n
    <3>1. g[j] \in j..n
      BY <1>9
    <3> QED
      BY <3>1
  <2>2. g = [j \in p..n |-> g[j]]
    BY <1>7 DEF g
  <2> QED
    BY <2>1, <2>2
<1> QED
  BY <1>8, <1>9, <1>10 DEF IsScan

LEMMA ScanIsDefined ==
  ASSUME NEW n \in Nat, NEW S, n \in S,
         NEW next, \A j \in 0..n : j \notin S => next[j] \in (j + 1)..n
  PROVE  \E f : IsScan(f, 0, n, S, next)
<1> DEFINE T == {m \in 0..n : \E f : IsScan(f, m, n, S, next)}
<1>1. n \in T
  <2> DEFINE f == [j \in n..n |-> n]
  <2>1. IsScan(f, n, n, S, next)
    BY DEF IsScan
  <2> QED
    BY <2>1
<1>2. PICK m \in T : \A k \in T : m <= k
  <2>1. T \in SUBSET Nat
    OBVIOUS
  <2> HIDE DEF T
  <2> QED
    BY <1>1, <2>1, LeastNumber
<1>3. m \in 0..n /\ \E f : IsScan(f, m, n, S, next)
  OBVIOUS
<1>4. ASSUME m # 0
      PROVE  m - 1 \in T
  <2> DEFINE p == m - 1
  <2>1. p \in 0..(n - 1) /\ p + 1 = m
    BY <1>3, <1>4
  <2> HIDE DEF p
  <2>2. PICK f : IsScan(f, p + 1, n, S, next)
    BY <1>3, <2>1
  <2>3. \E g : IsScan(g, p, n, S, next)
    BY <2>1, <2>2, ScanFromBefore
  <2>4. p \in 0..n
    BY <2>1
  <2>5. p \in T
    BY <2>3, <2>4
  <2> QED
    BY <2>5 DEF p
<1>5. m = 0
  <2>1. m \in Nat
    BY <1>3
  <2> HIDE DEF T
  <2>2. m # 0 => m - 1 >= m
    BY <1>2, <1>4
  <2> QED
    BY <2>1, <2>2
<1> QED
  BY <1>3, <1>5

(* Two functions that meet the same recursion are the same.                *)
Follows(f, n, S, next) == \A j \in 0..n : f[j] = IF j \in S THEN j ELSE f[next[j]]

LEMMA ScanIsUnique ==
  ASSUME NEW n \in Nat, NEW S,
         NEW next, \A j \in 0..n : j \notin S => next[j] \in (j + 1)..n,
         NEW f, Follows(f, n, S, next), NEW g, Follows(g, n, S, next)
  PROVE  \A j \in 0..n : g[j] = f[j]
<1> DEFINE T == {h \in 0..n : g[n - h] # f[n - h]}
<1> SUFFICES ASSUME T # {} PROVE FALSE
  <2> SUFFICES ASSUME NEW j \in 0..n, g[j] # f[j] PROVE T # {}
    OBVIOUS
  <2>1. n - j \in 0..n /\ n - (n - j) = j
    OBVIOUS
  <2>2. n - j \in T
    BY <2>1
  <2> QED
    BY <2>2
<1>1. PICK h \in T : \A k \in T : h <= k
  <2>1. T \in SUBSET Nat
    OBVIOUS
  <2> HIDE DEF T
  <2> QED
    BY <2>1, LeastNumber
<1>2. h \in 0..n /\ g[n - h] # f[n - h]
  OBVIOUS
<1> DEFINE j == n - h
           q == next[j]
<1>3. j \in 0..n /\ g[j] # f[j]
  BY <1>2
<1>4. j \notin S
  BY <1>3 DEF Follows
<1>5. q \in (j + 1)..n /\ g[q] # f[q]
  BY <1>3, <1>4 DEF Follows
<1>6. n - q \in 0..n /\ n - (n - q) = q /\ n - q < h
  <2>1. j \in Nat /\ h \in Nat /\ j + h = n
    BY <1>2
  <2> HIDE DEF j, q, T
  <2> QED
    BY <1>5, <2>1
<1>7. n - q \in T
  <2> HIDE DEF q
  <2> QED
    BY <1>5, <1>6
<1> HIDE DEF T, q
<1> QED
  BY <1>1, <1>2, <1>6, <1>7

-----------------------------------------------------------------------------
(* The characters of a text.                                               *)

(* A sequence, whatever its elements are.                                  *)
IsSequence(s) == Len(s) \in Nat /\ s \in Seq({s[k] : k \in 1..Len(s)})

IsText == IsSequence(text)

LEMMA Terminated ==
  ASSUME IsText
  PROVE  /\ End \in Nat /\ End >= 1
         /\ \A i \in Nat : i >= End => Char(i) = NUL
         /\ \A i \in Nat : Char(i) # NUL => i < End
<1>1. End \in Nat /\ End >= 1
  BY DEF IsText, IsSequence, End
<1> QED
  BY <1>1 DEF Char

LEMMA TerminatorIsNothing ==
  /\ NUL \notin Blanks /\ NUL \notin InnerBlanks /\ NUL \notin Digits /\ NUL \notin Octals
  /\ NUL \notin HexDigits /\ NUL \notin Quotes /\ NUL \notin Punctuation
  /\ ~IsAlpha(NUL) /\ ~IsAlnum(NUL) /\ ~StartsIdentifier(NUL) /\ ~ContinuesIdentifier(NUL)
<1>1. NUL \notin Digits /\ NUL \notin CodePoints
  BY DEF NUL, Digits, CodePoints
<1>2. ~IsAlpha(NUL)
  BY DEF IsAlpha
<1>3. /\ NUL \notin Blanks /\ NUL \notin InnerBlanks /\ NUL \notin Octals
      /\ NUL \notin HexDigits /\ NUL \notin Quotes /\ NUL \notin Punctuation
  BY DEF NUL, Blanks, InnerBlanks, Octals, Digits, HexDigits, Quotes, Punctuation
<1>4. NUL \notin {"_", "$"} \cup CodePoints
  BY <1>1 DEF NUL
<1> QED
  BY <1>1, <1>2, <1>3, <1>4 DEF IsAlnum, StartsIdentifier, ContinuesIdentifier

(* The first of the places from i on whose character is not among some.    *)
LEMMA FirstIsFound ==
  ASSUME IsText, NEW i \in 0..End, NEW chars, NUL \notin chars
  PROVE  \E j \in i..End : Char(j) \notin chars /\ \A k \in i..(j - 1) : Char(k) \in chars
<1> DEFINE J == {j \in i..End : Char(j) \notin chars}
<1>1. End \in Nat /\ Char(End) = NUL
  BY Terminated
<1>2. End \in J
  BY <1>1
<1>3. J \in SUBSET (i..End) /\ J # {} /\ i \in Nat
  BY <1>1, <1>2
<1>4. PICK j \in i..End : j \in J /\ \A k \in i..(j - 1) : k \notin J
  <2> HIDE DEF J
  <2> QED
    BY <1>1, <1>3, FirstOfPlaces
<1>5. \A k \in i..(j - 1) : k \in i..End
  BY <1>1, <1>3
<1> QED
  BY <1>4, <1>5

LEMMA SkipStays ==
  ASSUME IsText, NEW i \in 0..End, NEW chars, NUL \notin chars
  PROVE  /\ Skip(chars, i) \in i..End
         /\ Char(Skip(chars, i)) \notin chars
         /\ \A k \in i..(Skip(chars, i) - 1) : Char(k) \in chars
BY FirstIsFound DEF Skip, First

-----------------------------------------------------------------------------
(* Escapes.                                                                *)

LEMMA BackslashStays ==
  ASSUME IsText, NEW i \in 0..End, Char(i) = "\\"
  PROVE  AfterBackslash(i) \in (i + 1)..End
<1>1. End \in Nat /\ i \in Nat /\ i < End
  <2>1. End \in Nat /\ i \in Nat /\ Char(i) # NUL
    BY Terminated DEF NUL
  <2> QED
    BY <2>1, Terminated
<1>2. i + 1 \in 0..End
  BY <1>1
<1> DEFINE line == Skip(InnerBlanks, i + 1)
<1>3. line \in (i + 1)..End
  BY <1>2, SkipStays, TerminatorIsNothing
<1>4. Char(i + 1) # NUL => i + 2 \in (i + 1)..End
  BY <1>1, Terminated
<1>5. Char(line) = "\n" => Skip(InnerBlanks, line + 1) \in (i + 1)..End
  <2> SUFFICES ASSUME Char(line) = "\n"
               PROVE  Skip(InnerBlanks, line + 1) \in (i + 1)..End
    OBVIOUS
  <2>1. line \in Nat /\ line < End
    BY <1>1, <1>3, Terminated DEF NUL
  <2>2. line + 1 \in 0..End
    BY <1>1, <2>1
  <2>3. Skip(InnerBlanks, line + 1) \in (line + 1)..End
    BY <2>2, SkipStays, TerminatorIsNothing
  <2> QED
    BY <1>1, <1>3, <2>1, <2>3
<1>6. i + 1 + 1 = i + 2
  BY <1>1
<1> HIDE DEF line
<1>7. AfterBackslash(i) = IF Char(i + 1) \notin Blanks \cup {NUL} THEN i + 1 + 1
                          ELSE IF Char(line) = "\n" THEN Skip(InnerBlanks, line + 1)
                          ELSE line
  BY DEF AfterBackslash, line
<1> QED
  BY <1>3, <1>4, <1>5, <1>6, <1>7

(* The scans that step over escapes: the recursion ends, in the text.      *)
LEMMA UntilStays ==
  ASSUME IsText, NEW stops, NEW i \in 0..End
  PROVE  Until(stops, i) \in i..End
<1> DEFINE S == {j \in 0..End : Char(j) \in stops \cup {NUL}}
           next == [j \in 0..End |-> IF Char(j) = "\\" THEN AfterBackslash(j) ELSE j + 1]
           Scans(f) == f = [j \in 0..End |-> IF Char(j) \in stops \cup {NUL} THEN j
                                             ELSE IF Char(j) = "\\" THEN f[AfterBackslash(j)]
                                             ELSE f[j + 1]]
<1>1. End \in Nat /\ Char(End) = NUL /\ End \in S
  BY Terminated
<1>2. ASSUME NEW j \in 0..End, j \notin S
      PROVE  next[j] \in (j + 1)..End
  <2>1. j \in Nat /\ j < End
    BY <1>1, <1>2, Terminated
  <2>2. CASE Char(j) = "\\"
    BY <2>2, BackslashStays
  <2>3. CASE Char(j) # "\\"
    BY <1>1, <2>1, <2>3
  <2> QED
    BY <2>2, <2>3
<1>3. ASSUME NEW f
      PROVE  Scans(f) => Follows(f, End, S, next)
  BY DEF Follows
<1>4. ASSUME NEW f, IsScan(f, 0, End, S, next)
      PROVE  Scans(f)
  <2>1. \A j \in 0..End : f[j] = IF j \in S THEN j ELSE f[next[j]]
    BY <1>4 DEF IsScan
  <2>2. f = [j \in 0..End |-> f[j]]
    BY <1>4 DEF IsScan
  <2> QED
    BY <2>1, <2>2
<1>5. Until(stops, i) = (CHOOSE f : Scans(f))[i]
  BY DEF Until
<1>6. PICK f : IsScan(f, 0, End, S, next)
  <2> HIDE DEF S, next, Scans
  <2> QED
    BY <1>1, <1>2, ScanIsDefined
<1>7. Scans(CHOOSE g : Scans(g))
  <2> HIDE DEF Scans, S, next
  <2> QED
    BY <1>4, <1>6
<1> DEFINE g == CHOOSE e : Scans(e)
<1>8. Follows(g, End, S, next)
  <2> HIDE DEF Scans, S, next
  <2> QED
    BY <1>3, <1>7
<1>9. Follows(f, End, S, next)
  BY <1>6 DEF IsScan, Follows
<1> HIDE DEF S, next, g, Scans
<1>10. g[i] = f[i]
  <2>1. End \in Nat /\ \A j \in 0..End : j \notin S => next[j] \in (j + 1)..End
    BY <1>1, <1>2
  <2>2. \A j \in 0..End : g[j] = f[j]
    BY <2>1, <1>8, <1>9, ScanIsUnique
  <2> QED
    BY <2>2
<1>11. f[i] \in i..End
  BY <1>6 DEF IsScan
<1> QED
  BY <1>5, <1>10, <1>11 DEF g

-----------------------------------------------------------------------------
(* Sequences: of characters, and the kinds of tokens, which are written as *)
(* sequences of characters.                                                *)

LEMMA InSeqIsSequence ==
  ASSUME NEW S, NEW s \in Seq(S)
  PROVE  IsSequence(s)
<1>1. Len(s) \in Nat /\ s \in [1..Len(s) -> S]
  OBVIOUS
<1> DEFINE n == Len(s)
           Values == {s[k] : k \in 1..n}
<1>2. s = [k \in 1..n |-> s[k]]
  BY <1>1
<1>3. \A k \in 1..n : s[k] \in Values
  OBVIOUS
<1>4. n \in Nat
  BY <1>1
<1> HIDE DEF n, Values
<1>5. s \in [1..n -> Values]
  BY <1>2, <1>3
<1>6. s \in Seq(Values)
  BY <1>4, <1>5, SeqDef
<1> QED
  BY <1>4, <1>6 DEF IsSequence, n, Values

LEMMA TuplesAreSequences ==
  ASSUME NEW a, NEW b, NEW c
  PROVE  /\ IsSequence(<<>>) /\ IsSequence(<<a>>)
         /\ IsSequence(<<a, b>>) /\ IsSequence(<<a, b, c>>)
<1> DEFINE S == {a, b, c}
<1>1. <<>> \in Seq(S) /\ <<a>> \in Seq(S) /\ <<a, b>> \in Seq(S) /\ <<a, b, c>> \in Seq(S)
  OBVIOUS
<1> HIDE DEF S
<1> QED
  BY <1>1, InSeqIsSequence

LEMMA PartIsSequence ==
  ASSUME NEW s, IsSequence(s), NEW i \in Nat \ {0}, NEW j \in Int, j <= Len(s)
  PROVE  IsSequence(SubSeq(s, i, j))
<1> DEFINE S == {s[k] : k \in 1..Len(s)}
<1>1. s \in Seq(S)
  BY DEF IsSequence
<1> HIDE DEF S
<1>2. \A k \in i..j : k \in 1..Len(s)
  BY DEF IsSequence
<1>3. SubSeq(s, i, j) \in Seq(S)
  BY <1>1, <1>2
<1> QED
  BY <1>3, InSeqIsSequence

LEMMA JoinedIsSequence ==
  ASSUME NEW s, IsSequence(s), NEW t, IsSequence(t)
  PROVE  IsSequence(s \o t)
<1> DEFINE S == {s[k] : k \in 1..Len(s)} \cup {t[k] : k \in 1..Len(t)}
<1>1. s \in Seq({s[k] : k \in 1..Len(s)}) /\ t \in Seq({t[k] : k \in 1..Len(t)})
  BY DEF IsSequence
<1>2. s \in Seq(S) /\ t \in Seq(S)
  <2>1. {s[k] : k \in 1..Len(s)} \subseteq S /\ {t[k] : k \in 1..Len(t)} \subseteq S
    OBVIOUS
  <2>2. \A A, B : A \subseteq B => \A x \in Seq(A) : x \in Seq(B)
    OBVIOUS
  <2> HIDE DEF S
  <2> QED
    BY <1>1, <2>1, <2>2
<1> HIDE DEF S
<1>3. s \o t \in Seq(S)
  BY <1>2
<1> QED
  BY <1>3, InSeqIsSequence

-----------------------------------------------------------------------------
(* What a routine reads is in the text, from i on.                         *)

InText(read, i) ==
    /\ read.end \in i..End
    /\ IsSequence(read.kind)
    /\ read.low \in 1..End /\ read.high \in Int

LEMMA ReadInText ==
  ASSUME NEW i, NEW end \in i..End, NEW kind, IsSequence(kind),
         NEW low \in 1..End, NEW high \in Int
  PROVE  InText(Read(kind, end, low, high), i)
BY DEF InText, Read

LEMMA InTextBefore ==
  ASSUME NEW i \in Nat, NEW j \in i..End, End \in Nat, NEW read, InText(read, j)
  PROVE  InText(read, i)
BY DEF InText

LEMMA KindsOfLiterals ==
  /\ IsSequence(StringLiteral) /\ IsSequence(CharacterConstant)
  /\ IsSequence(Error) /\ IsSequence(EndOfFile) /\ IsSequence(Identifier)
  /\ IsSequence(IntegerConstant) /\ IsSequence(FloatingConstant)
  /\ IsSequence(ImaginaryIntegerConstant) /\ IsSequence(ImaginaryFloatingConstant)
  /\ IsSequence(Comment) /\ IsSequence(DocComment) /\ IsSequence(BlockComment)
  /\ IsSequence(BlockDocComment) /\ IsSequence(Omission)
BY TuplesAreSequences
   DEF StringLiteral, CharacterConstant, Error, EndOfFile, Identifier, IntegerConstant,
       FloatingConstant, ImaginaryIntegerConstant, ImaginaryFloatingConstant, Comment, DocComment,
       BlockComment, BlockDocComment, Omission

LEMMA KindsOfPrefixed ==
  /\ \A p \in {"L", "u", "U", "u8"} : IsSequence(StringKind[p])
  /\ \A p \in DOMAIN CharacterKind : IsSequence(CharacterKind[p])
  /\ \A p \in {"L", "u", "U", "R", "u8"} : IsSequence(RawStringKind[p])
<1>1. /\ StringKind["L"] = <<"<L string literal>">> /\ StringKind["u"] = <<"<u string literal>">>
      /\ StringKind["U"] = <<"<U string literal>">> /\ StringKind["u8"] = <<"<u8 string literal>">>
  BY DEF StringKind
<1>2. /\ CharacterKind["L"] = <<"<L character constant>">>
      /\ CharacterKind["u"] = <<"<u character constant>">>
      /\ CharacterKind["U"] = <<"<U character constant>">>
      /\ DOMAIN CharacterKind = {"L", "u", "U"}
  BY DEF CharacterKind
<1>3. /\ RawStringKind["L"] = <<"<LR string literal>">>
      /\ RawStringKind["u"] = <<"<uR string literal>">>
      /\ RawStringKind["U"] = <<"<UR string literal>">>
      /\ RawStringKind["R"] = <<"<R string literal>">>
      /\ RawStringKind["u8"] = <<"<u8R string literal>">>
  BY DEF RawStringKind
<1>4. \A a : IsSequence(<<a>>)
  BY TuplesAreSequences
<1> QED
  BY <1>1, <1>2, <1>3, <1>4

(* A character that is there is stepped over.                             *)
LEMMA OneFurther ==
  ASSUME IsText, NEW i \in Nat, NEW stop \in i..End, NEW c, c # NUL
  PROVE  (IF Char(stop) = c THEN stop + 1 ELSE stop) \in i..End
<1>1. End \in Nat /\ (Char(stop) = c => stop < End)
  BY Terminated
<1> QED
  BY <1>1

(* Literals.                                                               *)
LEMMA QuotedInText ==
  ASSUME IsText, NEW i \in 2..End, NEW quote, quote # NUL, NEW kind, IsSequence(kind),
         NEW prefix \in Nat, i - 1 - prefix > 0
  PROVE  InText(QuotedAt(i, quote, kind, prefix), i)
<1> DEFINE stop == Until({quote, "\n"}, i)
<1>1. End \in Nat /\ i \in Nat /\ stop \in i..End
  <2>1. End \in Nat /\ i \in 0..End
    BY Terminated
  <2> QED
    BY <2>1, UntilStays
<1> HIDE DEF stop
<1>3. (IF Char(stop) = quote THEN stop + 1 ELSE stop) \in i..End
  BY <1>1, OneFurther
<1>4. i - 1 - prefix \in 1..End /\ stop + prefix \in Int
  BY <1>1
<1> QED
  BY <1>3, <1>4, ReadInText DEF QuotedAt, stop

LEMMA StringInText ==
  ASSUME IsText, NEW i \in 3..End, NEW prefix \in {"L", "u", "U", "u8"}
  PROVE  InText(StringAt(i, prefix), i)
<1>1. i \in 2..End /\ i - 1 - 1 > 0 /\ 1 \in Nat
  BY Terminated
<1>2. "\"" # NUL
  BY DEF NUL
<1> QED
  BY <1>1, <1>2, KindsOfPrefixed, QuotedInText DEF StringAt

LEMMA CharacterInText ==
  ASSUME IsText, NEW i \in 3..End, NEW prefix
  PROVE  InText(CharacterAt(i, prefix), i)
<1>1. i \in 2..End /\ i - 1 - 1 > 0 /\ i - 1 - 0 > 0 /\ 1 \in Nat /\ 0 \in Nat
  BY Terminated
<1>2. "'" # NUL
  BY DEF NUL
<1>3. prefix \in DOMAIN CharacterKind => InText(QuotedAt(i, "'", CharacterKind[prefix], 1), i)
  BY <1>1, <1>2, KindsOfPrefixed, QuotedInText
<1>4. InText(QuotedAt(i, "'", CharacterConstant, 0), i)
  BY <1>1, <1>2, KindsOfLiterals, QuotedInText
<1> QED
  BY <1>3, <1>4 DEF CharacterAt

LEMMA RawStringInText ==
  ASSUME IsText, NEW i \in 1..End, NEW prefix \in {"L", "u", "U", "R", "u8"}
  PROVE  InText(RawStringAt(i, prefix), i)
<1> DEFINE open == First(i, LAMBDA c : c \in {"(", ")", "\\", NUL} \cup Blanks)
           Closes(j) == /\ Char(j) = "\"" /\ j - (open - i) - 1 > open
                        /\ Char(j - (open - i) - 1) = ")"
                        /\ SubSeq(text, j - (open - i), j - 1) = SubSeq(text, i, open - 1)
           closing == CHOOSE j \in open..End :
                            Closes(j) /\ \A k \in open..(j - 1) : ~Closes(k)
           stop == CASE Char(open) = "(" /\ (\E j \in open..End : Closes(j)) -> closing
                     [] Char(open) = "(" /\ ~(\E j \in open..End : Closes(j)) -> End
                     [] Char(open) = ")" -> open + 1
                     [] OTHER -> open
<1>1. End \in Nat /\ Char(End) = NUL /\ i \in Nat \ {0} /\ i <= End
  BY Terminated
<1>2. open \in i..End
  <2> DEFINE J == {j \in i..End : Char(j) \in {"(", ")", "\\", NUL} \cup Blanks}
  <2>1. End \in J
    BY <1>1
  <2>2. J \in SUBSET (i..End) /\ J # {}
    BY <2>1
  <2>3. PICK j \in i..End : j \in J /\ \A k \in i..(j - 1) : k \notin J
    <3> HIDE DEF J
    <3> QED
      BY <1>1, <2>2, FirstOfPlaces
  <2>4. \A k \in i..(j - 1) : k \in i..End
    BY <1>1
  <2>5. \E m \in i..End : /\ Char(m) \in {"(", ")", "\\", NUL} \cup Blanks
                           /\ \A k \in i..(m - 1) :
                                ~(Char(k) \in {"(", ")", "\\", NUL} \cup Blanks)
    BY <2>3, <2>4
  <2> QED
    BY <2>5 DEF First
<1> HIDE DEF open
<1>3. (\E j \in open..End : Closes(j)) => closing \in open..End
  <2> SUFFICES ASSUME \E j \in open..End : Closes(j) PROVE closing \in open..End
    OBVIOUS
  <2> HIDE DEF Closes
  <2> DEFINE J == {j \in open..End : Closes(j)}
  <2>1. J \in SUBSET (open..End) /\ J # {} /\ open \in Nat
    BY <1>1, <1>2
  <2>2. PICK j \in open..End : j \in J /\ \A k \in open..(j - 1) : k \notin J
    <3> HIDE DEF J
    <3> QED
      BY <1>1, <2>1, FirstOfPlaces
  <2>3. \A k \in open..(j - 1) : k \in open..End
    BY <1>1, <2>1
  <2>4. \E m \in open..End : Closes(m) /\ \A k \in open..(m - 1) : ~Closes(k)
    BY <2>2, <2>3
  <2> QED
    BY <2>4
<1> HIDE DEF closing, Closes
<1>4. stop \in i..End
  <2>1. Char(open) = ")" => open + 1 \in i..End
    BY <1>1, <1>2, Terminated DEF NUL
  <2>2. open \in i..End /\ End \in i..End
    BY <1>1, <1>2
  <2>3. (\E j \in open..End : Closes(j)) => closing \in i..End
    BY <1>1, <1>2, <1>3
  <2>4. CASE Char(open) = "("
    BY <2>2, <2>3, <2>4
  <2>5. CASE Char(open) # "("
    BY <2>1, <2>2, <2>5
  <2> QED
    BY <2>4, <2>5
<1>5. RawStringAt(i, prefix) = Read(RawStringKind[prefix],
                                    IF Char(stop) = "\"" THEN stop + 1 ELSE stop, i, stop - 1)
  BY DEF RawStringAt, open, closing, Closes
<1> HIDE DEF stop
<1>6. (IF Char(stop) = "\"" THEN stop + 1 ELSE stop) \in i..End
  <2>1. "\"" # NUL
    BY DEF NUL
  <2>2. i \in Nat
    BY <1>1
  <2> QED
    BY <1>4, <2>1, <2>2, OneFurther
<1>7. stop - 1 \in Int
  BY <1>1, <1>4
<1> QED
  BY <1>1, <1>5, <1>6, <1>7, KindsOfPrefixed, ReadInText

-----------------------------------------------------------------------------
(* Comments.                                                               *)

LEMMA AfterBlockStays ==
  ASSUME IsText, NEW i \in 0..End
  PROVE  AfterBlock(i) \in i..End
<1> DEFINE Closes(j) == Char(j) = "*" /\ Char(j + 1) = "/"
           closing == CHOOSE j \in i..End : Closes(j) /\ \A k \in i..(j - 1) : ~Closes(k)
<1>1. End \in Nat /\ i \in Nat
  BY Terminated
<1>2. \A j \in i..End : Closes(j) => 2 + j \in i..End
  <2> TAKE j \in i..End
  <2> HAVE Closes(j)
  <2>1. j + 1 \in Nat /\ Char(j + 1) # NUL
    BY <1>1 DEF NUL
  <2>2. j + 1 < End
    BY <2>1, Terminated
  <2> HIDE DEF Closes
  <2> QED
    BY <1>1, <2>2
<1>3. AfterBlock(i) = IF \E j \in i..End : Closes(j) THEN 2 + closing ELSE End
  BY DEF AfterBlock
<1> HIDE DEF Closes
<1>4. (\E j \in i..End : Closes(j)) => closing \in i..End /\ Closes(closing)
  <2> DEFINE J == {j \in i..End : Closes(j)}
  <2> SUFFICES ASSUME \E j \in i..End : Closes(j)
               PROVE  closing \in i..End /\ Closes(closing)
    OBVIOUS
  <2>1. J \in SUBSET (i..End) /\ J # {}
    OBVIOUS
  <2>2. PICK j \in i..End : j \in J /\ \A k \in i..(j - 1) : k \notin J
    <3> HIDE DEF J
    <3> QED
      BY <1>1, <2>1, FirstOfPlaces
  <2>3. \A k \in i..(j - 1) : k \in i..End
    BY <1>1
  <2>4. \E m \in i..End : Closes(m) /\ \A k \in i..(m - 1) : ~Closes(k)
    BY <2>2, <2>3
  <2> QED
    BY <2>4
<1> HIDE DEF closing
<1>5. CASE \E j \in i..End : Closes(j)
  BY <1>2, <1>3, <1>4, <1>5
<1>6. CASE ~\E j \in i..End : Closes(j)
  BY <1>1, <1>3, <1>6
<1> QED
  BY <1>5, <1>6

LEMMA LineCommentInText ==
  ASSUME IsText, NEW i \in 1..End
  PROVE  InText(LineCommentAt(i), i)
<1> DEFINE doc == Char(i) \in {"/", "!"}
           body == IF doc THEN i + 1 ELSE i
           kind == IF doc THEN DocComment ELSE Comment
<1>1. End \in Nat /\ i \in Nat \ {0}
  BY Terminated
<1>2. body \in i..End
  <2>1. doc => i < End
    BY <1>1, Terminated DEF NUL
  <2> HIDE DEF doc
  <2> QED
    BY <1>1, <2>1
<1>3. LineCommentAt(i) = Read(kind, Until({"\n"}, body), i, i)
  BY DEF LineCommentAt
<1>4. IsSequence(kind)
  BY KindsOfLiterals
<1> HIDE DEF body, kind
<1>5. Until({"\n"}, body) \in i..End
  <2>1. body \in 0..End /\ body \in Nat
    BY <1>1, <1>2
  <2>2. Until({"\n"}, body) \in body..End
    BY <2>1, UntilStays
  <2> QED
    BY <1>1, <1>2, <2>1, <2>2
<1>6. i \in Int
  BY <1>1
<1> QED
  BY <1>1, <1>3, <1>4, <1>5, <1>6, ReadInText

LEMMA BlockCommentInText ==
  ASSUME IsText, NEW i \in 1..End
  PROVE  InText(BlockCommentAt(i), i)
<1> DEFINE body == IF Char(i + 1) = "<" THEN i + 2 ELSE i + 1
           kind == IF Char(body) \in Blanks \cup {NUL} THEN BlockDocComment ELSE BlockComment
<1>1. End \in Nat /\ i \in Nat \ {0} /\ i \in Int /\ i \in 0..End
  BY Terminated
<1>2. IsSequence(kind)
  BY KindsOfLiterals
<1>3. CASE Char(i) = "*" /\ Char(i + 1) = "/"
  <2>1. i + 1 \in Nat /\ Char(i + 1) # NUL
    BY <1>1, <1>3 DEF NUL
  <2>2. i + 1 < End
    BY <2>1, Terminated
  <2>3. i + 2 \in i..End
    BY <1>1, <2>2
  <2>4. InText(Read(BlockComment, i + 2, i, i), i)
    BY <1>1, <2>3, KindsOfLiterals, ReadInText
  <2>5. BlockCommentAt(i) = Read(BlockComment, i + 2, i, i)
    BY <1>3 DEF BlockCommentAt
  <2> QED
    BY <2>4, <2>5
<1>4. CASE Char(i) \in {"*", "!"} /\ ~(Char(i) = "*" /\ Char(i + 1) = "/")
  <2>1. i < End
    BY <1>1, <1>4, Terminated DEF NUL
  <2>2. Char(i + 1) = "<" => i + 1 < End
    BY <1>1, Terminated DEF NUL
  <2>3. body \in i..End /\ body \in 0..End /\ body \in Nat
    BY <1>1, <2>1, <2>2
  <2> HIDE DEF body
  <2>4. AfterBlock(body) \in body..End
    BY <2>3, AfterBlockStays
  <2>5. AfterBlock(body) \in i..End
    BY <1>1, <2>3, <2>4
  <2>6. BlockCommentAt(i) = Read(kind, AfterBlock(body), i, i)
    <3>1. Char(i) # "."
      BY <1>4
    <3> QED
      BY <1>4, <3>1 DEF BlockCommentAt, body
  <2> HIDE DEF kind
  <2> QED
    BY <1>1, <1>2, <2>5, <2>6, ReadInText
<1>5. CASE Char(i) = "."
  <2> DEFINE dots == Skip({"."}, i)
  <2>1. dots \in i..End
    BY <1>1, SkipStays DEF NUL
  <2>2. dots \in 0..End /\ dots \in Nat
    BY <1>1, <2>1
  <2>3. BlockCommentAt(i) = Read(Omission, AfterBlock(dots), i, i)
    BY <1>5 DEF BlockCommentAt
  <2> HIDE DEF dots
  <2>4. AfterBlock(dots) \in dots..End
    BY <2>2, AfterBlockStays
  <2>5. AfterBlock(dots) \in i..End
    BY <1>1, <2>1, <2>2, <2>4
  <2> QED
    BY <1>1, <2>3, <2>5, KindsOfLiterals, ReadInText
<1>6. CASE Char(i) \notin {"*", "!", "."}
  <2>1. AfterBlock(i) \in i..End
    BY <1>1, AfterBlockStays
  <2>2. BlockCommentAt(i) = Read(BlockComment, AfterBlock(i), i, i)
    BY <1>6 DEF BlockCommentAt
  <2> QED
    BY <1>1, <2>1, <2>2, KindsOfLiterals, ReadInText
<1> QED
  BY <1>3, <1>4, <1>5, <1>6

-----------------------------------------------------------------------------
(* Numbers.                                                                *)

LEMMA OneSuffixStays ==
  ASSUME IsText, NEW i \in 1..End, i < End
  PROVE  OneSuffix(i) \in (i + 1)..End
<1>1. End \in Nat /\ i \in Nat /\ i + 1 \in Nat
  BY Terminated
<1>2. Char(i) \in {"l", "L"} /\ Char(i + 1) = Char(i) => i + 1 < End
  BY <1>1, Terminated DEF NUL
<1> QED
  BY <1>1, <1>2 DEF OneSuffix

LEMMA SuffixesStay ==
  ASSUME IsText, NEW i \in 1..End
  PROVE  IntegerSuffix(i) \in i..End /\ FloatingSuffix(i) \in i..End
<1>1. End \in Nat /\ i \in Nat
  BY Terminated
<1>2. FloatingSuffix(i) \in i..End
  <2>1. Char(i) \in {"f", "l", "F", "L"} => i < End
    BY <1>1, Terminated DEF NUL
  <2> QED
    BY <1>1, <2>1 DEF FloatingSuffix
<1>3. IntegerSuffix(i) \in i..End
  <2> DEFINE other == IF Char(i) \in {"u", "U"} THEN {"l", "L"} ELSE {"u", "U"}
             after == OneSuffix(i)
  <2>1. CASE Char(i) \notin {"u", "U", "l", "L"}
    BY <1>1, <2>1 DEF IntegerSuffix
  <2>2. CASE Char(i) \in {"u", "U", "l", "L"}
    <3>1. i < End
      BY <1>1, <2>2, Terminated DEF NUL
    <3>2. after \in (i + 1)..End
      BY <3>1, OneSuffixStays
    <3>3. after \in 1..End /\ after \in Nat /\ after \in i..End
      BY <1>1, <3>2
    <3>4. NUL \notin other
      BY DEF NUL
    <3>5. IntegerSuffix(i) = IF Char(after) \in other THEN OneSuffix(after) ELSE after
      BY <2>2 DEF IntegerSuffix
    <3> HIDE DEF after, other
    <3>6. CASE Char(after) \in other
      <4>1. after < End
        BY <1>1, <3>3, <3>4, <3>6, Terminated
      <4>2. OneSuffix(after) \in (after + 1)..End
        BY <3>3, <4>1, OneSuffixStays
      <4> QED
        BY <1>1, <3>3, <3>5, <3>6, <4>2
    <3> QED
      BY <3>3, <3>5, <3>6
  <2> QED
    BY <2>1, <2>2
<1> QED
  BY <1>2, <1>3

LEMMA ReadNumberInText ==
  ASSUME NEW i, NEW end \in i..End, NEW kind, IsSequence(kind),
         NEW low \in 1..End, NEW imaginary, end \in Nat
  PROVE  InText(ReadNumber(kind, end, low, imaginary), i)
BY DEF InText, ReadNumber

LEMMA SuffixedInText ==
  ASSUME IsText, NEW i \in 1..End, NEW low \in 1..End, NEW integer \in BOOLEAN
  PROVE  InText(Suffixed(low, i, integer), i)
<1> DEFINE Suffix(j) == IF integer THEN IntegerSuffix(j) ELSE FloatingSuffix(j)
           real == IF integer THEN IntegerConstant ELSE FloatingConstant
           imaginary == IF integer THEN ImaginaryIntegerConstant ELSE ImaginaryFloatingConstant
           first == Char(i) \in {"i", "j"}
           after == IF first THEN Suffix(i + 1) ELSE Suffix(i)
           last == ~first /\ Char(after) \in {"i", "j"}
           end == IF last THEN after + 1 ELSE after
           rest == First(end, LAMBDA c : ~IsAlnum(c) /\ c # "_")
           kind == IF first \/ last THEN imaginary ELSE real
<1>1. End \in Nat /\ i \in Nat
  BY Terminated
<1>2. \A j \in 1..End : Suffix(j) \in j..End
  BY SuffixesStay
<1>3. Suffixed(low, i, integer) =
        IF IsAlnum(Char(end)) \/ Char(end) = "_" THEN ReadNumber(Error, rest, low, first \/ last)
        ELSE ReadNumber(kind, end, low, first \/ last)
  BY DEF Suffixed
<1>4. IsSequence(kind)
  BY KindsOfLiterals
<1>5. first => i < End
  BY <1>1, Terminated DEF NUL
<1> HIDE DEF Suffix, first, kind
<1>6. after \in i..End
  <2>1. CASE first
    <3>1. i + 1 \in 1..End
      BY <1>1, <1>5, <2>1
    <3>2. Suffix(i + 1) \in (i + 1)..End
      BY <1>2, <3>1
    <3> QED
      BY <1>1, <2>1, <3>2
  <2>2. CASE ~first
    BY <1>2, <2>2
  <2> QED
    BY <2>1, <2>2
<1>7. last => after < End
  BY <1>1, <1>6, Terminated DEF NUL
<1> HIDE DEF after, last
<1>8. end \in i..End /\ end \in Nat
  BY <1>1, <1>6, <1>7
<1> HIDE DEF end
<1>9. rest \in i..End /\ rest \in Nat
  <2> DEFINE J == {j \in end..End : ~IsAlnum(Char(j)) /\ Char(j) # "_"}
  <2>1. End \in end..End /\ Char(End) = NUL /\ ~IsAlnum(NUL) /\ NUL # "_"
    BY <1>1, <1>8, Terminated, TerminatorIsNothing DEF NUL
  <2>2. J \in SUBSET (end..End) /\ J # {}
    BY <2>1
  <2>3. PICK j \in end..End : j \in J /\ \A k \in end..(j - 1) : k \notin J
    <3> HIDE DEF J
    <3> QED
      BY <1>1, <1>8, <2>2, FirstOfPlaces
  <2>4. \A k \in end..(j - 1) : k \in end..End
    BY <1>1, <1>8
  <2>5. \E m \in end..End : /\ ~IsAlnum(Char(m)) /\ Char(m) # "_"
                             /\ \A k \in end..(m - 1) : ~(~IsAlnum(Char(k)) /\ Char(k) # "_")
    BY <2>3, <2>4
  <2>6. rest \in end..End
    BY <2>5 DEF First
  <2> HIDE DEF rest
  <2> QED
    BY <1>1, <1>8, <2>6
<1> HIDE DEF rest
<1>10. InText(ReadNumber(Error, rest, low, first \/ last), i)
  BY <1>9, KindsOfLiterals, ReadNumberInText
<1>11. InText(ReadNumber(kind, end, low, first \/ last), i)
  BY <1>4, <1>8, ReadNumberInText
<1> QED
  BY <1>3, <1>10, <1>11

LEMMA ExponentStays ==
  ASSUME IsText, NEW i \in 1..End, NEW letters, NUL \notin letters
  PROVE  Exponent(i, letters) \in i..End
<1> DEFINE digits == IF Char(i + 1) \in {"+", "-"} THEN i + 2 ELSE i + 1
<1>1. End \in Nat /\ i \in Nat /\ i + 1 \in Nat
  BY Terminated
<1>2. CASE Char(i) \notin letters
  BY <1>1, <1>2 DEF Exponent
<1>3. CASE Char(i) \in letters
  <2>1. i < End
    BY <1>1, <1>3, Terminated
  <2>2. Char(i + 1) \in {"+", "-"} => i + 1 < End
    BY <1>1, Terminated DEF NUL
  <2>3. digits \in i..End /\ digits \in 0..End /\ digits \in Nat
    BY <1>1, <2>1, <2>2
  <2>4. Exponent(i, letters) = Skip(Digits, digits)
    BY <1>3 DEF Exponent
  <2> HIDE DEF digits
  <2>5. Skip(Digits, digits) \in digits..End
    BY <2>3, SkipStays, TerminatorIsNothing
  <2> QED
    BY <1>1, <2>3, <2>4, <2>5
<1> QED
  BY <1>2, <1>3

LEMMA FloatingInText ==
  ASSUME IsText, NEW i \in 1..End, NEW letters, NUL \notin letters, NEW low \in 1..End
  PROVE  InText(FloatingAt(low, Exponent(i, letters)), i)
<1> DEFINE j == Exponent(i, letters)
<1>1. End \in Nat /\ i \in Nat \ {0}
  BY Terminated
<1>2. j \in i..End
  BY ExponentStays
<1> HIDE DEF j
<1>3. j \in 1..End /\ j \in i..End
  BY <1>1, <1>2
<1>4. InText(FloatingAt(low, j), j)
  BY <1>3, SuffixedInText DEF FloatingAt
<1>5. InText(FloatingAt(low, j), i)
  BY <1>1, <1>3, <1>4, InTextBefore
<1> QED
  BY <1>5 DEF j

LEMMA FractionInText ==
  ASSUME IsText, NEW i \in 1..End, NEW low \in 1..End
  PROVE  InText(FractionAt(low, i), i)
<1> DEFINE j == Skip(Digits, i)
<1>1. End \in Nat /\ i \in Nat \ {0} /\ i \in 0..End /\ NUL \notin {"e", "E"}
  BY Terminated DEF NUL
<1>2. j \in i..End
  BY <1>1, SkipStays, TerminatorIsNothing
<1> HIDE DEF j
<1>3. j \in 1..End /\ j \in i..End
  BY <1>1, <1>2
<1>4. InText(FloatingAt(low, Exponent(j, {"e", "E"})), j)
  BY <1>1, <1>3, FloatingInText
<1>5. InText(FloatingAt(low, Exponent(j, {"e", "E"})), i)
  BY <1>1, <1>3, <1>4, InTextBefore
<1> QED
  BY <1>5 DEF FractionAt, j

(* A number that begins with a digit is behind it.                         *)
LEMMA IntegerInText ==
  ASSUME IsText, NEW i \in 1..End, NEW j \in i..End, NEW chars, NUL \notin chars,
         NEW low \in 1..End
  PROVE  InText(IntegerAt(low, Skip(chars, j)), i)
<1> DEFINE stop == Skip(chars, j)
<1>1. End \in Nat /\ i \in Nat \ {0} /\ j \in Nat
  BY Terminated
<1>2. j \in 0..End
  BY <1>1
<1>3. stop \in j..End
  BY <1>2, SkipStays
<1> HIDE DEF stop
<1>4. stop \in 1..End /\ stop \in i..End
  BY <1>1, <1>3
<1>5. InText(IntegerAt(low, stop), stop)
  BY <1>4, SuffixedInText DEF IntegerAt
<1>6. InText(IntegerAt(low, stop), i)
  BY <1>1, <1>4, <1>5, InTextBefore
<1> QED
  BY <1>6 DEF stop

LEMMA HexNumberInText ==
  ASSUME IsText, NEW i \in 1..End, i + 1 < End
  PROVE  InText(HexNumberAt(i), i + 1)
<1> DEFINE dot == Skip(HexDigits, i + 2)
           fraction == Skip(HexDigits, dot + 1)
<1>1. End \in Nat /\ i \in Nat \ {0} /\ i + 1 \in 1..End /\ i + 2 \in 1..End /\ i + 2 \in 0..End
      /\ i + 1 \in Nat /\ i + 2 \in (i + 1)..End
  BY Terminated
<1>2. dot \in (i + 2)..End
  BY <1>1, SkipStays, TerminatorIsNothing
<1>3. InText(IntegerAt(i, dot), i + 1)
  BY <1>1, TerminatorIsNothing, IntegerInText
<1>4. Char(dot) = "." => InText(FloatingAt(i, Exponent(fraction, {"p", "P"})), i + 1)
  <2> SUFFICES ASSUME Char(dot) = "."
               PROVE  InText(FloatingAt(i, Exponent(fraction, {"p", "P"})), i + 1)
    OBVIOUS
  <2>1. dot \in Nat /\ Char(dot) # NUL
    BY <1>1, <1>2 DEF NUL
  <2>2. dot < End
    BY <2>1, Terminated
  <2>3. dot + 1 \in 0..End /\ dot + 1 \in (i + 1)..End /\ dot + 1 \in Nat
    BY <1>1, <1>2, <2>1, <2>2
  <2> HIDE DEF dot
  <2>4. fraction \in (dot + 1)..End
    BY <2>3, SkipStays, TerminatorIsNothing
  <2> HIDE DEF fraction
  <2>5. fraction \in 1..End /\ fraction \in (i + 1)..End
    BY <1>1, <2>3, <2>4
  <2>6. InText(FloatingAt(i, Exponent(fraction, {"p", "P"})), fraction)
    BY <1>1, <2>5, FloatingInText DEF NUL
  <2> QED
    BY <1>1, <2>5, <2>6, InTextBefore
<1> QED
  BY <1>3, <1>4 DEF HexNumberAt

LEMMA DecimalInText ==
  ASSUME IsText, NEW i \in 1..End, i < End
  PROVE  InText(DecimalAt(i), i + 1)
<1> DEFINE stop == Skip(Digits, i + 1)
<1>1. End \in Nat /\ i \in Nat \ {0} /\ i + 1 \in 1..End /\ i + 1 \in 0..End /\ i + 1 \in Nat
      /\ i + 1 \in (i + 1)..End
  BY Terminated
<1>2. stop \in (i + 1)..End
  BY <1>1, SkipStays, TerminatorIsNothing
<1>3. InText(IntegerAt(i, stop), i + 1)
  BY <1>1, TerminatorIsNothing, IntegerInText
<1>4. DecimalAt(i) =
        CASE Char(stop) = "." -> FractionAt(i, stop + 1)
          [] Char(stop) \in {"e", "E"} -> FloatingAt(i, Exponent(stop, {"e", "E"}))
          [] OTHER -> IntegerAt(i, stop)
  BY DEF DecimalAt
<1> HIDE DEF stop
<1>5. stop \in Nat /\ stop \in 1..End
  BY <1>1, <1>2
<1>6. CASE Char(stop) = "."
  <2>1. stop < End
    BY <1>5, <1>6, Terminated DEF NUL
  <2>2. stop + 1 \in 1..End /\ stop + 1 \in (i + 1)..End
    BY <1>1, <1>2, <1>5, <2>1
  <2>3. InText(FractionAt(i, stop + 1), stop + 1)
    BY <1>1, <2>2, FractionInText
  <2>4. InText(FractionAt(i, stop + 1), i + 1)
    BY <1>1, <2>2, <2>3, InTextBefore
  <2> QED
    BY <1>4, <1>6, <2>4
<1>7. CASE Char(stop) \in {"e", "E"}
  <2>1. InText(FloatingAt(i, Exponent(stop, {"e", "E"})), stop)
    BY <1>1, <1>5, FloatingInText DEF NUL
  <2>2. InText(FloatingAt(i, Exponent(stop, {"e", "E"})), i + 1)
    BY <1>1, <1>2, <2>1, InTextBefore
  <2>3. Char(stop) # "."
    BY <1>7
  <2> QED
    BY <1>4, <1>7, <2>2, <2>3
<1>8. CASE Char(stop) \notin {".", "e", "E"}
  <2>1. Char(stop) # "." /\ Char(stop) \notin {"e", "E"}
    BY <1>8
  <2> QED
    BY <1>3, <1>4, <2>1
<1> QED
  BY <1>6, <1>7, <1>8

LEMMA NumberInText ==
  ASSUME IsText, NEW i \in 1..End, i < End
  PROVE  InText(NumberAt(i), i + 1)
<1> DEFINE next == Char(i + 1)
           hex == Char(i) = "0" /\ next \in {"x", "X"}
           binary == Char(i) = "0" /\ next \in {"b", "B"}
           octal == Char(i) = "0" /\ next \in Octals
<1>1. End \in Nat /\ i \in Nat \ {0} /\ i + 1 \in 1..End /\ i + 1 \in Nat
      /\ i + 1 \in (i + 1)..End
  BY Terminated
<1>2. hex \/ binary => i + 1 < End
  BY <1>1, Terminated DEF NUL
<1>3. hex => InText(HexNumberAt(i), i + 1)
  BY <1>2, HexNumberInText
<1>4. binary => InText(IntegerAt(i, Skip({"0", "1"}, i + 2)), i + 1)
  <2> HIDE DEF hex, binary, octal
  <2>1. binary => i + 2 \in (i + 1)..End
    BY <1>1, <1>2
  <2> QED
    BY <1>1, <2>1, IntegerInText DEF NUL
<1>5. InText(IntegerAt(i, Skip(Octals, i + 1)), i + 1)
  BY <1>1, TerminatorIsNothing, IntegerInText
<1>6. InText(DecimalAt(i), i + 1)
  BY DecimalInText
<1>7. /\ binary => ~hex
      /\ octal => ~hex /\ ~binary
  BY DEF Octals, Digits
<1>8. NumberAt(i) = CASE hex -> HexNumberAt(i)
                      [] binary -> IntegerAt(i, Skip({"0", "1"}, i + 2))
                      [] octal -> IntegerAt(i, Skip(Octals, i + 1))
                      [] OTHER -> DecimalAt(i)
  BY DEF NumberAt
<1> HIDE DEF hex, binary, octal
<1> QED
  BY <1>3, <1>4, <1>5, <1>6, <1>7, <1>8

-----------------------------------------------------------------------------
(* Words.                                                                  *)

HaveKinds(entries) == \A entry \in entries : IsSequence(entry.kind)

LEMMA TogetherHaveKinds ==
  ASSUME NEW A, NEW B, HaveKinds(A), HaveKinds(B)
  PROVE  HaveKinds(A \cup B)
BY DEF HaveKinds

LEMMA OwnHaveKinds == \A words, needs : HaveKinds(Own(words, needs))
<1> TAKE words, needs
<1>1. \A entry \in Own(words, needs) : \E w : entry.kind = <<w>>
  BY DEF Own
<1> QED
  BY <1>1, TuplesAreSequences DEF HaveKinds

LEMMA AliasHaveKinds ==
  ASSUME NEW words, NEW kind, IsSequence(kind), NEW needs
  PROVE  HaveKinds(Alias(words, kind, needs))
<1>1. \A entry \in Alias(words, kind, needs) : entry.kind = kind
  BY DEF Alias
<1> QED
  BY <1>1 DEF HaveKinds

LEMMA AliasesHaveKinds ==
  /\ \A words, w, needs : HaveKinds(Alias(words, <<w>>, needs))
  /\ \A words, v, w, needs : HaveKinds(Alias(words, <<v, w>>, needs))
BY AliasHaveKinds, TuplesAreSequences

LEMMA TablesHaveKinds == HaveKinds(Keywords) /\ HaveKinds(OperatorNames)
<1>1. HaveKinds(Classify2) /\ HaveKinds(Classify3) /\ HaveKinds(Classify4)
  BY OwnHaveKinds, AliasesHaveKinds, TogetherHaveKinds, Zenon
     DEF Classify2, Classify3, Classify4
<1>2. HaveKinds(Classify5) /\ HaveKinds(Classify6) /\ HaveKinds(Classify7_Reserved)
  BY OwnHaveKinds, AliasesHaveKinds, TogetherHaveKinds, Zenon
     DEF Classify5, Classify6, Classify7_Reserved
<1>3. HaveKinds(Classify7) /\ HaveKinds(Classify8_Reserved) /\ HaveKinds(Classify8)
  BY OwnHaveKinds, AliasesHaveKinds, TogetherHaveKinds, Zenon
     DEF Classify7, Classify8_Reserved, Classify8
<1>4. HaveKinds(Classify9) /\ HaveKinds(Classify10) /\ HaveKinds(Classify11)
  BY OwnHaveKinds, AliasesHaveKinds, TogetherHaveKinds, Zenon
     DEF Classify9, Classify10, Classify11
<1>5. HaveKinds(Classify12) /\ HaveKinds(Classify13) /\ HaveKinds(Classify14)
  BY OwnHaveKinds, AliasesHaveKinds, TogetherHaveKinds, Zenon
     DEF Classify12, Classify13, Classify14
<1>6. HaveKinds(Classify16) /\ HaveKinds(Classify18)
  BY OwnHaveKinds, AliasesHaveKinds, TogetherHaveKinds, Zenon
     DEF Classify16, Classify18
<1>7. HaveKinds(Classify19) /\ HaveKinds(Classify21)
  BY OwnHaveKinds, AliasesHaveKinds, TogetherHaveKinds, Zenon
     DEF Classify19, Classify21
<1>8. HaveKinds(ClassifyOperator2) /\ HaveKinds(ClassifyOperator3)
  BY OwnHaveKinds, AliasesHaveKinds, TogetherHaveKinds, Zenon
     DEF ClassifyOperator2, ClassifyOperator3
<1>9. HaveKinds(ClassifyOperator5) /\ HaveKinds(ClassifyOperator6)
  BY OwnHaveKinds, AliasesHaveKinds, TogetherHaveKinds, Zenon
     DEF ClassifyOperator5, ClassifyOperator6
<1>10. HaveKinds(OperatorNames)
  BY <1>8, <1>9, TogetherHaveKinds, Zenon DEF OperatorNames
<1>11. HaveKinds(Keywords)
  BY <1>1, <1>2, <1>3, <1>4, <1>5, <1>6, <1>7 DEF Keywords, HaveKinds
<1> QED
  BY <1>10, <1>11

LEMMA KindInIsSequence ==
  ASSUME NEW table, HaveKinds(table), NEW word, NEW on
  PROVE  IsSequence(KindIn(table, word, on))
<1> DEFINE found == {entry \in table : entry.word = word /\ entry.needs \subseteq on}
<1>1. CASE found = {}
  BY <1>1, KindsOfLiterals DEF KindIn
<1>2. CASE found # {}
  <2> DEFINE entry == CHOOSE e \in found : TRUE
  <2>1. entry \in found
    BY <1>2
  <2>2. entry \in table
    BY <2>1
  <2>3. KindIn(table, word, on) = entry.kind
    BY <1>2 DEF KindIn
  <2> QED
    BY <2>2, <2>3 DEF HaveKinds
<1> QED
  BY <1>1, <1>2

LEMMA IdentifierInText ==
  ASSUME IsText, NEW i \in 1..End, ContinuesIdentifier(Char(i))
  PROVE  InText(IdentifierAt(i), i + 1)
<1> DEFINE end == First(i, LAMBDA c : ~ContinuesIdentifier(c))
           whole == end = i + 1
           classified == IF whole /\ "None" \notin options THEN Classify(text[i], options)
                         ELSE Identifier
           operator == IF whole THEN ClassifyOperator(text[i], options) ELSE Identifier
           kind == IF classified = Identifier THEN operator ELSE classified
<1>1. End \in Nat /\ i \in Nat \ {0} /\ Char(End) = NUL
  BY Terminated
<1>2. end \in (i + 1)..End
  <2> DEFINE J == {j \in i..End : ~ContinuesIdentifier(Char(j))}
  <2>1. End \in J
    BY <1>1, TerminatorIsNothing
  <2>2. J \in SUBSET (i..End) /\ J # {} /\ i \notin J
    BY <2>1
  <2>3. PICK j \in i..End : j \in J /\ \A k \in i..(j - 1) : k \notin J
    <3> HIDE DEF J
    <3> QED
      BY <1>1, <2>2, FirstOfPlaces
  <2>4. \A k \in i..(j - 1) : k \in i..End
    BY <1>1
  <2>5. \E m \in i..End : /\ ~ContinuesIdentifier(Char(m))
                           /\ \A k \in i..(m - 1) : ~~ContinuesIdentifier(Char(k))
    BY <2>3, <2>4
  <2>6. end \in i..End /\ ~ContinuesIdentifier(Char(end))
    BY <2>5 DEF First
  <2>7. end # i
    BY <2>6
  <2> HIDE DEF end
  <2> QED
    BY <1>1, <2>6, <2>7
<1>3. IsSequence(kind)
  <2>1. IsSequence(classified)
    BY TablesHaveKinds, KindInIsSequence, KindsOfLiterals DEF Classify
  <2>2. IsSequence(operator)
    BY TablesHaveKinds, KindInIsSequence, KindsOfLiterals DEF ClassifyOperator
  <2> HIDE DEF classified, operator
  <2> QED
    BY <2>1, <2>2
<1>4. IdentifierAt(i) = Read(kind, end, i, end - 1)
  BY DEF IdentifierAt
<1> HIDE DEF kind, end
<1>5. end - 1 \in Int
  BY <1>1, <1>2
<1> QED
  BY <1>1, <1>2, <1>3, <1>4, <1>5, ReadInText

LEMMA WordInText ==
  ASSUME IsText, NEW i \in 1..End, StartsIdentifier(Char(i))
  PROVE  InText(WordAt(i), i + 1)
<1> DEFINE c == Char(i)
           string == c \in Prefixes \ {"R"} /\ Char(i + 1) = "\""
           raw == c = "R" /\ Char(i + 1) = "\""
           character == c \in Prefixes /\ Char(i + 1) = "'"
           prefixedRaw == c \in Prefixes \ {"R"} /\ Char(i + 1) = "R" /\ Char(i + 2) = "\""
           u8String == c = "u" /\ Char(i + 1) = "8" /\ Char(i + 2) = "\""
           u8Character == c = "u" /\ Char(i + 1) = "8" /\ Char(i + 2) = "'"
           u8Raw == c = "u" /\ Char(i + 1) = "8" /\ Char(i + 2) = "R" /\ Char(i + 3) = "\""
<1>1. End \in Nat /\ i \in Nat /\ i + 1 \in Nat /\ i + 2 \in Nat /\ i + 3 \in Nat /\ i >= 1
  BY Terminated
<1>2. "\"" # NUL /\ "'" # NUL
  BY DEF NUL
<1>3. \A k \in {1, 2, 3} : Char(i + k) # NUL => i + k + 1 \in 3..End /\ i + k + 1 \in (i + 1)..End
                                            /\ i + k + 1 \in 1..End
  BY <1>1, Terminated
<1>4. i + 1 + 1 = i + 2 /\ i + 2 + 1 = i + 3 /\ i + 3 + 1 = i + 4
  BY <1>1
<1>5. string => InText(StringAt(i + 2, c), i + 1)
  <2> SUFFICES ASSUME string PROVE InText(StringAt(i + 2, c), i + 1)
    OBVIOUS
  <2>1. i + 2 \in 3..End /\ i + 2 \in (i + 1)..End
    BY <1>2, <1>3, <1>4
  <2>2. c \in {"L", "u", "U", "u8"}
    BY DEF Prefixes
  <2> HIDE DEF c, string
  <2>3. InText(StringAt(i + 2, c), i + 2)
    BY <2>1, <2>2, StringInText
  <2> QED
    BY <1>1, <2>1, <2>3, InTextBefore
<1>6. raw => InText(RawStringAt(i + 2, c), i + 1)
  <2> SUFFICES ASSUME raw PROVE InText(RawStringAt(i + 2, c), i + 1)
    OBVIOUS
  <2>1. i + 2 \in 1..End /\ i + 2 \in (i + 1)..End
    BY <1>2, <1>3, <1>4
  <2>2. c \in {"L", "u", "U", "R", "u8"}
    OBVIOUS
  <2> HIDE DEF c, raw
  <2>3. InText(RawStringAt(i + 2, c), i + 2)
    BY <2>1, <2>2, RawStringInText
  <2> QED
    BY <1>1, <2>1, <2>3, InTextBefore
<1>7. character => InText(CharacterAt(i + 2, c), i + 1)
  <2> SUFFICES ASSUME character PROVE InText(CharacterAt(i + 2, c), i + 1)
    OBVIOUS
  <2>1. i + 2 \in 3..End /\ i + 2 \in (i + 1)..End
    BY <1>2, <1>3, <1>4
  <2>2. InText(CharacterAt(i + 2, c), i + 2)
    BY <2>1, CharacterInText
  <2> QED
    BY <1>1, <2>1, <2>2, InTextBefore
<1>8. prefixedRaw => InText(RawStringAt(i + 3, c), i + 1)
  <2> SUFFICES ASSUME prefixedRaw PROVE InText(RawStringAt(i + 3, c), i + 1)
    OBVIOUS
  <2>1. i + 3 \in 1..End /\ i + 3 \in (i + 1)..End
    BY <1>2, <1>3, <1>4
  <2>2. c \in {"L", "u", "U", "R", "u8"}
    BY DEF Prefixes
  <2> HIDE DEF c, prefixedRaw
  <2>3. InText(RawStringAt(i + 3, c), i + 3)
    BY <2>1, <2>2, RawStringInText
  <2> QED
    BY <1>1, <2>1, <2>3, InTextBefore
<1>9. u8String => InText(StringAt(i + 3, "u8"), i + 1)
  <2> SUFFICES ASSUME u8String PROVE InText(StringAt(i + 3, "u8"), i + 1)
    OBVIOUS
  <2>1. i + 3 \in 3..End /\ i + 3 \in (i + 1)..End
    BY <1>2, <1>3, <1>4
  <2>2. InText(StringAt(i + 3, "u8"), i + 3)
    BY <2>1, StringInText
  <2> QED
    BY <1>1, <2>1, <2>2, InTextBefore
<1>10. u8Character => InText(CharacterAt(i + 3, "u8"), i + 1)
  <2> SUFFICES ASSUME u8Character PROVE InText(CharacterAt(i + 3, "u8"), i + 1)
    OBVIOUS
  <2>1. i + 3 \in 3..End /\ i + 3 \in (i + 1)..End
    BY <1>2, <1>3, <1>4
  <2>2. InText(CharacterAt(i + 3, "u8"), i + 3)
    BY <2>1, CharacterInText
  <2> QED
    BY <1>1, <2>1, <2>2, InTextBefore
<1>11. u8Raw => InText(RawStringAt(i + 4, "u8"), i + 1)
  <2> SUFFICES ASSUME u8Raw PROVE InText(RawStringAt(i + 4, "u8"), i + 1)
    OBVIOUS
  <2>1. i + 4 \in 1..End /\ i + 4 \in (i + 1)..End
    BY <1>2, <1>3, <1>4
  <2>2. InText(RawStringAt(i + 4, "u8"), i + 4)
    BY <2>1, RawStringInText
  <2> QED
    BY <1>1, <2>1, <2>2, InTextBefore
<1>12. InText(IdentifierAt(i), i + 1)
  BY IdentifierInText DEF ContinuesIdentifier
<1>13. WordAt(i) = CASE string -> StringAt(i + 2, c)
                     [] raw -> RawStringAt(i + 2, c)
                     [] character -> CharacterAt(i + 2, c)
                     [] prefixedRaw -> RawStringAt(i + 3, c)
                     [] u8String -> StringAt(i + 3, "u8")
                     [] u8Character -> CharacterAt(i + 3, "u8")
                     [] u8Raw -> RawStringAt(i + 4, "u8")
                     [] OTHER -> IdentifierAt(i)
  BY DEF WordAt
<1> HIDE DEF c, string, raw, character, prefixedRaw, u8String, u8Character, u8Raw
<1> QED
  BY <1>5, <1>6, <1>7, <1>8, <1>9, <1>10, <1>11, <1>12, <1>13

-----------------------------------------------------------------------------
(* Punctuators.                                                            *)

LEMMA PunctuatorsHaveKinds ==
  /\ HaveKinds(Punctuators)
  /\ \A c \in Punctuation : <<c>> \in Spellings
<1> DEFINE Spelled == {[spelling |-> s, kind |-> s] : s \in OwnPunctuators}
<1>1. HaveKinds(Spelled)
  <2>1. \A s \in OwnPunctuators : IsSequence(s)
    BY TuplesAreSequences DEF OwnPunctuators
  <2> QED
    BY <2>1 DEF HaveKinds
<1>2. \A kind, spellings : IsSequence(kind) => HaveKinds(Respelled(kind, spellings))
  BY DEF HaveKinds, Respelled
<1>3. HaveKinds(RespelledPunctuators)
  BY <1>2, TuplesAreSequences, KindsOfLiterals, TogetherHaveKinds, Zenon
     DEF RespelledPunctuators
<1>4. HaveKinds(Punctuators)
  <2>1. Punctuators = Spelled \cup RespelledPunctuators
    BY DEF Punctuators
  <2> HIDE DEF Spelled
  <2> QED
    BY <2>1, <1>1, <1>3, TogetherHaveKinds
<1>5. \A c \in Punctuation : <<c>> \in Spellings
  <2>1. \A c \in Punctuation : <<c>> \in OwnPunctuators
    BY DEF OwnPunctuators
  <2>2. \A s \in OwnPunctuators : s \in Spellings
    <3> TAKE s \in OwnPunctuators
    <3>1. [spelling |-> s, kind |-> s] \in Punctuators
      BY DEF Punctuators
    <3> QED
      BY <3>1 DEF Spellings
  <2> QED
    BY <2>1, <2>2
<1> QED
  BY <1>4, <1>5

LEMMA PunctuatorInText ==
  ASSUME IsText, NEW i \in 1..End, Char(i) \in Punctuation
  PROVE  InText(PunctuatorAt(i), i + 1)
<1> DEFINE Spells(m) == SubSeq(text, i, i + m - 1) \in Spellings
           n == CHOOSE m \in 1..3 :
                    /\ Spells(m)
                    /\ i + m <= End
                    /\ \A k \in (m + 1)..3 : i + k <= End => ~Spells(k)
           read == CHOOSE p \in Punctuators : p.spelling = SubSeq(text, i, i + n - 1)
<1>1. End \in Nat /\ i \in Nat \ {0} /\ i < End
  <2>1. Char(i) # NUL /\ i \in Nat
    BY TerminatorIsNothing, Terminated
  <2> QED
    BY <2>1, Terminated
<1>2. Spells(1)
  <2>1. Char(i) = text[i]
    BY <1>1 DEF Char
  <2>2. SubSeq(text, i, i + 1 - 1) = <<text[i]>>
    <3> DEFINE S == {text[k] : k \in 1..Len(text)}
    <3>1. text \in Seq(S) /\ End = Len(text) + 1 /\ Len(text) \in Nat
      BY DEF IsText, IsSequence, End
    <3>2. i \in 1..Len(text) /\ i + 1 - 1 = i
      BY <1>1, <3>1
    <3> HIDE DEF S
    <3>3. /\ SubSeq(text, i, i) \in Seq(S)
          /\ Len(SubSeq(text, i, i)) = 1
          /\ SubSeq(text, i, i)[1] = text[i]
      BY <3>1, <3>2, SubSeqProperties
    <3> DEFINE part == SubSeq(text, i, i)
    <3> HIDE DEF part
    <3>4. part \in Seq(S) /\ Len(part) = 1 /\ part[1] = text[i]
      BY <3>3 DEF part
    <3>5. part = <<text[i]>>
      BY <3>4
    <3> QED
      BY <3>2, <3>5 DEF part
  <2> QED
    BY <2>1, <2>2, PunctuatorsHaveKinds
<1>3. n \in 1..3 /\ i + n <= End /\ Spells(n)
  <2> HIDE DEF Spells
  <2> DEFINE Best(m) == /\ Spells(m) /\ i + m <= End
                        /\ \A k \in (m + 1)..3 : i + k <= End => ~Spells(k)
  <2>1. CASE Spells(3) /\ i + 3 <= End
    <3>1. Best(3)
      BY <2>1
    <3> QED
      BY <3>1
  <2>2. CASE ~(Spells(3) /\ i + 3 <= End) /\ Spells(2) /\ i + 2 <= End
    <3>1. \A k \in (2 + 1)..3 : k = 3
      OBVIOUS
    <3>2. Best(2)
      BY <2>2, <3>1
    <3> QED
      BY <3>2
  <2>3. CASE ~(Spells(3) /\ i + 3 <= End) /\ ~(Spells(2) /\ i + 2 <= End)
    <3>1. \A k \in (1 + 1)..3 : k = 2 \/ k = 3
      OBVIOUS
    <3>2. Best(1)
      BY <1>1, <1>2, <2>3, <3>1
    <3> QED
      BY <3>2
  <2> QED
    BY <2>1, <2>2, <2>3
<1>4. read \in Punctuators
  <2> HIDE DEF n
  <2>1. \E p \in Punctuators : p.spelling = SubSeq(text, i, i + n - 1)
    BY <1>3 DEF Spellings
  <2> QED
    BY <2>1
<1>5. PunctuatorAt(i) = Read(read.kind, i + n, i, i + n - 1)
  BY DEF PunctuatorAt
<1> HIDE DEF n, read
<1>6. i + n \in (i + 1)..End /\ i + n - 1 \in Int
  BY <1>1, <1>3
<1>7. IsSequence(read.kind)
  BY <1>4, PunctuatorsHaveKinds DEF HaveKinds
<1> QED
  BY <1>1, <1>5, <1>6, <1>7, ReadInText

-----------------------------------------------------------------------------

(* The lexer advances: a token that begins at a place ends behind it, and  *)
(* not past the terminator.                                                *)
LEMMA TokenInText ==
  ASSUME IsText, NEW i \in 1..End, i < End
  PROVE  InText(TokenAt(i), i + 1)
<1>1. End \in Nat /\ i \in Nat \ {0} /\ i + 1 \in 2..End /\ i + 1 \in 1..End /\ i + 1 - 1 - 0 > 0
      /\ i + 1 \in (i + 1)..End /\ i \in Int /\ 0 \in Nat
  BY Terminated
<1>2. "\"" # NUL /\ "'" # NUL
  BY DEF NUL
<1>3. InText(QuotedAt(i + 1, "\"", StringLiteral, 0), i + 1)
  <2>1. \A quote : quote # NUL => InText(QuotedAt(i + 1, quote, StringLiteral, 0), i + 1)
    BY <1>1, KindsOfLiterals, QuotedInText
  <2> QED
    BY <1>2, <2>1
<1>4. InText(QuotedAt(i + 1, "'", CharacterConstant, 0), i + 1)
  <2>1. \A quote : quote # NUL => InText(QuotedAt(i + 1, quote, CharacterConstant, 0), i + 1)
    BY <1>1, KindsOfLiterals, QuotedInText
  <2> QED
    BY <1>2, <2>1
<1>5. InText(FractionAt(i, i + 1), i + 1)
  BY <1>1, FractionInText
<1>6. Char(i) \in Punctuation => InText(PunctuatorAt(i), i + 1)
  BY PunctuatorInText
<1>7. StartsIdentifier(Char(i)) => InText(WordAt(i), i + 1)
  BY WordInText
<1>8. InText(NumberAt(i), i + 1)
  BY NumberInText
<1>9. InText(Read(Error, i + 1, i, i), i + 1)
  BY <1>1, KindsOfLiterals, ReadInText
<1> QED
  BY <1>3, <1>4, <1>5, <1>6, <1>7, <1>8, <1>9 DEF TokenAt
=============================================================================
