----------------------------- MODULE ParserProofs -----------------------------
(***************************************************************************)
(* The invariants of the parser's call stack, cursor and Backtrackers, and *)
(* that its Backtrackers implement Speculation, for every set of texts,    *)
(* dialect and depth bound.                                                *)
(***************************************************************************)
EXTENDS ParserSteps

-----------------------------------------------------------------------------
(* Call stacks, their entries counted from the bottom.                     *)

Up(stack, h) == stack[Len(stack) - h + 1]

(* What ties the chain of the live Backtrackers, and the delayed           *)
(* identifiers, to the objects on the call stack.                          *)
HasChain(stack, marks) ==
  \A h \in 1 .. Len(stack) :
    Up(stack, h).do = "Backtracker" =>
      \E k \in 1 .. Len(marks) : marks[k].level = h

IsLive(stack, marks) ==
  \A k \in 1 .. Len(marks) :
    /\ marks[k].level \in 1 .. Len(stack)
    /\ Up(stack, marks[k].level).do = "Backtracker"

IsNested(marks) ==
  \A k \in 1 .. Len(marks) : \A j \in 1 .. k - 1 :
    marks[j].level < marks[k].level

Guards(stack) ==
  \A h \in 1 .. Len(stack) :
    Up(stack, h).do \in Discarders =>
      h > 1 /\ Up(stack, h - 1).do = "Backtracker"

Delays(stack, ids) ==
  \A id \in ids :
    \E h \in 1 .. Len(stack) :
      /\ Up(stack, h).do = "~DiagnosticsReporterDelayer"
      /\ Up(stack, h).a = id

Consistent(stack, marks, ids) ==
  /\ stack \in Seq(Item)
  /\ marks \in Seq(Marker)
  /\ HasChain(stack, marks)
  /\ IsLive(stack, marks)
  /\ IsNested(marks)
  /\ Guards(stack)
  /\ Delays(stack, ids)

(* Removing the top leaves the heights of the entries below it.            *)
LEMMA UpTail ==
  ASSUME NEW stack \in Seq(Item), stack # <<>>
  PROVE  /\ Tail(stack) \in Seq(Item)
         /\ Head(stack) \in Item
         /\ Len(stack) \in Nat \ {0}
         /\ Len(Tail(stack)) = Len(stack) - 1
         /\ Up(stack, Len(stack)) = Head(stack)
         /\ \A h \in 1 .. Len(stack) - 1 : Up(Tail(stack), h) = Up(stack, h)
  <1>1. /\ Tail(stack) \in Seq(Item)
        /\ Head(stack) \in Item
        /\ Len(stack) \in Nat \ {0}
        /\ Len(Tail(stack)) = Len(stack) - 1
    BY HeadTailProperties, EmptySeq
  <1>2. Up(stack, Len(stack)) = Head(stack)
    BY <1>1 DEF Up
  <1>3. ASSUME NEW h \in 1 .. Len(stack) - 1
        PROVE  Up(Tail(stack), h) = Up(stack, h)
    <2>1. Len(stack) - h \in 1 .. Len(Tail(stack))
      BY <1>1
    <2>2. Tail(stack)[Len(stack) - h] = stack[Len(stack) - h + 1]
      BY <2>1, HeadTailProperties
    <2> QED
      BY <1>1, <2>2 DEF Up
  <1> QED
    BY <1>1, <1>2, <1>3

(* Adding entries on top leaves the heights of the entries below them.     *)
LEMMA UpConcat ==
  ASSUME NEW top \in Seq(Item), NEW stack \in Seq(Item)
  PROVE  /\ top \o stack \in Seq(Item)
         /\ Len(top) \in Nat /\ Len(stack) \in Nat
         /\ Len(top \o stack) = Len(top) + Len(stack)
         /\ \A h \in 1 .. Len(stack) : Up(top \o stack, h) = Up(stack, h)
         /\ \A h \in Len(stack) + 1 .. Len(top) + Len(stack) :
              \E i \in 1 .. Len(top) : Up(top \o stack, h) = top[i]
  <1>1. /\ top \o stack \in Seq(Item)
        /\ Len(top) \in Nat /\ Len(stack) \in Nat
        /\ Len(top \o stack) = Len(top) + Len(stack)
    OBVIOUS
  <1>2. ASSUME NEW h \in 1 .. Len(stack)
        PROVE  Up(top \o stack, h) = Up(stack, h)
    <2>1. Len(top) + Len(stack) - h + 1
            \in Len(top) + 1 .. Len(top) + Len(stack)
      BY <1>1
    <2> QED
      BY <1>1, <2>1, ConcatProperties DEF Up
  <1>3. ASSUME NEW h \in Len(stack) + 1 .. Len(top) + Len(stack)
        PROVE  \E i \in 1 .. Len(top) : Up(top \o stack, h) = top[i]
    <2>1. Len(top) + Len(stack) - h + 1 \in 1 .. Len(top)
      BY <1>1
    <2> QED
      BY <1>1, <2>1, ConcatProperties DEF Up
  <1> QED
    BY <1>1, <1>2, <1>3

(* The entries below the top keep what ties them to the Backtrackers, and  *)
(* to the identifiers of the delayers other than one at the top.           *)
LEMMA TailKeeps ==
  ASSUME NEW stack, NEW marks, NEW ids, Consistent(stack, marks, ids),
         stack # <<>>
  PROVE  /\ Tail(stack) \in Seq(Item)
         /\ Guards(Tail(stack))
         /\ Delays(Tail(stack), ids \ {Head(stack).a})
         /\ Head(stack).do # "~DiagnosticsReporterDelayer" =>
              Delays(Tail(stack), ids)
  <1>1. /\ Tail(stack) \in Seq(Item)
        /\ Len(stack) \in Nat \ {0}
        /\ Len(Tail(stack)) = Len(stack) - 1
        /\ Up(stack, Len(stack)) = Head(stack)
        /\ \A h \in 1 .. Len(stack) - 1 : Up(Tail(stack), h) = Up(stack, h)
    BY UpTail DEF Consistent
  <1>2. Guards(Tail(stack))
    BY <1>1 DEF Consistent, Guards
  <1>3. ASSUME NEW id \in ids,
               \/ id # Head(stack).a
               \/ Head(stack).do # "~DiagnosticsReporterDelayer"
        PROVE  \E h \in 1 .. Len(Tail(stack)) :
                 /\ Up(Tail(stack), h).do = "~DiagnosticsReporterDelayer"
                 /\ Up(Tail(stack), h).a = id
    <2>1. PICK h \in 1 .. Len(stack) :
            /\ Up(stack, h).do = "~DiagnosticsReporterDelayer"
            /\ Up(stack, h).a = id
      BY DEF Consistent, Delays
    <2>2. h # Len(stack)
      <3>1. Up(stack, Len(stack)) = Head(stack)
        BY <1>1
      <3> QED
        BY <1>3, <2>1, <3>1, Zenon
    <2>3. h \in 1 .. Len(stack) - 1
      <3>1. Len(stack) \in Nat
        BY <1>1
      <3>2. h \in Int /\ 1 <= h /\ h <= Len(stack)
        BY <3>1
      <3> QED
        BY <2>2, <3>1, <3>2
    <2>4. h \in 1 .. Len(Tail(stack))
      BY <1>1, <2>3
    <2>5. Up(Tail(stack), h) = Up(stack, h)
      BY <1>1, <2>3
    <2> QED
      BY <2>1, <2>4, <2>5
  <1> QED
    BY <1>1, <1>2, <1>3 DEF Delays

(* An entry other than a Backtracker leaves the stack.                     *)
LEMMA PopUnmarked ==
  ASSUME NEW stack, NEW marks, NEW ids, Consistent(stack, marks, ids),
         stack # <<>>, Head(stack).do # "Backtracker"
  PROVE  HasChain(Tail(stack), marks) /\ IsLive(Tail(stack), marks)
  <1>1. /\ Len(stack) \in Nat \ {0}
        /\ Len(Tail(stack)) = Len(stack) - 1
        /\ Up(stack, Len(stack)) = Head(stack)
        /\ \A h \in 1 .. Len(stack) - 1 : Up(Tail(stack), h) = Up(stack, h)
    BY UpTail DEF Consistent
  <1>2. HasChain(Tail(stack), marks)
    BY <1>1 DEF Consistent, HasChain
  <1>3. ASSUME NEW k \in 1 .. Len(marks)
        PROVE  /\ marks[k].level \in 1 .. Len(Tail(stack))
               /\ Up(Tail(stack), marks[k].level).do = "Backtracker"
    <2>1. /\ marks[k].level \in 1 .. Len(stack)
          /\ Up(stack, marks[k].level).do = "Backtracker"
      BY DEF Consistent, IsLive
    <2>2. marks[k].level # Len(stack)
      BY <1>1, <2>1
    <2> QED
      BY <1>1, <2>1, <2>2
  <1> QED
    BY <1>2, <1>3 DEF IsLive

(* A routine leaves the stack.                                             *)
LEMMA PopRoutine ==
  ASSUME NEW stack, NEW marks, NEW ids, Consistent(stack, marks, ids),
         stack # <<>>, Head(stack).do \notin Objects
  PROVE  Consistent(Tail(stack), marks, ids)
  <1>1. /\ Head(stack).do # "Backtracker"
        /\ Head(stack).do # "~DiagnosticsReporterDelayer"
    BY DEF Objects
  <1> QED
    BY <1>1, TailKeeps, PopUnmarked DEF Consistent

(* A DiagnosticsReporterDelayer leaves the stack.                          *)
LEMMA PopDelayer ==
  ASSUME NEW stack, NEW marks, NEW ids, Consistent(stack, marks, ids),
         stack # <<>>, Head(stack).do = "~DiagnosticsReporterDelayer"
  PROVE  Consistent(Tail(stack), marks, ids \ {Head(stack).a})
  BY TailKeeps, PopUnmarked DEF Consistent

(* The chain without its last Backtracker.                                 *)
LEMMA KeptMarks ==
  ASSUME NEW S, NEW marks \in Seq(S), Len(marks) # 0
  PROVE  /\ Len(marks) \in Nat \ {0}
         /\ SubSeq(marks, 1, Len(marks) - 1) \in Seq(S)
         /\ Len(SubSeq(marks, 1, Len(marks) - 1)) = Len(marks) - 1
         /\ \A j \in 1 .. Len(marks) - 1 :
              SubSeq(marks, 1, Len(marks) - 1)[j] = marks[j]
  <1>1. Len(marks) \in Nat \ {0}
    OBVIOUS
  <1> DEFINE n == Len(marks) - 1
  <1>2. n \in Int /\ n >= 0
    BY <1>1
  <1>3. \A j \in 1 .. n : marks[j] \in S
    BY <1>1
  <1> HIDE DEF n
  <1>4. /\ SubSeq(marks, 1, n) \in Seq(S)
        /\ Len(SubSeq(marks, 1, n)) = IF 1 <= n THEN n - 1 + 1 ELSE 0
        /\ \A j \in 1 .. n - 1 + 1 : SubSeq(marks, 1, n)[j] = marks[1 + j - 1]
    BY <1>2, <1>3, SubSeqProperties
  <1>5. Len(SubSeq(marks, 1, n)) = n
    BY <1>2, <1>4
  <1>6. \A j \in 1 .. n : SubSeq(marks, 1, n)[j] = marks[j]
    BY <1>2, <1>4
  <1> QED
    BY <1>1, <1>4, <1>5, <1>6 DEF n

(* A Backtracker leaves the stack: it is the last of the chain.            *)
LEMMA PopBacktracker ==
  ASSUME NEW stack, NEW marks, NEW ids, Consistent(stack, marks, ids),
         stack # <<>>, Head(stack).do = "Backtracker"
  PROVE  /\ Len(marks) \in Nat \ {0}
         /\ marks[Len(marks)].level = Len(stack)
         /\ Consistent(Tail(stack), SubSeq(marks, 1, Len(marks) - 1), ids)
  <1> DEFINE kept == SubSeq(marks, 1, Len(marks) - 1)
  <1>1. /\ Len(stack) \in Nat \ {0}
        /\ Len(Tail(stack)) = Len(stack) - 1
        /\ Up(stack, Len(stack)) = Head(stack)
        /\ \A h \in 1 .. Len(stack) - 1 : Up(Tail(stack), h) = Up(stack, h)
    BY UpTail DEF Consistent
  <1>2. PICK k \in 1 .. Len(marks) : marks[k].level = Len(stack)
    BY <1>1 DEF Consistent, HasChain
  <1>3. Len(marks) \in Nat \ {0}
    <2>1. Len(marks) \in Nat
      BY LenProperties DEF Consistent
    <2> QED
      BY <2>1
  <1>4. Len(marks) = k
    <2>1. marks[Len(marks)].level \in 1 .. Len(stack)
      BY <1>3 DEF Consistent, IsLive
    <2>2. k < Len(marks) => marks[k].level < marks[Len(marks)].level
      BY <1>3 DEF Consistent, IsNested
    <2> QED
      BY <1>1, <1>2, <1>3, <2>1, <2>2
  <1>5. /\ kept \in Seq(Marker)
        /\ Len(kept) = Len(marks) - 1
        /\ \A j \in 1 .. Len(marks) - 1 : kept[j] = marks[j]
    BY <1>3, KeptMarks DEF Consistent
  <1> HIDE DEF kept
  <1>6. HasChain(Tail(stack), kept)
    <2>1. ASSUME NEW h \in 1 .. Len(Tail(stack)),
                 Up(Tail(stack), h).do = "Backtracker"
          PROVE  \E j \in 1 .. Len(kept) : kept[j].level = h
      <3>1. /\ h \in 1 .. Len(stack) - 1 /\ Up(stack, h).do = "Backtracker"
            /\ h \in 1 .. Len(stack) /\ h # Len(stack)
        <4>1. h \in 1 .. Len(stack) - 1
          BY <1>1, <2>1
        <4>2. Len(stack) \in Nat
          BY <1>1
        <4>3. h \in 1 .. Len(stack) /\ h # Len(stack)
          BY <4>1, <4>2
        <4>4. Up(stack, h).do = "Backtracker"
          BY <1>1, <2>1, <4>1, Zenon
        <4> QED
          BY <4>1, <4>3, <4>4
      <3>2. PICK j \in 1 .. Len(marks) : marks[j].level = h
        BY <3>1, Zenon DEF Consistent, HasChain
      <3>3. j # Len(marks)
        BY <1>2, <1>4, <3>1, <3>2, Zenon
      <3> QED
        BY <1>3, <1>5, <3>2, <3>3
    <2> QED
      BY <2>1 DEF HasChain
  <1>7. IsLive(Tail(stack), kept)
    <2>1. ASSUME NEW j \in 1 .. Len(kept)
          PROVE  /\ kept[j].level \in 1 .. Len(Tail(stack))
                 /\ Up(Tail(stack), kept[j].level).do = "Backtracker"
      <3>1. j \in 1 .. Len(marks) - 1 /\ kept[j] = marks[j]
        BY <1>5
      <3>2. /\ marks[j].level \in 1 .. Len(stack)
            /\ Up(stack, marks[j].level).do = "Backtracker"
        BY <1>3, <3>1 DEF Consistent, IsLive
      <3>3. marks[j].level < marks[Len(marks)].level
        BY <1>3, <3>1 DEF Consistent, IsNested
      <3> QED
        BY <1>1, <1>2, <1>4, <3>1, <3>2, <3>3
    <2> QED
      BY <2>1 DEF IsLive
  <1>8. IsNested(kept)
    <2>1. ASSUME NEW i \in 1 .. Len(kept), NEW j \in 1 .. i - 1
          PROVE  kept[j].level < kept[i].level
      <3>1. /\ i \in 1 .. Len(marks) /\ j \in 1 .. Len(marks) - 1
            /\ kept[i] = marks[i] /\ kept[j] = marks[j]
        BY <1>3, <1>5
      <3> QED
        BY <3>1 DEF Consistent, IsNested
    <2> QED
      BY <2>1 DEF IsNested
  <1>9. /\ Tail(stack) \in Seq(Item)
        /\ Guards(Tail(stack))
        /\ Delays(Tail(stack), ids)
    BY TailKeeps
  <1>10. Consistent(Tail(stack), kept, ids)
    BY <1>5, <1>6, <1>7, <1>8, <1>9 DEF Consistent
  <1> QED
    BY <1>2, <1>3, <1>4, <1>10 DEF kept

(* Entries that are neither C++ objects nor Discarders enter the stack.    *)
LEMMA PushRoutines ==
  ASSUME NEW stack, NEW marks, NEW ids, Consistent(stack, marks, ids),
         NEW items \in Seq(PlainItem)
  PROVE  Consistent(items \o stack, marks, ids)
  <1>1. items \in Seq(Item)
    BY DEF Item
  <1>2. /\ items \o stack \in Seq(Item)
        /\ Len(items) \in Nat /\ Len(stack) \in Nat
        /\ Len(items \o stack) = Len(items) + Len(stack)
        /\ \A h \in 1 .. Len(stack) : Up(items \o stack, h) = Up(stack, h)
    BY <1>1, UpConcat DEF Consistent
  <1>3. ASSUME NEW h \in 1 .. Len(items \o stack), h > Len(stack)
        PROVE  Up(items \o stack, h).do \notin Objects \cup Discarders
    <2>1. h \in Len(stack) + 1 .. Len(items) + Len(stack)
      BY <1>2, <1>3
    <2>2. PICK i \in 1 .. Len(items) : Up(items \o stack, h) = items[i]
      BY <1>1, <2>1, UpConcat DEF Consistent
    <2>3. items[i] \in PlainItem
      BY <1>2
    <2> QED
      BY <2>2, <2>3, NamesDiffer DEF PlainItem
  <1>4. HasChain(items \o stack, marks)
    <2>1. ASSUME NEW h \in 1 .. Len(items \o stack),
                 Up(items \o stack, h).do = "Backtracker"
          PROVE  \E k \in 1 .. Len(marks) : marks[k].level = h
      <3>1. h \in 1 .. Len(stack)
        BY <1>2, <1>3, <2>1 DEF Objects
      <3> QED
        BY <1>2, <2>1, <3>1 DEF Consistent, HasChain
    <2> QED
      BY <2>1 DEF HasChain
  <1>5. IsLive(items \o stack, marks)
    BY <1>2 DEF Consistent, IsLive
  <1>6. Guards(items \o stack)
    <2>1. ASSUME NEW h \in 1 .. Len(items \o stack),
                 Up(items \o stack, h).do \in Discarders
          PROVE  h > 1 /\ Up(items \o stack, h - 1).do = "Backtracker"
      <3>1. h \in 1 .. Len(stack)
        BY <1>2, <1>3, <2>1
      <3>2. h > 1 /\ Up(stack, h - 1).do = "Backtracker"
        BY <1>2, <2>1, <3>1 DEF Consistent, Guards
      <3>3. h - 1 \in 1 .. Len(stack)
        BY <1>2, <3>1, <3>2
      <3> QED
        BY <1>2, <3>2, <3>3
    <2> QED
      BY <2>1 DEF Guards
  <1>7. Delays(items \o stack, ids)
    BY <1>2 DEF Consistent, Delays
  <1> QED
    BY <1>2, <1>4, <1>5, <1>6, <1>7 DEF Consistent

(* The top is the highest entry.                                           *)
LEMMA UpTop ==
  ASSUME NEW stack, NEW h \in Nat, Len(stack) = h + 1
  PROVE  Up(stack, h + 1) = stack[1]
  BY DEF Up

(* One entry enters the stack.                                             *)
LEMMA UpPush ==
  ASSUME NEW stack \in Seq(Item), NEW item \in Item
  PROVE  /\ <<item>> \o stack \in Seq(Item)
         /\ Len(stack) \in Nat
         /\ Len(<<item>> \o stack) = Len(stack) + 1
         /\ \A h \in 1 .. Len(stack) : Up(<<item>> \o stack, h) = Up(stack, h)
         /\ Up(<<item>> \o stack, Len(stack) + 1) = item
  <1> DEFINE top == <<item>>
  <1>1. top \in Seq(Item) /\ Len(top) = 1 /\ top[1] = item
    OBVIOUS
  <1> HIDE DEF top
  <1>2. /\ top \o stack \in Seq(Item)
        /\ Len(stack) \in Nat
        /\ Len(top \o stack) = Len(top) + Len(stack)
    BY <1>1, UpConcat
  <1>3. Len(top \o stack) = Len(stack) + 1
    BY <1>1, <1>2
  <1>4. \A h \in 1 .. Len(stack) : Up(top \o stack, h) = Up(stack, h)
    BY <1>1, UpConcat
  <1>5. (top \o stack)[1] = item
    BY <1>1, ConcatProperties
  <1>6. Up(top \o stack, Len(stack) + 1) = item
    BY <1>2, <1>3, <1>5, UpTop
  <1> QED
    BY <1>2, <1>3, <1>4, <1>6 DEF top

(* A Backtracker enters the stack, and the end of the chain.               *)
LEMMA PushBacktracker ==
  ASSUME NEW stack, NEW marks, NEW ids, Consistent(stack, marks, ids),
         NEW it \in Item, it.do = "Backtracker",
         NEW mark \in Marker, mark.level = Len(stack) + 1
  PROVE  Consistent(<<it>> \o stack, Append(marks, mark), ids)
  <1> DEFINE stack2 == <<it>> \o stack
             marks2 == Append(marks, mark)
  <1>1. it.do \notin Discarders
    BY DEF Discarders
  <1>2. stack2 \in Seq(Item) /\ marks2 \in Seq(Marker)
    BY <1>1, UpPush, AppendProperties DEF Consistent
  <1>3. /\ Len(stack) \in Nat /\ Len(stack2) = Len(stack) + 1
        /\ Len(marks) \in Nat /\ Len(marks2) = Len(marks) + 1
    <2>1. Len(stack) \in Nat /\ Len(stack2) = Len(stack) + 1
      BY <1>1, UpPush DEF Consistent
    <2>2. Len(marks) \in Nat /\ Len(marks2) = Len(marks) + 1
      BY AppendProperties, LenProperties DEF Consistent
    <2> QED
      BY <2>1, <2>2
  <1>4. /\ \A h \in 1 .. Len(stack) : Up(stack2, h) = Up(stack, h)
        /\ Up(stack2, Len(stack) + 1) = it
    BY <1>1, UpPush DEF Consistent
  <1>5. /\ \A k \in 1 .. Len(marks) : marks2[k] = marks[k]
        /\ marks2[Len(marks) + 1] = mark
    BY AppendProperties DEF Consistent
  <1> HIDE DEF stack2, marks2
  <1>6. ASSUME NEW h \in 1 .. Len(stack2), h # Len(stack) + 1
        PROVE  h \in 1 .. Len(stack)
    BY <1>3, <1>6
  <1>7. ASSUME NEW k \in 1 .. Len(marks2), k # Len(marks) + 1
        PROVE  k \in 1 .. Len(marks)
    BY <1>3, <1>7
  <1>8. HasChain(stack2, marks2)
    <2>1. ASSUME NEW h \in 1 .. Len(stack2), Up(stack2, h).do = "Backtracker"
          PROVE  \E k \in 1 .. Len(marks2) : marks2[k].level = h
      <3>1. CASE h = Len(stack) + 1
        <4>1. Len(marks) + 1 \in 1 .. Len(marks2)
          BY <1>3
        <4> QED
          BY <1>5, <3>1, <4>1
      <3>2. CASE h # Len(stack) + 1
        <4>1. h \in 1 .. Len(stack)
          BY <1>6, <3>2
        <4>2. Up(stack, h).do = "Backtracker"
          BY <1>4, <2>1, <4>1
        <4>3. PICK k \in 1 .. Len(marks) : marks[k].level = h
          BY <4>1, <4>2 DEF Consistent, HasChain
        <4>4. k \in 1 .. Len(marks2)
          BY <1>3
        <4>5. marks2[k] = marks[k]
          BY <1>5
        <4> QED
          BY <4>3, <4>4, <4>5
      <3> QED
        BY <3>1, <3>2
    <2> QED
      BY <2>1 DEF HasChain
  <1>9. IsLive(stack2, marks2)
    <2>1. ASSUME NEW k \in 1 .. Len(marks2)
          PROVE  /\ marks2[k].level \in 1 .. Len(stack2)
                 /\ Up(stack2, marks2[k].level).do = "Backtracker"
      <3>1. CASE k = Len(marks) + 1
        <4>1. marks2[k].level = Len(stack) + 1
          BY <1>5, <3>1
        <4>2. Len(stack) + 1 \in 1 .. Len(stack2)
          BY <1>3
        <4> QED
          BY <1>1, <1>4, <4>1, <4>2
      <3>2. CASE k # Len(marks) + 1
        <4>1. k \in 1 .. Len(marks)
          BY <1>7, <3>2
        <4>2. marks2[k] = marks[k]
          BY <1>5, <4>1
        <4>3. /\ marks[k].level \in 1 .. Len(stack)
              /\ Up(stack, marks[k].level).do = "Backtracker"
          BY <4>1 DEF Consistent, IsLive
        <4>4. marks[k].level \in 1 .. Len(stack2)
          BY <1>3, <4>3
        <4> QED
          BY <1>4, <4>2, <4>3, <4>4
      <3> QED
        BY <3>1, <3>2
    <2> QED
      BY <2>1 DEF IsLive
  <1>10. IsNested(marks2)
    <2>1. ASSUME NEW k \in 1 .. Len(marks2), NEW j \in 1 .. k - 1
          PROVE  marks2[j].level < marks2[k].level
      <3>1. j \in 1 .. Len(marks)
        BY <1>3
      <3>2. marks2[j] = marks[j]
        BY <1>5, <3>1
      <3>3. CASE k = Len(marks) + 1
        <4>1. marks[j].level \in 1 .. Len(stack)
          BY <3>1 DEF Consistent, IsLive
        <4>2. marks2[k].level = Len(stack) + 1
          BY <1>5, <3>3
        <4> QED
          BY <1>3, <3>2, <4>1, <4>2
      <3>4. CASE k # Len(marks) + 1
        <4>1. k \in 1 .. Len(marks)
          BY <1>7, <3>4
        <4>2. marks2[k] = marks[k]
          BY <1>5, <4>1
        <4> QED
          BY <3>2, <4>1, <4>2 DEF Consistent, IsNested
      <3> QED
        BY <3>3, <3>4
    <2> QED
      BY <2>1 DEF IsNested
  <1>11. Guards(stack2)
    <2>1. ASSUME NEW h \in 1 .. Len(stack2), Up(stack2, h).do \in Discarders
          PROVE  h > 1 /\ Up(stack2, h - 1).do = "Backtracker"
      <3>1. h \in 1 .. Len(stack)
        BY <1>1, <1>4, <1>6, <2>1
      <3>2. h > 1 /\ Up(stack, h - 1).do = "Backtracker"
        BY <1>4, <2>1, <3>1 DEF Consistent, Guards
      <3>3. h - 1 \in 1 .. Len(stack)
        BY <1>3, <3>1, <3>2
      <3> QED
        BY <1>4, <3>2, <3>3
    <2> QED
      BY <2>1 DEF Guards
  <1>12. Delays(stack2, ids)
    <2>1. ASSUME NEW id \in ids
          PROVE  \E h \in 1 .. Len(stack2) :
                   /\ Up(stack2, h).do = "~DiagnosticsReporterDelayer"
                   /\ Up(stack2, h).a = id
      <3>1. PICK h \in 1 .. Len(stack) :
              /\ Up(stack, h).do = "~DiagnosticsReporterDelayer"
              /\ Up(stack, h).a = id
        BY DEF Consistent, Delays
      <3>2. h \in 1 .. Len(stack2)
        BY <1>3
      <3>3. Up(stack2, h) = Up(stack, h)
        BY <1>4
      <3> QED
        BY <3>1, <3>2, <3>3
    <2> QED
      BY <2>1 DEF Delays
  <1>13. Consistent(stack2, marks2, ids)
    BY <1>2, <1>8, <1>9, <1>10, <1>11, <1>12 DEF Consistent
  <1> QED
    BY <1>13 DEF stack2, marks2

(* An entry other than a Backtracker enters the stack.                     *)
LEMMA PushUnmarked ==
  ASSUME NEW stack, NEW marks, NEW ids, Consistent(stack, marks, ids),
         NEW it \in Item, it.do # "Backtracker"
  PROVE  /\ <<it>> \o stack \in Seq(Item)
         /\ HasChain(<<it>> \o stack, marks)
         /\ IsLive(<<it>> \o stack, marks)
         /\ Delays(<<it>> \o stack, ids)
  <1> DEFINE stack2 == <<it>> \o stack
  <1>1. stack2 \in Seq(Item)
    BY UpPush DEF Consistent
  <1>2. Len(stack) \in Nat /\ Len(stack2) = Len(stack) + 1
    BY UpPush DEF Consistent
  <1>3. /\ \A h \in 1 .. Len(stack) : Up(stack2, h) = Up(stack, h)
        /\ Up(stack2, Len(stack) + 1) = it
    BY UpPush DEF Consistent
  <1> HIDE DEF stack2
  <1>4. ASSUME NEW h \in 1 .. Len(stack2), Up(stack2, h).do = "Backtracker"
        PROVE  \E k \in 1 .. Len(marks) : marks[k].level = h
    <2>1. h # Len(stack) + 1
      BY <1>3, <1>4
    <2>2. h \in 1 .. Len(stack)
      BY <1>2, <2>1
    <2>3. Up(stack, h).do = "Backtracker"
      BY <1>3, <1>4, <2>2
    <2> QED
      BY <2>2, <2>3 DEF Consistent, HasChain
  <1>5. ASSUME NEW h \in 1 .. Len(stack)
        PROVE  h \in 1 .. Len(stack2) /\ Up(stack2, h) = Up(stack, h)
    <2>1. h \in 1 .. Len(stack2)
      BY <1>2
    <2> QED
      BY <1>3, <2>1
  <1>6. IsLive(stack2, marks)
    BY <1>5 DEF Consistent, IsLive
  <1>7. Delays(stack2, ids)
    BY <1>5 DEF Consistent, Delays
  <1> QED
    BY <1>1, <1>4, <1>6, <1>7 DEF HasChain, stack2

(* A Discarder enters the stack above a Backtracker.                       *)
LEMMA PushDiscarder ==
  ASSUME NEW stack, NEW marks, NEW ids, Consistent(stack, marks, ids),
         stack # <<>>, Head(stack).do = "Backtracker",
         NEW d \in Discarders
  PROVE  Consistent(<<Call(d)>> \o stack, marks, ids)
  <1> DEFINE it == Call(d)
             stack2 == <<it>> \o stack
  <1>1. it \in Item
    BY DEF Item, DiscarderItem, Call, CallIn
  <1>2. it.do # "Backtracker"
    BY DEF Call, CallIn, Discarders
  <1> HIDE DEF it
  <1>3. /\ stack2 \in Seq(Item)
        /\ HasChain(stack2, marks)
        /\ IsLive(stack2, marks)
        /\ Delays(stack2, ids)
    BY <1>1, <1>2, PushUnmarked
  <1>4. Len(stack) \in Nat /\ Len(stack2) = Len(stack) + 1
    BY <1>1, UpPush DEF Consistent
  <1>5. \A h \in 1 .. Len(stack) : Up(stack2, h) = Up(stack, h)
    BY <1>1, UpPush DEF Consistent
  <1>6. Len(stack) \in Nat \ {0} /\ Up(stack, Len(stack)) = Head(stack)
    BY UpTail DEF Consistent
  <1> HIDE DEF stack2
  <1>7. ASSUME NEW h \in 1 .. Len(stack2), Up(stack2, h).do \in Discarders
        PROVE  h > 1 /\ Up(stack2, h - 1).do = "Backtracker"
    <2>1. CASE h = Len(stack) + 1
      <3>1. h > 1 /\ h - 1 = Len(stack) /\ h - 1 \in 1 .. Len(stack)
        BY <1>6, <2>1
      <3> QED
        BY <1>5, <1>6, <3>1
    <2>2. CASE h # Len(stack) + 1
      <3>1. h \in 1 .. Len(stack)
        BY <1>4, <2>2
      <3>2. h > 1 /\ Up(stack, h - 1).do = "Backtracker"
        BY <1>5, <1>7, <3>1 DEF Consistent, Guards
      <3>3. h - 1 \in 1 .. Len(stack)
        BY <1>4, <3>1, <3>2
      <3> QED
        BY <1>5, <3>2, <3>3
    <2> QED
      BY <2>1, <2>2
  <1> QED
    BY <1>3, <1>7 DEF Consistent, Guards, stack2, it

(* A DiagnosticsReporterDelayer enters the stack.                          *)
LEMMA PushDelayer ==
  ASSUME NEW stack, NEW marks, NEW ids, Consistent(stack, marks, ids),
         NEW id \in DiagnosticIds
  PROVE  Consistent(<<CallIn("~DiagnosticsReporterDelayer", id)>> \o stack,
                    marks, ids \cup {id})
  <1> DEFINE it == CallIn("~DiagnosticsReporterDelayer", id)
             stack2 == <<it>> \o stack
  <1>1. it \in Item
    BY DEF Item, ScopeItem, CallIn
  <1>2. /\ it.do = "~DiagnosticsReporterDelayer"
        /\ it.a = id
        /\ it.do # "Backtracker"
        /\ it.do \notin Discarders
    BY DEF CallIn, Discarders
  <1> HIDE DEF it
  <1>3. /\ stack2 \in Seq(Item)
        /\ HasChain(stack2, marks)
        /\ IsLive(stack2, marks)
        /\ Delays(stack2, ids)
    BY <1>1, <1>2, PushUnmarked
  <1>4. Len(stack) \in Nat /\ Len(stack2) = Len(stack) + 1
    BY <1>1, UpPush DEF Consistent
  <1>5. /\ \A h \in 1 .. Len(stack) : Up(stack2, h) = Up(stack, h)
        /\ Up(stack2, Len(stack) + 1) = it
    BY <1>1, UpPush DEF Consistent
  <1> HIDE DEF stack2
  <1>6. ASSUME NEW h \in 1 .. Len(stack2), Up(stack2, h).do \in Discarders
        PROVE  h > 1 /\ Up(stack2, h - 1).do = "Backtracker"
    <2>1. h # Len(stack) + 1
      BY <1>2, <1>5, <1>6
    <2>2. h \in 1 .. Len(stack)
      BY <1>4, <2>1
    <2>3. h > 1 /\ Up(stack, h - 1).do = "Backtracker"
      BY <1>5, <1>6, <2>2 DEF Consistent, Guards
    <2>4. h - 1 \in 1 .. Len(stack)
      BY <1>4, <2>2, <2>3
    <2> QED
      BY <1>5, <2>3, <2>4
  <1>7. Delays(stack2, ids \cup {id})
    <2>1. Len(stack) + 1 \in 1 .. Len(stack2)
      BY <1>4
    <2> QED
      BY <1>2, <1>3, <1>5, <2>1 DEF Delays
  <1> QED
    BY <1>3, <1>6, <1>7 DEF Consistent, Guards, stack2, it

-----------------------------------------------------------------------------
(* The inductive invariant.                                                *)

IInv ==
  /\ TypeOK
  /\ Consistent(todo, backtracker, IDsForDelay)
  /\ MarksAreBehind

(* A routine's step, and each of the others, keeps the invariant when it   *)
(* keeps the stack consistent, and moves the cursor on with the marks of   *)
(* the Backtrackers that were live.                                        *)
LEMMA MovesOnTypes ==
  ASSUME TypeOK, MovesOn, Data,
         todo' \in Seq(Item), backtracker' \in Seq(Marker),
         IDsForDelay' \subseteq DiagnosticIds
  PROVE  TypeOK'
  <1>1. tks' = tks /\ Len(tks) \in Nat
    BY ProgramsAssumption DEF MovesOn, TypeOK
  <1>2. Marker' = Marker
    BY <1>1 DEF Marker, Diagnostic, Ambiguity
  <1>3. curTkIdx' \in 1 .. Len(tks') + 1
    BY <1>1 DEF MovesOn, TypeOK
  <1>4. tks' \in Programs
    BY <1>1 DEF TypeOK
  <1> QED
    BY <1>2, <1>3, <1>4 DEF TypeOK, Data, Reports

(* The consistency of the next state.                                      *)
LEMMA NextConsistent ==
  ASSUME tks' = tks
  PROVE  Consistent(todo', backtracker', IDsForDelay')
           <=> Consistent(todo, backtracker, IDsForDelay)'
  BY DEF Consistent, Marker, Diagnostic, Ambiguity, HasChain, IsLive, IsNested,
         Guards, Delays, Up

(* What a live Backtracker saved.                                          *)
LEMMA MarkTypes ==
  ASSUME TypeOK, NEW k \in DOMAIN backtracker
  PROVE  /\ backtracker[k] \in Marker
         /\ Len(tks) \in Nat \ {0}
         /\ backtracker[k].refTkIdx \in Nat
         /\ backtracker[k].refTkIdx \in 1 .. Len(tks)
  <1>1. Len(tks) \in Nat \ {0}
    BY ProgramsAssumption DEF TypeOK
  <1>2. backtracker[k] \in Marker
    BY DEF TypeOK
  <1>3. backtracker[k].refTkIdx \in 1 .. Len(tks)
    BY <1>2 DEF Marker
  <1> QED
    BY <1>1, <1>2, <1>3

(* The cursor moves on, and the chain stays.                               *)
LEMMA MarksStayBehind ==
  ASSUME TypeOK, MarksAreBehind, MovesOn, backtracker' = backtracker
  PROVE  MarksAreBehind'
  <1>1. curTkIdx \in Nat /\ curTkIdx' \in Nat /\ curTkIdx <= curTkIdx'
    BY ProgramsAssumption DEF MovesOn, TypeOK
  <1>2. \A k \in DOMAIN backtracker : backtracker[k].refTkIdx \in Nat
    BY MarkTypes
  <1> QED
    BY <1>1, <1>2 DEF MarksAreBehind

(* The cursor moves on, and the chain loses its last Backtracker.          *)
LEMMA MarksStayBehindKept ==
  ASSUME TypeOK, MarksAreBehind, MovesOn, backtracker' = Chained,
         Len(backtracker) # 0
  PROVE  MarksAreBehind'
  <1>1. curTkIdx \in Nat /\ curTkIdx' \in Nat /\ curTkIdx <= curTkIdx'
    BY ProgramsAssumption DEF MovesOn, TypeOK
  <1>2. /\ Len(backtracker) \in Nat \ {0}
        /\ Len(Chained) = Len(backtracker) - 1
        /\ \A k \in 1 .. Len(backtracker) - 1 : Chained[k] = backtracker[k]
        /\ DOMAIN Chained = 1 .. Len(Chained)
    BY KeptMarks, LenProperties DEF Chained, TypeOK
  <1>3. ASSUME NEW k \in DOMAIN Chained
        PROVE  /\ k \in DOMAIN backtracker
               /\ Chained[k] = backtracker[k]
               /\ backtracker[k].refTkIdx \in Nat
    <2>1. k \in 1 .. Len(backtracker) - 1
      BY <1>2
    <2>2. k \in DOMAIN backtracker
      BY <1>2, <2>1 DEF TypeOK
    <2> QED
      BY <1>2, <2>1, <2>2, MarkTypes
  <1> QED
    BY <1>1, <1>2, <1>3 DEF MarksAreBehind

-----------------------------------------------------------------------------
(* Each kind of step keeps the invariant.                                  *)

(* What every kind of step but GiveUpStep comes down to.                   *)
LEMMA StepKeeps ==
  ASSUME IInv, MovesOn, Data,
         Consistent(todo', backtracker', IDsForDelay'),
         IDsForDelay' \subseteq DiagnosticIds,
         MarksAreBehind'
  PROVE  IInv'
  <1>1. TypeOK'
    BY MovesOnTypes DEF IInv, Consistent
  <1>2. Consistent(todo, backtracker, IDsForDelay)'
    BY NextConsistent DEF MovesOn
  <1> QED
    BY <1>1, <1>2 DEF IInv

(* Routines that expand, return, fail, or handle a failure.                *)
LEMMA WorkKeeps ==
  ASSUME IInv, WorkStep
  PROVE  IInv'
  <1>1. PICK items \in Seq(PlainItem) : todo' = items \o Tail(todo)
    BY DEF WorkStep
  <1>2. Consistent(Tail(todo), backtracker, IDsForDelay)
    BY PopRoutine DEF IInv, WorkStep, Running
  <1>3. Consistent(todo', backtracker', IDsForDelay')
    BY <1>1, <1>2, PushRoutines DEF WorkStep
  <1>4. MarksAreBehind'
    BY MarksStayBehind DEF IInv, WorkStep
  <1> QED
    BY <1>3, <1>4, StepKeeps DEF IInv, TypeOK, WorkStep

(* Steps that leave the call stack alone.                                  *)
LEMMA IdleKeeps ==
  ASSUME IInv, IdleStep
  PROVE  IInv'
  <1>1. Consistent(todo', backtracker', IDsForDelay')
    BY DEF IInv, IdleStep
  <1>2. MarksAreBehind'
    BY MarksStayBehind DEF IInv, IdleStep
  <1> QED
    BY <1>1, <1>2, StepKeeps DEF IInv, TypeOK, IdleStep

(* The construction of a DiagnosticsReporterDelayer.                       *)
LEMMA DelayKeeps ==
  ASSUME IInv, DelayStep
  PROVE  IInv'
  <1>1. PICK items \in Seq(PlainItem), id \in DiagnosticIds :
          /\ todo' = items \o <<CallIn("~DiagnosticsReporterDelayer", id)>>
                       \o Tail(todo)
          /\ IDsForDelay' = IDsForDelay \cup {id}
    BY DEF DelayStep
  <1> DEFINE delayer == <<CallIn("~DiagnosticsReporterDelayer", id)>>
  <1>2. Consistent(Tail(todo), backtracker, IDsForDelay)
    BY PopRoutine DEF IInv, DelayStep, Running
  <1>3. Consistent(delayer \o Tail(todo), backtracker, IDsForDelay \cup {id})
    BY <1>2, PushDelayer
  <1>4. Consistent(items \o (delayer \o Tail(todo)), backtracker,
                   IDsForDelay \cup {id})
    BY <1>3, PushRoutines
  <1>5. (items \o delayer) \o Tail(todo) = items \o (delayer \o Tail(todo))
    <2>1. items \in Seq(Item)
      BY DEF Item
    <2>2. delayer \in Seq(Item)
      BY DEF CallIn, Item, ScopeItem
    <2> QED
      BY <1>2, <2>1, <2>2, ConcatAssociative DEF Consistent
  <1>6. Consistent(todo', backtracker', IDsForDelay')
    BY <1>1, <1>4, <1>5 DEF DelayStep
  <1>7. MarksAreBehind'
    BY MarksStayBehind DEF IInv, DelayStep
  <1>8. IDsForDelay' \subseteq DiagnosticIds
    BY <1>1 DEF IInv, TypeOK
  <1> QED
    BY <1>6, <1>7, <1>8, StepKeeps DEF DelayStep

(* The destruction of a DiagnosticsReporterDelayer.                        *)
LEMMA UndelayKeeps ==
  ASSUME IInv, UndelayStep
  PROVE  IInv'
  <1>1. Consistent(todo', backtracker', IDsForDelay')
    BY PopDelayer DEF IInv, UndelayStep, Arg
  <1>2. MarksAreBehind'
    BY MarksStayBehind DEF IInv, UndelayStep
  <1> QED
    BY <1>1, <1>2, StepKeeps DEF IInv, TypeOK, UndelayStep

(* The destruction of a Backtracker.                                       *)
LEMMA KeepKeeps ==
  ASSUME IInv, KeepStep
  PROVE  IInv'
  <1>1. Len(backtracker) # 0
        /\ Consistent(Tail(todo), Chained, IDsForDelay)
    BY PopBacktracker DEF IInv, KeepStep, Chained
  <1>2. Consistent(todo', backtracker', IDsForDelay')
    BY <1>1 DEF KeepStep
  <1>3. MarksAreBehind'
    BY <1>1, MarksStayBehindKept DEF IInv, KeepStep
  <1> QED
    BY <1>2, <1>3, StepKeeps DEF IInv, TypeOK, KeepStep

(* Below a Discarder that runs is the Backtracker that it discards.        *)
LEMMA DiscarderAboveBacktracker ==
  ASSUME IInv, todo # <<>>, Head(todo).do \in Discarders
  PROVE  /\ Consistent(Tail(todo), backtracker, IDsForDelay)
         /\ Tail(todo) # <<>>
         /\ Head(Tail(todo)).do = "Backtracker"
  <1>1. Consistent(Tail(todo), backtracker, IDsForDelay)
    BY PopRoutine, NamesDiffer DEF IInv
  <1>2. /\ Len(todo) \in Nat \ {0}
        /\ Len(Tail(todo)) = Len(todo) - 1
        /\ Up(todo, Len(todo)) = Head(todo)
        /\ \A h \in 1 .. Len(todo) - 1 : Up(Tail(todo), h) = Up(todo, h)
    BY UpTail DEF IInv, Consistent
  <1>3. Len(todo) > 1 /\ Up(todo, Len(todo) - 1).do = "Backtracker"
    <2>1. Len(todo) \in 1 .. Len(todo)
      BY <1>2
    <2> QED
      BY <1>2, <2>1 DEF IInv, Consistent, Guards
  <1>4. Tail(todo) # <<>>
    <2>1. Len(Tail(todo)) > 0
      BY <1>2, <1>3
    <2> QED
      BY <2>1
  <1>5. Up(Tail(todo), Len(Tail(todo))) = Head(Tail(todo))
    BY <1>1, <1>4, UpTail DEF Consistent
  <1>6. Up(Tail(todo), Len(todo) - 1).do = "Backtracker"
    BY <1>2, <1>3
  <1> QED
    BY <1>1, <1>2, <1>4, <1>5, <1>6

(* A routine discards the Backtracker below it, and goes on.               *)
LEMMA KeepEarlyKeeps ==
  ASSUME IInv, KeepEarlyStep
  PROVE  IInv'
  <1>1. PICK items \in Seq(PlainItem) : todo' = items \o Tail(Tail(todo))
    BY DEF KeepEarlyStep
  <1>2. /\ Consistent(Tail(todo), backtracker, IDsForDelay)
        /\ Tail(todo) # <<>>
        /\ Head(Tail(todo)).do = "Backtracker"
    BY DiscarderAboveBacktracker DEF KeepEarlyStep
  <1>3. /\ Len(backtracker) # 0
        /\ Consistent(Tail(Tail(todo)), Chained, IDsForDelay)
    BY <1>2, PopBacktracker DEF Chained
  <1>4. Consistent(todo', backtracker', IDsForDelay')
    BY <1>1, <1>3, PushRoutines DEF KeepEarlyStep
  <1>5. MarksAreBehind'
    BY <1>3, MarksStayBehindKept DEF IInv, KeepEarlyStep
  <1> QED
    BY <1>4, <1>5, StepKeeps DEF IInv, TypeOK, KeepEarlyStep

(* A chain is its last Backtracker after the others.                       *)
LEMMA ChainAppend ==
  ASSUME NEW S, NEW marks \in Seq(S), Len(marks) # 0
  PROVE  Append(SubSeq(marks, 1, Len(marks) - 1), marks[Len(marks)]) = marks
  <1> DEFINE kept == SubSeq(marks, 1, Len(marks) - 1)
             again == Append(kept, marks[Len(marks)])
  <1>1. /\ Len(marks) \in Nat \ {0}
        /\ kept \in Seq(S)
        /\ Len(kept) = Len(marks) - 1
        /\ \A j \in 1 .. Len(marks) - 1 : kept[j] = marks[j]
    BY KeptMarks
  <1> HIDE DEF kept
  <1>2. marks[Len(marks)] \in S
    BY <1>1
  <1>3. /\ again \in Seq(S)
        /\ Len(again) = Len(kept) + 1
        /\ \A j \in 1 .. Len(kept) : again[j] = kept[j]
        /\ again[Len(kept) + 1] = marks[Len(marks)]
    BY <1>1, <1>2, AppendProperties
  <1> HIDE DEF again
  <1>4. Len(again) = Len(marks)
    BY <1>1, <1>3
  <1>5. ASSUME NEW j \in 1 .. Len(marks)
        PROVE  again[j] = marks[j]
    <2>1. CASE j = Len(marks)
      BY <1>1, <1>3, <2>1
    <2>2. CASE j # Len(marks)
      <3>1. j \in 1 .. Len(marks) - 1
        BY <1>1, <2>2
      <3> QED
        BY <1>1, <1>3, <3>1
    <2> QED
      BY <2>1, <2>2
  <1>6. again = marks
    BY <1>3, <1>4, <1>5, SeqEqual
  <1> QED
    BY <1>6 DEF again, kept

(* Two entries are one after the other.                                    *)
LEMMA PairIsConcat ==
  ASSUME NEW x, NEW y
  PROVE  <<x>> \o <<y>> = <<x, y>>
  <1> DEFINE S == {x, y}
             s == <<x>> \o <<y>>
             t == <<x, y>>
  <1>1. <<x>> \in Seq(S) /\ <<y>> \in Seq(S) /\ t \in Seq(S)
    OBVIOUS
  <1>2. Len(<<x>>) = 1 /\ Len(<<y>>) = 1 /\ Len(t) = 2
    OBVIOUS
  <1>3. /\ s \in Seq(S)
        /\ Len(s) = 2
        /\ s[1] = x /\ s[2] = y
    BY <1>1, <1>2, ConcatProperties
  <1>4. t[1] = x /\ t[2] = y
    OBVIOUS
  <1> HIDE DEF s, t
  <1>5. \A i \in 1 .. Len(s) : s[i] = t[i]
    BY <1>3, <1>4
  <1>6. s = t
    BY <1>1, <1>2, <1>3, <1>5, SeqEqual
  <1> QED
    BY <1>6 DEF s, t

(* A routine takes away the alternative of the Backtracker below it: the   *)
(* Backtracker with no alternative stands for the same one.                *)
LEMMA DisarmKeeps ==
  ASSUME IInv, DisarmStep
  PROVE  IInv'
  <1>1. PICK item \in PlainItem :
          todo' = <<item, TryOr("")>> \o Tail(Tail(todo))
    BY DEF DisarmStep
  <1>2. /\ Consistent(Tail(todo), backtracker, IDsForDelay)
        /\ Tail(todo) # <<>>
        /\ Head(Tail(todo)).do = "Backtracker"
    BY DiscarderAboveBacktracker DEF DisarmStep
  <1> DEFINE below == Tail(Tail(todo))
             it == TryOr("")
  <1>3. /\ Len(backtracker) \in Nat \ {0}
        /\ backtracker[Len(backtracker)].level = Len(Tail(todo))
        /\ Consistent(below, Chained, IDsForDelay)
    BY <1>2, PopBacktracker DEF Chained
  <1>4. Len(Tail(todo)) = Len(below) + 1
    <2>1. /\ Len(Tail(todo)) \in Nat \ {0}
          /\ Len(below) = Len(Tail(todo)) - 1
      BY <1>2, UpTail DEF Consistent
    <2> HIDE DEF below
    <2> QED
      BY <2>1
  <1>5. it \in Item /\ it.do = "Backtracker"
    BY DEF Item, ScopeItem, TryOr, CallIn
  <1>6. backtracker[Len(backtracker)] \in Marker
    BY <1>3 DEF IInv, TypeOK
  <1>7. Append(Chained, backtracker[Len(backtracker)]) = backtracker
    BY <1>3, ChainAppend DEF Chained, IInv, TypeOK
  <1>8. Consistent(<<it>> \o below, backtracker, IDsForDelay)
    <2> HIDE DEF it, below
    <2>1. backtracker[Len(backtracker)].level = Len(below) + 1
      BY <1>3, <1>4
    <2> QED
      BY <1>3, <1>5, <1>6, <1>7, <2>1, PushBacktracker
  <1>9. Consistent(<<item>> \o (<<it>> \o below), backtracker, IDsForDelay)
    <2>1. <<item>> \in Seq(PlainItem)
      BY Items1
    <2> HIDE DEF it, below
    <2> QED
      BY <1>8, <2>1, PushRoutines
  <1>10. <<item, it>> \o below = <<item>> \o (<<it>> \o below)
    <2>1. item \in Item /\ below \in Seq(Item)
      BY <1>3 DEF Consistent, Item
    <2> HIDE DEF it, below
    <2>2. <<item>> \in Seq(Item) /\ <<it>> \in Seq(Item)
      BY <1>5, <2>1
    <2>3. (<<item>> \o <<it>>) \o below = <<item>> \o (<<it>> \o below)
      BY <2>1, <2>2, ConcatAssociative
    <2>4. <<item>> \o <<it>> = <<item, it>>
      BY PairIsConcat
    <2> QED
      BY <2>3, <2>4
  <1>11. Consistent(todo', backtracker', IDsForDelay')
    BY <1>1, <1>9, <1>10 DEF DisarmStep
  <1>12. MarksAreBehind'
    BY MarksStayBehind DEF IInv, DisarmStep
  <1> QED
    BY <1>11, <1>12, StepKeeps DEF IInv, TypeOK, DisarmStep

(* Backtracker::backtrack: the alternative runs instead.                   *)
LEMMA GiveUpKeeps ==
  ASSUME IInv, GiveUpStep
  PROVE  IInv'
  <1>1. /\ Len(backtracker) \in Nat \ {0}
        /\ Consistent(Tail(todo), Chained, IDsForDelay)
    BY PopBacktracker DEF IInv, GiveUpStep, Chained
  <1>2. <<Call(Arg)>> \in Seq(PlainItem)
    BY CallPlain, Items1 DEF GiveUpStep
  <1>3. Consistent(todo', backtracker', IDsForDelay')
    BY <1>1, <1>2, PushRoutines DEF GiveUpStep
  <1>4. Consistent(todo, backtracker, IDsForDelay)'
    BY <1>3, NextConsistent DEF GiveUpStep
  <1>5. Len(backtracker) \in DOMAIN backtracker
    BY <1>1 DEF IInv, TypeOK
  <1>6. /\ Current \in Marker
        /\ Len(tks) \in Nat \ {0}
        /\ Current.refTkIdx \in Nat
        /\ Current.refTkIdx \in 1 .. Len(tks)
    BY <1>5, MarkTypes DEF Current, IInv
  <1>7. TypeOK'
    <2>1. tks' = tks /\ tks' \in Programs
      BY DEF GiveUpStep, IInv, TypeOK
    <2>2. Marker' = Marker
      BY <2>1 DEF Marker, Diagnostic, Ambiguity
    <2>3. curTkIdx' \in 1 .. Len(tks') + 1
      <3>1. curTkIdx' \in 1 .. Len(tks)
        BY <1>6 DEF GiveUpStep
      <3> QED
        BY <1>6, <2>1, <3>1
    <2>4. /\ todo' \in Seq(Item)
          /\ backtracker' \in Seq(Marker)
      BY <1>3 DEF Consistent
    <2>5. /\ omitted' \subseteq Diagnostic
          /\ ambiguities' \subseteq Ambiguity
          /\ recovered' \in BOOLEAN
      BY <1>6 DEF GiveUpStep, Marker
    <2>6. mode' \in Modes
      BY DEF GiveUpStep, Modes
    <2>7. UNCHANGED <<node, diags, delayedDiags, failedAsserts, IDsForDelay,
                      retainedAmbiguityDiags>>
      BY DEF GiveUpStep
    <2> QED
      BY <2>1, <2>2, <2>3, <2>4, <2>5, <2>6, <2>7 DEF IInv, TypeOK
  <1>8. MarksAreBehind'
    <2>1. /\ Len(Chained) = Len(backtracker) - 1
          /\ \A k \in 1 .. Len(backtracker) - 1 : Chained[k] = backtracker[k]
          /\ DOMAIN Chained = 1 .. Len(Chained)
      BY <1>1, KeptMarks, LenProperties DEF Chained, IInv, TypeOK
    <2>2. ASSUME NEW k \in DOMAIN Chained
          PROVE  /\ k \in DOMAIN backtracker
                 /\ Chained[k] = backtracker[k]
                 /\ k \in 1 .. Len(backtracker) - 1
      <3>1. k \in 1 .. Len(backtracker) - 1
        BY <1>1, <2>1
      <3>2. k \in DOMAIN backtracker
        BY <1>1, <3>1 DEF IInv, TypeOK
      <3> QED
        BY <2>1, <3>1, <3>2
    <2>3. ASSUME NEW k \in DOMAIN Chained
          PROVE  Chained[k].refTkIdx <= curTkIdx'
      <3>1. /\ backtracker[k].refTkIdx \in Nat
            /\ backtracker[k].refTkIdx <= Len(tks)
        BY <1>6, <2>2, MarkTypes DEF IInv
      <3>2. backtracker[k].refTkIdx <= Current.refTkIdx
        BY <1>1, <1>5, <2>2 DEF Current, IInv, MarksAreBehind
      <3> QED
        BY <2>2, <3>1, <3>2 DEF GiveUpStep
    <2>4. ASSUME NEW k \in DOMAIN Chained, NEW j \in 1 .. k - 1
          PROVE  Chained[j].refTkIdx <= Chained[k].refTkIdx
      <3>1. k \in 1 .. Len(backtracker) - 1 /\ k \in DOMAIN backtracker
        BY <2>2
      <3>2. j \in 1 .. Len(backtracker) - 1
        BY <1>1, <3>1
      <3>3. Chained[j] = backtracker[j] /\ Chained[k] = backtracker[k]
        BY <2>1, <3>1, <3>2
      <3> QED
        BY <3>1, <3>3 DEF IInv, MarksAreBehind
    <2> QED
      BY <2>3, <2>4 DEF GiveUpStep, MarksAreBehind
  <1> QED
    BY <1>4, <1>7, <1>8 DEF IInv

(* Concatenation is associative, for three sequences and for five.         *)
ThreeLeft(s, t, u) == (s \o t) \o u
ThreeRight(s, t, u) == s \o (t \o u)
FromLeft(s, t, u, v, w) == (((s \o t) \o u) \o v) \o w
FromRight(s, t, u, v, w) == s \o (t \o (u \o (v \o w)))

(* ... for three: stated of opaque operators, to be instantiated once.     *)
LEMMA ThreeAssociate ==
  ASSUME NEW s \in Seq(Item), NEW t \in Seq(Item), NEW u \in Seq(Item)
  PROVE  ThreeLeft(s, t, u) = ThreeRight(s, t, u)
  BY ConcatAssociative DEF ThreeLeft, ThreeRight

(* ... for five: the stack as Try writes it is pushed entry by entry.      *)
LEMMA FiveAssociate ==
  ASSUME NEW s \in Seq(Item), NEW t \in Seq(Item), NEW u \in Seq(Item),
         NEW v \in Seq(Item), NEW w \in Seq(Item)
  PROVE  FromLeft(s, t, u, v, w) = FromRight(s, t, u, v, w)
  <1> DEFINE p == s \o t
             q == v \o w
  <1>1. p \in Seq(Item) /\ q \in Seq(Item)
    BY ConcatProperties
  <1> HIDE DEF p, q
  <1> DEFINE front == p \o u
             back == u \o q
  <1>2. front \in Seq(Item) /\ back \in Seq(Item)
    BY <1>1, ConcatProperties
  <1> HIDE DEF front, back
  <1>3. ThreeLeft(p, u, q) = ThreeRight(p, u, q)
    BY <1>1, ThreeAssociate
  <1>4. ThreeLeft(front, v, w) = ThreeRight(front, v, w)
    BY <1>2, ThreeAssociate
  <1>5. ThreeLeft(s, t, back) = ThreeRight(s, t, back)
    BY <1>2, ThreeAssociate
  <1> QED
    BY <1>3, <1>4, <1>5, Zenon
       DEF p, q, front, back, FromLeft, FromRight, ThreeLeft, ThreeRight

(* The construction of a Backtracker.                                      *)
LEMMA BeginKeeps ==
  ASSUME IInv, BeginStep
  PROVE  IInv'
  <1>1. PICK items \in Seq(PlainItem),
             last \in AtMostOneDiscarder,
             alternative \in Routines, rest \in Seq(PlainItem) :
          /\ todo' = (items \o last) \o <<TryOr(alternative)>> \o rest
                       \o Tail(todo)
          /\ backtracker' = Append(backtracker,
                                   [refTkIdx |-> curTkIdx,
                                    level |-> Len(todo) + Len(rest),
                                    omitted |-> omitted,
                                    ambiguities |-> ambiguities,
                                    recovered |-> recovered])
    BY DEF BeginStep
  <1> DEFINE it == TryOr(alternative)
             below == rest \o Tail(todo)
             mark == [refTkIdx |-> curTkIdx, level |-> Len(todo) + Len(rest),
                      omitted |-> omitted, ambiguities |-> ambiguities,
                      recovered |-> recovered]
             chain == Append(backtracker, mark)
  <1>2. Consistent(Tail(todo), backtracker, IDsForDelay)
    BY PopRoutine DEF IInv, BeginStep, Running
  <1>3. Consistent(below, backtracker, IDsForDelay)
    BY <1>2, PushRoutines
  <1>4. it \in Item /\ it.do = "Backtracker"
    BY DEF Item, ScopeItem, TryOr, CallIn
  <1>5. Len(todo) + Len(rest) = Len(below) + 1 /\ Len(below) \in Nat
    <2>1. Len(todo) \in Nat \ {0} /\ Len(Tail(todo)) = Len(todo) - 1
      BY UpTail DEF IInv, Consistent, BeginStep, Running
    <2>2. Len(rest) \in Nat
      OBVIOUS
    <2>3. Len(below) = Len(rest) + Len(Tail(todo))
      BY <1>2, UpConcat DEF Consistent, Item
    <2> HIDE DEF below
    <2> QED
      BY <2>1, <2>2, <2>3
  <1>6. mark \in Marker /\ mark.level = Len(below) + 1
    <2>1. curTkIdx \in 1 .. Len(tks)
      BY CursorMoves DEF IInv, BeginStep
    <2>2. Len(todo) + Len(rest) \in Nat
      BY <1>5
    <2>3. /\ omitted \in SUBSET Diagnostic
          /\ ambiguities \in SUBSET Ambiguity
          /\ recovered \in BOOLEAN
      BY DEF IInv, TypeOK
    <2>4. mark.level = Len(below) + 1
      BY <1>5
    <2> QED
      BY <2>1, <2>2, <2>3, <2>4 DEF Marker
  <1>7. Consistent(<<it>> \o below, chain, IDsForDelay)
    <2> HIDE DEF it, below, mark
    <2> QED
      BY <1>3, <1>4, <1>6, PushBacktracker
  <1>8. /\ <<it>> \o below # <<>>
        /\ Head(<<it>> \o below).do = "Backtracker"
    <2> HIDE DEF it, below
    <2>1. Len(<<it>> \o below) = Len(below) + 1
      BY <1>3, <1>4, UpPush DEF Consistent
    <2>2. (<<it>> \o below)[1] = it
      BY <1>3, <1>4 DEF Consistent
    <2> QED
      BY <1>4, <1>5, <2>1, <2>2
  <1>9. /\ Consistent(last \o (<<it>> \o below), chain, IDsForDelay)
        /\ last \in Seq(Item)
    <2> DEFINE above == <<it>> \o below
    <2> HIDE DEF above, chain
    <2>1. CASE last = <<>>
      <3>1. <<>> \o above = above
        BY <1>7, ConcatEmptySeq DEF Consistent, above
      <3> QED
        BY <1>7, <2>1, <3>1 DEF above
    <2>2. CASE last # <<>>
      <3>1. PICK d \in Discarders : last = <<Call(d)>>
        BY <2>2 DEF AtMostOneDiscarder
      <3>2. Call(d) \in Item
        BY DEF Item, DiscarderItem, Call, CallIn
      <3>3. Consistent(<<Call(d)>> \o above, chain, IDsForDelay)
        BY <1>7, <1>8, PushDiscarder DEF above
      <3> QED
        BY <3>1, <3>2, <3>3 DEF above
    <2> QED
      BY <2>1, <2>2
  <1>10. Consistent(items \o (last \o (<<it>> \o below)), chain, IDsForDelay)
    <2> HIDE DEF it, below, chain
    <2> QED
      BY <1>9, PushRoutines
  <1>11. (((items \o last) \o <<it>>) \o rest) \o Tail(todo)
           = items \o (last \o (<<it>> \o below))
    <2> DEFINE one == <<it>>
               tail == Tail(todo)
    <2>1. /\ items \in Seq(Item) /\ last \in Seq(Item) /\ one \in Seq(Item)
          /\ rest \in Seq(Item) /\ tail \in Seq(Item)
      BY <1>2, <1>4, <1>9 DEF Consistent, Item
    <2> HIDE DEF one, tail, it
    <2>2. FromLeft(items, last, one, rest, tail)
            = FromRight(items, last, one, rest, tail)
      BY <2>1, FiveAssociate
    <2> QED
      BY <2>2, Zenon DEF one, tail, FromLeft, FromRight
  <1>12. Consistent(todo', backtracker', IDsForDelay')
    <2>1. todo' = items \o (last \o (<<it>> \o below))
      BY <1>1, <1>11
    <2>2. backtracker' = chain
      BY <1>1
    <2>3. IDsForDelay' = IDsForDelay
      BY DEF BeginStep
    <2> HIDE DEF it, below, chain
    <2> QED
      BY <1>10, <2>1, <2>2, <2>3
  <1>13. MarksAreBehind'
    <2>1. curTkIdx \in Nat /\ curTkIdx' \in Nat /\ curTkIdx <= curTkIdx'
      BY ProgramsAssumption DEF BeginStep, MovesOn, IInv, TypeOK
    <2>2. /\ Len(backtracker) \in Nat
          /\ DOMAIN backtracker = 1 .. Len(backtracker)
      BY LenProperties DEF IInv, TypeOK
    <2>3. /\ DOMAIN chain = 1 .. Len(backtracker) + 1
          /\ \A k \in 1 .. Len(backtracker) : chain[k] = backtracker[k]
          /\ chain[Len(backtracker) + 1] = mark
      <3>1. backtracker \in Seq(Marker)
        BY DEF IInv, TypeOK
      <3> HIDE DEF mark
      <3> QED
        BY <1>6, <3>1, AppendProperties, LenProperties
    <2>4. mark.refTkIdx = curTkIdx
      OBVIOUS
    <2> HIDE DEF chain, mark
    <2>5. ASSUME NEW k \in 1 .. Len(backtracker)
          PROVE  /\ chain[k].refTkIdx \in Nat
                 /\ chain[k].refTkIdx <= curTkIdx
                 /\ k \in DOMAIN backtracker
                 /\ chain[k] = backtracker[k]
      BY <2>2, <2>3, MarkTypes DEF IInv, MarksAreBehind
    <2>6. ASSUME NEW k \in DOMAIN chain
          PROVE  chain[k].refTkIdx <= curTkIdx'
      <3>1. CASE k \in 1 .. Len(backtracker)
        <4>1. chain[k].refTkIdx \in Nat /\ chain[k].refTkIdx <= curTkIdx
          BY <2>5, <3>1
        <4> QED
          BY <2>1, <4>1
      <3>2. CASE k \notin 1 .. Len(backtracker)
        <4>1. k = Len(backtracker) + 1
          BY <2>2, <2>3, <3>2
        <4> QED
          BY <2>1, <2>3, <2>4, <4>1
      <3> QED
        BY <3>1, <3>2
    <2>7. ASSUME NEW k \in DOMAIN chain, NEW j \in 1 .. k - 1
          PROVE  chain[j].refTkIdx <= chain[k].refTkIdx
      <3>1. j \in 1 .. Len(backtracker)
        BY <2>2, <2>3
      <3>2. CASE k \in 1 .. Len(backtracker)
        <4>1. k \in DOMAIN backtracker /\ chain[k] = backtracker[k]
          BY <2>5, <3>2
        <4>2. chain[j] = backtracker[j]
          BY <2>5, <3>1
        <4> QED
          BY <4>1, <4>2 DEF IInv, MarksAreBehind
      <3>3. CASE k \notin 1 .. Len(backtracker)
        <4>1. k = Len(backtracker) + 1
          BY <2>2, <2>3, <3>3
        <4> QED
          BY <2>3, <2>4, <2>5, <3>1, <4>1
      <3> QED
        BY <3>2, <3>3
    <2>8. backtracker' = chain
      BY <1>1 DEF chain, mark
    <2> QED
      BY <2>6, <2>7, <2>8 DEF MarksAreBehind
  <1> QED
    BY <1>12, <1>13, StepKeeps DEF IInv, TypeOK, BeginStep

-----------------------------------------------------------------------------
(* The theorems.                                                           *)

(* The initial states are consistent: one entry and no Backtracker.        *)
LEMMA InitHolds ==
  ASSUME Init
  PROVE  IInv
  <1> DEFINE it == Call("TranslationUnit")
  <1>1. it \in PlainItem
    <2>1. {"TranslationUnit"} \subseteq Routines
      BY DEF Routines, DeclarationRoutines
    <2> QED
      BY <2>1, CallPlain
  <1>2. /\ it \in Item
        /\ it.do \notin Discarders
        /\ it.do # "Backtracker"
    BY <1>1 DEF Item, Discarders, Call, CallIn
  <1>3. todo = <<it>> /\ backtracker = <<>> /\ IDsForDelay = {}
    BY DEF Init, MachineInit
  <1> HIDE DEF it
  <1>4. /\ todo \in Seq(Item)
        /\ Len(todo) = 1
        /\ \A h \in 1 .. Len(todo) : Up(todo, h) = it
    BY <1>2, <1>3 DEF Up
  <1>5. Consistent(todo, backtracker, IDsForDelay)
    BY <1>2, <1>3, <1>4
       DEF Consistent, HasChain, IsLive, IsNested, Guards, Delays
  <1>6. tks \in Programs /\ curTkIdx \in 1 .. Len(tks) + 1
    BY ProgramsAssumption DEF Init, MachineInit
  <1>7. TypeOK
    <2>1. /\ node = <<>> /\ retainedAmbiguityDiags = <<>>
          /\ diags = {} /\ delayedDiags = {} /\ omitted = {}
          /\ failedAsserts = {} /\ ambiguities = {}
          /\ mode = "run" /\ recovered = FALSE
      BY DEF Init, MachineInit
    <2>2. "run" \in Modes
      BY DEF Modes
    <2>3. /\ node \in Seq(Words)
          /\ retainedAmbiguityDiags \in Seq(Ambiguity)
          /\ backtracker \in Seq(Marker)
      BY <1>3, <2>1
    <2> QED
      BY <1>3, <1>4, <1>6, <2>1, <2>2, <2>3 DEF TypeOK
  <1>8. MarksAreBehind
    BY <1>3 DEF MarksAreBehind
  <1> QED
    BY <1>5, <1>7, <1>8 DEF IInv

(* Every step of the parser is of one of the kinds.                        *)
LEMMA NextTakesSteps ==
  ASSUME TypeOK, Next
  PROVE  Step
  BY MachineTakesSteps, StatementsTakeSteps, ExpressionsTakeSteps,
     DeclarationsTakeSteps DEF Next

(* The invariant is inductive.                                             *)
LEMMA NextKeeps ==
  ASSUME IInv, [Next]_vars
  PROVE  IInv'
  <1>1. CASE Next
    <2>1. Step
      BY <1>1, NextTakesSteps DEF IInv
    <2> QED
      BY <2>1, WorkKeeps, IdleKeeps, BeginKeeps, KeepKeeps, KeepEarlyKeeps,
         DisarmKeeps, GiveUpKeeps, DelayKeeps, UndelayKeeps DEF Step
  <1>2. CASE UNCHANGED vars
    <2>1. UNCHANGED <<tks, curTkIdx, todo, node, backtracker, diags,
                      delayedDiags, omitted, failedAsserts, IDsForDelay,
                      retainedAmbiguityDiags, ambiguities, mode, recovered>>
      BY <1>2 DEF vars, diagVars, ambigVars
    <2>2. TypeOK'
      BY <2>1 DEF IInv, TypeOK, Marker, Diagnostic, Ambiguity
    <2>3. Consistent(todo, backtracker, IDsForDelay)'
      BY <2>1, NextConsistent DEF IInv
    <2>4. MarksAreBehind'
      BY <2>1 DEF IInv, MarksAreBehind
    <2> QED
      BY <2>2, <2>3, <2>4 DEF IInv
  <1> QED
    BY <1>1, <1>2

(* Parsing any text keeps the invariant.                                   *)
THEOREM Invariance == Spec => []IInv
  <1>1. Init => IInv
    BY InitHolds
  <1>2. IInv /\ [Next]_vars => IInv'
    BY NextKeeps
  <1> QED
    BY <1>1, <1>2, PTL DEF Spec

(* Every variable keeps its type, whatever the text: no routine is left on *)
(* the call stack that the model does not run, and the cursor never runs   *)
(* further than one token past the end.                                    *)
THEOREM TypesAreRight == Spec => []TypeOK
  <1>1. IInv => TypeOK
    BY DEF IInv
  <1> QED
    BY <1>1, Invariance, PTL

(* Giving an attempt up never moves the cursor forward, nor behind the     *)
(* start of an attempt around it.                                          *)
THEOREM MarksStayBehindTheCursor == Spec => []MarksAreBehind
  <1>1. IInv => MarksAreBehind
    BY DEF IInv
  <1> QED
    BY <1>1, Invariance, PTL

(* A delayed identifier belongs to a parameter list that is being parsed.  *)
THEOREM DelaysEndWithTheirLists == Spec => []NoDelayOutlivesItsList
  <1>1. IInv => NoDelayOutlivesItsList
    <2>1. ASSUME IInv, NEW id \in IDsForDelay
          PROVE  \E i \in DOMAIN todo :
                   todo[i].do = "~DiagnosticsReporterDelayer" /\ todo[i].a = id
      <3>1. PICK h \in 1 .. Len(todo) :
              /\ Up(todo, h).do = "~DiagnosticsReporterDelayer"
              /\ Up(todo, h).a = id
        BY <2>1 DEF IInv, Consistent, Delays
      <3>2. Len(todo) - h + 1 \in DOMAIN todo
        BY <2>1 DEF IInv, TypeOK
      <3> QED
        BY <3>1, <3>2 DEF Up
    <2> QED
      BY <2>1 DEF NoDelayOutlivesItsList
  <1> QED
    BY <1>1, Invariance, PTL

(* backtracker_ chains exactly the Backtrackers on the call stack, in      *)
(* their order: on every path through success, failure, early discard and  *)
(* recovery, a failure meets the Backtracker that the code means.          *)
THEOREM ChainMatchesCallStack == Spec => []BacktrackersMatchCallStack
  <1>1. IInv => BacktrackersMatchCallStack
    <2> SUFFICES ASSUME IInv
                 PROVE  BacktrackersMatchCallStack
      OBVIOUS
    <2>1. /\ Len(todo) \in Nat /\ DOMAIN todo = 1 .. Len(todo)
          /\ Len(backtracker) \in Nat
          /\ DOMAIN backtracker = 1 .. Len(backtracker)
      BY LenProperties DEF IInv, TypeOK
    <2>2. ASSUME NEW i \in DOMAIN todo, todo[i].do = "Backtracker"
          PROVE  \E k \in DOMAIN backtracker :
                   backtracker[k].level = Height(i)
      <3>1. Height(i) \in 1 .. Len(todo) /\ Up(todo, Height(i)) = todo[i]
        BY <2>1 DEF Height, Up
      <3> QED
        BY <2>1, <2>2, <3>1 DEF IInv, Consistent, HasChain
    <2>3. ASSUME NEW k \in DOMAIN backtracker
          PROVE  \E i \in DOMAIN todo :
                   /\ backtracker[k].level = Height(i)
                   /\ todo[i].do = "Backtracker"
      <3>1. /\ backtracker[k].level \in 1 .. Len(todo)
            /\ Up(todo, backtracker[k].level).do = "Backtracker"
        BY <2>1 DEF IInv, Consistent, IsLive
      <3> DEFINE i == Len(todo) - backtracker[k].level + 1
      <3>2. i \in DOMAIN todo /\ Height(i) = backtracker[k].level
        BY <2>1, <3>1 DEF Height
      <3> QED
        BY <3>1, <3>2 DEF Up
    <2>4. ASSUME NEW k \in DOMAIN backtracker, NEW j \in 1 .. k - 1
          PROVE  backtracker[j].level < backtracker[k].level
      BY <2>1 DEF IInv, Consistent, IsNested
    <2> QED
      BY <2>2, <2>3, <2>4 DEF BacktrackersMatchCallStack
  <1> QED
    BY <1>1, Invariance, PTL

-----------------------------------------------------------------------------
(* Refinement.                                                             *)

(* Where the live Backtrackers began.                                      *)
Marks(chain) == [k \in DOMAIN chain |-> chain[k].refTkIdx]

(* The marks of a chain are a sequence of places in the text.              *)
LEMMA MarksTypes ==
  ASSUME NEW chain \in Seq(Marker)
  PROVE  /\ Marks(chain) \in Seq(1 .. Len(tks))
         /\ Len(chain) \in Nat
         /\ Len(Marks(chain)) = Len(chain)
         /\ \A k \in 1 .. Len(chain) : Marks(chain)[k] = chain[k].refTkIdx
  <1>1. Len(chain) \in Nat /\ DOMAIN chain = 1 .. Len(chain)
    BY LenProperties
  <1>2. ASSUME NEW k \in 1 .. Len(chain)
        PROVE  Marks(chain)[k] \in 1 .. Len(tks)
    <2>1. chain[k] \in Marker
      BY <1>1
    <2> QED
      BY <1>1, <2>1 DEF Marks, Marker
  <1>3. Marks(chain) = [k \in 1 .. Len(chain) |-> Marks(chain)[k]]
    BY <1>1 DEF Marks
  <1>4. Marks(chain) \in Seq(1 .. Len(tks))
    BY <1>1, <1>2, <1>3, IsASeq
  <1>5. DOMAIN Marks(chain) = 1 .. Len(chain)
    BY <1>1 DEF Marks
  <1>6. Len(Marks(chain)) = Len(chain)
    BY <1>1, <1>4, <1>5, LenProperties
  <1> QED
    BY <1>1, <1>4, <1>6 DEF Marks

(* A Backtracker at the end of the chain is a mark at the end.             *)
LEMMA MarksOfAppend ==
  ASSUME NEW chain \in Seq(Marker), NEW mark \in Marker
  PROVE  Marks(Append(chain, mark)) = Append(Marks(chain), mark.refTkIdx)
  <1> DEFINE chain2 == Append(chain, mark)
             s == Marks(chain)
             t == Append(s, mark.refTkIdx)
             P == 1 .. Len(tks)
  <1>1. /\ chain2 \in Seq(Marker)
        /\ Len(chain2) = Len(chain) + 1
        /\ \A k \in 1 .. Len(chain) : chain2[k] = chain[k]
        /\ chain2[Len(chain) + 1] = mark
    BY AppendProperties
  <1> HIDE DEF chain2
  <1>2. /\ s \in Seq(P) /\ Len(s) = Len(chain) /\ Len(chain) \in Nat
        /\ \A k \in 1 .. Len(chain) : s[k] = chain[k].refTkIdx
    BY MarksTypes
  <1>3. /\ Marks(chain2) \in Seq(P) /\ Len(Marks(chain2)) = Len(chain2)
        /\ \A k \in 1 .. Len(chain2) : Marks(chain2)[k] = chain2[k].refTkIdx
    BY <1>1, MarksTypes
  <1>4. mark.refTkIdx \in P
    BY DEF Marker
  <1> HIDE DEF s, P
  <1>5. /\ t \in Seq(P)
        /\ Len(t) = Len(chain) + 1
        /\ \A k \in 1 .. Len(chain) : t[k] = s[k]
        /\ t[Len(chain) + 1] = mark.refTkIdx
    BY <1>2, <1>4, AppendProperties
  <1> HIDE DEF t
  <1>6. ASSUME NEW k \in 1 .. Len(Marks(chain2))
        PROVE  Marks(chain2)[k] = t[k]
    <2>1. k \in 1 .. Len(chain) + 1
      BY <1>1, <1>3
    <2>2. k \in 1 .. Len(chain2)
      BY <1>3
    <2>3. CASE k = Len(chain) + 1
      BY <1>1, <1>3, <1>5, <2>2, <2>3
    <2>4. CASE k # Len(chain) + 1
      <3>1. k \in 1 .. Len(chain)
        BY <1>2, <2>1, <2>4
      <3> QED
        BY <1>1, <1>2, <1>3, <1>5, <2>2, <3>1
    <2> QED
      BY <2>3, <2>4
  <1>7. Marks(chain2) = t
    BY <1>1, <1>3, <1>5, <1>6, SeqEqual
  <1> QED
    BY <1>7 DEF chain2, t, s

(* Without its last Backtracker, it is without its last mark.              *)
LEMMA MarksOfKept ==
  ASSUME NEW chain \in Seq(Marker), Len(chain) # 0
  PROVE  /\ Marks(SubSeq(chain, 1, Len(chain) - 1))
              = SubSeq(Marks(chain), 1, Len(Marks(chain)) - 1)
         /\ Marks(chain) # <<>>
  <1> DEFINE chain2 == SubSeq(chain, 1, Len(chain) - 1)
             s == Marks(chain)
             t == SubSeq(s, 1, Len(s) - 1)
             P == 1 .. Len(tks)
  <1>1. /\ chain2 \in Seq(Marker)
        /\ Len(chain2) = Len(chain) - 1
        /\ \A k \in 1 .. Len(chain) - 1 : chain2[k] = chain[k]
    BY KeptMarks
  <1> HIDE DEF chain2
  <1>2. /\ s \in Seq(P) /\ Len(s) = Len(chain) /\ Len(chain) \in Nat
        /\ \A k \in 1 .. Len(chain) : s[k] = chain[k].refTkIdx
    BY MarksTypes
  <1>3. /\ Marks(chain2) \in Seq(P) /\ Len(Marks(chain2)) = Len(chain2)
        /\ \A k \in 1 .. Len(chain2) : Marks(chain2)[k] = chain2[k].refTkIdx
    BY <1>1, MarksTypes
  <1> HIDE DEF s, P
  <1>4. /\ t \in Seq(P)
        /\ Len(t) = Len(chain) - 1
        /\ \A k \in 1 .. Len(chain) - 1 : t[k] = s[k]
    BY <1>2, KeptMarks
  <1> HIDE DEF t
  <1>5. ASSUME NEW k \in 1 .. Len(Marks(chain2))
        PROVE  Marks(chain2)[k] = t[k]
    <2>1. k \in 1 .. Len(chain) - 1 /\ k \in 1 .. Len(chain2)
      BY <1>1, <1>3
    <2>2. k \in 1 .. Len(chain)
      BY <1>2, <2>1
    <2> QED
      BY <1>1, <1>2, <1>3, <1>4, <2>1, <2>2
  <1>6. Marks(chain2) = t
    BY <1>1, <1>3, <1>4, <1>5, SeqEqual
  <1>7. s # <<>>
    BY <1>2
  <1> QED
    BY <1>6, <1>7 DEF chain2, t, s

(* The initial states are Speculation's.                                   *)
LEMMA InitRefines ==
  ASSUME Init
  PROVE  Speculated!SpecInit
  <1>1. Len(tks) \in Nat \ {0}
    BY ProgramsAssumption DEF Init, MachineInit
  <1>2. curTkIdx = 1 /\ backtracker = <<>> /\ diags = {}
    BY DEF Init, MachineInit
  <1>3. [k \in DOMAIN backtracker |-> backtracker[k].refTkIdx] = <<>>
    BY <1>2
  <1> QED
    BY <1>1, <1>2, <1>3 DEF Speculated!SpecInit

(* A step that moves on with the same Backtrackers advances.               *)
LEMMA AdvanceRefines ==
  ASSUME TypeOK, MovesOn, Reports, backtracker' = backtracker
  PROVE  Speculated!Advance
  <1>1. curTkIdx' \in Nat /\ curTkIdx' >= curTkIdx
    BY ProgramsAssumption DEF MovesOn, TypeOK
  <1>2. /\ Len(tks)' = Len(tks)
        /\ [k \in DOMAIN backtracker |-> backtracker[k].refTkIdx]'
             = [k \in DOMAIN backtracker |-> backtracker[k].refTkIdx]
    BY DEF MovesOn
  <1>3. backtracker = <<>> =>
          [k \in DOMAIN backtracker |-> backtracker[k].refTkIdx] = <<>>
    OBVIOUS
  <1>4. /\ diags' \subseteq Diagnostic /\ diags \subseteq diags'
        /\ diags' # diags => backtracker = <<>>
    BY DEF Reports
  <1>5. Diagnostic' = Diagnostic
    BY DEF Diagnostic
  <1> QED
    BY <1>1, <1>2, <1>3, <1>4, <1>5 DEF Speculated!Advance

(* A step that moves on without the last Backtracker keeps its attempt.    *)
LEMMA KeepRefines ==
  ASSUME TypeOK, MovesOn, diags' = diags, Len(backtracker) # 0,
         backtracker' = Chained
  PROVE  Speculated!Keep
  <1>1. curTkIdx' \in Nat /\ curTkIdx' >= curTkIdx
    BY ProgramsAssumption DEF MovesOn, TypeOK
  <1>2. Len(tks)' = Len(tks)
    BY DEF MovesOn
  <1>3. /\ Marks(Chained) = SubSeq(Marks(backtracker), 1,
                                   Len(Marks(backtracker)) - 1)
        /\ Marks(backtracker) # <<>>
    BY MarksOfKept DEF Chained, TypeOK
  <1>4. Marks(backtracker)' = Marks(Chained)
    BY DEF Marks
  <1> QED
    BY <1>1, <1>2, <1>3, <1>4
       DEF Speculated!Keep, Speculated!Front, Marks

(* Every kind of step is one of Speculation's.                             *)
LEMMA StepRefines ==
  ASSUME IInv, Step
  PROVE  Speculated!SpecNext
  <1>1. CASE WorkStep \/ IdleStep \/ DelayStep \/ UndelayStep
    BY <1>1, AdvanceRefines
       DEF WorkStep, IdleStep, DelayStep, UndelayStep, Data, IInv,
           Speculated!SpecNext
  <1>2. CASE DisarmStep
    BY <1>2, AdvanceRefines DEF DisarmStep, Data, IInv, Speculated!SpecNext
  <1>3. CASE KeepStep
    <2>1. Len(backtracker) # 0
      BY <1>3, PopBacktracker DEF IInv, KeepStep
    <2> QED
      BY <1>3, <2>1, KeepRefines DEF KeepStep, IInv, Speculated!SpecNext
  <1>4. CASE KeepEarlyStep
    <2>1. Len(backtracker) # 0
      BY <1>4, DiscarderAboveBacktracker, PopBacktracker DEF KeepEarlyStep
    <2> QED
      BY <1>4, <2>1, KeepRefines DEF KeepEarlyStep, IInv, Speculated!SpecNext
  <1>5. CASE BeginStep
    <2>1. PICK rest \in Seq(PlainItem) :
            backtracker' = Append(backtracker,
                                  [refTkIdx |-> curTkIdx,
                                   level |-> Len(todo) + Len(rest),
                                   omitted |-> omitted,
                                   ambiguities |-> ambiguities,
                                   recovered |-> recovered])
      BY <1>5 DEF BeginStep
    <2> DEFINE mark == [refTkIdx |-> curTkIdx,
                        level |-> Len(todo) + Len(rest), omitted |-> omitted,
                        ambiguities |-> ambiguities, recovered |-> recovered]
    <2>2. mark \in Marker
      <3>1. curTkIdx \in 1 .. Len(tks)
        BY <1>5, CursorMoves DEF IInv, BeginStep
      <3>2. Len(todo) + Len(rest) \in Nat
        <4>1. Len(todo) \in Nat /\ Len(rest) \in Nat
          BY LenProperties DEF IInv, TypeOK
        <4> QED
          BY <4>1
      <3>3. /\ omitted \in SUBSET Diagnostic
            /\ ambiguities \in SUBSET Ambiguity
            /\ recovered \in BOOLEAN
        BY DEF IInv, TypeOK
      <3> QED
        BY <3>1, <3>2, <3>3 DEF Marker
    <2>3. mark.refTkIdx = curTkIdx
      OBVIOUS
    <2>4. backtracker' = Append(backtracker, mark)
      BY <2>1
    <2> HIDE DEF mark
    <2>5. Marks(backtracker)' = Append(Marks(backtracker), curTkIdx)
      <3>1. Marks(backtracker)' = Marks(backtracker')
        BY DEF Marks
      <3>2. Marks(Append(backtracker, mark))
              = Append(Marks(backtracker), mark.refTkIdx)
        BY <2>2, MarksOfAppend DEF IInv, TypeOK
      <3> QED
        BY <2>3, <2>4, <3>1, <3>2
    <2>6. /\ curTkIdx' \in Nat /\ curTkIdx' >= curTkIdx
          /\ Len(tks)' = Len(tks) /\ diags' = diags
      BY <1>5, ProgramsAssumption DEF BeginStep, MovesOn, IInv, TypeOK
    <2>7. Speculated!Begin
      BY <2>5, <2>6 DEF Speculated!Begin, Marks
    <2> QED
      BY <2>7 DEF Speculated!SpecNext
  <1>6. CASE GiveUpStep
    <2>1. Len(backtracker) # 0 /\ Len(backtracker) \in Nat
      BY <1>6, PopBacktracker DEF IInv, GiveUpStep
    <2>2. /\ Marks(Chained) = SubSeq(Marks(backtracker), 1,
                                     Len(Marks(backtracker)) - 1)
          /\ Marks(backtracker) # <<>>
      BY <2>1, MarksOfKept DEF Chained, IInv, TypeOK
    <2>3. Marks(backtracker)' = Marks(Chained)
      BY <1>6 DEF GiveUpStep, Marks
    <2>4. Marks(backtracker)[Len(Marks(backtracker))] = Current.refTkIdx
      <3>1. Len(Marks(backtracker)) = Len(backtracker)
        BY MarksTypes DEF IInv, TypeOK
      <3>2. Len(backtracker) \in 1 .. Len(backtracker)
        BY <2>1
      <3> QED
        BY <3>1, <3>2, MarksTypes DEF Current, IInv, TypeOK
    <2>5. /\ Len(tks)' = Len(tks) /\ diags' = diags
          /\ curTkIdx' = IF curTkIdx <= Len(tks) THEN Current.refTkIdx
                                                 ELSE Len(tks)
      BY <1>6 DEF GiveUpStep, InTokens
    <2>6. Speculated!GiveUp
      BY <2>2, <2>3, <2>4, <2>5
         DEF Speculated!GiveUp, Speculated!Front, Marks
    <2> QED
      BY <2>6 DEF Speculated!SpecNext
  <1> QED
    BY <1>1, <1>2, <1>3, <1>4, <1>5, <1>6 DEF Step

(* The parser implements Speculation, whatever its texts: nothing is       *)
(* reported while an attempt may still be given up, giving the last one up *)
(* moves the cursor back to where it began, and only the last one can be   *)
(* given up.                                                               *)
THEOREM ParserImplementsSpeculation == Spec => SpeculationIsSound
  <1>1. Init => Speculated!SpecInit
    BY InitRefines
  <1>2. IInv /\ [Next]_vars => [Speculated!SpecNext]_(Speculated!specVars)
    <2> SUFFICES ASSUME IInv, [Next]_vars
                 PROVE  \/ Speculated!SpecNext
                        \/ UNCHANGED Speculated!specVars
      OBVIOUS
    <2>1. CASE Next
      BY <2>1, NextTakesSteps, StepRefines DEF IInv
    <2>2. CASE UNCHANGED vars
      <3>1. UNCHANGED <<tks, curTkIdx, backtracker, diags>>
        BY <2>2 DEF vars, diagVars
      <3> QED
        BY <3>1 DEF Speculated!specVars
    <2> QED
      BY <2>1, <2>2
  <1> QED
    BY <1>1, <1>2, Invariance, PTL
       DEF Spec, SpeculationIsSound, Speculated!SpecSpec

=============================================================================
