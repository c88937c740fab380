----------------------------- MODULE Speculation -----------------------------
(***************************************************************************)
(* What the Backtrackers of a parser promise, whatever its grammar is.     *)
(* A cursor moves over a text whose tokens are 1 .. last.  A mark is where *)
(* an attempt began that may still be given up.  While there is a mark     *)
(* nothing is reported; giving the last attempt up moves the cursor back   *)
(* to its mark, or to the last token if the cursor has run past it;        *)
(* keeping it leaves the cursor where it is.  A report is never withdrawn. *)
(***************************************************************************)
EXTENDS Naturals, Sequences

CONSTANT Reports   \* what can be reported

VARIABLES
  last,      \* the index of the last token
  cursor,    \* the index of the current token
  marks,     \* where the live attempts began, the last one began last
  reported   \* what has been reported

specVars == <<last, cursor, marks, reported>>

Front(s) == SubSeq(s, 1, Len(s) - 1)

SpecInit ==
  /\ last \in Nat \ {0}
  /\ cursor = 1
  /\ marks = <<>>
  /\ reported = {}

(* The cursor moves on, and if nothing is speculative, reports are made.   *)
Advance ==
  /\ cursor' \in Nat /\ cursor' >= cursor
  /\ reported' \subseteq Reports /\ reported \subseteq reported'
  /\ reported' # reported => marks = <<>>
  /\ UNCHANGED <<last, marks>>

(* An attempt begins here.                                                 *)
Begin ==
  /\ marks' = Append(marks, cursor)
  /\ cursor' \in Nat /\ cursor' >= cursor
  /\ UNCHANGED <<last, reported>>

Keep ==
  /\ marks # <<>>
  /\ marks' = Front(marks)
  /\ cursor' \in Nat /\ cursor' >= cursor
  /\ UNCHANGED <<last, reported>>

GiveUp ==
  /\ marks # <<>>
  /\ marks' = Front(marks)
  /\ cursor' = IF cursor <= last THEN marks[Len(marks)] ELSE last
  /\ UNCHANGED <<last, reported>>

SpecNext == Advance \/ Begin \/ Keep \/ GiveUp

SpecSpec == SpecInit /\ [][SpecNext]_specVars

=============================================================================
