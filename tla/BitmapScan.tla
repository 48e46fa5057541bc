----------------------------- MODULE BitmapScan -----------------------------
(***************************************************************************)
(* BitmapScan (kernel/bitmap.c), one step per evaluation of a loop         *)
(* condition, on a map of Len bytes with arbitrary memory behind it.       *)
(***************************************************************************)
EXTENDS Integers

CONSTANTS
  Len,     \* bitmap->bitmapLen
  Byte,    \* bits in a byte (8 in the code)
  MaxN     \* bound: the longest run asked for

ASSUME BitmapAssumption ==
  /\ Len \in Nat
  /\ Byte \in Nat \ {0}
  /\ MaxN \in Nat \ {0}

VARIABLES
  used,    \* the bits that are 1, those behind the map included
  n, i, cnt,
  pc,      \* the condition evaluated next, or "done"
  result   \* the value returned

vars == <<used, n, i, cnt, pc, result>>

(* The bound of the for loop. *)
Limit == (Len + 1) * Byte

Init ==
  /\ used \in SUBSET (0 .. Limit - 1)
  /\ n \in 1 .. MaxN
  /\ i = 0
  /\ cnt = 0
  /\ pc = "for"
  /\ result = 0

(* Names with a suffix are broken variants of the definition that follows. *)
ForCondition_NoRun == i < Limit
ForCondition == i + n < Limit

For ==
  /\ pc = "for"
  /\ IF ForCondition
     THEN pc' = "while" /\ UNCHANGED result
     ELSE pc' = "done" /\ result' = -1
  /\ cnt' = 0
  /\ UNCHANGED <<used, n, i>>

(* BitmapBitIndexUsed(bitmap, i + cnt). *)
BitIndexUsed(k) == k \in used

(* Where the search goes on when bit i + cnt is in use. *)
Resume_TooFar == i + n
Resume_Stuck == i + cnt
Resume == i + cnt + 1

While ==
  /\ pc = "while"
  /\ IF BitIndexUsed(i + cnt)
     THEN /\ i' = Resume
          /\ pc' = "for"
          /\ UNCHANGED <<cnt, result>>
     ELSE /\ cnt' = cnt + 1
          /\ IF cnt + 1 >= n
             THEN pc' = "done" /\ result' = i
             ELSE UNCHANGED <<pc, result>>
          /\ UNCHANGED i
  /\ UNCHANGED <<used, n>>

Returned == pc = "done" /\ UNCHANGED vars

Next == For \/ While \/ Returned

Spec == Init /\ [][Next]_vars

(* The function runs to its end: no step of it waits for anything. *)
LiveSpec == Spec /\ WF_vars(For \/ While)

-----------------------------------------------------------------------------
(* The counters of the search stay unsigned, and its result a bit or -1.   *)
TypeOK ==
  /\ used \in SUBSET Nat
  /\ n \in Nat \ {0}
  /\ i \in Nat
  /\ cnt \in Nat
  /\ pc \in {"for", "while", "done"}
  /\ result \in Nat \cup {-1}

Fits(k) == \A j \in 0 .. n - 1 : k + j \notin used

(* bitmap.c:66: the result is the first place with n free bits, although   *)
(* the search jumps over the bits it has counted; -1 only if there is none.*)
FirstFit ==
  pc = "done" =>
    IF result = -1
    THEN \A k \in 0 .. Limit : k + n < Limit => ~Fits(k)
    ELSE Fits(result) /\ \A k \in 0 .. result - 1 : ~Fits(k)

(* What it reads behind the map stays within the one byte that follows it, *)
(* although the inner loop has no bound of its own.                        *)
OneByteOver == pc = "while" => i + cnt < Limit - 1

(* The search ends with an answer.                                         *)
Terminates == <>(pc = "done")
=============================================================================
