-------------------------- MODULE BitmapScanProofs --------------------------
(***************************************************************************)
(* BitmapScan returns the first fit, for maps of every length.  The        *)
(* invariant is the loop invariant of the two loops: nothing before i      *)
(* fits, and the cnt bits from i on are free.                              *)
(***************************************************************************)
EXTENDS BitmapScan, TLAPS

LoopInv ==
  /\ \A k \in 0 .. i - 1 : ~Fits(k)
  /\ pc = "while" =>
       /\ i + n < Limit
       /\ cnt < n
       /\ \A j \in 0 .. cnt - 1 : i + j \notin used
  /\ pc = "done" =>
       \/ result = -1 /\ i + n >= Limit
       \/ result = i /\ Fits(i)

IInv == TypeOK /\ LoopInv

(* The bound of the for loop is a number: Mem_PoolInit's bitmapLen is one. *)
LEMMA LimitNat == Limit \in Nat
BY BitmapAssumption DEF Limit

(* The scan starts at bit 0 with nothing counted.                          *)
LEMMA InitIInv == Init => IInv
BY BitmapAssumption, LimitNat DEF Init, IInv, TypeOK, LoopInv

(* The jump of BitmapScan behind a used bit skips no place that fits.      *)
LEMMA JumpSound ==
  ASSUME TypeOK, cnt < n, i + cnt \in used,
         \A k \in 0 .. i - 1 : ~Fits(k)
  PROVE  \A k \in 0 .. i + cnt : ~Fits(k)
<1> SUFFICES ASSUME NEW k \in 0 .. i + cnt PROVE ~Fits(k)
  OBVIOUS
<1>1. CASE k \in 0 .. i - 1
  BY <1>1
<1>2. CASE k \notin 0 .. i - 1
  <2>1. (i + cnt) - k \in 0 .. n - 1 /\ k + ((i + cnt) - k) = i + cnt
    BY <1>2 DEF TypeOK
  <2> QED
    BY <2>1 DEF Fits
<1> QED
  BY <1>1, <1>2

(* Both loop conditions keep the loop invariant.                           *)
LEMMA StepIInv == IInv /\ [Next]_vars => IInv'
<1> SUFFICES ASSUME IInv, [Next]_vars PROVE IInv'
  OBVIOUS
<1> USE LimitNat
<1>1. CASE For
  <2>1. used' = used /\ n' = n /\ i' = i
    BY <1>1 DEF For
  <2>2. \A k : Fits(k)' <=> Fits(k)
    BY <2>1 DEF Fits
  <2>3. TypeOK'
    BY <1>1 DEF For, ForCondition, IInv, TypeOK
  <2>4. \A k \in 0 .. i' - 1 : ~Fits(k)'
    BY <2>1, <2>2 DEF IInv, LoopInv
  <2>5. CASE i + n < Limit
    BY <1>1, <2>1, <2>3, <2>4, <2>5 DEF For, ForCondition, IInv, TypeOK, LoopInv, Limit
  <2>6. CASE ~(i + n < Limit)
    BY <1>1, <2>1, <2>3, <2>4, <2>6 DEF For, ForCondition, IInv, TypeOK, LoopInv, Limit
  <2> QED
    BY <2>5, <2>6
<1>2. CASE While /\ i + cnt \in used
  <2>1. /\ used' = used /\ n' = n /\ i' = i + cnt + 1
        /\ pc' = "for" /\ cnt' = cnt /\ result' = result
    BY <1>2 DEF While, BitIndexUsed, Resume
  <2>2. \A k : Fits(k)' <=> Fits(k)
    BY <2>1 DEF Fits
  <2>3. TypeOK'
    BY <2>1 DEF IInv, TypeOK
  <2>4. \A k \in 0 .. i + cnt : ~Fits(k)
    BY <1>2, JumpSound DEF While, IInv, LoopInv
  <2>5. i' - 1 = i + cnt
    BY <2>1 DEF IInv, TypeOK
  <2> QED
    BY <2>1, <2>2, <2>3, <2>4, <2>5 DEF IInv, LoopInv
<1>3. CASE While /\ i + cnt \notin used
  <2>1. /\ used' = used /\ n' = n /\ i' = i /\ cnt' = cnt + 1
        /\ \/ cnt + 1 >= n /\ pc' = "done" /\ result' = i
           \/ ~(cnt + 1 >= n) /\ pc' = "while" /\ result' = result
    BY <1>3 DEF While, BitIndexUsed
  <2>2. \A k : Fits(k)' <=> Fits(k)
    BY <2>1 DEF Fits
  <2>3. TypeOK'
    BY <2>1 DEF IInv, TypeOK
  <2>4. \A j \in 0 .. cnt : i + j \notin used
    BY <1>3 DEF While, IInv, LoopInv, TypeOK
  <2>5. i + n < Limit /\ cnt < n
    BY <1>3 DEF While, IInv, LoopInv
  <2>6. \A k \in 0 .. i' - 1 : ~Fits(k)'
    BY <2>1, <2>2 DEF IInv, LoopInv
  <2>7. CASE cnt + 1 >= n
    <3>1. Fits(i)
      BY <2>4, <2>5, <2>7 DEF Fits, IInv, TypeOK
    <3> QED
      BY <2>1, <2>2, <2>3, <2>6, <2>7, <3>1 DEF IInv, LoopInv
  <2>8. CASE ~(cnt + 1 >= n)
    <3>1. /\ i' + n' < Limit' /\ cnt' < n'
          /\ \A j \in 0 .. cnt' - 1 : i' + j \notin used'
      BY <2>1, <2>4, <2>5, <2>8 DEF IInv, TypeOK, Limit
    <3> QED
      BY <2>1, <2>3, <2>6, <2>8, <3>1 DEF IInv, LoopInv
  <2> QED
    BY <2>7, <2>8
<1>4. CASE Returned \/ UNCHANGED vars
  BY <1>4 DEF Returned, vars, IInv, TypeOK, LoopInv, Fits, Limit
<1> QED
  BY <1>1, <1>2, <1>3, <1>4 DEF Next

(* The types and the loop invariant hold throughout BitmapScan.            *)
THEOREM ScanInvariance == Spec => []IInv
BY InitIInv, StepIInv, PTL DEF Spec

(* BitmapScan returns the first place with n free bits, for maps of every  *)
(* length and every n.                                                     *)
THEOREM ScanFirstFit == Spec => []FirstFit
<1>1. IInv => FirstFit
  BY LimitNat DEF IInv, TypeOK, LoopInv, FirstFit
<1> QED
  BY <1>1, ScanInvariance, PTL

(* BitmapScan reads at most one byte behind the map.                       *)
THEOREM ScanOneByteOver == Spec => []OneByteOver
<1>1. IInv => OneByteOver
  BY LimitNat DEF IInv, TypeOK, LoopInv, OneByteOver
<1> QED
  BY <1>1, ScanInvariance, PTL
=============================================================================
