--------------------------- MODULE FpCounterProofs ---------------------------
(***************************************************************************)
(* Proofs about FpCounter for every usize width and every set of          *)
(* requests: the shared counter hands out 0, 1, 2, ... in fetch order and *)
(* no two answered GETs share a number before it wraps.                    *)
(***************************************************************************)
EXTENDS FpCounter, TLAPS

USE FpAssumption DEF FpAssumption

(* Before the counter wraps it equals the count of fetch_adds; the GET   *)
(* requests answered have numbers below that count, pairwise distinct.    *)
DistinctInv ==
    /\ Len(issued) < Mod => counter = Len(issued)
    /\ Len(issued) <= Mod =>
         /\ \A r \in GetsDone : num[r] < Len(issued)
         /\ \A r1, r2 \in GetsDone : r1 # r2 => num[r1] # num[r2]

IInv == TypeOK /\ NumbersSequential /\ DistinctInv

(* A value below the usize range is its own remainder.                    *)
LEMMA ModSmall == \A n \in Nat : n < Mod => n % Mod = n
<1>1. Mod \in Nat /\ Mod > 0
  OBVIOUS
<1>. HIDE DEF Mod
<1>. QED
  BY <1>1

LEMMA InitIInv == Init => IInv
<1> SUFFICES ASSUME Init PROVE IInv
  OBVIOUS
<1>1. 0 \in USize
  BY DEF USize
<1>2. GetsDone = {}
  BY DEF Init, GetsDone
<1>. QED
  BY <1>1, <1>2 DEF Init, IInv, TypeOK, NumbersSequential, DistinctInv

(* The steps that leave the counter, the numbers and the GETs answered    *)
(* alone preserve the invariant.                                           *)
LEMMA QuietStep ==
    ASSUME IInv, TypeOK',
           UNCHANGED << counter, issued >>,
           GetsDone' = GetsDone,
           \A r \in GetsDone : num'[r] = num[r]
    PROVE  IInv'
BY DEF IInv, NumbersSequential, DistinctInv

LEMMA NextIInv == IInv /\ [Next]_vars => IInv'
<1> SUFFICES ASSUME IInv, [Next]_vars PROVE IInv'
  OBVIOUS
<1>0. TypeOK
  BY DEF IInv
<1>1. ASSUME NEW r \in Req, NEW e \in GetEndpoints, GetStart(r, e)
      PROVE  IInv'
  <2>1. TypeOK'
    BY <1>0, <1>1 DEF GetStart, TypeOK, Endpoints, GetEndpoints
  <2>2. GetsDone' = GetsDone
    BY <1>0, <1>1 DEF GetStart, GetsDone, TypeOK
  <2>. QED
    BY <1>1, <2>1, <2>2, QuietStep DEF GetStart
<1>2. ASSUME NEW r \in Req, NEW e \in Endpoints \ GetEndpoints, NEW p \in PathVals,
             PostStart(r, e, p)
      PROVE  IInv'
  <2>1. ParseNumber(p) \in USize
    BY DEF ParseNumber, USize
  <2>2. TypeOK'
    BY <1>0, <1>2, <2>1 DEF PostStart, TypeOK
  <2>3. GetsDone' = GetsDone
    BY <1>0, <1>2 DEF PostStart, GetsDone, TypeOK
  <2>4. r \notin GetsDone
    BY <1>2 DEF PostStart, GetsDone
  <2>. QED
    BY <1>2, <2>2, <2>3, <2>4, QuietStep DEF PostStart
<1>3. ASSUME NEW r \in Req, GetAnswer(r)
      PROVE  IInv'
  <2>1. counter \in USize
    BY DEF IInv, NumbersSequential, TypeOK
  <2>2. TypeOK'
    BY <1>0, <1>3, <2>1 DEF GetAnswer, TypeOK, FetchAdd, USize
  <2>3. NumbersSequential'
    <3>1. issued' = Append(issued, counter) /\ counter' = (counter + 1) % Mod
      BY <1>3 DEF GetAnswer, FetchAdd
    <3>2. issued' # << >> /\ issued'[Len(issued')] = counter
      BY <1>0, <3>1 DEF TypeOK
    <3>3. \A i \in 1..Len(issued') :
            issued'[i] = IF i = 1 THEN 0 ELSE (issued'[i - 1] + 1) % Mod
      BY <1>0, <3>1 DEF IInv, NumbersSequential, TypeOK
    <3>. QED
      BY <3>1, <3>2, <3>3 DEF NumbersSequential
  <2>4. GetsDone' = GetsDone \cup {r} /\ r \notin GetsDone
    BY <1>0, <1>3 DEF GetAnswer, GetsDone, TypeOK
  <2>5. DistinctInv'
    <3> SUFFICES ASSUME Len(issued') <= Mod PROVE DistinctInv'
      <4>1. Len(issued') > Mod => DistinctInv'
        BY DEF DistinctInv
      <4>. QED
        BY <4>1
    <3>1. Len(issued') = Len(issued) + 1 /\ Len(issued) < Mod
      BY <1>0, <1>3 DEF GetAnswer, TypeOK
    <3>2. num'[r] = Len(issued)
      BY <1>0, <1>3, <3>1 DEF GetAnswer, TypeOK, IInv, DistinctInv
    <3>3. \A q \in GetsDone : num'[q] = num[q] /\ num[q] < Len(issued)
      BY <1>3, <2>4, <3>1 DEF GetAnswer, IInv, DistinctInv
    <3>4. \A r1, r2 \in GetsDone : r1 # r2 => num[r1] # num[r2]
      BY <3>1 DEF IInv, DistinctInv
    <3>5. \A q \in GetsDone' : num'[q] < Len(issued')
      <4> SUFFICES ASSUME NEW q \in GetsDone' PROVE num'[q] < Len(issued')
        OBVIOUS
      <4>1. Len(issued) \in Nat
        BY <1>0 DEF TypeOK
      <4>2. CASE q = r
        BY <3>1, <3>2, <4>1, <4>2
      <4>3. CASE q \in GetsDone
        <5>1. num'[q] = num[q] /\ num[q] < Len(issued)
          BY <3>3, <4>3
        <5>2. num[q] \in Nat
          BY <1>0, <4>3 DEF TypeOK, USize, GetsDone
        <5>. QED
          BY <3>1, <4>1, <5>1, <5>2
      <4>. QED
        BY <2>4, <4>2, <4>3
    <3>6. \A r1, r2 \in GetsDone' : r1 # r2 => num'[r1] # num'[r2]
      BY <2>4, <3>2, <3>3, <3>4
    <3>7. Len(issued') < Mod => counter' = Len(issued')
      <4>1. counter' = (Len(issued) + 1) % Mod
        BY <1>3, <3>1 DEF GetAnswer, FetchAdd, IInv, DistinctInv
      <4>. QED
        BY <1>0, <3>1, <4>1, ModSmall DEF TypeOK
    <3>. QED
      BY <3>5, <3>6, <3>7 DEF DistinctInv
  <2>. QED
    BY <2>2, <2>3, <2>5 DEF IInv
<1>4. ASSUME NEW r \in Req, PostAnswer(r)
      PROVE  IInv'
  <2>1. TypeOK'
    BY <1>0, <1>4 DEF PostAnswer, TypeOK
  <2>2. GetsDone' = GetsDone
    BY <1>0, <1>4 DEF PostAnswer, GetsDone, TypeOK
  <2>. QED
    BY <1>4, <2>1, <2>2, QuietStep DEF PostAnswer
<1>5. CASE UNCHANGED vars
  BY <1>5 DEF vars, IInv, TypeOK, NumbersSequential, DistinctInv, GetsDone
<1>. QED
  BY <1>1, <1>2, <1>3, <1>4, <1>5 DEF Next

(* Every reachable state is well typed: the counter stays a usize however *)
(* many fetch_adds wrap it, and every answered number is a usize.        *)
THEOREM TypeCorrect == Spec => []TypeOK
<1>1. IInv => TypeOK
  BY DEF IInv
<1>. QED
  BY InitIInv, NextIInv, <1>1, PTL DEF Spec

(* In every reachable state the numbers the GET endpoints handed out, in  *)
(* the order fetch_add ran, are 0, 1, 2, ... modulo 2^W, and the counter  *)
(* holds the next one, whatever the interleaving of the handlers.         *)
THEOREM SequentialSafe == Spec => []NumbersSequential
<1>1. IInv => NumbersSequential
  BY DEF IInv
<1>. QED
  BY InitIInv, NextIInv, <1>1, PTL DEF Spec

(* No two answered GET requests, of either endpoint, got the same number  *)
(* while at most 2^W of them were answered.                                *)
THEOREM DistinctSafe == Spec => []AnswersDistinct
<1>1. IInv => AnswersDistinct
  BY DEF IInv, DistinctInv, AnswersDistinct
<1>. QED
  BY InitIInv, NextIInv, <1>1, PTL DEF Spec

=============================================================================
