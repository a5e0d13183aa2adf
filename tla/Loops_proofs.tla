---------------------------- MODULE Loops_proofs ----------------------------
(***************************************************************************)
(* Read() and Write() keep the promise of Transfer, for every size and     *)
(* every width of int.                                                     *)
(***************************************************************************)
EXTENDS Loops, TLAPS

\* What is left and what has moved add up to the size, as long as an int
\* holds it; beyond that they stay below it.
Counted ==
    /\ nbyte <= IntMax => done + bytes_left = nbyte /\ bytes_left >= 0
    /\ nbyte > IntMax => done + bytes_left < nbyte /\ done <= nbyte

IInv == TypeOK /\ Counted

\* The conversion to int gives an int, the size itself when that fits.
LEMMA ToIntFits ==
    ASSUME NEW n \in Nat
    PROVE  /\ ToInt(n) \in Int /\ ToInt(n) <= IntMax
           /\ n <= IntMax => ToInt(n) = n
<1> DEFINE w == 2 * (IntMax + 1)
<1>1. IntMax \in Nat /\ w \in Nat /\ w > 0
  BY LoopsAssumption
<1>2. (n + IntMax + 1) % w \in 0 .. (w - 1)
  <2> HIDE DEF w
  <2>1. n + IntMax + 1 \in Int
    BY <1>1
  <2> QED BY <1>1, <2>1
<1>3. CASE n <= IntMax
  BY <1>1, <1>3 DEF ToInt
<1>4. CASE ~(n <= IntMax)
  <2> DEFINE m == (n + IntMax + 1) % w
  <2>1. ToInt(n) = m - (IntMax + 1)
    BY <1>4 DEF ToInt
  <2>2. m \in 0 .. (w - 1)
    BY <1>2
  <2> HIDE DEF m
  <2> QED BY <1>1, <1>4, <2>1, <2>2
<1> QED BY <1>3, <1>4

LEMMA InitIInv == Init => IInv
<1> SUFFICES ASSUME Init PROVE IInv
  OBVIOUS
<1>1. nbyte \in Nat /\ IntMax \in Nat /\ done = 0 /\ bytes_left = ToInt(nbyte)
  BY LoopsAssumption DEF Init
<1>2. /\ bytes_left \in Int /\ bytes_left <= IntMax
      /\ nbyte <= IntMax => bytes_left = nbyte
  BY <1>1, ToIntFits
<1>3. TypeOK
  BY <1>1, <1>2 DEF Init, TypeOK
<1>4. Counted
  BY <1>1, <1>2 DEF Counted
<1> QED BY <1>3, <1>4 DEF IInv

LEMMA NextIInv == IInv /\ [Next]_vars => IInv'
<1> SUFFICES ASSUME IInv, [Next]_vars PROVE IInv'
  OBVIOUS
<1> USE LoopsAssumption DEF IInv, TypeOK, Counted
<1>1. CASE Transferred
  BY <1>1 DEF Transferred, InLoop
<1>2. CASE Failed
  BY <1>2 DEF Failed
<1>3. CASE Zero
  BY <1>3 DEF Zero
<1>4. CASE Return
  BY <1>4 DEF Return
<1>5. CASE UNCHANGED vars
  BY <1>5 DEF vars
<1> QED BY <1>1, <1>2, <1>3, <1>4, <1>5 DEF Next

LEMMA Inductive == Spec => []IInv
BY InitIInv, NextIInv, PTL DEF Spec

LEMMA InitPromise == Init => Promise!Init
BY DEF Init, Promise!Init

\* Every step of a loop is a step of the promise, or none.
LEMMA NextPromise == IInv /\ [Next]_vars => [Promise!Next]_(Promise!vars)
<1> SUFFICES ASSUME IInv, [Next]_vars PROVE [Promise!Next]_(Promise!vars)
  OBVIOUS
<1> USE LoopsAssumption DEF IInv, TypeOK, Counted
<1>1. CASE Transferred
  <2>1. PICK n \in 1 .. bytes_left : done' = done + n
    BY <1>1 DEF Transferred
  <2>2. done + n <= nbyte
    BY <2>1
  <2>3. done' \in (done + 1) .. nbyte
    BY <2>1, <2>2
  <2>4. Promise!Move
    BY <1>1, <2>3 DEF Transferred, InLoop, Promise!Move
  <2> QED BY <2>4 DEF Promise!Next
<1>2. CASE Failed
  <2>1. CASE errno' = "EINTR"
    BY <1>2, <2>1 DEF Failed, InLoop, Promise!vars
  <2>2. CASE errno' # "EINTR"
    <3>1. done < nbyte
      BY <1>2 DEF Failed, InLoop
    <3>2. Promise!Failure
      BY <1>2, <2>2, <3>1 DEF Failed, InLoop, Promise!Failure
    <3> QED BY <3>2 DEF Promise!Next
  <2> QED BY <2>1, <2>2
<1>3. CASE Zero
  <2>1. done < nbyte /\ ret = Running /\ UNCHANGED <<op, nbyte, done>>
    BY <1>3 DEF Zero, InLoop
  <2>2. CASE op = "Read"
    <3>1. ret' = nbyte - bytes_left
      BY <1>3, <2>2 DEF Zero
    <3>2. CASE nbyte <= IntMax
      <4>1. ret' = done
        BY <3>1, <3>2
      <4>2. Promise!Success
        BY <2>1, <2>2, <4>1 DEF Promise!Success
      <4> QED BY <4>2 DEF Promise!Next
    <3>3. CASE nbyte > IntMax
      <4>1. ret' \in Int /\ done' \in done .. nbyte
        BY <2>1, <3>1
      <4>2. Promise!Beyond
        BY <2>1, <3>3, <4>1 DEF Promise!Beyond
      <4> QED BY <4>2 DEF Promise!Next
    <3> QED BY <3>2, <3>3
  <2>3. CASE op = "Write" /\ errno = "EINTR"
    BY <1>3, <2>1, <2>3 DEF Zero, Promise!vars
  <2>4. CASE op = "Write" /\ errno # "EINTR"
    <3>1. ret' = -1
      BY <1>3, <2>4 DEF Zero
    <3>2. Promise!Failure
      BY <2>1, <3>1 DEF Promise!Failure
    <3> QED BY <3>2 DEF Promise!Next
  <2> QED BY <2>2, <2>3, <2>4
<1>4. CASE Return
  <2>1. ret = Running /\ bytes_left <= 0 /\ UNCHANGED <<op, nbyte, done>>
    BY <1>4 DEF Return
  <2>2. ret' = IF op = "Read" THEN nbyte - bytes_left ELSE 0
    BY <1>4 DEF Return
  <2>3. CASE nbyte <= IntMax
    <3>1. bytes_left = 0 /\ done = nbyte
      BY <2>1, <2>3
    <3>2. op = "Read" => ret' = done
      BY <2>2, <3>1
    <3>3. op = "Write" => ret' = 0
      BY <2>2
    <3>4. Promise!Success
      BY <2>1, <3>1, <3>2, <3>3 DEF Promise!Success
    <3> QED BY <3>4 DEF Promise!Next
  <2>4. CASE nbyte > IntMax
    <3>1. ret' \in Int
      BY <2>2
    <3>2. done <= nbyte => Promise!Beyond
      BY <2>1, <2>4, <3>1 DEF Promise!Beyond
    <3>3. done <= nbyte
      OBVIOUS
    <3> QED BY <3>2, <3>3 DEF Promise!Next
  <2> QED BY <2>3, <2>4
<1>5. CASE UNCHANGED vars
  BY <1>5 DEF vars, Promise!vars
<1> QED BY <1>1, <1>2, <1>3, <1>4, <1>5 DEF Next

\* The loops implement the promise: the property of the run, for every size
\* and every width of int.
THEOREM PromisedHolds == Spec => Promised
<1>1. Init => Promise!Init
  BY InitPromise
<1>2. IInv /\ [Next]_vars => [Promise!Next]_(Promise!vars)
  BY NextPromise
<1> QED BY <1>1, <1>2, Inductive, PTL DEF Spec, Promised, Promise!Spec
=============================================================================
