--------------------------- MODULE ScullFillProofs ---------------------------
(***************************************************************************)
(* For every quantum, every node size and every count, scull_write's loops *)
(* fill exactly the slots FilledSlots names, among them all that a read of *)
(* as many bytes copies, and overrun the caller's buffer by one quantum at *)
(* most.                                                                   *)
(***************************************************************************)
EXTENDS ScullFill, ScullLayoutProofs

LEMMA Sizes ==
    /\ QUANTUM_SIZE \in Nat /\ QUANTUM_SIZE > 0
    /\ QSET_SIZE \in Nat /\ QSET_SIZE > 0
BY LayoutAssumption DEF LayoutAssumption

LEMMA InitFill == Init => FillInv
<1> SUFFICES ASSUME Init PROVE FillInv
  OBVIOUS
<1>1. count \in Nat /\ Qsets(count) \in Nat
  BY CountsAssumption, QsetsBound DEF Init
<1>2. TypeOK
  BY <1>1 DEF Init, TypeOK
<1>3. Counters
  <2>1. count <= 0 => Qsets(count) = 0
    <3>1. 0 < Qsets(count) <=> QUANTUM_SIZE * (QSET_SIZE * 0) < count
      BY <1>1, QsetsBound
    <3>2. QUANTUM_SIZE * (QSET_SIZE * 0) = 0
      BY Sizes
    <3> QED
      BY <1>1, <3>1, <3>2
  <2> QED
    BY <1>1, <2>1, Sizes DEF Init, Counters
<1>4. BoundedOverrun
  BY <1>1, Sizes DEF Init, BoundedOverrun
<1>5. FilledSoFar
  BY DEF Init, FilledSoFar, Reached
<1> QED
  BY <1>2, <1>3, <1>4, <1>5 DEF FillInv

LEMMA NewNodeFill == FillInv /\ NewNode => FillInv'
<1> SUFFICES ASSUME FillInv, NewNode PROVE FillInv'
  OBVIOUS
<1>1. TypeOK /\ Counters /\ BoundedOverrun /\ FilledSoFar
  BY DEF FillInv
<1>2. TypeOK'
  BY <1>1 DEF TypeOK, NewNode
<1>3. count \in Nat /\ Qsets(count) \in Nat
  BY <1>1, CountsAssumption, QsetsBound DEF TypeOK
<1>4. Counters'
  BY <1>1, <1>3, Sizes DEF TypeOK, Counters, NewNode
<1>5. BoundedOverrun'
  BY <1>1 DEF BoundedOverrun, NewNode
<1>6. \A n \in 0 .. j, s \in Slot : Reached(n, s)' <=> Reached(n, s)
  BY <1>1, Sizes DEF Reached, NewNode, TypeOK, Slot
<1>7. FilledSoFar'
  BY <1>1, <1>6 DEF FilledSoFar, NewNode, Place
<1> QED
  BY <1>2, <1>4, <1>5, <1>7 DEF FillInv

LEMMA FillSlotFill == FillInv /\ FillSlot => FillInv'
<1> SUFFICES ASSUME FillInv, FillSlot PROVE FillInv'
  OBVIOUS
<1>1. TypeOK /\ Counters /\ BoundedOverrun /\ FilledSoFar
  BY DEF FillInv
<1>2. count \in Nat /\ Qsets(count) \in Nat
  BY <1>1, CountsAssumption, QsetsBound DEF TypeOK
<1>3. TypeOK'
  BY <1>1, Sizes DEF TypeOK, FillSlot
<1>4. QUANTUM_SIZE * (pos + 1) = QUANTUM_SIZE * pos + QUANTUM_SIZE
  BY <1>1, Sizes DEF TypeOK
<1>5. Counters'
  BY <1>1, <1>2, <1>4, Sizes DEF TypeOK, Counters, FillSlot, MoreSlots
<1>6. BoundedOverrun'
  BY <1>1, <1>2, <1>4, Sizes DEF TypeOK, Counters, BoundedOverrun, FillSlot, MoreSlots
<1>7. i \in Slot /\ j \in 0 .. j /\ <<j, i, pos>> = Place(j, i)
  BY <1>1, Sizes DEF TypeOK, Counters, FillSlot, MoreSlots, Slot, Place
<1>8. \A n \in 0 .. j, s \in Slot :
         Reached(n, s)' <=> Reached(n, s) \/ (n = j /\ s = i)
  BY <1>1, Sizes DEF Reached, FillSlot, TypeOK, Slot
<1>9. FilledSoFar'
  BY <1>1, <1>7, <1>8 DEF FilledSoFar, FillSlot, Place
<1> QED
  BY <1>3, <1>5, <1>6, <1>9 DEF FillInv

LEMMA EndNodeFill == FillInv /\ EndNode => FillInv'
<1> SUFFICES ASSUME FillInv, EndNode PROVE FillInv'
  OBVIOUS
<1>1. TypeOK /\ Counters /\ BoundedOverrun /\ FilledSoFar
  BY DEF FillInv
<1>2. count \in Nat /\ Qsets(count) \in Nat
  BY <1>1, CountsAssumption, QsetsBound DEF TypeOK
<1>3. TypeOK'
  BY <1>1 DEF TypeOK, EndNode
<1>4. QUANTUM_SIZE * pos \in Int /\ QSET_SIZE * (j + 1) = QSET_SIZE * j + QSET_SIZE
  BY <1>1, Sizes DEF TypeOK
\* Unless this was the last node, it was left because it is full.
<1>5. j + 1 < Qsets(count) => i = QSET_SIZE
  <2> SUFFICES ASSUME j + 1 < Qsets(count), i < QSET_SIZE PROVE FALSE
    BY <1>1, Sizes DEF TypeOK, Counters, EndNode
  <2>1. QUANTUM_SIZE * (QSET_SIZE * (j + 1)) < count
    BY <1>1, <1>2, QsetsBound DEF TypeOK
  <2>2. pos <= QSET_SIZE * (j + 1)
    BY <1>1, <1>4, Sizes DEF TypeOK, Counters, EndNode
  <2>3. /\ QUANTUM_SIZE * pos <= QUANTUM_SIZE * (QSET_SIZE * (j + 1))
        /\ QUANTUM_SIZE * (QSET_SIZE * (j + 1)) \in Int
    BY <1>1, <2>2, Sizes, TimesMonotone DEF TypeOK
  <2> QED
    BY <1>1, <1>2, <1>4, <2>1, <2>3, Sizes DEF TypeOK, Counters, EndNode, MoreSlots
<1>6. Counters'
  BY <1>1, <1>2, <1>4, <1>5, Sizes DEF TypeOK, Counters, EndNode
<1>7. BoundedOverrun'
  BY <1>1 DEF BoundedOverrun, EndNode
\* The slots before i are the slots FilledSlots names.
<1>8. ASSUME NEW s \in Slot PROVE s < i <=> s \in FilledSlots(count, j)
  <2>1. s \in Nat /\ s < QSET_SIZE /\ QUANTUM_SIZE * (QSET_SIZE * j + s) \in Int
    BY <1>1, Sizes DEF Slot, TypeOK
  <2>2. CASE s < i
    <3>1. QSET_SIZE * j + s + 1 <= pos
      BY <1>1, <2>1, <2>2, Sizes DEF TypeOK, Counters, EndNode
    <3>2. /\ QUANTUM_SIZE * (QSET_SIZE * j + s + 1) <= QUANTUM_SIZE * pos
          /\ QUANTUM_SIZE * (QSET_SIZE * j + s + 1)
               = QUANTUM_SIZE * (QSET_SIZE * j + s) + QUANTUM_SIZE
      BY <1>1, <2>1, <3>1, Sizes, TimesMonotone DEF TypeOK
    <3>3. QUANTUM_SIZE * (QSET_SIZE * j + s) <= count
      BY <1>1, <1>2, <1>4, <2>1, <3>2, Sizes DEF BoundedOverrun
    <3> QED
      BY <2>2, <3>3 DEF FilledSlots
  <2>3. CASE ~(s < i)
    <3>1. rcount < 0 /\ pos <= QSET_SIZE * j + s
      BY <1>1, <2>1, <2>3, Sizes DEF TypeOK, Counters, EndNode, MoreSlots
    <3>2. QUANTUM_SIZE * pos <= QUANTUM_SIZE * (QSET_SIZE * j + s)
      BY <1>1, <2>1, <3>1, Sizes, TimesMonotone DEF TypeOK
    <3>3. ~(QUANTUM_SIZE * (QSET_SIZE * j + s) <= count)
      BY <1>1, <1>2, <1>4, <2>1, <3>1, <3>2 DEF Counters
    <3> QED
      BY <2>3, <3>3 DEF FilledSlots
  <2> QED
    BY <2>2, <2>3
<1>9. \A n \in 0 .. j, s \in Slot : Reached(n, s)' <=> Reached(n, s)
  BY <1>1, <1>8 DEF Reached, EndNode, TypeOK
<1>10. \A n \in Nat, s \in Slot : n = j + 1 => ~Reached(n, s)'
  BY <1>1 DEF Reached, EndNode, TypeOK
<1>11. FilledSoFar'
  <2>1. 0 .. j' = (0 .. j) \cup {j + 1}
    BY <1>1 DEF TypeOK, EndNode
  <2>2. ASSUME NEW n \in 0 .. j', NEW s \in Slot, Reached(n, s)'
        PROVE  Place(n, s)' \in filled'
    <3>1. n \in 0 .. j
      BY <1>1, <1>10, <2>1, <2>2 DEF TypeOK
    <3>2. Place(n, s) \in filled
      BY <1>1, <1>9, <2>2, <3>1 DEF FilledSoFar
    <3> QED
      BY <3>2 DEF EndNode, Place
  <2>3. ASSUME NEW f \in filled'
        PROVE  \E n \in 0 .. j', s \in Slot : Reached(n, s)' /\ f = Place(n, s)'
    BY <1>1, <1>9, <2>1 DEF FilledSoFar, EndNode, Place
  <2> QED
    BY <2>2, <2>3 DEF FilledSoFar
<1> QED
  BY <1>3, <1>6, <1>7, <1>11 DEF FillInv

LEMMA FinishFill == FillInv /\ Finish => FillInv'
<1> SUFFICES ASSUME FillInv, Finish PROVE FillInv'
  OBVIOUS
<1>1. TypeOK /\ Counters /\ BoundedOverrun /\ FilledSoFar
  BY DEF FillInv
<1>2. Qsets(count) \in Nat
  BY <1>1, CountsAssumption, QsetsBound DEF TypeOK
<1>3. TypeOK' /\ BoundedOverrun'
  BY <1>1 DEF TypeOK, BoundedOverrun, Finish
<1>4. Counters'
  BY <1>1, <1>2 DEF TypeOK, Counters, Finish
<1>5. \A n \in 0 .. j, s \in Slot : Reached(n, s)' <=> Reached(n, s)
  BY <1>1 DEF Reached, Finish
<1>6. FilledSoFar'
  BY <1>1, <1>5 DEF FilledSoFar, Finish, Place
<1> QED
  BY <1>3, <1>4, <1>6 DEF FillInv
-----------------------------------------------------------------------------
(* The invariant holds throughout the call (lines 39-72 of scull_write).    *)
THEOREM FillCorrect == Spec => []FillInv
<1>1. Init => FillInv
  BY InitFill
<1>2. FillInv /\ [Next]_vars => FillInv'
  <2> SUFFICES ASSUME FillInv, [Next]_vars PROVE FillInv'
    OBVIOUS
  <2>1. CASE Next
    BY <2>1, NewNodeFill, FillSlotFill, EndNodeFill, FinishFill DEF Next
  <2>2. CASE UNCHANGED vars
    BY <2>2 DEF vars, FillInv, TypeOK, Counters, BoundedOverrun, FilledSoFar,
                Reached, Place
  <2> QED
    BY <2>1, <2>2
<1> QED
  BY <1>1, <1>2, PTL DEF Spec

(* The call copies at most one quantum more than it was asked for.          *)
THEOREM FillBounded == Spec => []BoundedOverrun
<1>1. FillInv => BoundedOverrun
  BY DEF FillInv
<1> QED
  BY <1>1, FillCorrect, PTL

(* When the call ends, the slots filled are those FilledSlots names.        *)
THEOREM FillIsExact == Spec => []FillExact
<1>1. FillInv => FillExact
  <2> SUFFICES ASSUME FillInv, pc = "done"
               PROVE  /\ \A n \in 0 .. Qsets(count) - 1 :
                            \A s \in FilledSlots(count, n) : Place(n, s) \in filled
                      /\ \A f \in filled :
                            \E n \in 0 .. Qsets(count) - 1 :
                               \E s \in FilledSlots(count, n) : f = Place(n, s)
    BY DEF FillExact
  <2>1. j = Qsets(count) /\ j \in Nat
    BY DEF FillInv, Counters, TypeOK
  <2>2. ASSUME NEW n \in 0 .. Qsets(count) - 1, NEW s \in FilledSlots(count, n)
        PROVE  Place(n, s) \in filled
    <3>1. s \in Slot /\ n \in 0 .. j /\ n < j
      BY <2>1 DEF FilledSlots
    <3> QED
      BY <3>1 DEF FillInv, FilledSoFar, Reached
  <2>3. ASSUME NEW f \in filled
        PROVE  \E n \in 0 .. Qsets(count) - 1 :
                  \E s \in FilledSlots(count, n) : f = Place(n, s)
    <3>1. PICK n \in 0 .. j, s \in Slot : Reached(n, s) /\ f = Place(n, s)
      BY DEF FillInv, FilledSoFar
    <3>2. n < j /\ s \in FilledSlots(count, n)
      BY <3>1 DEF Reached
    <3>3. n \in 0 .. Qsets(count) - 1
      BY <2>1, <3>2
    <3> QED
      BY <3>1, <3>2, <3>3
  <2> QED
    BY <2>2, <2>3
<1> QED
  BY <1>1, FillCorrect, PTL

(***************************************************************************)
(* The nodes and slots that scull_read walks for as many bytes are filled, *)
(* each with the quantum of its position.                                  *)
(***************************************************************************)
THEOREM FillCoversRead == Spec => []CoversRead
<1>1. FillInv /\ FillExact => CoversRead
  <2> SUFFICES ASSUME FillInv, FillExact, pc = "done", NEW q \in 0 .. Quanta(count) - 1
               PROVE  <<q \div QSET_SIZE, q % QSET_SIZE, q>> \in filled
    BY DEF CoversRead
  <2> DEFINE n == q \div QSET_SIZE
             s == q % QSET_SIZE
  <2>1. count \in Nat /\ q \in Nat /\ QUANTUM_SIZE * q < count
    <3>1. count \in Nat
      BY CountsAssumption DEF FillInv, TypeOK, CountsAssumption
    <3>2. Quanta(count) \in Nat
      BY <3>1, QsetsBound
    <3>3. q \in Nat /\ q < Quanta(count)
      BY <3>2
    <3> QED BY <3>1, <3>3, QsetsBound
  <2>2. n \in Nat /\ s \in Nat /\ s < QSET_SIZE /\ q = QSET_SIZE * n + s
    BY <2>1, Sizes, DivMod
  <2> HIDE DEF n, s
  <2>3. QSET_SIZE * n \in Nat /\ QSET_SIZE * n <= q
    BY <2>1, <2>2, Sizes
  <2>4. n < Qsets(count)
    <3>1. QUANTUM_SIZE * (QSET_SIZE * n) <= QUANTUM_SIZE * q
      BY <2>1, <2>3, Sizes, TimesMonotone
    <3>2. QUANTUM_SIZE * (QSET_SIZE * n) \in Nat /\ QUANTUM_SIZE * q \in Nat
      BY <2>1, <2>3, Sizes
    <3>3. QUANTUM_SIZE * (QSET_SIZE * n) < count
      BY <2>1, <3>1, <3>2
    <3> QED BY <2>1, <2>2, <3>3, QsetsBound
  <2>5. s \in FilledSlots(count, n)
    <3>1. QUANTUM_SIZE * q \in Nat
      BY <2>1, Sizes
    <3>2. QUANTUM_SIZE * (QSET_SIZE * n + s) <= count
      BY <2>1, <2>2, <3>1
    <3>3. s \in Slot
      BY <2>2, Sizes DEF Slot
    <3> QED BY <3>2, <3>3 DEF FilledSlots
  <2>6. Place(n, s) \in filled
    <3>1. n \in 0 .. Qsets(count) - 1
      BY <2>1, <2>2, <2>4, QsetsBound
    <3> QED BY <2>5, <3>1 DEF FillExact
  <2> QED BY <2>2, <2>6 DEF Place, n, s
<1> QED
  BY <1>1, FillCorrect, FillIsExact, PTL
=============================================================================
