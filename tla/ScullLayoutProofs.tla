-------------------------- MODULE ScullLayoutProofs --------------------------
(***************************************************************************)
(* What the operators of ScullLayout compute, for every QUANTUM_SIZE and   *)
(* QSET_SIZE.                                                              *)
(***************************************************************************)
EXTENDS ScullLayout, TLAPS

LEMMA DivMod ==
    ASSUME NEW a \in Nat, NEW b \in Nat, b > 0
    PROVE  /\ a \div b \in Nat
           /\ a % b \in Nat
           /\ a % b < b
           /\ a = b * (a \div b) + (a % b)
OBVIOUS

LEMMA TimesMonotone ==
    ASSUME NEW a \in Int, NEW b \in Int, NEW q \in Nat, q > 0
    PROVE  /\ a < b => q * a < q * b
           /\ a <= b => q * a <= q * b
OBVIOUS

\* Rounding up: n units are fewer than a needs exactly when they fall short of a.
LEMMA CeilDivBound ==
    ASSUME NEW a \in Nat, NEW b \in Nat, b > 0, NEW n \in Nat
    PROVE  CeilDiv(a, b) \in Nat /\ (n < CeilDiv(a, b) <=> b * n < a)
<1> DEFINE q == a \div b
           r == a % b
<1>1. q \in Nat /\ r \in Nat /\ r < b /\ a = b * q + r
  BY DivMod
<1> HIDE DEF q, r
<1>2. CeilDiv(a, b) = q + (IF r # 0 THEN 1 ELSE 0)
  BY DEF CeilDiv, q, r
<1>3. CASE n <= q
  <2>1. b * n <= b * q
    BY <1>1, <1>3, TimesMonotone
  <2>2. n < q => b * n < b * q
    BY <1>1, TimesMonotone
  <2> QED
    BY <1>1, <1>2, <1>3, <2>1, <2>2
<1>4. CASE n > q
  <2>1. b * (q + 1) <= b * n
    BY <1>1, <1>4, TimesMonotone
  <2>2. b * (q + 1) = b * q + b
    BY <1>1
  <2> QED
    BY <1>1, <1>2, <1>4, <2>1, <2>2
<1> QED
  BY <1>1, <1>3, <1>4

\* A write of count bytes has a node n exactly when the n nodes before it are
\* too few for count bytes, and a quantum m exactly when the m before are.
LEMMA QsetsBound ==
    ASSUME NEW count \in Nat, NEW n \in Nat
    PROVE  /\ Quanta(count) \in Nat /\ Qsets(count) \in Nat
           /\ n < Quanta(count) <=> QUANTUM_SIZE * n < count
           /\ n < Qsets(count) <=> QUANTUM_SIZE * (QSET_SIZE * n) < count
<1>1. QUANTUM_SIZE \in Nat /\ QUANTUM_SIZE > 0 /\ QSET_SIZE \in Nat /\ QSET_SIZE > 0
  BY LayoutAssumption DEF LayoutAssumption
<1>2. /\ Quanta(count) \in Nat
      /\ \A m \in Nat : m < Quanta(count) <=> QUANTUM_SIZE * m < count
  BY <1>1, CeilDivBound DEF Quanta
<1>3. Qsets(count) \in Nat /\ (n < Qsets(count) <=> QSET_SIZE * n < Quanta(count))
  BY <1>1, <1>2, CeilDivBound DEF Qsets
<1>4. QSET_SIZE * n \in Nat
  BY <1>1
<1> QED
  BY <1>2, <1>3, <1>4

\* Every node of a write has its first slot filled, and every node before the
\* last one all its slots.
LEMMA FilledSlotsBound ==
    ASSUME NEW count \in Nat, NEW n \in Nat
    PROVE  /\ n < Qsets(count) => 0 \in FilledSlots(count, n)
           /\ n + 1 < Qsets(count) => FilledSlots(count, n) = Slot
<1>1. QUANTUM_SIZE \in Nat /\ QUANTUM_SIZE > 0 /\ QSET_SIZE \in Nat /\ QSET_SIZE > 0
  BY LayoutAssumption DEF LayoutAssumption
<1>2. n < Qsets(count) => 0 \in FilledSlots(count, n)
  <2>1. QSET_SIZE * n + 0 = QSET_SIZE * n
    BY <1>1
  <2> QED
    BY <1>1, <2>1, QsetsBound DEF FilledSlots, Slot
<1>3. ASSUME n + 1 < Qsets(count), NEW i \in Slot
      PROVE  i \in FilledSlots(count, n)
  <2>1. QUANTUM_SIZE * (QSET_SIZE * (n + 1)) < count
    BY <1>3, QsetsBound
  <2>2. QSET_SIZE * n + i <= QSET_SIZE * (n + 1)
    BY <1>1 DEF Slot
  <2>3. QUANTUM_SIZE * (QSET_SIZE * n + i) <= QUANTUM_SIZE * (QSET_SIZE * (n + 1))
    BY <1>1, <2>2, TimesMonotone DEF Slot
  <2>4. /\ QUANTUM_SIZE * (QSET_SIZE * n + i) \in Int
        /\ QUANTUM_SIZE * (QSET_SIZE * (n + 1)) \in Int
    BY <1>1 DEF Slot
  <2> QED
    BY <2>1, <2>3, <2>4 DEF FilledSlots
<1> QED
  BY <1>2, <1>3 DEF FilledSlots
=============================================================================
