---------------------------- MODULE ScullLayout ----------------------------
(***************************************************************************)
(* The layout of a scull device: a list of nodes (struct ScullQset), each  *)
(* with QSET_SIZE slots, each slot a quantum of QUANTUM_SIZE bytes.  Every *)
(* driver of char_driver/ that stores data computes it in the same way;    *)
(* the lines cited are those of driver_2.                                  *)
(***************************************************************************)
EXTENDS Integers

CONSTANTS QUANTUM_SIZE,  \* bytes of a quantum (8 in header.h)
          QSET_SIZE      \* quanta of a node   (8 in header.h)

ASSUME LayoutAssumption == /\ QUANTUM_SIZE \in Nat \ {0}
                           /\ QSET_SIZE \in Nat \ {0}

\* The positions of a node's data array.
Slot == 0 .. QSET_SIZE - 1

\* a / b rounded up, as scull_write writes it.
CeilDiv(a, b) == a \div b + (IF a % b # 0 THEN 1 ELSE 0)

\* Mutation: the last, partly used node is not counted.
QsetsFloor(count) == CeilDiv(count, QUANTUM_SIZE) \div QSET_SIZE

\* The quanta (k) and the nodes (size) scull_write computes for count bytes.
Quanta(count) == CeilDiv(count, QUANTUM_SIZE)
Qsets(count)  == CeilDiv(Quanta(count), QSET_SIZE)

\* Mutation: the loop runs while a whole quantum is left.
FilledWhole(count, j) ==
    {i \in Slot : QUANTUM_SIZE * (QSET_SIZE * j + i + 1) <= count}

(***************************************************************************)
(* The slots of node j that a write of count bytes allocates and fills.    *)
(* The loop runs while rcount >= 0, so it fills one quantum more than the  *)
(* count needs when the count is a multiple of QUANTUM_SIZE and the last   *)
(* node has room.  ScullFill runs the loop and shows that this is what it  *)
(* leaves behind.                                                          *)
(***************************************************************************)
FilledSlots(count, j) ==
    {i \in Slot : QUANTUM_SIZE * (QSET_SIZE * j + i) <= count}

\* The slots of a node that scull_read copies when rest bytes are still wanted.
ReadSlots(rest) == {i \in Slot : QUANTUM_SIZE * i < rest}

\* Mutation: lcount is taken as it is, below 0 too.
RestUnclamped(rest) == rest - QUANTUM_SIZE * QSET_SIZE

\* What scull_read still wants after a node (0 stands for any lcount <= 0).
RestAfter(rest) ==
    IF rest > QUANTUM_SIZE * QSET_SIZE THEN rest - QUANTUM_SIZE * QSET_SIZE ELSE 0
=============================================================================
