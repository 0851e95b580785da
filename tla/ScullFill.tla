----------------------------- MODULE ScullFill -----------------------------
(***************************************************************************)
(* The two nested loops of scull_write, run by one caller: which slots of  *)
(* which nodes are filled, with which quantum of the user's buffer.        *)
(* ScullStore takes a whole node as one step; this module is why it may.   *)
(***************************************************************************)
EXTENDS ScullLayout

CONSTANT Counts          \* the byte counts a caller may pass

ASSUME CountsAssumption == Counts \subseteq Nat

VARIABLES pc,            \* where the call is
          count,         \* the byte count of the call
          rcount,        \* bytes left, may end below 0
          j, i,          \* node and slot the loops are at
          pos,           \* quantum of the user's buffer copied next
          filled         \* the <<node, slot, quantum>> copied so far

vars == <<pc, count, rcount, j, i, pos, filled>>

TypeOK ==
    /\ pc \in {"outer", "inner", "done"}
    /\ count \in Counts
    /\ rcount \in Int
    /\ j \in Nat /\ i \in Nat /\ pos \in Nat
    /\ filled \subseteq Nat \X Nat \X Nat
-----------------------------------------------------------------------------
\* Lines 39-47: rcount = lcount = count, and the loops run for a positive count.
Init ==
    /\ count \in Counts
    /\ rcount = count
    /\ j = 0 /\ i = 0 /\ pos = 0
    /\ filled = {}
    /\ pc = IF count > 0 THEN "outer" ELSE "done"

\* Mutations: no quantum for the boundary; one quantum too many.
MoreSlotsStrict(slot, left) == slot < QSET_SIZE /\ left > 0
MoreSlotsLoose(slot, left) == slot < QSET_SIZE /\ left >= -QUANTUM_SIZE

\* The condition of the inner loop.
MoreSlots(slot, left) == slot < QSET_SIZE /\ left >= 0

\* Line 49, 51-53: the next node is allocated.
NewNode ==
    /\ pc = "outer"
    /\ j < Qsets(count)
    /\ i' = 0
    /\ pc' = "inner"
    /\ UNCHANGED <<count, rcount, j, pos, filled>>

\* Lines 53-59: one quantum is allocated and copied.
FillSlot ==
    /\ pc = "inner"
    /\ MoreSlots(i, rcount)
    /\ filled' = filled \cup {<<j, i, pos>>}
    /\ rcount' = rcount - QUANTUM_SIZE
    /\ pos' = pos + 1
    /\ i' = i + 1
    /\ UNCHANGED <<pc, count, j>>

\* Mutation: j does not advance.
EndNodeStuck ==
    /\ pc = "inner"
    /\ ~MoreSlots(i, rcount)
    /\ pc' = "outer"
    /\ UNCHANGED <<count, rcount, i, j, pos, filled>>

\* The inner loop ends; the node is linked (60-69, see ScullStore) and j advances.
EndNode ==
    /\ pc = "inner"
    /\ ~MoreSlots(i, rcount)
    /\ j' = j + 1
    /\ pc' = "outer"
    /\ UNCHANGED <<count, rcount, i, pos, filled>>

Finish ==
    /\ pc = "outer"
    /\ j >= Qsets(count)
    /\ pc' = "done"
    /\ UNCHANGED <<count, rcount, j, i, pos, filled>>

Next == NewNode \/ FillSlot \/ EndNode \/ Finish

Spec == Init /\ [][Next]_vars /\ WF_vars(Next)
-----------------------------------------------------------------------------
(***************************************************************************)
(* What the loops leave behind is what FilledSlots says, node by node, and *)
(* quantum QSET_SIZE*j + i of the buffer is the one in slot i of node j.   *)
(***************************************************************************)
Place(n, s) == <<n, s, QSET_SIZE * n + s>>

FillExact ==
    pc = "done" =>
        /\ \A n \in 0 .. Qsets(count) - 1 :
              \A s \in FilledSlots(count, n) : Place(n, s) \in filled
        /\ \A f \in filled :
              \E n \in 0 .. Qsets(count) - 1 :
                 \E s \in FilledSlots(count, n) : f = Place(n, s)

(***************************************************************************)
(* Every slot a read of up to count bytes copies, walking node after node  *)
(* as scull_read does, has been filled with the quantum of that position:  *)
(* the writer's two ways of counting (nodes by Qsets, quanta by rcount)    *)
(* leave no hole the reader's third one (lcount) would fall into.          *)
(***************************************************************************)
CoversRead ==
    pc = "done" => 
        \A q \in 0 .. Quanta(count) - 1 :
            <<q \div QSET_SIZE, q % QSET_SIZE, q>> \in filled

(***************************************************************************)
(* rcount >= 0 lets the loop go one quantum past the count, never two: the *)
(* call copies fewer than count + QUANTUM_SIZE + 1 bytes of the caller's   *)
(* buffer, and rcount stays within QUANTUM_SIZE of zero (so an int holds). *)
(***************************************************************************)
BoundedOverrun ==
    /\ QUANTUM_SIZE * pos <= count + QUANTUM_SIZE
    /\ rcount >= -QUANTUM_SIZE

(***************************************************************************)
(* The inductive invariant behind them: between two steps the slots filled *)
(* are those of the nodes before j, as FilledSlots says, and the first i   *)
(* of node j; pos and rcount both follow from where the loops are.         *)
(***************************************************************************)
Reached(n, s) ==
    \/ n < j /\ s \in FilledSlots(count, n)
    \/ n = j /\ pc = "inner" /\ s < i

FilledSoFar ==
    /\ \A n \in 0 .. j, s \in Slot : Reached(n, s) => Place(n, s) \in filled
    /\ \A f \in filled : \E n \in 0 .. j, s \in Slot : Reached(n, s) /\ f = Place(n, s)

Counters ==
    /\ rcount = count - QUANTUM_SIZE * pos
    /\ j <= Qsets(count)
    /\ pc = "inner" => /\ j < Qsets(count)
                       /\ i <= QSET_SIZE
                       /\ pos = QSET_SIZE * j + i
    /\ pc = "outer" /\ j < Qsets(count) => pos = QSET_SIZE * j
    /\ pc = "done" => j = Qsets(count)

FillInv == TypeOK /\ Counters /\ BoundedOverrun /\ FilledSoFar

\* The loops end for every count.
Terminates == <>(pc = "done")
=============================================================================
