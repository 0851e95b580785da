-------------------------- MODULE ScullStoreProofs --------------------------
(***************************************************************************)
(* For any number of tasks, any memory and any byte counts: the lists of   *)
(* ScullStore keep their shape, reads that fit never copy an unfilled slot,*)
(* and the device implements the register of ScullRegister.                *)
(***************************************************************************)
EXTENDS ScullStore, ScullLayoutProofs

LEMMA Sizes ==
    /\ QUANTUM_SIZE \in Nat /\ QUANTUM_SIZE > 0
    /\ QSET_SIZE \in Nat /\ QSET_SIZE > 0
    /\ 0 \in Slot
BY LayoutAssumption DEF LayoutAssumption, Slot

LEMMA NodeDataType ==
    ASSUME NEW w \in Nat, NEW c \in Nat, NEW j \in Nat
    PROVE  NodeData(w, c, j) \in [Slot -> Quantum \cup {WILD}]
BY Sizes DEF NodeData, Quantum, Slot

\* The first slot of a node names its write and its place in it.
LEMMA NodeDataFirst ==
    ASSUME NEW w \in Nat, NEW c \in Nat, NEW j \in Nat, j < Qsets(c)
    PROVE  NodeData(w, c, j)[0] = [w |-> w, q |-> QSET_SIZE * j]
<1>1. 0 \in FilledSlots(c, j) /\ QSET_SIZE * j + 0 = QSET_SIZE * j
  BY FilledSlotsBound, Sizes
<1> QED
  BY <1>1, Sizes DEF NodeData

LEMMA ConcatType ==
    ASSUME NEW S, NEW a \in Seq(S), NEW b \in Seq(S)
    PROVE  a \o b \in Seq(S)
OBVIOUS

\* What one turn of scull_read's outer loop copies.
LEMMA CopiedType ==
    ASSUME TypeOK, NEW n \in Pointer, NEW rest \in Nat
    PROVE  Copied(n, rest) \in Seq(Quantum \cup {WILD})
<1> DEFINE count == IF rest > QUANTUM_SIZE * QSET_SIZE THEN QSET_SIZE ELSE Quanta(rest)
<1>1. count \in Nat /\ count <= QSET_SIZE
  <2>1. Quanta(rest) \in Nat /\ (QSET_SIZE < Quanta(rest) <=> QUANTUM_SIZE * QSET_SIZE < rest)
    BY QsetsBound, Sizes
  <2>2. QUANTUM_SIZE * QSET_SIZE \in Nat
    BY Sizes
  <2> QED
    BY <2>1, <2>2, Sizes
<1>2. DataOf(n) \in [Slot -> Quantum \cup {WILD}]
  BY DEF DataOf, TypeOK
<1>3. \A k \in 1 .. count : k - 1 \in Slot
  BY <1>1, Sizes DEF Slot
<1>4. Copied(n, rest) = [k \in 1 .. count |-> DataOf(n)[k - 1]]
  BY DEF Copied
<1> HIDE DEF count
<1>5. Copied(n, rest) \in [1 .. count -> Quantum \cup {WILD}]
  BY <1>2, <1>3, <1>4
<1> QED
  BY <1>1, <1>5

LEMMA RestAfterType ==
    ASSUME NEW rest \in Nat
    PROVE  RestAfter(rest) \in Nat
BY Sizes DEF RestAfter
-----------------------------------------------------------------------------
(* The type invariant: every step of every handler of driver_2 keeps the    *)
(* variables within their types.                                            *)
LEMMA StoreTypeStep == TypeOK /\ [Next]_vars => TypeOK'
<1> SUFFICES ASSUME TypeOK, [Next]_vars PROVE TypeOK'
  OBVIOUS
<1> USE DEF memory, locals, Goto, Idle, Writing, Reading, Pointer
<1>1. CASE UNCHANGED vars
  BY <1>1 DEF vars, TypeOK, Quantum
<1>2. ASSUME NEW t \in Task, Calls(t) PROVE TypeOK'
  <2>1. CASE Open(t) \/ Release(t)
    BY <2>1 DEF Open, Release, TypeOK
  <2>2. ASSUME NEW c \in WriteCounts, WriteCall(t, c) PROVE TypeOK'
    BY <2>2, StoreAssumption DEF WriteCall, TypeOK, StoreAssumption
  <2>3. ASSUME NEW c \in ReadCounts, ReadCall(t, c) PROVE TypeOK'
    BY <2>3, StoreAssumption DEF ReadCall, TypeOK, StoreAssumption
  <2> QED
    BY <1>2, <2>1, <2>2, <2>3 DEF Calls
<1>3. ASSUME NEW t \in Task, WriteStep(t) PROVE TypeOK'
  <2>1. CASE WriteNode(t)
    <3>1. PICK n \in Node \ used :
             /\ used' = used \cup {n}
             /\ data' = [data EXCEPT ![n] = NodeData(wid[t], cnt[t], idx[t])]
             /\ Publish(t, n) \/ Link(t, n)
             /\ cur' = [cur EXCEPT ![t] = n]
      BY <2>1 DEF WriteNode
    <3>2. data' \in [Node -> [Slot -> Quantum \cup {WILD}]]
      BY <3>1, NodeDataType DEF TypeOK
    <3>3. head' \in Pointer /\ next' \in [Node -> Pointer]
      BY <3>1 DEF TypeOK, Publish, Link
    <3> QED
      BY <2>1, <3>1, <3>2, <3>3 DEF WriteNode, TypeOK
  <2>2. CASE WriteOom(t)
    BY <2>2 DEF WriteOom, TypeOK
  <2>3. CASE WriteTerm(t)
    BY <2>3 DEF WriteTerm, TypeOK
  <2>4. CASE WriteTermWild(t)
    BY <2>4 DEF WriteTermWild, TypeOK
  <2> QED
    BY <1>3, <2>1, <2>2, <2>3, <2>4 DEF WriteStep
<1>4. ASSUME NEW t \in Task, WriteReturn(t) PROVE TypeOK'
  BY <1>4 DEF WriteReturn, Forget, TypeOK
<1>5. ASSUME NEW t \in Task, ReadLoad(t) PROVE TypeOK'
  BY <1>5 DEF ReadLoad, TypeOK
<1>6. ASSUME NEW t \in Task, ReadStep(t) PROVE TypeOK'
  <2>1. CASE ReadCheck(t)
    <3>1. CASE Goto(t, "r_check", "open") /\ Forget(t) /\ UNCHANGED memory
      BY <3>1 DEF Forget, TypeOK
    <3>2. CASE Goto(t, "r_check", "r_walk") /\ UNCHANGED <<memory, locals>>
      BY <3>2 DEF TypeOK
    <3> QED
      BY <2>1, <3>1, <3>2 DEF ReadCheck
  <2>2. CASE ReadNode(t)
    <3>1. cnt[t] \in Nat /\ cur[t] \in Pointer /\ out[t] \in Seq(Quantum \cup {WILD})
      BY DEF TypeOK
    <3>2. out[t] \o Copied(cur[t], cnt[t]) \in Seq(Quantum \cup {WILD})
      BY <3>1, CopiedType, ConcatType
    <3>3. RestAfter(cnt[t]) \in Nat
      BY <3>1, RestAfterType
    <3>4. NextOf(cur[t]) \in Pointer
      BY <3>1 DEF NextOf, TypeOK
    <3> QED
      BY <2>2, <3>2, <3>3, <3>4 DEF ReadNode, TypeOK
  <2>3. CASE ReadFault(t)
    BY <2>3 DEF ReadFault, TypeOK
  <2>4. CASE ReadReturn(t)
    BY <2>4 DEF ReadReturn, Forget, TypeOK
  <2> QED
    BY <1>6, <2>1, <2>2, <2>3, <2>4 DEF ReadStep
<1> QED
  BY <1>1, <1>2, <1>3, <1>4, <1>5, <1>6 DEF Next
-----------------------------------------------------------------------------
(***************************************************************************)
(* Frame lemmas.  A step of task t leaves the other tasks' variables and   *)
(* the data of allocated nodes alone, so it can only disturb what the      *)
(* invariant says of t.                                                    *)
(***************************************************************************)
TaskInv(u) ==
    /\ pc[u] \in {"w_loop", "w_term"} => WriterAt(u)
    /\ pc[u] \in Reading => ReaderAt(u)
    /\ pc[u] \in {"closed", "open", "r_enter"} => idx[u] = 0 /\ cur[u] = WILD

OthersKept(t) == \A u \in Task \ {t} :
    /\ pc'[u] = pc[u] /\ cnt'[u] = cnt[u] /\ idx'[u] = idx[u]
    /\ cur'[u] = cur[u] /\ wid'[u] = wid[u]

DataKept == used \subseteq used' /\ \A n \in used : data'[n] = data[n]

LEMMA TaskFrame ==
    ASSUME StoreInv, NEW t \in Task, OthersKept(t), DataKept, TaskInv(t)'
    PROVE  WritersAt' /\ ReadersAt' /\ Fresh'
<1>1. ASSUME NEW u \in Task PROVE TaskInv(u)'
  <2>1. CASE u = t
    BY <2>1
  <2>2. CASE u # t
    <3>1. /\ pc'[u] = pc[u] /\ cnt'[u] = cnt[u] /\ idx'[u] = idx[u]
          /\ cur'[u] = cur[u] /\ wid'[u] = wid[u]
      BY <2>2 DEF OthersKept
    <3>2. TaskInv(u)
      BY DEF StoreInv, WritersAt, ReadersAt, Fresh, TaskInv
    <3>3. pc[u] \in {"w_loop", "w_term"} => WriterAt(u)'
      BY <3>1, <3>2 DEF TaskInv, WriterAt, DataKept
    <3>4. pc[u] \in Reading => ReaderAt(u)'
      BY <3>1, <3>2 DEF TaskInv, ReaderAt, DataKept, Base
    <3> QED
      BY <3>1, <3>2, <3>3, <3>4 DEF TaskInv, Reading
  <2> QED
    BY <2>1, <2>2
<1> QED
  BY <1>1 DEF WritersAt, ReadersAt, Fresh, TaskInv

LEMMA MemoryFrame ==
    ASSUME Memory, UNCHANGED memory
    PROVE  Memory' /\ DataKept
BY DEF Memory, memory, DataKept, Owner, Base

LEMMA UnterminatedFrame ==
    ASSUME UnterminatedOwned, UNCHANGED memory, NEW t \in Task, OthersKept(t),
           pc[t] \in {"w_loop", "w_term", "dead"} =>
               /\ pc'[t] \in {"w_loop", "w_term", "dead"}
               /\ cur'[t] = cur[t] /\ wid'[t] = wid[t]
    PROVE  UnterminatedOwned'
<1> SUFFICES ASSUME NEW n \in used, next[n] = WILD
             PROVE  \E u \in Task : /\ cur'[u] = n /\ wid'[u] = Owner(n)
                                    /\ pc'[u] \in {"w_loop", "w_term", "dead"}
  BY DEF UnterminatedOwned, memory, Owner
<1>1. PICK u \in Task : /\ cur[u] = n /\ wid[u] = Owner(n)
                        /\ pc[u] \in {"w_loop", "w_term", "dead"}
  BY DEF UnterminatedOwned
<1>2. /\ cur'[u] = n /\ wid'[u] = Owner(n)
      /\ pc'[u] \in {"w_loop", "w_term", "dead"}
  BY <1>1 DEF OthersKept
<1> QED
  BY <1>2

\* The frame of a step that does not touch the memory.
LEMMA QuietStep ==
    ASSUME StoreInv, NEW t \in Task, UNCHANGED memory, OthersKept(t), TaskInv(t)',
           pc[t] \in {"w_loop", "w_term", "dead"} =>
               /\ pc'[t] \in {"w_loop", "w_term", "dead"}
               /\ cur'[t] = cur[t] /\ wid'[t] = wid[t]
    PROVE  Memory' /\ WritersAt' /\ ReadersAt' /\ Fresh' /\ UnterminatedOwned'
BY MemoryFrame, TaskFrame, UnterminatedFrame DEF StoreInv
-----------------------------------------------------------------------------
(***************************************************************************)
(* The steps that do not touch the memory.                                 *)
(***************************************************************************)
LEMMA CallsInv ==
    ASSUME StoreInv, NEW t \in Task, Calls(t)
    PROVE  Memory' /\ WritersAt' /\ ReadersAt' /\ Fresh' /\ UnterminatedOwned'
<1> USE DEF locals, Goto
<1>1. TypeOK /\ TaskInv(t)
  BY DEF StoreInv, WritersAt, ReadersAt, Fresh, TaskInv
<1>2. CASE Open(t) \/ Release(t)
  <2>1. OthersKept(t) /\ UNCHANGED memory
    BY <1>1, <1>2 DEF Open, Release, OthersKept, TypeOK
  <2>2. TaskInv(t)' /\ pc[t] \notin {"w_loop", "w_term", "dead"}
    BY <1>1, <1>2 DEF Open, Release, TaskInv, TypeOK, Reading
  <2> QED
    BY <2>1, <2>2, QuietStep
<1>3. ASSUME NEW c \in WriteCounts, WriteCall(t, c)
      PROVE  Memory' /\ WritersAt' /\ ReadersAt' /\ Fresh' /\ UnterminatedOwned'
  <2>1. OthersKept(t) /\ UNCHANGED memory
    BY <1>1, <1>3 DEF WriteCall, OthersKept, TypeOK
  <2>2. pc[t] = "open" /\ idx'[t] = 0 /\ cur'[t] = WILD /\ cnt'[t] = c
    BY <1>1, <1>3 DEF WriteCall, TaskInv, TypeOK
  <2>3. c \in Nat /\ (0 < Qsets(c) <=> 0 < c) /\ Qsets(c) \in Nat
    <3>1. c \in Nat /\ QUANTUM_SIZE * (QSET_SIZE * 0) = 0
      BY StoreAssumption, Sizes DEF StoreAssumption
    <3> QED
      BY <3>1, QsetsBound
  <2>4. pc'[t] = IF c > 0 THEN "w_loop" ELSE "w_term"
    BY <1>1, <1>3 DEF WriteCall, TypeOK
  <2>5. TaskInv(t)'
    BY <2>2, <2>3, <2>4 DEF TaskInv, WriterAt, Reading
  <2> QED
    BY <2>1, <2>2, <2>5, QuietStep
<1>4. ASSUME NEW c \in ReadCounts, ReadCall(t, c)
      PROVE  Memory' /\ WritersAt' /\ ReadersAt' /\ Fresh' /\ UnterminatedOwned'
  <2>1. OthersKept(t) /\ UNCHANGED memory
    BY <1>1, <1>4 DEF ReadCall, OthersKept, TypeOK
  <2>2. pc[t] = "open" /\ pc'[t] = "r_enter" /\ cnt'[t] = c
        /\ idx'[t] = 0 /\ cur'[t] = WILD
    BY <1>1, <1>4 DEF ReadCall, TaskInv, TypeOK
  <2>3. TaskInv(t)'
    BY <2>2, StoreAssumption DEF TaskInv, ReaderAt, StoreAssumption
  <2> QED
    BY <2>1, <2>2, <2>3, QuietStep
<1> QED
  BY <1>2, <1>3, <1>4 DEF Calls

LEMMA ReturnInv ==
    ASSUME StoreInv, NEW t \in Task, pc[t] \in {"w_ret", "r_check", "r_walk"},
           pc' = [pc EXCEPT ![t] = "open"], Forget(t), UNCHANGED memory
    PROVE  Memory' /\ WritersAt' /\ ReadersAt' /\ Fresh' /\ UnterminatedOwned'
<1>1. TypeOK
  BY DEF StoreInv
<1>2. OthersKept(t) /\ pc[t] \notin {"w_loop", "w_term", "dead"}
  BY <1>1 DEF OthersKept, Forget, TypeOK
<1>3. pc'[t] = "open" /\ idx'[t] = 0 /\ cur'[t] = WILD
  BY <1>1 DEF Forget, TypeOK
<1>4. TaskInv(t)'
  BY <1>3 DEF TaskInv, Reading
<1> QED
  BY <1>2, <1>4, QuietStep

LEMMA ReadLoadInv ==
    ASSUME StoreInv, NEW t \in Task, ReadLoad(t)
    PROVE  Memory' /\ WritersAt' /\ ReadersAt' /\ Fresh' /\ UnterminatedOwned'
<1> USE DEF Goto
<1>1. TypeOK /\ TaskInv(t) /\ Memory
  BY DEF StoreInv, WritersAt, ReadersAt, Fresh, TaskInv
<1>2. OthersKept(t) /\ UNCHANGED memory /\ pc[t] \notin {"w_loop", "w_term", "dead"}
  BY <1>1 DEF ReadLoad, OthersKept, TypeOK
<1>3. /\ pc'[t] = "r_check" /\ cur'[t] = head /\ cnt'[t] = cnt[t]
      /\ cnt[t] \in ReadCounts
  BY <1>1 DEF ReadLoad, TypeOK, TaskInv, ReaderAt, Reading
<1>4. /\ head' = head
      /\ head \in Node => head \in used' /\ Base(head)' = 0
  BY <1>1, <1>2 DEF Memory, memory, Base
<1>5. TaskInv(t)'
  BY <1>3, <1>4 DEF TaskInv, ReaderAt, Base
<1> QED
  BY <1>2, <1>5, QuietStep

LEMMA ReadStepInv ==
    ASSUME StoreInv, NEW t \in Task, ReadStep(t)
    PROVE  Memory' /\ WritersAt' /\ ReadersAt' /\ Fresh' /\ UnterminatedOwned'
<1> USE DEF Goto
<1>1. TypeOK /\ TaskInv(t) /\ Memory
  BY DEF StoreInv, WritersAt, ReadersAt, Fresh, TaskInv
<1>2. CASE ReadCheck(t)
  <2>1. CASE Goto(t, "r_check", "open") /\ Forget(t) /\ UNCHANGED memory
    BY <2>1, ReturnInv
  <2>2. CASE Goto(t, "r_check", "r_walk") /\ UNCHANGED <<memory, locals>>
    <3>1. OthersKept(t) /\ UNCHANGED memory /\ pc[t] = "r_check"
      BY <1>1, <2>2 DEF locals, OthersKept, TypeOK
    <3>2. pc'[t] = "r_walk" /\ cur'[t] = cur[t] /\ cnt'[t] = cnt[t]
      BY <1>1, <2>2 DEF locals, TypeOK
    <3>3. /\ cur[t] \in Node => cur[t] \in used' /\ Base(cur[t])' = 0
          /\ cnt[t] \in ReadCounts /\ cnt[t] \in Nat
      <4>1. ReaderAt(t)
        BY <1>1, <3>1 DEF TaskInv, Reading
      <4>2. cur[t] \in Node => cur[t] \in used /\ Base(cur[t]) = 0
        BY <4>1, <3>1 DEF ReaderAt
      <4>3. used' = used /\ data' = data /\ cur'[t] = cur[t]
        BY <3>1, <3>2 DEF memory
      <4> QED
        BY <1>1, <3>1, <4>1, <4>2, <4>3 DEF ReaderAt, Base, TypeOK
    <3>4. cnt[t] + QUANTUM_SIZE * 0 = cnt[t]
      BY <3>3, Sizes
    <3>5. TaskInv(t)'
      BY <3>2, <3>3, <3>4 DEF TaskInv, ReaderAt, Base
    <3> QED
      BY <3>1, <3>5, QuietStep
  <2> QED
    BY <1>2, <2>1, <2>2 DEF ReadCheck
<1>3. CASE ReadNode(t)
  <2>1. OthersKept(t) /\ UNCHANGED memory /\ pc[t] = "r_walk" /\ cnt[t] \in Nat
    BY <1>1, <1>3 DEF ReadNode, OthersKept, TypeOK
  <2>2. /\ pc'[t] = "r_walk" /\ cnt'[t] = RestAfter(cnt[t])
        /\ cur'[t] = NextOf(cur[t]) /\ cnt[t] > 0
    BY <1>1, <1>3 DEF ReadNode, TypeOK
  <2>3. ReaderAt(t)
    BY <1>1, <2>1 DEF TaskInv, Reading
  <2>4. ASSUME cur'[t] \in Node
        PROVE  /\ cur'[t] \in used'
               /\ cnt'[t] > 0 => cnt'[t] + QUANTUM_SIZE * Base(cur[t])' \in ReadCounts
    <3>1. cur[t] \in used /\ cur[t] \in Node /\ cur'[t] = next[cur[t]]
      BY <2>2, <2>3, <2>4, StoreAssumption DEF NextOf, ReaderAt, StoreAssumption
    <3>0. PICK c \in WriteCounts : \E j \in 0 .. Qsets(c) - 2 :
             /\ data[cur[t]] = NodeData(Owner(cur[t]), c, j)
             /\ data[next[cur[t]]] = NodeData(Owner(cur[t]), c, j + 1)
      BY <1>1, <2>4, <3>1 DEF Memory
    <3>2. PICK j \in 0 .. Qsets(c) - 2 :
             /\ data[cur[t]] = NodeData(Owner(cur[t]), c, j)
             /\ data[next[cur[t]]] = NodeData(Owner(cur[t]), c, j + 1)
      BY <3>0
    <3>3. c \in Nat /\ Qsets(c) \in Nat /\ j \in Nat /\ j + 1 < Qsets(c)
      BY StoreAssumption, QsetsBound DEF StoreAssumption
    <3>4. /\ NodeData(Owner(cur[t]), c, j)[0].q = QSET_SIZE * j
          /\ NodeData(Owner(cur[t]), c, j + 1)[0].q = QSET_SIZE * (j + 1)
      <4>1. 0 \in FilledSlots(c, j) /\ 0 \in FilledSlots(c, j + 1)
        BY <3>3, FilledSlotsBound
      <4>2. QSET_SIZE * j + 0 = QSET_SIZE * j /\ QSET_SIZE * (j + 1) + 0 = QSET_SIZE * (j + 1)
        BY <3>3, Sizes
      <4> QED
        BY <4>1, <4>2, Sizes DEF NodeData
    <3>5. /\ Base(cur[t]) = QSET_SIZE * j
          /\ data[next[cur[t]]][0].q = QSET_SIZE * (j + 1)
      BY <3>2, <3>4 DEF Base
    <3>6. next[cur[t]] \in used /\ used' = used /\ data' = data
      BY <1>1, <2>1, <2>4, <3>1 DEF Memory, memory
    <3>7. Base(cur[t])' = QSET_SIZE * (j + 1)
      BY <3>1, <3>5, <3>6 DEF Base
    <3>8. cnt'[t] > 0 => cnt'[t] = cnt[t] - QUANTUM_SIZE * QSET_SIZE
      BY <2>1, <2>2 DEF RestAfter
    <3>9. QUANTUM_SIZE * (QSET_SIZE * (j + 1))
            = QUANTUM_SIZE * (QSET_SIZE * j) + QUANTUM_SIZE * QSET_SIZE
      BY <3>3, Sizes
    <3>10. cnt[t] + QUANTUM_SIZE * (QSET_SIZE * j) \in ReadCounts
      BY <2>1, <2>2, <2>3, <3>1, <3>5 DEF ReaderAt
    <3>11. QUANTUM_SIZE * (QSET_SIZE * j) \in Int /\ QUANTUM_SIZE * QSET_SIZE \in Int
      BY <3>3, Sizes
    <3>12. cnt'[t] > 0 => cnt'[t] + QUANTUM_SIZE * (QSET_SIZE * (j + 1))
                            = cnt[t] + QUANTUM_SIZE * (QSET_SIZE * j)
      BY <2>1, <3>8, <3>9, <3>11
    <3> QED
      BY <3>1, <3>6, <3>7, <3>10, <3>12
  <2>5. TaskInv(t)'
    BY <2>2, <2>4 DEF TaskInv, ReaderAt, Base
  <2> QED
    BY <2>1, <2>5, QuietStep
<1>4. CASE ReadFault(t)
  <2>1. OthersKept(t) /\ UNCHANGED memory /\ pc[t] = "r_walk" /\ pc'[t] = "dead"
    BY <1>1, <1>4 DEF ReadFault, locals, OthersKept, TypeOK
  <2>2. TaskInv(t)'
    BY <2>1 DEF TaskInv, Reading
  <2> QED
    BY <2>1, <2>2, QuietStep
<1>5. CASE ReadReturn(t)
  BY <1>5, ReturnInv DEF ReadReturn
<1> QED
  BY <1>2, <1>3, <1>4, <1>5 DEF ReadStep
-----------------------------------------------------------------------------
(***************************************************************************)
(* The steps of scull_write.                                               *)
(***************************************************************************)
LEMMA WriteNodeInv ==
    ASSUME StoreInv, NEW t \in Task, WriteNode(t)
    PROVE  Memory' /\ WritersAt' /\ ReadersAt' /\ Fresh' /\ UnterminatedOwned'
<1> USE DEF Goto
<1>1. TypeOK /\ TaskInv(t) /\ Memory /\ UnterminatedOwned
  BY DEF StoreInv, WritersAt, ReadersAt, Fresh, TaskInv
<1>2. PICK n \in Node \ used :
         /\ used' = used \cup {n}
         /\ data' = [data EXCEPT ![n] = NodeData(wid[t], cnt[t], idx[t])]
         /\ Publish(t, n) \/ Link(t, n)
         /\ cur' = [cur EXCEPT ![t] = n]
  BY DEF WriteNode
<1>3. /\ pc[t] = "w_loop" /\ WriterAt(t)
      /\ cnt[t] \in WriteCounts /\ cnt[t] \in Nat /\ wid[t] \in Nat /\ idx[t] \in Nat
      /\ idx[t] < Qsets(cnt[t]) /\ Qsets(cnt[t]) \in Nat
  <2>1. pc[t] = "w_loop" /\ WriterAt(t) /\ cnt[t] \in Nat /\ wid[t] \in Nat /\ idx[t] \in Nat
    BY <1>1 DEF WriteNode, TaskInv, TypeOK
  <2> QED
    BY <2>1, QsetsBound DEF WriterAt
<1>4. /\ pc'[t] = IF idx[t] + 1 < Qsets(cnt[t]) THEN "w_loop" ELSE "w_term"
      /\ idx'[t] = idx[t] + 1 /\ cnt' = cnt /\ wid' = wid /\ cur'[t] = n
      /\ OthersKept(t)
  BY <1>1, <1>2 DEF WriteNode, OthersKept, TypeOK
<1>5. /\ DataKept
      /\ n \in used' /\ data'[n] = NodeData(wid[t], cnt[t], idx[t])
      /\ data'[n][0] = [w |-> wid[t], q |-> QSET_SIZE * idx[t]]
  <2>1. data'[n] = NodeData(wid[t], cnt[t], idx[t])
    BY <1>1, <1>2 DEF TypeOK
  <2> QED
    BY <1>1, <1>2, <1>3, <2>1, NodeDataFirst DEF DataKept, TypeOK
<1>6. TaskInv(t)'
  <2>1. idx[t] + 1 # 0 /\ (idx[t] + 1) - 1 = idx[t]
    BY <1>3
  <2>2. WriterAt(t)'
    BY <1>3, <1>4, <1>5, <2>1 DEF WriterAt
  <2> QED
    BY <1>4, <2>2 DEF TaskInv, Reading
<1>7. WritersAt' /\ ReadersAt' /\ Fresh'
  BY <1>4, <1>5, <1>6, TaskFrame
\* The node temp2 points to is the one before n in this write.
<1>8. ASSUME idx[t] # 0
      PROVE  /\ cur[t] \in used /\ cur[t] \in Node
             /\ data[cur[t]] = NodeData(wid[t], cnt[t], idx[t] - 1)
             /\ Owner(cur[t]) = wid[t]
  <2>1. cur[t] \in used /\ data[cur[t]] = NodeData(wid[t], cnt[t], idx[t] - 1)
    BY <1>3, <1>8 DEF WriterAt
  <2>2. idx[t] - 1 \in Nat /\ idx[t] - 1 < Qsets(cnt[t])
    BY <1>3, <1>8
  <2>3. NodeData(wid[t], cnt[t], idx[t] - 1)[0]
          = [w |-> wid[t], q |-> QSET_SIZE * (idx[t] - 1)]
    BY <1>3, <2>2, NodeDataFirst
  <2> QED
    BY <1>1, <2>1, <2>3 DEF Owner, TypeOK
<1>9. /\ head' \in Node => head' \in used' /\ data'[head'][0].q = 0
      /\ \A m \in Node : next'[m] = IF idx[t] # 0 /\ m = cur[t] THEN n ELSE next[m]
  <2>1. CASE Publish(t, n)
    <3>1. QSET_SIZE * 0 = 0
      BY Sizes
    <3> QED
      BY <1>2, <1>5, <2>1, <3>1 DEF Publish
  <2>2. CASE Link(t, n)
    <3>1. idx[t] # 0 /\ head' = head /\ next' = [next EXCEPT ![cur[t]] = n]
      BY <1>3, <1>8, <2>2 DEF Link
    <3>2. head \in Node => head \in used /\ data[head][0].q = 0
      BY <1>1 DEF Memory, Base
    <3> QED
      BY <1>1, <1>5, <3>1, <3>2 DEF DataKept, TypeOK
  <2> QED
    BY <1>2, <2>1, <2>2
<1>10. ASSUME NEW m \in used'
       PROVE  /\ data'[m][0].w \in Nat
              /\ \E c \in WriteCounts : \E j \in 0 .. Qsets(c) - 1 :
                    data'[m] = NodeData(data'[m][0].w, c, j)
  <2>1. CASE m = n
    BY <1>3, <1>5, <2>1
  <2>2. CASE m # n
    BY <1>1, <1>2, <1>5, <2>2 DEF Memory, DataKept, Owner
  <2> QED
    BY <2>1, <2>2
<1>11. ASSUME NEW m \in used', next'[m] \in Node
       PROVE  /\ next'[m] \in used'
              /\ \E c \in WriteCounts : \E j \in 0 .. Qsets(c) - 2 :
                    /\ data'[m] = NodeData(data'[m][0].w, c, j)
                    /\ data'[next'[m]] = NodeData(data'[m][0].w, c, j + 1)
  <2>1. CASE idx[t] # 0 /\ m = cur[t]
    <3>1. next'[m] = n /\ data'[m] = data[m] /\ data[m][0].w = wid[t]
      BY <1>5, <1>8, <1>9, <2>1 DEF DataKept, Owner
    <3>2. idx[t] - 1 \in 0 .. Qsets(cnt[t]) - 2 /\ (idx[t] - 1) + 1 = idx[t]
      BY <1>3, <2>1
    <3>3. data'[m] = NodeData(wid[t], cnt[t], idx[t] - 1)
      BY <1>8, <2>1, <3>1
    <3> QED
      BY <1>3, <1>5, <2>1, <3>1, <3>2, <3>3
  <2>2. CASE ~(idx[t] # 0 /\ m = cur[t])
    <3>1. m \in Node /\ next'[m] = next[m] /\ m \in used
      BY <1>1, <1>2, <1>9, <1>11, <2>2, StoreAssumption DEF Memory, TypeOK, StoreAssumption
    <3>2. /\ next[m] \in used
          /\ \E c \in WriteCounts : \E j \in 0 .. Qsets(c) - 2 :
                /\ data[m] = NodeData(Owner(m), c, j)
                /\ data[next[m]] = NodeData(Owner(m), c, j + 1)
      BY <1>1, <1>11, <3>1 DEF Memory
    <3>3. data'[m] = data[m] /\ data'[next[m]] = data[next[m]] /\ next[m] \in used'
      BY <1>5, <3>1, <3>2 DEF DataKept
    <3> QED
      BY <3>1, <3>2, <3>3 DEF Owner
  <2> QED
    BY <2>1, <2>2
<1>12. \A m \in Node \ used' : next'[m] = WILD
  BY <1>1, <1>2, <1>8, <1>9 DEF Memory
<1>13. Memory'
  BY <1>9, <1>10, <1>11, <1>12 DEF Memory, Owner, Base
<1>14. UnterminatedOwned'
  <2> SUFFICES ASSUME NEW m \in used', next'[m] = WILD
               PROVE  \E u \in Task : /\ cur'[u] = m /\ wid'[u] = data'[m][0].w
                                      /\ pc'[u] \in {"w_loop", "w_term", "dead"}
    BY DEF UnterminatedOwned, Owner
  <2>1. CASE m = n
    BY <1>4, <1>5, <2>1
  <2>2. CASE m # n
    <3>1. m \in used /\ next[m] = WILD /\ m \in Node /\ ~(idx[t] # 0 /\ m = cur[t])
      BY <1>1, <1>2, <1>9, <2>2, StoreAssumption DEF TypeOK, StoreAssumption
    <3>2. PICK u \in Task : /\ cur[u] = m /\ wid[u] = Owner(m)
                            /\ pc[u] \in {"w_loop", "w_term", "dead"}
      BY <1>1, <3>1 DEF UnterminatedOwned
    <3>3. u # t
      BY <1>3, <3>1, <3>2, StoreAssumption DEF WriterAt, StoreAssumption
    <3> QED
      BY <1>4, <1>5, <3>1, <3>2, <3>3 DEF OthersKept, DataKept, Owner
  <2> QED
    BY <2>1, <2>2
<1> QED
  BY <1>7, <1>13, <1>14

\* Ending a list, or cutting one through a wild pointer: next[m] becomes NULL.
LEMMA CutInv ==
    ASSUME StoreInv, NEW t \in Task, NEW m \in used,
           pc[t] = "w_term", cur[t] \in Node => cur[t] = m,
           pc' = [pc EXCEPT ![t] = "w_ret"], next' = [next EXCEPT ![m] = NULL],
           UNCHANGED <<head, used, data, locals>>
    PROVE  Memory' /\ WritersAt' /\ ReadersAt' /\ Fresh' /\ UnterminatedOwned'
<1>1. TypeOK /\ Memory /\ UnterminatedOwned
  BY DEF StoreInv
<1>2. OthersKept(t) /\ DataKept /\ pc'[t] = "w_ret"
  BY <1>1 DEF OthersKept, DataKept, locals, TypeOK
<1>3. TaskInv(t)'
  BY <1>2 DEF TaskInv, Reading
<1>4. WritersAt' /\ ReadersAt' /\ Fresh'
  BY <1>2, <1>3, TaskFrame
<1>5. /\ \A n \in Node : next'[n] = IF n = m THEN NULL ELSE next[n]
      /\ NULL \notin Node /\ NULL # WILD /\ used \subseteq Node
  BY <1>1, StoreAssumption DEF TypeOK, StoreAssumption
<1>6. Memory'
  <2>1. \A n \in used : next'[n] \in Node => next'[n] = next[n]
    BY <1>5
  <2>2. \A n \in Node \ used : next'[n] = next[n]
    BY <1>5
  <2> QED
    BY <1>1, <2>1, <2>2 DEF Memory, Owner, Base
<1>7. UnterminatedOwned'
  <2> SUFFICES ASSUME NEW n \in used, next'[n] = WILD
               PROVE  \E u \in Task : /\ cur[u] = n /\ wid[u] = Owner(n)
                                      /\ pc'[u] \in {"w_loop", "w_term", "dead"}
    BY DEF UnterminatedOwned, Owner, locals
  <2>1. n # m /\ next[n] = WILD /\ n \in Node
    BY <1>5
  <2>2. PICK u \in Task : /\ cur[u] = n /\ wid[u] = Owner(n)
                          /\ pc[u] \in {"w_loop", "w_term", "dead"}
    BY <1>1, <2>1 DEF UnterminatedOwned
  <2>3. u # t
    BY <2>1, <2>2
  <2> QED
    BY <1>2, <2>2, <2>3 DEF OthersKept
<1> QED
  BY <1>4, <1>6, <1>7

LEMMA WriteStepInv ==
    ASSUME StoreInv, NEW t \in Task, WriteStep(t)
    PROVE  Memory' /\ WritersAt' /\ ReadersAt' /\ Fresh' /\ UnterminatedOwned'
<1> USE DEF Goto
<1>1. TypeOK /\ TaskInv(t)
  BY DEF StoreInv, WritersAt, ReadersAt, Fresh, TaskInv
<1>2. CASE WriteNode(t)
  BY <1>2, WriteNodeInv
<1>3. CASE WriteOom(t)
  <2>1. OthersKept(t) /\ UNCHANGED memory /\ pc'[t] = "dead"
        /\ cur'[t] = cur[t] /\ wid'[t] = wid[t]
    BY <1>1, <1>3 DEF WriteOom, locals, OthersKept, TypeOK
  <2>2. TaskInv(t)'
    BY <2>1 DEF TaskInv, Reading
  <2> QED
    BY <2>1, <2>2, QuietStep
<1>4. CASE WriteTerm(t)
  <2>1. pc[t] = "w_term" /\ cur[t] \in used
    BY <1>1, <1>4, StoreAssumption DEF WriteTerm, TaskInv, WriterAt, StoreAssumption
  <2> QED
    BY <1>4, <2>1, CutInv DEF WriteTerm
<1>5. CASE WriteTermWild(t)
  <2>1. cur[t] \notin Node
    BY <1>5, StoreAssumption DEF WriteTermWild, StoreAssumption
  <2>2. CASE \E m \in used : /\ Goto(t, "w_term", "w_ret")
                             /\ next' = [next EXCEPT ![m] = NULL]
    BY <1>5, <2>1, <2>2, CutInv DEF WriteTermWild
  <2>3. ASSUME NEW s \in {"dead", "w_ret"}, Goto(t, "w_term", s), UNCHANGED next
        PROVE  Memory' /\ WritersAt' /\ ReadersAt' /\ Fresh' /\ UnterminatedOwned'
    <3>1. OthersKept(t) /\ UNCHANGED memory /\ pc'[t] = s
      BY <1>1, <1>5, <2>3 DEF WriteTermWild, memory, locals, OthersKept, TypeOK
    <3>2. TaskInv(t)'
      BY <3>1 DEF TaskInv, Reading
    <3>3. TypeOK /\ Memory /\ UnterminatedOwned
      BY DEF StoreInv
    <3>4. Memory' /\ WritersAt' /\ ReadersAt' /\ Fresh'
      BY <3>1, <3>2, <3>3, MemoryFrame, TaskFrame
    <3>5. UnterminatedOwned'
      <4> SUFFICES ASSUME NEW n \in used, next[n] = WILD
                   PROVE  \E u \in Task : /\ cur'[u] = n /\ wid'[u] = Owner(n)
                                          /\ pc'[u] \in {"w_loop", "w_term", "dead"}
        BY <3>1 DEF UnterminatedOwned, memory, Owner
      <4>1. PICK u \in Task : /\ cur[u] = n /\ wid[u] = Owner(n)
                              /\ pc[u] \in {"w_loop", "w_term", "dead"}
        BY <3>3 DEF UnterminatedOwned
      <4>2. u # t
        BY <2>1, <3>3, <4>1 DEF TypeOK
      <4> QED
        BY <3>1, <4>1, <4>2 DEF OthersKept
    <3> QED
      BY <3>4, <3>5
  <2> QED
    BY <1>5, <2>2, <2>3 DEF WriteTermWild
<1> QED
  BY <1>2, <1>3, <1>4, <1>5 DEF WriteStep
-----------------------------------------------------------------------------
LEMMA StoreInvInit == Init => StoreInv
<1> SUFFICES ASSUME Init PROVE StoreInv
  OBVIOUS
<1>1. TypeOK
  BY DEF Init, TypeOK, UnsetHead, Pointer, Idle
<1>2. Memory
  BY StoreAssumption DEF Init, Memory, UnsetHead, StoreAssumption
<1>3. WritersAt /\ ReadersAt /\ Fresh /\ UnterminatedOwned
  BY DEF Init, WritersAt, ReadersAt, Fresh, UnterminatedOwned, Reading
<1> QED
  BY <1>1, <1>2, <1>3 DEF StoreInv

LEMMA StoreInvStep == StoreInv /\ [Next]_vars => StoreInv'
<1> SUFFICES ASSUME StoreInv, [Next]_vars PROVE StoreInv'
  OBVIOUS
<1>1. TypeOK'
  BY StoreTypeStep DEF StoreInv
<1>2. Memory' /\ WritersAt' /\ ReadersAt' /\ Fresh' /\ UnterminatedOwned'
  <2>1. CASE UNCHANGED vars
    BY <2>1 DEF vars, StoreInv, Memory, WritersAt, WriterAt, ReadersAt, ReaderAt,
                Fresh, UnterminatedOwned, Owner, Base
  <2>2. ASSUME NEW t \in Task, Calls(t)
        PROVE  Memory' /\ WritersAt' /\ ReadersAt' /\ Fresh' /\ UnterminatedOwned'
    BY <2>2, CallsInv
  <2>3. ASSUME NEW t \in Task, WriteStep(t)
        PROVE  Memory' /\ WritersAt' /\ ReadersAt' /\ Fresh' /\ UnterminatedOwned'
    BY <2>3, WriteStepInv
  <2>4. ASSUME NEW t \in Task, WriteReturn(t)
        PROVE  Memory' /\ WritersAt' /\ ReadersAt' /\ Fresh' /\ UnterminatedOwned'
    BY <2>4, ReturnInv DEF WriteReturn, Goto
  <2>5. ASSUME NEW t \in Task, ReadLoad(t)
        PROVE  Memory' /\ WritersAt' /\ ReadersAt' /\ Fresh' /\ UnterminatedOwned'
    BY <2>5, ReadLoadInv
  <2>6. ASSUME NEW t \in Task, ReadStep(t)
        PROVE  Memory' /\ WritersAt' /\ ReadersAt' /\ Fresh' /\ UnterminatedOwned'
    BY <2>6, ReadStepInv
  <2> QED
    BY <2>1, <2>2, <2>3, <2>4, <2>5, <2>6 DEF Next
<1> QED
  BY <1>1, <1>2 DEF StoreInv

THEOREM StoreInvariant == Spec => []StoreInv
<1> QED
  BY StoreInvInit, StoreInvStep, PTL DEF Spec

(* The handlers of driver_2 keep the types of what they share.              *)
THEOREM StoreTyped == Spec => []TypeOK
<1>1. StoreInv => TypeOK
  BY DEF StoreInv
<1> QED
  BY <1>1, StoreInvariant, PTL

(* No call of scull_write returns leaving a list without an end.            *)
THEOREM StoreTerminated == Spec => []UnterminatedOwned
<1>1. StoreInv => UnterminatedOwned
  BY DEF StoreInv
<1> QED
  BY <1>1, StoreInvariant, PTL

\* Where a node stands in its write.
LEMMA NodePlace ==
    ASSUME StoreInv, NEW n \in used
    PROVE  \E c \in WriteCounts : \E j \in Nat :
              /\ c \in Nat /\ c > 0 /\ j < Qsets(c)
              /\ data[n] = NodeData(Owner(n), c, j)
              /\ Base(n) = QSET_SIZE * j
<1>1. PICK c \in WriteCounts : \E j \in 0 .. Qsets(c) - 1 :
         data[n] = NodeData(Owner(n), c, j)
  BY DEF StoreInv, Memory
<1>2. PICK j \in 0 .. Qsets(c) - 1 : data[n] = NodeData(Owner(n), c, j)
  BY <1>1
<1>3. c \in Nat /\ Qsets(c) \in Nat
  BY StoreAssumption, QsetsBound DEF StoreAssumption
<1>4. j \in Nat /\ j < Qsets(c)
  BY <1>3
<1>5. Base(n) = QSET_SIZE * j
  <2>1. 0 \in FilledSlots(c, j) /\ QSET_SIZE * j + 0 = QSET_SIZE * j
    BY <1>3, <1>4, FilledSlotsBound, Sizes
  <2>2. NodeData(Owner(n), c, j)[0].q = QSET_SIZE * j
    BY <2>1, Sizes DEF NodeData
  <2> QED
    BY <1>2, <2>2 DEF Base
<1>6. c > 0
  <2>1. QUANTUM_SIZE * (QSET_SIZE * j) < c /\ QUANTUM_SIZE * (QSET_SIZE * j) >= 0
    BY <1>3, <1>4, QsetsBound, Sizes
  <2> QED
    BY <1>3, <1>4, <2>1, Sizes
<1> QED
  BY <1>2, <1>3, <1>4, <1>5, <1>6

LEMMA StoreInvShape == StoreInv => ListShape
<1> SUFFICES ASSUME StoreInv, NEW n \in used, next[n] \in Node
             PROVE  /\ next[n] \in used
                    /\ data[next[n]][0] = [w |-> Owner(n), q |-> Base(n) + QSET_SIZE]
                    /\ \A i \in Slot : data[n][i] = [w |-> Owner(n), q |-> Base(n) + i]
  BY DEF ListShape
<1>1. PICK c \in WriteCounts : \E j \in 0 .. Qsets(c) - 2 :
         /\ data[n] = NodeData(Owner(n), c, j)
         /\ data[next[n]] = NodeData(Owner(n), c, j + 1)
  BY DEF StoreInv, Memory
<1>2. PICK j \in 0 .. Qsets(c) - 2 :
         /\ data[n] = NodeData(Owner(n), c, j)
         /\ data[next[n]] = NodeData(Owner(n), c, j + 1)
  BY <1>1
<1>3. c \in Nat /\ Qsets(c) \in Nat /\ j \in Nat /\ j + 1 \in Nat /\ j + 1 < Qsets(c)
  BY StoreAssumption, QsetsBound DEF StoreAssumption
<1>4. FilledSlots(c, j) = Slot /\ 0 \in FilledSlots(c, j + 1)
  BY <1>3, FilledSlotsBound
<1>5. \A i \in Slot : data[n][i] = [w |-> Owner(n), q |-> QSET_SIZE * j + i]
  BY <1>2, <1>4 DEF NodeData
<1>6. Base(n) = QSET_SIZE * j
  <2>1. QSET_SIZE * j + 0 = QSET_SIZE * j /\ 0 \in Slot
    BY <1>3, Sizes
  <2>2. data[n][0] = [w |-> Owner(n), q |-> QSET_SIZE * j]
    BY <1>5, <2>1
  <2> QED
    BY <2>2 DEF Base
<1>7. data[next[n]][0] = [w |-> Owner(n), q |-> QSET_SIZE * j + QSET_SIZE]
  <2>1. QSET_SIZE * (j + 1) + 0 = QSET_SIZE * j + QSET_SIZE /\ 0 \in Slot
    BY <1>3, Sizes
  <2>2. NodeData(Owner(n), c, j + 1)[0] = [w |-> Owner(n), q |-> QSET_SIZE * (j + 1) + 0]
    BY <1>4, <2>1 DEF NodeData
  <2> QED
    BY <1>2, <2>1, <2>2
<1> QED
  BY <1>5, <1>6, <1>7 DEF StoreInv, Memory

(* No link ever leaves a write, for any number of concurrent writers.       *)
THEOREM StoreListShape == Spec => []ListShape
<1> QED
  BY StoreInvShape, StoreInvariant, PTL

LEMMA StoreInvCovered == StoreInv => WalkCovered
<1> SUFFICES ASSUME StoreInv, ReadsFit, NEW t \in Task, pc[t] = "r_walk",
                    cur[t] \in Node, NEW i \in ReadSlots(cnt[t])
             PROVE  data[cur[t]][i] # WILD
  BY DEF WalkCovered
<1>1. cnt[t] \in Nat /\ i \in Slot /\ i \in Nat /\ QUANTUM_SIZE * i < cnt[t]
  BY Sizes DEF StoreInv, TypeOK, ReadSlots, Slot
<1>2. QUANTUM_SIZE * i >= 0
  BY <1>1, Sizes
<1>3. cur[t] \in used /\ cnt[t] + QUANTUM_SIZE * Base(cur[t]) \in ReadCounts
  <2>1. ReaderAt(t) /\ cnt[t] > 0
    BY <1>1, <1>2, Sizes DEF StoreInv, ReadersAt, Reading
  <2> QED
    BY <2>1 DEF ReaderAt
<1>4. PICK c \in WriteCounts, j \in Nat :
         /\ c \in Nat /\ c > 0 /\ j < Qsets(c)
         /\ data[cur[t]] = NodeData(Owner(cur[t]), c, j)
         /\ Base(cur[t]) = QSET_SIZE * j
  BY <1>3, NodePlace
<1>5. cnt[t] + QUANTUM_SIZE * (QSET_SIZE * j) <= c
  BY <1>3, <1>4 DEF ReadsFit
<1>6. QUANTUM_SIZE * (QSET_SIZE * j + i) = QUANTUM_SIZE * (QSET_SIZE * j) + QUANTUM_SIZE * i
  BY <1>1, <1>4, Sizes
<1>7. QUANTUM_SIZE * (QSET_SIZE * j) \in Int /\ QUANTUM_SIZE * i \in Int
  BY <1>1, <1>4, Sizes
<1>8. i \in FilledSlots(c, j)
  BY <1>1, <1>4, <1>5, <1>6, <1>7 DEF FilledSlots
<1>9. data[cur[t]][i] = [w |-> Owner(cur[t]), q |-> QSET_SIZE * j + i]
  BY <1>1, <1>4, <1>8 DEF NodeData
<1>10. Owner(cur[t]) \in Nat /\ QSET_SIZE * j + i \in Nat
  BY <1>1, <1>3, <1>4, Sizes DEF StoreInv, Memory
<1>11. data[cur[t]][i] \in Quantum
  BY <1>9, <1>10 DEF Quantum
<1> QED
  BY <1>11, StoreAssumption DEF StoreAssumption

(* A read that asks for no more than every write provides copies from       *)
(* filled slots only, whatever races with it.                               *)
THEOREM StoreWalkCovered == Spec => []WalkCovered
<1> QED
  BY StoreInvCovered, StoreInvariant, PTL
-----------------------------------------------------------------------------
(***************************************************************************)
(* The refinement.  What a read has delivered so far are the quanta before *)
(* the node it stands at, all of that node's write.                        *)
(***************************************************************************)
Numbered(t) == pc[t] \in {"w_loop", "w_term"} => wid[t] > 0

Delivered(t) ==
    /\ pc[t] \notin {"r_walk", "dead"} => out[t] = << >>
    /\ pc[t] = "r_walk" /\ cur[t] \in Node /\ cnt[t] > 0 =>
          /\ Len(out[t]) = Base(cur[t])
          /\ \A k \in 1 .. Len(out[t]) : out[t][k] = [w |-> Owner(cur[t]), q |-> k - 1]

WalkAt(t) == Numbered(t) /\ Delivered(t)
WalkInv == StoreInv /\ \A t \in Task : WalkAt(t)

Cell == IF head \in Node THEN Owner(head) ELSE 0

\* What a step of t leaves alone.
StepFrame(t) ==
    /\ OthersKept(t) /\ DataKept
    /\ \A u \in Task \ {t} : out'[u] = out[u]

LEMMA FrameKept ==
    ASSUME WalkInv, NEW t \in Task, StepFrame(t), NEW u \in Task \ {t}
    PROVE  AbstractFrom(u)' = AbstractFrom(u) /\ WalkAt(u)'
<1>1. /\ pc'[u] = pc[u] /\ cnt'[u] = cnt[u] /\ cur'[u] = cur[u]
      /\ wid'[u] = wid[u] /\ out'[u] = out[u]
  BY DEF StepFrame, OthersKept
<1>2. pc[u] \in Reading /\ cur[u] \in Node => data'[cur[u]] = data[cur[u]]
  BY DEF WalkInv, StoreInv, ReadersAt, ReaderAt, StepFrame, DataKept
<1>3. AbstractFrom(u)' = AbstractFrom(u)
  BY <1>1, <1>2 DEF AbstractFrom, Owner, Reading
<1>4. WalkAt(u)
  BY DEF WalkInv
<1>5. Delivered(u)'
  BY <1>1, <1>2, <1>4 DEF WalkAt, Delivered, Owner, Base, Reading
<1> QED
  BY <1>1, <1>3, <1>4, <1>5 DEF WalkAt, Numbered

LEMMA CellKept ==
    ASSUME WalkInv, DataKept, UNCHANGED head
    PROVE  Cell' = Cell
<1>1. head \in Node => data'[head] = data[head]
  BY DEF WalkInv, StoreInv, Memory, DataKept
<1> QED
  BY <1>1 DEF Cell, Owner

\* The register's steps, by what they do to it.
Refined == [Register!Next]_(Register!vars)

LEMMA Stutters ==
    ASSUME Cell' = Cell, out' = out, \A u \in Task : AbstractFrom(u)' = AbstractFrom(u)
    PROVE  Refined
BY DEF Refined, Register!vars, Cell

LEMMA Ends ==
    ASSUME NEW t \in Task, Cell' = Cell, AbstractFrom(t)' = 0,
           \A u \in Task \ {t} : AbstractFrom(u)' = AbstractFrom(u),
           out' = [out EXCEPT ![t] = << >>] \/ out' = out
    PROVE  Refined
<1>1. [u \in Task |-> AbstractFrom(u)'] = [[u \in Task |-> AbstractFrom(u)] EXCEPT ![t] = 0]
  OBVIOUS
<1>2. CASE out' = [out EXCEPT ![t] = << >>]
  BY <1>1, <1>2 DEF Refined, Register!Next, Register!End, Cell
<1>3. CASE out' = out
  BY <1>1, <1>3 DEF Refined, Register!Next, Register!Abort, Cell
<1> QED
  BY <1>2, <1>3

LEMMA Takes ==
    ASSUME NEW t \in Task, Cell' = Cell, out' = out, out[t] = << >>,
           AbstractFrom(t) = 0, AbstractFrom(t)' = Cell,
           \A u \in Task \ {t} : AbstractFrom(u)' = AbstractFrom(u)
    PROVE  Refined
<1>1. [u \in Task |-> AbstractFrom(u)'] = [[u \in Task |-> AbstractFrom(u)] EXCEPT ![t] = Cell]
  OBVIOUS
<1> QED
  BY <1>1 DEF Refined, Register!Next, Register!Take, Cell

LEMMA Publishes ==
    ASSUME Cell' \in Nat \ {0}, out' = out, \A u \in Task : AbstractFrom(u)' = AbstractFrom(u)
    PROVE  Refined
BY DEF Refined, Register!Next, Register!Publish, Cell

\* What may come after the quanta that t has got.
Follows(t, more) ==
    \A k \in 1 .. Len(more) :
       \/ more[k] = WILD
       \/ /\ more[k] = [w |-> AbstractFrom(t), q |-> Len(out[t]) + k - 1]
          /\ k > 1 => more[k - 1] # WILD
          /\ k = 1 /\ out[t] # << >> => out[t][Len(out[t])] # WILD

LEMMA Delivers ==
    ASSUME NEW t \in Task, Cell' = Cell, \A u \in Task : AbstractFrom(u)' = AbstractFrom(u),
           out \in [Task -> Seq(Quantum \cup {WILD})],
           NEW more \in Seq(Quantum \cup {WILD}), Len(more) > 0,
           out' = [out EXCEPT ![t] = @ \o more], Follows(t, more)
    PROVE  Refined
<1> DEFINE old == out[t]
           new == old \o more
           Item == Quantum \cup {WILD}
<1>1. old \in Seq(Item) /\ new \in Seq(Item) /\ out'[t] = new /\ out[t] = old
      /\ Len(new) = Len(old) + Len(more) /\ Len(old) \in Nat /\ Len(more) \in Nat
  OBVIOUS
<1>2. /\ \A k \in 1 .. Len(old) : new[k] = old[k]
      /\ \A k \in 1 .. Len(more) : new[Len(old) + k] = more[k]
  OBVIOUS
<1>3. SubSeq(new, 1, Len(old)) = old
  OBVIOUS
<1> HIDE DEF old, new
<1>4. ASSUME NEW k \in Len(old) + 1 .. Len(new), new[k] # WILD
      PROVE  /\ new[k] = [w |-> AbstractFrom(t), q |-> k - 1]
             /\ k > 1 => new[k - 1] # WILD
  <2> DEFINE m == k - Len(old)
  <2>0. /\ m \in 1 .. Len(more) /\ Len(old) + m = k /\ k \in Nat
        /\ Len(old) + m - 1 = k - 1 /\ m - 1 = k - 1 - Len(old)
    BY <1>1
  <2> HIDE DEF m
  <2>1. /\ m \in 1 .. Len(more) /\ new[k] = more[m] /\ k \in Nat
        /\ Len(old) + m - 1 = k - 1 /\ m - 1 = k - 1 - Len(old)
    BY <1>2, <2>0
  <2>2. more[m] = [w |-> AbstractFrom(t), q |-> k - 1]
    BY <1>1, <1>4, <2>1 DEF Follows
  <2>3. CASE m > 1
    <3>1. m - 1 \in 1 .. Len(more) /\ Len(old) + (m - 1) = k - 1
      BY <1>1, <2>1, <2>3
    <3>2. new[k - 1] = more[m - 1]
      BY <1>2, <3>1
    <3> QED BY <1>1, <1>4, <2>1, <2>2, <2>3, <3>1, <3>2 DEF Follows
  <2>4. CASE m = 1 /\ k > 1
    <3>1. k - 1 = Len(old) /\ Len(old) \in 1 .. Len(old) /\ old # << >>
      BY <1>1, <2>1, <2>4
    <3>2. new[k - 1] = old[Len(old)]
      BY <1>2, <3>1
    <3> QED BY <1>1, <1>4, <2>1, <2>2, <2>4, <3>1, <3>2 DEF Follows
  <2> QED BY <1>1, <2>1, <2>2, <2>3, <2>4
<1>5. Register!Deliver(t)
  <2>1. /\ Len(out'[t]) > Len(out[t])
        /\ SubSeq(out'[t], 1, Len(out[t])) = out[t]
        /\ out' = [out EXCEPT ![t] = out'[t]]
    BY <1>1, <1>3 DEF new, old
  <2>2. \A k \in Len(out[t]) + 1 .. Len(out'[t]) : Register!InOrder(t, out'[t], k)
    BY <1>1, <1>4 DEF Register!InOrder
  <2>3. [u \in Task |-> AbstractFrom(u)]' = [u \in Task |-> AbstractFrom(u)]
    OBVIOUS
  <2> QED
    BY <2>1, <2>2, <2>3 DEF Register!Deliver, Cell
<1> QED
  BY <1>5 DEF Refined, Register!Next
-----------------------------------------------------------------------------
(***************************************************************************)
(* Each action keeps WalkInv and is a step of the register or none.        *)
(***************************************************************************)
LEMMA WalkFrame ==
    ASSUME WalkInv, NEW t \in Task, StepFrame(t), WalkAt(t)'
    PROVE  /\ \A u \in Task : WalkAt(u)'
           /\ \A u \in Task \ {t} : AbstractFrom(u)' = AbstractFrom(u)
BY FrameKept

LEMMA SlightFrame ==
    ASSUME WalkInv, NEW t \in Task,
           \/ Calls(t) \/ WriteOom(t) \/ WriteTerm(t) \/ WriteTermWild(t) \/ WriteReturn(t)
           \/ ReadLoad(t) \/ ReadStep(t)
    PROVE  StepFrame(t) /\ Cell' = Cell
<1> USE DEF Goto, memory, locals, StepFrame, OthersKept
<1>0. TypeOK
  BY DEF WalkInv, StoreInv
<1>1. UNCHANGED <<head, used, data>>
  BY DEF Calls, Open, Release, WriteCall, ReadCall, WriteOom, WriteTerm, WriteTermWild,
         WriteReturn, ReadLoad, ReadStep, ReadCheck, ReadNode, ReadFault, ReadReturn
<1>2. DataKept /\ Cell' = Cell
  BY <1>1, CellKept DEF DataKept
<1>3. CASE Calls(t)
  BY <1>0, <1>2, <1>3 DEF Calls, Open, Release, WriteCall, ReadCall, TypeOK
<1>4. CASE WriteOom(t) \/ WriteTerm(t) \/ WriteTermWild(t)
  BY <1>0, <1>2, <1>4 DEF WriteOom, WriteTerm, WriteTermWild, TypeOK
<1>5. CASE WriteReturn(t) \/ ReadLoad(t)
  BY <1>0, <1>2, <1>5 DEF WriteReturn, ReadLoad, Forget, TypeOK
<1>6. CASE ReadStep(t)
  BY <1>0, <1>2, <1>6 DEF ReadStep, ReadCheck, ReadNode, ReadFault, ReadReturn, Forget, TypeOK
<1> QED
  BY <1>2, <1>3, <1>4, <1>5, <1>6

LEMMA CallsWalk ==
    ASSUME WalkInv, NEW t \in Task, Calls(t)
    PROVE  (\A u \in Task : WalkAt(u)') /\ Refined
<1> USE DEF Goto, locals
<1>0. TypeOK /\ WalkAt(t)
  BY DEF WalkInv, StoreInv
<1>1. /\ pc[t] \in {"closed", "open"} /\ out' = out /\ out[t] = << >>
      /\ pc'[t] \in {"closed", "open", "w_loop", "w_term", "r_enter"}
  BY <1>0 DEF Calls, Open, Release, WriteCall, ReadCall, TypeOK, WalkAt, Delivered
<1>2. pc'[t] \in {"w_loop", "w_term"} => wid'[t] > 0
  <2> SUFFICES ASSUME NEW c \in WriteCounts, WriteCall(t, c) PROVE wid'[t] > 0
    BY <1>0 DEF Calls, Open, Release, ReadCall, TypeOK
  <2> QED BY <1>0 DEF WriteCall, TypeOK
<1>3. WalkAt(t)' /\ AbstractFrom(t)' = AbstractFrom(t)
  BY <1>1, <1>2 DEF WalkAt, Numbered, Delivered, AbstractFrom
<1> QED
  BY <1>1, <1>3, SlightFrame, WalkFrame, Stutters

LEMMA WriteEndsWalk ==
    ASSUME WalkInv, NEW t \in Task, WriteOom(t) \/ WriteTerm(t) \/ WriteTermWild(t)
    PROVE  (\A u \in Task : WalkAt(u)') /\ Refined
<1>1. TypeOK /\ WalkAt(t)
  BY DEF WalkInv, StoreInv
<1>2. /\ pc[t] \in {"w_loop", "w_term"} /\ pc'[t] \in {"dead", "w_ret"}
      /\ out' = out /\ out[t] = << >>
  BY <1>1 DEF WriteOom, WriteTerm, WriteTermWild, Goto, locals, TypeOK, WalkAt, Delivered
<1>3. WalkAt(t)' /\ AbstractFrom(t)' = AbstractFrom(t)
  BY <1>2 DEF WalkAt, Numbered, Delivered, AbstractFrom
<1> QED
  BY <1>2, <1>3, SlightFrame, WalkFrame, Stutters

\* A call that returns, or a read that is killed.
LEMMA LeaveWalk ==
    ASSUME WalkInv, NEW t \in Task, StepFrame(t), Cell' = Cell,
           \/ pc' = [pc EXCEPT ![t] = "open"] /\ out' = [out EXCEPT ![t] = << >>]
           \/ pc' = [pc EXCEPT ![t] = "dead"] /\ out' = out
    PROVE  (\A u \in Task : WalkAt(u)') /\ Refined
<1>1. TypeOK
  BY DEF WalkInv, StoreInv
<1>2. WalkAt(t)' /\ AbstractFrom(t)' = 0
  BY <1>1 DEF WalkAt, Numbered, Delivered, AbstractFrom, TypeOK
<1> QED
  BY <1>2, WalkFrame, Ends

LEMMA ReadLoadWalk ==
    ASSUME WalkInv, NEW t \in Task, ReadLoad(t)
    PROVE  (\A u \in Task : WalkAt(u)') /\ Refined
<1>1. TypeOK /\ WalkAt(t) /\ UNCHANGED <<head, data, out>>
  BY DEF WalkInv, StoreInv, ReadLoad, memory
<1>2. pc[t] = "r_enter" /\ pc'[t] = "r_check" /\ cur'[t] = head /\ out[t] = << >>
  BY <1>1 DEF ReadLoad, Goto, TypeOK, WalkAt, Delivered
<1>3. WalkAt(t)' /\ AbstractFrom(t) = 0 /\ AbstractFrom(t)' = Cell
  BY <1>1, <1>2 DEF WalkAt, Numbered, Delivered, AbstractFrom, Cell, Owner
<1> QED
  BY <1>1, <1>2, <1>3, SlightFrame, WalkFrame, Takes

LEMMA ReadCheckWalk ==
    ASSUME WalkInv, NEW t \in Task, ReadCheck(t)
    PROVE  (\A u \in Task : WalkAt(u)') /\ Refined
<1>1. TypeOK /\ WalkAt(t) /\ UNCHANGED <<head, used, data>> /\ StepFrame(t) /\ Cell' = Cell
  BY SlightFrame DEF WalkInv, StoreInv, ReadCheck, memory, ReadStep
<1>2. CASE Goto(t, "r_check", "open") /\ Forget(t)
  BY <1>1, <1>2, LeaveWalk DEF Goto, Forget
<1>3. CASE Goto(t, "r_check", "r_walk") /\ UNCHANGED locals
  <2>1. /\ pc[t] = "r_check" /\ pc'[t] = "r_walk" /\ cur' = cur /\ out' = out
        /\ out[t] = << >>
    BY <1>1, <1>3 DEF Goto, locals, TypeOK, WalkAt, Delivered
  <2>2. cur[t] \in Node => Base(cur[t]) = 0
    BY <2>1 DEF WalkInv, StoreInv, ReadersAt, ReaderAt, Reading
  <2>3. WalkAt(t)' /\ AbstractFrom(t)' = AbstractFrom(t)
    BY <1>1, <2>1, <2>2 DEF WalkAt, Numbered, Delivered, AbstractFrom, Base, Owner
  <2> QED
    BY <1>1, <2>1, <2>3, WalkFrame, Stutters
<1> QED
  BY <1>2, <1>3 DEF ReadCheck

LEMMA WriteNodeWalk ==
    ASSUME WalkInv, NEW t \in Task, WriteNode(t)
    PROVE  (\A u \in Task : WalkAt(u)') /\ Refined
<1> USE DEF Goto
<1>1. TypeOK /\ WalkAt(t) /\ Memory
  BY DEF WalkInv, StoreInv
<1>2. PICK n \in Node \ used :
         /\ used' = used \cup {n}
         /\ data' = [data EXCEPT ![n] = NodeData(wid[t], cnt[t], idx[t])]
         /\ Publish(t, n) \/ Link(t, n)
         /\ cur' = [cur EXCEPT ![t] = n]
  BY DEF WriteNode
<1>3. /\ pc[t] = "w_loop" /\ pc'[t] \in {"w_loop", "w_term"}
      /\ wid' = wid /\ wid[t] > 0 /\ out' = out /\ out[t] = << >>
  BY <1>1 DEF WriteNode, TypeOK, WalkAt, Numbered, Delivered
<1>4. DataKept /\ StepFrame(t)
  BY <1>1, <1>2 DEF WriteNode, StepFrame, OthersKept, DataKept, TypeOK
<1>5. WalkAt(t)' /\ AbstractFrom(t)' = AbstractFrom(t)
  BY <1>3 DEF WalkAt, Numbered, Delivered, AbstractFrom
<1>6. /\ \A u \in Task : WalkAt(u)'
      /\ \A u \in Task : AbstractFrom(u)' = AbstractFrom(u)
  BY <1>4, <1>5, WalkFrame
<1>7. CASE Link(t, n)
  BY <1>3, <1>4, <1>6, <1>7, CellKept, Stutters DEF Link
<1>8. CASE Publish(t, n)
  <2>1. /\ idx[t] = 0 /\ cnt[t] \in Nat /\ cnt[t] \in WriteCounts
        /\ wid[t] \in Nat \ {0} /\ 0 < Qsets(cnt[t])
    BY <1>1, <1>3, <1>8, StoreAssumption
    DEF Publish, TypeOK, WalkInv, StoreInv, WritersAt, WriterAt, StoreAssumption
  <2>2. NodeData(wid[t], cnt[t], 0)[0] = [w |-> wid[t], q |-> QSET_SIZE * 0]
    BY <2>1, NodeDataFirst
  <2>3. head' = n /\ data'[n] = NodeData(wid[t], cnt[t], 0)
    BY <1>1, <1>2, <1>8, <2>1 DEF Publish, TypeOK
  <2>4. Cell' = wid[t]
    BY <2>2, <2>3 DEF Cell, Owner
  <2> QED
    BY <1>3, <1>6, <2>1, <2>4, Publishes
<1> QED
  BY <1>2, <1>7, <1>8

\* What a turn of scull_read's outer loop copies, slot by slot.
LEMMA CopiedItems ==
    ASSUME TypeOK, NEW n \in Pointer, NEW rest \in Nat, rest > 0
    PROVE  LET more == Copied(n, rest) IN
           /\ more \in Seq(Quantum \cup {WILD}) /\ Len(more) \in Nat \ {0}
           /\ RestAfter(rest) > 0 => Len(more) = QSET_SIZE
           /\ \A k \in 1 .. Len(more) : k - 1 \in Slot /\ more[k] = DataOf(n)[k - 1]
<1> DEFINE more == Copied(n, rest)
           size == IF rest > QUANTUM_SIZE * QSET_SIZE THEN QSET_SIZE ELSE Quanta(rest)
<1>1. /\ size \in Nat \ {0} /\ size <= QSET_SIZE
      /\ RestAfter(rest) > 0 => size = QSET_SIZE
  <2>1. /\ Quanta(rest) \in Nat /\ (QSET_SIZE < Quanta(rest) <=> QUANTUM_SIZE * QSET_SIZE < rest)
        /\ 0 < Quanta(rest) <=> QUANTUM_SIZE * 0 < rest
    BY QsetsBound, Sizes
  <2>2. QUANTUM_SIZE * QSET_SIZE \in Nat /\ QUANTUM_SIZE * 0 = 0
    BY Sizes
  <2> QED
    BY <2>1, <2>2, Sizes DEF RestAfter
<1>2. more = [k \in 1 .. size |-> DataOf(n)[k - 1]]
  BY DEF Copied
<1>3. more \in Seq(Quantum \cup {WILD})
  BY CopiedType
<1> HIDE DEF size, more
<1>4. Len(more) = size
  BY <1>1, <1>2
<1>5. \A k \in 1 .. size : k - 1 \in Slot
  BY <1>1, Sizes DEF Slot
<1> QED
  BY <1>1, <1>2, <1>3, <1>4, <1>5 DEF more

\* They are the node's quanta, and where the walk goes on all of them.
LEMMA NodeCopied ==
    ASSUME StoreInv, NEW n \in used, NEW rest \in Nat, rest > 0
    PROVE  LET more == Copied(n, rest) IN
           /\ more[1] = [w |-> Owner(n), q |-> Base(n)]
           /\ \A k \in 1 .. Len(more) :
                 \/ more[k] = WILD
                 \/ /\ more[k] = [w |-> Owner(n), q |-> Base(n) + k - 1]
                    /\ k > 1 => more[k - 1] # WILD
           /\ next[n] \in Node /\ RestAfter(rest) > 0 =>
                 \A k \in 1 .. Len(more) : more[k] = [w |-> Owner(n), q |-> Base(n) + k - 1]
<1> DEFINE more == Copied(n, rest)
           size == Len(more)
<1>1. n \in Node /\ n \in Pointer /\ Owner(n) \in Nat /\ DataOf(n) = data[n] /\ TypeOK
  BY DEF StoreInv, TypeOK, Memory, DataOf, Pointer
<1>2. /\ size \in Nat \ {0}
      /\ \A k \in 1 .. size : k - 1 \in Slot /\ more[k] = data[n][k - 1]
  BY <1>1, CopiedItems
<1> HIDE DEF more, size
<1>3. PICK c \in WriteCounts, j \in Nat :
         /\ c \in Nat /\ c > 0 /\ j < Qsets(c)
         /\ data[n] = NodeData(Owner(n), c, j)
         /\ Base(n) = QSET_SIZE * j
  BY NodePlace
<1>4. Base(n) \in Nat
  BY <1>3, Sizes
<1>5. more[1] = [w |-> Owner(n), q |-> Base(n)]
  <2>1. more[1] = data[n][0]
    BY <1>2
  <2> QED BY <1>1, <1>3, <2>1, NodeDataFirst
<1>6. ASSUME NEW k \in 1 .. size, more[k] # WILD
      PROVE  /\ more[k] = [w |-> Owner(n), q |-> Base(n) + k - 1]
             /\ k > 1 => more[k - 1] # WILD
  <2>1. k - 1 \in FilledSlots(c, j)
    BY <1>2, <1>3, <1>6 DEF NodeData
  <2>2. QSET_SIZE * j + (k - 1) = Base(n) + k - 1
    BY <1>2, <1>3, <1>4
  <2>3. more[k] = [w |-> Owner(n), q |-> Base(n) + k - 1]
    BY <1>2, <1>3, <2>1, <2>2 DEF NodeData
  <2>4. ASSUME k > 1 PROVE more[k - 1] # WILD
    <3>0. k - 1 \in 1 .. size /\ (k - 1) - 1 = k - 2
      BY <1>2, <2>4
    <3>1. k - 2 \in Slot /\ more[k - 1] = data[n][k - 2]
      BY <1>2, <3>0
    <3>2. k - 2 \in FilledSlots(c, j)
      <4>1. QUANTUM_SIZE * (Base(n) + (k - 1)) <= c
        BY <1>3, <2>1 DEF FilledSlots
      <4>2. QUANTUM_SIZE * (Base(n) + (k - 2)) <= QUANTUM_SIZE * (Base(n) + (k - 1))
        BY <1>2, <1>4, Sizes, TimesMonotone
      <4>3. /\ QUANTUM_SIZE * (Base(n) + (k - 2)) \in Int
            /\ QUANTUM_SIZE * (Base(n) + (k - 1)) \in Int
        BY <1>2, <1>4, Sizes
      <4> QED
        BY <1>3, <3>1, <4>1, <4>2, <4>3 DEF FilledSlots
    <3>3. more[k - 1] = [w |-> Owner(n), q |-> QSET_SIZE * j + (k - 2)]
      BY <1>3, <3>1, <3>2 DEF NodeData
    <3>4. more[k - 1] \in Quantum
      BY <1>1, <1>2, <1>3, <1>4, <2>4, <3>3 DEF Quantum
    <3> QED
      BY <3>4, StoreAssumption DEF StoreAssumption
  <2> QED BY <2>3, <2>4
<1>7. ASSUME next[n] \in Node, NEW k \in 1 .. size
      PROVE  more[k] = [w |-> Owner(n), q |-> Base(n) + k - 1]
  <2>1. data[n][k - 1] = [w |-> Owner(n), q |-> Base(n) + (k - 1)]
    BY <1>2, <1>7, StoreInvShape DEF ListShape
  <2>2. Base(n) + (k - 1) = Base(n) + k - 1
    BY <1>2, <1>4
  <2> QED
    BY <1>2, <2>1, <2>2
<1> QED
  BY <1>5, <1>6, <1>7 DEF more, size

LEMMA ReadNodeWalk ==
    ASSUME WalkInv, NEW t \in Task, ReadNode(t)
    PROVE  (\A u \in Task : WalkAt(u)') /\ Refined
<1> DEFINE n    == cur[t]
           old  == out[t]
           more == Copied(n, cnt[t])
           new  == old \o more
           Item == Quantum \cup {WILD}
<1>1. TypeOK /\ WalkAt(t) /\ UNCHANGED <<head, used, data, next>> /\ StepFrame(t) /\ Cell' = Cell
  BY SlightFrame DEF WalkInv, StoreInv, ReadNode, memory, ReadStep
<1>2. /\ pc[t] = "r_walk" /\ pc'[t] = "r_walk" /\ cnt[t] \in Nat /\ cnt[t] > 0
      /\ cnt'[t] = RestAfter(cnt[t]) /\ cur'[t] = NextOf(n)
      /\ n \in Pointer /\ n # NULL
      /\ n \in Node => n \in used
      /\ out \in [Task -> Seq(Item)] /\ old \in Seq(Item)
      /\ out' = [out EXCEPT ![t] = @ \o more] /\ out'[t] = new
      /\ n = cur[t] /\ old = out[t] /\ more = Copied(n, cnt[t]) /\ new = old \o more
  BY <1>1 DEF ReadNode, Goto, TypeOK, WalkInv, StoreInv, ReadersAt, ReaderAt, Reading
<1>3. /\ more \in Seq(Item) /\ Len(more) \in Nat \ {0}
      /\ \A k \in 1 .. Len(more) : k - 1 \in Slot /\ more[k] = DataOf(n)[k - 1]
      /\ RestAfter(cnt[t]) > 0 => Len(more) = QSET_SIZE
  <2> HIDE DEF n, old, more, new
  <2> QED BY <1>1, <1>2, CopiedItems
<1> HIDE DEF n, old, more
<1>4. /\ Len(old) \in Nat /\ Len(new) = Len(old) + Len(more)
      /\ \A k \in 1 .. Len(old) : new[k] = old[k]
      /\ \A k \in 1 .. Len(more) : new[Len(old) + k] = more[k]
  BY <1>2, <1>3
<1> HIDE DEF new
<1>5. /\ new # << >>
      /\ new[1] = IF old = << >> THEN more[1] ELSE old[1]
  <2>1. CASE old = << >>
    BY <1>3, <1>4, <2>1
  <2>2. CASE old # << >>
    BY <1>2, <1>3, <1>4, <2>2
  <2> QED BY <2>1, <2>2
<1>6. AbstractFrom(t)' = IF new[1] = WILD THEN 0 ELSE new[1].w
  BY <1>2, <1>5 DEF AbstractFrom
<1>9. /\ Cell' = Cell /\ out \in [Task -> Seq(Item)] /\ more \in Seq(Item) /\ Len(more) > 0
      /\ out' = [out EXCEPT ![t] = @ \o more]
  BY <1>1, <1>2, <1>3
<1>7. CASE n \notin Node
  <2>1. n = WILD /\ \A k \in 1 .. Len(more) : more[k] = WILD
    BY <1>2, <1>3, <1>7 DEF DataOf, Pointer
  <2>2. AbstractFrom(t)' = AbstractFrom(t)
    BY <1>2, <1>3, <1>5, <1>6, <1>7, <2>1 DEF AbstractFrom
  <2>3. WalkAt(t)'
    BY <1>2, <1>7, <2>1 DEF WalkAt, Numbered, Delivered, NextOf
  <2>4. \A u \in Task : AbstractFrom(u)' = AbstractFrom(u)
    BY <1>1, <2>2, <2>3, WalkFrame
  <2>5. Refined
    <3>1. Follows(t, more)
      BY <2>1 DEF Follows
    <3> QED BY <1>9, <2>4, <3>1, Delivers
  <2> QED
    BY <1>1, <2>3, <2>5, WalkFrame
<1>8. CASE n \in Node
  <2>1. /\ n \in used
        /\ Len(old) = Base(n)
        /\ \A k \in 1 .. Len(old) : old[k] = [w |-> Owner(n), q |-> k - 1]
    BY <1>1, <1>2, <1>8 DEF WalkAt, Delivered
  <2>2. Owner(n) \in Nat
    BY <2>1 DEF WalkInv, StoreInv, Memory
  <2>3. \A k \in 1 .. Len(old) : old[k] # WILD
    BY <1>4, <2>1, <2>2, StoreAssumption DEF StoreAssumption, Quantum
  <2>4. /\ more[1] = [w |-> Owner(n), q |-> Base(n)]
        /\ \A k \in 1 .. Len(more) :
              \/ more[k] = WILD
              \/ /\ more[k] = [w |-> Owner(n), q |-> Base(n) + k - 1]
                 /\ k > 1 => more[k - 1] # WILD
        /\ next[n] \in Node /\ RestAfter(cnt[t]) > 0 =>
              \A k \in 1 .. Len(more) : more[k] = [w |-> Owner(n), q |-> Base(n) + k - 1]
    BY <1>2, <2>1, NodeCopied DEF WalkInv
  <2>5. more[1] # WILD /\ more[1].w = Owner(n)
    BY <1>4, <2>1, <2>2, <2>4, StoreAssumption DEF StoreAssumption, Quantum
  <2>6. AbstractFrom(t) = Owner(n) /\ AbstractFrom(t)' = Owner(n)
    <3>1. CASE old = << >>
      BY <1>2, <1>5, <1>6, <1>8, <2>5, <3>1 DEF AbstractFrom
    <3>2. CASE old # << >>
      <4>1. 1 \in 1 .. Len(old)
        BY <1>2, <3>2
      <4>2. old[1] # WILD /\ old[1].w = Owner(n)
        BY <2>1, <2>3, <4>1
      <4> QED BY <1>2, <1>5, <1>6, <1>8, <3>2, <4>2 DEF AbstractFrom
    <3> QED BY <3>1, <3>2
  <2>7. Delivered(t)'
    <3> SUFFICES ASSUME next[n] \in Node, RestAfter(cnt[t]) > 0
                 PROVE  /\ Len(new) = Base(next[n])
                        /\ \A k \in 1 .. Len(new) :
                              new[k] = [w |-> Owner(next[n]), q |-> k - 1]
      BY <1>1, <1>2, <1>8 DEF Delivered, NextOf, Base, Owner
    <3>1. Owner(next[n]) = Owner(n) /\ Base(next[n]) = Base(n) + QSET_SIZE
      <4>1. data[next[n]][0] = [w |-> Owner(n), q |-> Base(n) + QSET_SIZE]
        BY <2>1, StoreInvShape DEF WalkInv, ListShape
      <4> QED BY <4>1 DEF Owner, Base
    <3>2. Len(new) = Base(next[n])
      BY <1>3, <1>4, <2>1, <3>1
    <3>3. ASSUME NEW k \in 1 .. Len(new) PROVE new[k] = [w |-> Owner(n), q |-> k - 1]
      <4>1. CASE k <= Len(old)
        BY <1>4, <2>1, <4>1
      <4>2. CASE k > Len(old)
        <5>1. /\ k - Len(old) \in 1 .. Len(more) /\ Len(old) + (k - Len(old)) = k
              /\ Base(n) + (k - Len(old)) - 1 = k - 1
          BY <1>3, <1>4, <2>1, <4>2
        <5> QED BY <1>4, <2>4, <5>1
      <4> QED BY <1>4, <4>1, <4>2
    <3> QED BY <3>1, <3>2, <3>3
  <2>8. WalkAt(t)'
    BY <1>2, <2>7 DEF WalkAt, Numbered
  <2>9. /\ \A u \in Task : WalkAt(u)'
        /\ \A u \in Task : AbstractFrom(u)' = AbstractFrom(u)
    BY <1>1, <2>6, <2>8, WalkFrame
  <2>10. old # << >> => old[Len(old)] # WILD
    BY <1>2, <2>3
  <2>11. \A k \in 1 .. Len(more) :
            \/ more[k] = WILD
            \/ /\ more[k] = [w |-> AbstractFrom(t), q |-> Len(old) + k - 1]
               /\ k > 1 => more[k - 1] # WILD
               /\ k = 1 /\ old # << >> => old[Len(old)] # WILD
    BY <2>1, <2>4, <2>6, <2>10
  <2>12. Refined
    <3>1. Follows(t, more)
      BY <1>2, <2>11 DEF Follows
    <3> QED BY <1>9, <2>9, <3>1, Delivers
  <2> QED
    BY <2>9, <2>12
<1> QED
  BY <1>7, <1>8

LEMMA WalkStep == WalkInv /\ [Next]_vars => WalkInv' /\ Refined
<1> SUFFICES ASSUME WalkInv, [Next]_vars PROVE WalkInv' /\ Refined
  OBVIOUS
<1>1. StoreInv'
  BY StoreInvStep DEF WalkInv
<1>2. CASE UNCHANGED vars
  <2>1. \A u \in Task : WalkAt(u)' /\ AbstractFrom(u)' = AbstractFrom(u)
    BY <1>2 DEF vars, WalkInv, WalkAt, Numbered, Delivered, Base, Owner, AbstractFrom
  <2>2. Cell' = Cell /\ out' = out
    BY <1>2 DEF vars, Cell, Owner
  <2> QED
    BY <1>1, <2>1, <2>2, Stutters DEF WalkInv
<1>3. ASSUME NEW t \in Task,
             Calls(t) \/ WriteStep(t) \/ WriteReturn(t) \/ ReadLoad(t) \/ ReadStep(t)
      PROVE  (\A u \in Task : WalkAt(u)') /\ Refined
  <2>1. CASE Calls(t)
    BY <2>1, CallsWalk
  <2>2. CASE WriteStep(t)
    BY <2>2, WriteNodeWalk, WriteEndsWalk DEF WriteStep
  <2>3. CASE WriteReturn(t)
    BY <2>3, SlightFrame, LeaveWalk DEF WriteReturn, Goto, Forget
  <2>4. CASE ReadLoad(t)
    BY <2>4, ReadLoadWalk
  <2>5. CASE ReadCheck(t)
    BY <2>5, ReadCheckWalk
  <2>6. CASE ReadNode(t)
    BY <2>6, ReadNodeWalk
  <2>7. CASE ReadFault(t)
    BY <2>7, SlightFrame, LeaveWalk DEF ReadStep, ReadFault, Goto, locals
  <2>8. CASE ReadReturn(t)
    BY <2>8, SlightFrame, LeaveWalk DEF ReadStep, ReadReturn, Goto, Forget
  <2> QED
    BY <1>3, <2>1, <2>2, <2>3, <2>4, <2>5, <2>6, <2>7, <2>8 DEF ReadStep
<1>4. CASE Next
  BY <1>1, <1>3, <1>4 DEF Next, WalkInv
<1> QED
  BY <1>2, <1>4

LEMMA WalkInit == Init => WalkInv
BY StoreInvInit DEF Init, WalkInv, WalkAt, Numbered, Delivered

LEMMA RegisterInit == Init => Register!Init
<1> SUFFICES ASSUME Init PROVE Register!Init
  OBVIOUS
<1>1. head \notin Node
  BY StoreAssumption DEF Init, UnsetHead, StoreAssumption
<1>2. \A t \in Task : AbstractFrom(t) = 0
  BY DEF Init, AbstractFrom
<1> QED
  BY <1>1, <1>2 DEF Init, Register!Init

(***************************************************************************)
(* scull_write and scull_read of driver_2, for any number of tasks and     *)
(* writes, any memory and any counts, implement the register: every step   *)
(* of a handler is one of its steps or none.                               *)
(***************************************************************************)
THEOREM StoreImplementsRegister == Spec => ImplementsRegister
<1> QED
  BY WalkInit, RegisterInit, WalkStep, PTL DEF Spec, ImplementsRegister, Register!Spec, Refined
=============================================================================
