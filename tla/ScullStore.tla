----------------------------- MODULE ScullStore -----------------------------
(***************************************************************************)
(* The scull memory device of char_driver/driver_2: tasks that open the    *)
(* device, write and read it concurrently through scull_write and          *)
(* scull_read, which take no lock.  A write builds a new list of nodes,    *)
(* publishes its first node in scullqset and links the others behind it;   *)
(* a read walks whatever list it finds.  Nothing is ever freed.            *)
(*                                                                         *)
(* A step is one node: what a writer does between two stores that another  *)
(* task can see, and what a reader does between two nodes (a published     *)
(* node's data never changes, so copying its slots commutes with every     *)
(* other step).  Stores are seen in program order, as on the x86 machines  *)
(* the drivers are built for.                                              *)
(***************************************************************************)
EXTENDS ScullLayout, Sequences

CONSTANTS Task,          \* the processes that use the device
          Node,          \* the memory: the nodes kmalloc can hand out
          NULL,          \* a null pointer
          WILD,          \* an uninitialised pointer, or what is found behind one
          WriteCounts,   \* byte counts of writes
          ReadCounts,    \* byte counts of reads
          MaxWrites      \* bound: the writes of a behaviour

\* The contents of a quantum: which quantum of the buffer of which write.
Quantum == [w : Nat, q : Nat]

ASSUME StoreAssumption ==
    /\ NULL \notin Node /\ WILD \notin Node /\ NULL # WILD /\ WILD \notin Quantum
    /\ WriteCounts \subseteq Nat /\ ReadCounts \subseteq Nat
    /\ MaxWrites \in Nat

VARIABLES
    head,     \* lsculldev->scullqset
    used,     \* the nodes allocated so far
    data,     \* data[n][i]: the quantum slot i of node n holds
    next,     \* next[n]: the node's next pointer
    pc,       \* where each task is
    cnt,      \* writer: count; reader: lcount, the bytes still wanted
    idx,      \* writer: j, the nodes linked so far
    cur,      \* writer: temp2; reader: temp1
    wid,      \* writer: which write this is (names the contents)
    out,      \* reader: the quanta copied to the user so far
    writes    \* the writes started so far

vars == <<head, used, data, next, pc, cnt, idx, cur, wid, out, writes>>

Pointer == Node \cup {NULL, WILD}

Idle    == {"closed", "open", "dead"}
Writing == {"w_loop", "w_term", "w_ret"}
Reading == {"r_enter", "r_check", "r_walk"}

TypeOK ==
    /\ head \in Pointer
    /\ used \subseteq Node
    /\ data \in [Node -> [Slot -> Quantum \cup {WILD}]]
    /\ next \in [Node -> Pointer]
    /\ pc \in [Task -> Idle \cup Writing \cup Reading]
    /\ cnt \in [Task -> Nat]
    /\ idx \in [Task -> Nat]
    /\ cur \in [Task -> Pointer]
    /\ wid \in [Task -> Nat]
    /\ out \in [Task -> Seq(Quantum \cup {WILD})]
    /\ writes \in Nat
-----------------------------------------------------------------------------
\* hello_init kmallocs sculldev and sets quantum and qset only: scullqset is
\* whatever the allocator left there.
UnsetHead == {NULL, WILD}

Init ==
    /\ head \in UnsetHead
    /\ used = {}
    /\ data = [n \in Node |-> [i \in Slot |-> WILD]]
    /\ next = [n \in Node |-> WILD]
    /\ pc = [t \in Task |-> "closed"]
    /\ cnt = [t \in Task |-> 0]
    /\ idx = [t \in Task |-> 0]
    /\ cur = [t \in Task |-> WILD]
    /\ wid = [t \in Task |-> 0]
    /\ out = [t \in Task |-> << >>]
    /\ writes = 0

Goto(t, from, to) == pc[t] = from /\ pc' = [pc EXCEPT ![t] = to]

memory == <<head, used, data, next>>
locals == <<cnt, idx, cur, wid, out, writes>>

\* A call that returns forgets its local variables.
Forget(t) ==
    /\ cnt' = [cnt EXCEPT ![t] = 0]
    /\ idx' = [idx EXCEPT ![t] = 0]
    /\ cur' = [cur EXCEPT ![t] = WILD]
    /\ wid' = [wid EXCEPT ![t] = 0]
    /\ out' = [out EXCEPT ![t] = << >>]
    /\ UNCHANGED writes

\* scull_open, scull_release: the file's private_data is set and cleared.
Open(t)    == Goto(t, "closed", "open") /\ UNCHANGED <<memory, locals>>
Release(t) == Goto(t, "open", "closed") /\ UNCHANGED <<memory, locals>>
-----------------------------------------------------------------------------
(***************************************************************************)
(* scull_write.                                                            *)
(***************************************************************************)

\* Lines 39-47.  temp2 is not initialised; a count of 0 skips the loop.
WriteCall(t, c) ==
    /\ writes < MaxWrites
    /\ Goto(t, "open", IF c > 0 THEN "w_loop" ELSE "w_term")
    /\ writes' = writes + 1
    /\ wid' = [wid EXCEPT ![t] = writes + 1]
    /\ cnt' = [cnt EXCEPT ![t] = c]
    /\ UNCHANGED <<memory, idx, cur, out>>

\* Mutation: pos starts again in every node.
NodeDataPosReset(w, count, j) ==
    [i \in Slot |-> IF i \in FilledSlots(count, j)
                    THEN [w |-> w, q |-> i]
                    ELSE WILD]

\* The data array of a write's node j: quantum QSET_SIZE*j + i in slot i.
NodeData(w, count, j) ==
    [i \in Slot |-> IF i \in FilledSlots(count, j)
                    THEN [w |-> w, q |-> QSET_SIZE * j + i]
                    ELSE WILD]

\* Mutation: every node is published.
PublishEach(t, n) ==
    /\ head' = n
    /\ UNCHANGED next

\* Lines 60-69: the first node is published, the others linked to the last.
Publish(t, n) == 
    /\ idx[t] = 0
    /\ head' = n
    /\ UNCHANGED next
Link(t, n) == 
    /\ idx[t] > 0
    /\ next' = IF cur[t] \in Node THEN [next EXCEPT ![cur[t]] = n] ELSE next
    /\ UNCHANGED head

\* Lines 51-69: allocate a node, fill it, make it reachable.
WriteNode(t) ==
    /\ Goto(t, "w_loop", IF idx[t] + 1 < Qsets(cnt[t]) THEN "w_loop" ELSE "w_term")
    /\ \E n \in Node \ used :
          /\ used' = used \cup {n}
          /\ data' = [data EXCEPT ![n] = NodeData(wid[t], cnt[t], idx[t])]
          /\ Publish(t, n) \/ Link(t, n)
          /\ cur' = [cur EXCEPT ![t] = n]
    /\ idx' = [idx EXCEPT ![t] = idx[t] + 1]
    /\ UNCHANGED <<cnt, wid, out, writes>>

\* kmalloc's result is not checked: out of memory, the next store faults and
\* the kernel kills the task, its list published and not terminated.
WriteOom(t) ==
    /\ used = Node
    /\ Goto(t, "w_loop", "dead")
    /\ UNCHANGED <<memory, locals>>

\* Mutation: the list is not ended.
WriteTermForgotten(t) ==
    /\ Goto(t, "w_term", "w_ret")
    /\ cur[t] \in Node
    /\ UNCHANGED <<memory, locals>>

\* Line 72: temp2->next = NULL ends the list ...
WriteTerm(t) ==
    /\ Goto(t, "w_term", "w_ret")
    /\ cur[t] \in Node
    /\ next' = [next EXCEPT ![cur[t]] = NULL]
    /\ UNCHANGED <<head, used, data, locals>>

\* ... or, for a count of 0, is a store through what the stack held: in the
\* build it may fault, hit foreign memory, or cut a list at one of its nodes.
WriteTermWild(t) ==
    /\ cur[t] = WILD
    /\ \/ Goto(t, "w_term", "dead") /\ UNCHANGED next
       \/ Goto(t, "w_term", "w_ret") /\ UNCHANGED next
       \/ /\ Goto(t, "w_term", "w_ret")
          /\ \E n \in used : next' = [next EXCEPT ![n] = NULL]
    /\ UNCHANGED <<head, used, data, locals>>

WriteReturn(t) == Goto(t, "w_ret", "open") /\ Forget(t) /\ UNCHANGED memory
-----------------------------------------------------------------------------
(***************************************************************************)
(* scull_read.                                                             *)
(***************************************************************************)
ReadCall(t, c) ==
    /\ Goto(t, "open", "r_enter")
    /\ cnt' = [cnt EXCEPT ![t] = c]
    /\ UNCHANGED <<memory, idx, cur, wid, out, writes>>

\* Line 108: the list is taken ...
ReadLoad(t) ==
    /\ Goto(t, "r_enter", "r_check")
    /\ cur' = [cur EXCEPT ![t] = head]
    /\ UNCHANGED <<memory, cnt, idx, wid, out, writes>>

\* ... and lines 111-112 test scullqset, not the pointer that was taken: a race
\* with publication, in which the compiler may read again or use what it has.
ReadCheck(t) ==
    /\ \E seen \in {head, cur[t]} :
          \/ seen = NULL /\ Goto(t, "r_check", "open") /\ Forget(t)
          \/ seen # NULL /\ Goto(t, "r_check", "r_walk") /\ UNCHANGED locals
    /\ UNCHANGED memory

\* What is found behind a pointer that is not null.
DataOf(n) == IF n \in Node THEN data[n] ELSE [i \in Slot |-> WILD]
NextOf(n) == IF n \in Node THEN next[n] ELSE WILD

\* The quanta copied from a node, in the order of its slots.
Copied(n, rest) ==
    LET count == IF rest > QUANTUM_SIZE * QSET_SIZE
                 THEN QSET_SIZE ELSE Quanta(rest)
    IN  [k \in 1 .. count |-> DataOf(n)[k - 1]]

\* Lines 114-124, one turn of the outer loop.
ReadNode(t) ==
    /\ Goto(t, "r_walk", "r_walk")
    /\ cnt[t] > 0
    /\ cur[t] # NULL
    /\ out' = [out EXCEPT ![t] = @ \o Copied(cur[t], cnt[t])]
    /\ cnt' = [cnt EXCEPT ![t] = RestAfter(cnt[t])]
    /\ cur' = [cur EXCEPT ![t] = NextOf(cur[t])]
    /\ UNCHANGED <<memory, idx, wid, writes>>

\* A null list, or a wild pointer on the way, may fault: the task is killed.
Faults(t) ==
    \/ cur[t] = NULL
    \/ \E i \in ReadSlots(cnt[t]) : DataOf(cur[t])[i] = WILD

ReadFault(t) ==
    /\ cnt[t] > 0
    /\ Faults(t)
    /\ Goto(t, "r_walk", "dead")
    /\ UNCHANGED <<memory, locals>>

ReadReturn(t) ==
    /\ cnt[t] = 0
    /\ Goto(t, "r_walk", "open")
    /\ Forget(t)
    /\ UNCHANGED memory
-----------------------------------------------------------------------------
WriteStep(t) == WriteNode(t) \/ WriteOom(t) \/ WriteTerm(t) \/ WriteTermWild(t)
ReadStep(t)  == ReadCheck(t) \/ ReadNode(t) \/ ReadFault(t) \/ ReadReturn(t)
Calls(t) ==
    \/ Open(t) \/ Release(t)
    \/ \E c \in WriteCounts : WriteCall(t, c)
    \/ \E c \in ReadCounts : ReadCall(t, c)

Next == \E t \in Task :
            Calls(t) \/ WriteStep(t) \/ WriteReturn(t) \/ ReadLoad(t) \/ ReadStep(t)

Spec == Init /\ [][Next]_vars
-----------------------------------------------------------------------------
(***************************************************************************)
(* Properties.                                                             *)
(***************************************************************************)

\* The write a node belongs to and the first quantum it holds (its slot 0 is
\* always filled).
Owner(n) == data[n][0].w
Base(n)  == data[n][0].q

(***************************************************************************)
(* However writers interleave, a link never leaves a write: the node behind*)
(* n was filled by the same scull_write with the quanta that follow those  *)
(* of n, and n is full.  (Lines 60-72: two writers share scullqset only.)  *)
(***************************************************************************)
ListShape ==
    \A n \in used : next[n] \in Node =>
        /\ next[n] \in used
        /\ data[next[n]][0] = [w |-> Owner(n), q |-> Base(n) + QSET_SIZE]
        /\ \A i \in Slot : data[n][i] = [w |-> Owner(n), q |-> Base(n) + i]

(***************************************************************************)
(* A list that does not end yet (kmalloc leaves next uninitialised until   *)
(* line 67 or 72) ends at the node of a write that is still running, or    *)
(* that the kernel killed: no call returns leaving a wild pointer behind.  *)
(***************************************************************************)
UnterminatedOwned ==
    \A n \in used : next[n] = WILD =>
        \E t \in Task : /\ cur[t] = n /\ wid[t] = Owner(n)
                        /\ pc[t] \in {"w_loop", "w_term", "dead"}

(***************************************************************************)
(* A reader that asks for no more than every write provides never copies   *)
(* from a slot its node does not fill, whichever writes raced with it: the *)
(* slots scull_read counts by lcount are among those scull_write filled by *)
(* rcount, in every node of the walk (lines 53-59 against 114-124).        *)
(***************************************************************************)
ReadsFit == \A r \in ReadCounts, c \in WriteCounts : r <= c \/ c = 0

WalkCovered ==
    ReadsFit =>
        \A t \in Task : pc[t] = "r_walk" /\ cur[t] \in Node =>
            \A i \in ReadSlots(cnt[t]) : data[cur[t]][i] # WILD

(***************************************************************************)
(* The inductive invariant behind these.  Memory: every node allocated is  *)
(* some node of some write, and a link goes to that write's next node.     *)
(* Writers: what temp2 points to is the last node of the list being built. *)
(* Readers: the bytes still wanted and the bytes the walk is past add up   *)
(* to a count of the caller.                                               *)
(***************************************************************************)
Memory ==
    /\ head \in Node => head \in used /\ Base(head) = 0
    /\ \A n \in Node \ used : next[n] = WILD
    /\ \A n \in used :
          /\ Owner(n) \in Nat
          /\ \E c \in WriteCounts : \E j \in 0 .. Qsets(c) - 1 :
                data[n] = NodeData(Owner(n), c, j)
    /\ \A n \in used : next[n] \in Node =>
          /\ next[n] \in used
          /\ \E c \in WriteCounts : \E j \in 0 .. Qsets(c) - 2 :
                /\ data[n] = NodeData(Owner(n), c, j)
                /\ data[next[n]] = NodeData(Owner(n), c, j + 1)

WriterAt(t) ==
    /\ cnt[t] \in WriteCounts
    /\ pc[t] = "w_loop" => idx[t] < Qsets(cnt[t])
    /\ pc[t] = "w_term" => idx[t] = Qsets(cnt[t])
    /\ IF idx[t] = 0
       THEN cur[t] = WILD
       ELSE cur[t] \in used /\ data[cur[t]] = NodeData(wid[t], cnt[t], idx[t] - 1)

WritersAt == \A t \in Task : pc[t] \in {"w_loop", "w_term"} => WriterAt(t)

ReaderAt(t) ==
    /\ cur[t] \in Node => cur[t] \in used
    /\ pc[t] \in {"r_enter", "r_check"} => cnt[t] \in ReadCounts
    /\ pc[t] = "r_check" /\ cur[t] \in Node => Base(cur[t]) = 0
    /\ pc[t] = "r_walk" /\ cur[t] \in Node /\ cnt[t] > 0 =>
          cnt[t] + QUANTUM_SIZE * Base(cur[t]) \in ReadCounts

ReadersAt == \A t \in Task : pc[t] \in Reading => ReaderAt(t)

\* A call starts with its local variables unset (see Forget).
Fresh == \A t \in Task : pc[t] \in {"closed", "open", "r_enter"} => idx[t] = 0 /\ cur[t] = WILD

StoreInv ==
    TypeOK /\ Memory /\ WritersAt /\ ReadersAt /\ Fresh /\ UnterminatedOwned

\* The abstract device: one cell that a write replaces as a whole, reads that
\* deliver one write (ScullRegister).
AbstractFrom(t) ==
    IF pc[t] \notin {"r_check", "r_walk"} THEN 0
    ELSE IF out[t] = << >> THEN IF cur[t] \in Node THEN Owner(cur[t]) ELSE 0
    ELSE IF out[t][1] = WILD THEN 0 ELSE out[t][1].w

Register == INSTANCE ScullRegister WITH
    cell <- IF head \in Node THEN Owner(head) ELSE 0,
    from <- [t \in Task |-> AbstractFrom(t)],
    got  <- out

(***************************************************************************)
(* scull_write and scull_read, without a lock, implement that device: a    *)
(* read delivers consecutive quanta, from the first, of the one write that *)
(* was published when it took the list, and nothing real after garbage.    *)
(***************************************************************************)
ImplementsRegister == Register!Spec
=============================================================================
