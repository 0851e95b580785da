----------------------------- MODULE ScullIoctl -----------------------------
(***************************************************************************)
(* ioctl_driver: ScullModule's life cycle with calls that store and fetch  *)
(* a message, and ioctls that change the quantum.  A write cuts the        *)
(* message into quanta of the size it loads when it begins, a read puts it *)
(* together by the size it loads when it begins, and the ioctl changes the *)
(* first device's size whichever device the caller has open.               *)
(*                                                                         *)
(* As in ScullStore a step is one node and nothing is locked: a write      *)
(* publishes its first node, links the others behind it and ends the list  *)
(* when it has them all, and a read walks whatever list it has taken.      *)
(* ScullStore shows that a link never leaves a write; so a list is named   *)
(* here by its write, and its nodes are numbered.  A device is read after  *)
(* it was written, as application.c does (ScullStore has the other reads). *)
(***************************************************************************)
EXTENDS ScullModule, ScullLayout

CONSTANTS Settable,    \* quanta that SCULL_IOC_SQUANTUM is given
          Privileged,  \* the tasks with CAP_SYS_ADMIN
          Count,       \* the message's bytes (104 in application.c)
          DataLoads,   \* bound: loads of ioctl_driver (the others: MaxLoads)
          MaxWrites,   \* bound: calls of ioctl_driver's scull_write in the script's order
          LooseWrites, \* ... and in any other
          NULL,        \* a null pointer
          WILD         \* an uninitialised pointer

ASSUME IoctlAssumption ==
    /\ Settable \subseteq Nat /\ Privileged \subseteq Task /\ Count \in Nat \ {0}
    /\ DataLoads \in Nat /\ MaxWrites \in Nat /\ LooseWrites \in 0 .. MaxWrites
    /\ NULL \notin Nat /\ WILD \notin Nat /\ NULL # WILD /\ NONE \notin Nat

VARIABLES quantum,  \* sculldev->quantum, the first device's
          tuned,    \* history: SCULL_IOC_SQUANTUM was carried out on this load
          head,     \* the devices' scullqset: the write that made the list, or NONE
          list,     \* a write's list: its quantum, its nodes so far, whether it ends
          writes,   \* the writes begun
          call,     \* tasks in a call: "write" or "read"
          lq,       \* ... its lquantum
          on,       \* ... the write whose list it builds or walks
          rest,     \* reads: lcount
          at,       \* reads: temp1, the number of a node or a pointer to none
          got,      \* history: what the read got: "intact" or "torn" bytes, or
                    \* "astray": it went on behind the list
          whole     \* history: the list it took had its end

walk == <<on, rest, at>>
data == <<quantum, tuned, head, list, writes, call, lq, walk, got, whole>>

Lists == 1 .. MaxWrites

DataInit ==
    /\ Init
    /\ quantum = QUANTUM_SIZE /\ tuned = FALSE
    /\ head = [b \in [load : 1 .. MaxLoads, dev : 0 .. MaxNod - 1] |-> NONE]
    /\ list = [w \in Lists |-> [q |-> 0, len |-> 0, ended |-> FALSE]]
    /\ writes = 0
    /\ call = [t \in Task |-> "none"]
    /\ lq = [t \in Task |-> 0]
    /\ on = [t \in Task |-> 0]
    /\ rest = [t \in Task |-> 0]
    /\ at = [t \in Task |-> 0]
    /\ got = [t \in Task |-> "none"]
    /\ whole = [t \in Task |-> FALSE]

\* Nodes, filled quanta and copied slots are ScullLayout's Qsets, FilledSlots and
\* ReadSlots, with the quantum q for QUANTUM_SIZE.
QsetsBy(q)   == CeilDiv(CeilDiv(Count, q), QSET_SIZE)
Fills(q, k)  == q * k <= Count
Slots(q, r)  == {i \in Slot : q * i < r}
RestBy(q, r) == IF r > q * QSET_SIZE THEN r - q * QSET_SIZE ELSE 0

\* What is copied by qr from quantum k of a message cut by qw is in its place.
SameBytes(qw, qr, k) ==
    \A o \in 0 .. qr - 1 : qr * k + o < Count => o < qw /\ qw * k = qr * k

\* Mutation: the last node points to itself.
NextRing(l, j) == IF j + 1 < l.len THEN j + 1 ELSE IF l.ended THEN j ELSE WILD

\* The next pointer of node j.
NextOf(l, j) == IF j + 1 < l.len THEN j + 1 ELSE IF l.ended THEN NULL ELSE WILD

\* Mutation: every device has the first one's quantum.
QuantumShared(b) == quantum

QuantumOf(b) == IF b = This(0) THEN quantum ELSE QUANTUM_SIZE
-----------------------------------------------------------------------------
(***************************************************************************)
(* The calls.                                                              *)
(***************************************************************************)
InCall(t, what) == pc[t] = "call" /\ call[t] = what /\ ~Gone(file[t])

\* A call loads the quantum of its device.
Begin(t, what, w) ==
    /\ BeginCall(t) /\ ~Broken(file[t])
    /\ call' = [call EXCEPT ![t] = what]
    /\ lq' = [lq EXCEPT ![t] = QuantumOf(file[t])]
    /\ on' = [on EXCEPT ![t] = w]
    /\ UNCHANGED <<quantum, tuned, head>>

\* A call's local variables go with it.
Forget(t) ==
    /\ call' = [call EXCEPT ![t] = "none"]
    /\ lq' = [lq EXCEPT ![t] = 0]
    /\ on' = [on EXCEPT ![t] = 0]
    /\ rest' = [rest EXCEPT ![t] = 0]
    /\ at' = [at EXCEPT ![t] = 0]
    /\ UNCHANGED <<quantum, tuned, head, writes>>

Return(t) ==
    /\ EndCall(t) /\ pc'[t] = "open"
    /\ Forget(t)
    /\ got' = [got EXCEPT ![t] = "none"]
    /\ whole' = [whole EXCEPT ![t] = FALSE]

\* The kernel kills the process for its fault and closes its file.
Killed(t) ==
    /\ Enter(t, "killed")
    /\ Put(t)
    /\ Forget(t)
    /\ UNCHANGED <<fixed, loads, phase, todo, array, region, map, made, entry, file, proc,
                   dirty, list, whole>>

\* What a call does in memory that is another's is not followed.
Stray(t) == BeginCall(t) /\ Broken(file[t]) /\ UNCHANGED data

StrayReturn(t) == call[t] = "none" /\ EndCall(t) /\ UNCHANGED data

\* A call goes on in a module that is gone, or publishes in an array that is.
Faults(t) ==
    /\ call[t] # "none" /\ EndCall(t) /\ pc'[t] = "dead"
    /\ Gone(file[t]) \/ (call[t] = "write" /\ list[on[t]].len = 0)
    /\ Forget(t)
    /\ UNCHANGED <<list, got, whole>>

\* Lines 30-44 ...
WriteCall(t) ==
    /\ writes < IF script THEN MaxWrites ELSE LooseWrites
    /\ writes' = writes + 1
    /\ Begin(t, "write", writes')
    /\ list' = [list EXCEPT ![writes'].q = lq'[t]]
    /\ UNCHANGED <<rest, at, got, whole>>

\* ... line 45 divides by lquantum ...
WriteDivides(t) == InCall(t, "write") /\ lq[t] = 0 /\ Killed(t) /\ UNCHANGED got

Unfinished(t) == InCall(t, "write") /\ lq[t] > 0 /\ list[on[t]].len < QsetsBy(lq[t])

\* ... lines 50-71, one turn: a node is filled, and published or linked ...
WriteNode(t) ==
    /\ Unfinished(t)
    /\ list' = [list EXCEPT ![on[t]].len = @ + 1]
    /\ head' = IF list[on[t]].len = 0 THEN [head EXCEPT ![file[t]] = on[t]] ELSE head
    /\ UNCHANGED <<vars, quantum, tuned, writes, call, lq, walk, got, whole>>

\* ... or kmalloc gives nothing, and the list stays as it is ...
WriteOom(t) == Unfinished(t) /\ Killed(t) /\ UNCHANGED got

\* ... and lines 73-96: the list is ended.
WriteReturn(t) ==
    /\ InCall(t, "write") /\ lq[t] > 0 /\ list[on[t]].len = QsetsBy(lq[t])
    /\ Return(t)
    /\ list' = [list EXCEPT ![on[t]].ended = TRUE]

\* Lines 98-114: the list is taken; scullqset is never null again.
ReadCall(t) ==
    /\ pc[t] = "open" /\ head[file[t]] # NONE
    /\ Begin(t, "read", head[file[t]])
    /\ rest' = [rest EXCEPT ![t] = Count]
    /\ at' = [at EXCEPT ![t] = 0]
    /\ got' = [got EXCEPT ![t] = "intact"]
    /\ whole' = [whole EXCEPT ![t] = list[head[file[t]]].ended]
    /\ UNCHANGED <<list, writes>>

Walks(t)  == InCall(t, "read") /\ rest[t] > 0
OnNode(t) == at[t] \notin {NULL, WILD}

\* The quanta that the turn at a node copies.
Copied(t) == {QSET_SIZE * at[t] + i : i \in Slots(lq[t], rest[t])}

\* A slot that was not filled is met.  (Copying no bytes from it goes well.)
MeetsUnset(t) == OnNode(t) /\ lq[t] > 0 /\ \E k \in Copied(t) : ~Fills(list[on[t]].q, k)

CopiesIntact(t) ==
    ~MeetsUnset(t) /\ \A k \in Copied(t) : SameBytes(list[on[t]].q, lq[t], k)

\* Lines 115-125, one turn.
ReadNode(t) ==
    /\ Walks(t) /\ OnNode(t)
    /\ got' = [got EXCEPT ![t] = IF CopiesIntact(t) THEN @ ELSE "torn"]
    /\ rest' = [rest EXCEPT ![t] = RestBy(lq[t], @)]
    /\ at' = [at EXCEPT ![t] = NextOf(list[on[t]], @)]
    /\ UNCHANGED <<vars, quantum, tuned, head, list, writes, call, lq, on, whole>>

\* The same behind an uninitialised pointer, if there is anything ...
ReadAstray(t) ==
    /\ Walks(t) /\ at[t] = WILD
    /\ got' = [got EXCEPT ![t] = "astray"]
    /\ rest' = [rest EXCEPT ![t] = RestBy(lq[t], @)]
    /\ UNCHANGED <<vars, quantum, tuned, head, list, writes, call, lq, on, at, whole>>

\* ... or the fault of following one, or null, or what an unset slot holds.
ReadFault(t) ==
    /\ Walks(t) /\ (~OnNode(t) \/ MeetsUnset(t))
    /\ Killed(t)
    /\ got' = [got EXCEPT ![t] = IF OnNode(t) THEN "torn" ELSE "astray"]

ReadReturn(t) ==
    /\ InCall(t, "read") /\ rest[t] = 0
    /\ Return(t)
    /\ UNCHANGED list
-----------------------------------------------------------------------------
(***************************************************************************)
(* ioctl.  SCULL_IOC_TQUANTUM tells the quantum and the other numbers do   *)
(* nothing: neither changes the driver's state.                            *)
(***************************************************************************)
SetQuantum(q) == quantum' = q /\ UNCHANGED <<head, list, writes, call, lq, walk, got, whole>>

\* Lines 196-201, for anybody; qset has not changed.
Reset(t) == SetQuantum(QUANTUM_SIZE) /\ UNCHANGED tuned

\* Lines 203-214; where the user's pointer is bad, __get_user stores 0.
SQuantum(t) ==
    /\ t \in Privileged
    /\ \E q \in Settable \cup {0} : SetQuantum(q)
    /\ tuned' = TRUE

Ioctl(t) ==
    /\ pc[t] = "open"
    /\ \/ ~Gone(file[t]) /\ (Reset(t) \/ SQuantum(t)) /\ UNCHANGED pc
       \/ (Broken(file[t]) \/ Broken(This(0))) /\ Enter(t, "dead") /\ UNCHANGED data
    /\ UNCHANGED <<fixed, loads, phase, todo, array, kernel, file, proc, dirty>>
-----------------------------------------------------------------------------
NewArray ==
    /\ Insmod
    /\ driver = "ioctl_driver" => loads < DataLoads
    /\ quantum' = QUANTUM_SIZE /\ tuned' = FALSE
    /\ UNCHANGED <<head, list, writes, call, lq, walk, got, whole>>

Opens(t) == Opening(t) /\ UNCHANGED data

\* What the life cycle and the users do beside the calls.
Around ==
    \/ Loading \/ Rmmod \/ Unloading \/ TakeMemory \/ MakeNode
    \/ \E r \in Reader : Reading(r)

WriteStep(t) == WriteDivides(t) \/ WriteNode(t) \/ WriteOom(t) \/ WriteReturn(t)
ReadStep(t)  == ReadNode(t) \/ ReadAstray(t) \/ ReadFault(t) \/ ReadReturn(t)
DataStep(t)  == StrayReturn(t) \/ Faults(t) \/ WriteStep(t) \/ ReadStep(t)

\* The other drivers' calls store data in the same way, with a quantum that
\* never changes.
PlainCalls == driver # "ioctl_driver" /\ (\E t \in Task : Calls(t)) /\ UNCHANGED data

DataNext ==
    \/ NewArray
    \/ Around /\ UNCHANGED data
    \/ PlainCalls
    \/ \E t \in Task : Opens(t)
    \/ /\ driver = "ioctl_driver"
       /\ \E t \in Task : WriteCall(t) \/ ReadCall(t) \/ Stray(t) \/ DataStep(t) \/ Ioctl(t)

DataSpec ==
    /\ DataInit /\ [][DataNext]_<<vars, data>>
    /\ Fairness
    /\ \A t \in Task : WF_<<vars, data>>(DataStep(t))
-----------------------------------------------------------------------------
(***************************************************************************)
(* On a device that no ioctl has reached, while its memory is there, every *)
(* byte that a read copies from the list is the message's byte of that     *)
(* place, whoever writes meanwhile, and a read leaves the list with bytes  *)
(* still wanted only if the list had no end yet when it was taken: beside  *)
(* a write, or after one that ran out of memory, it can get garbage or be  *)
(* killed (line 124), and a read of a finished list cannot.  No call there *)
(* divides by a quantum of 0.  The ioctl reaches the first device only,    *)
(* and open finds the last.                                                *)
(***************************************************************************)
ReadsAsWritten ==
    ~dirty => \A t \in Task : Current(file[t]) /\ ~(tuned /\ file[t].dev = 0) =>
        /\ got[t] # "torn"
        /\ got[t] = "astray" => ~whole[t]
        /\ call[t] # "none" => lq[t] > 0

(***************************************************************************)
(* Every call of ioctl_driver ends, or its process is killed, with a       *)
(* quantum of 0 too, with which lcount never goes down: the walk comes to  *)
(* the end of the list.  Only if the list has none can it go on for ever,  *)
(* as nobody knows where the pointer at its last node leads.               *)
(***************************************************************************)
CallsEnd ==
    driver = "ioctl_driver" => \A t \in Task :
        pc[t] = "call" ~> pc[t] # "call" \/ (lq[t] = 0 /\ at[t] = WILD)
=============================================================================
