----------------------------- MODULE ScullSync -----------------------------
(***************************************************************************)
(* char_driver/driver_sync: the device of ScullStore with a completion.    *)
(* scull_write calls complete() before it returns, scull_read waits for a  *)
(* completion before it takes the list, so a read uses up a write.         *)
(* Everything else is ScullStore's, step for step.                         *)
(***************************************************************************)
EXTENDS ScullStore

VARIABLE done            \* my_completion.done

syncVars == <<vars, done>>

SyncTypeOK == TypeOK /\ done \in Nat

\* Mutation: the completion is initialised as already completed.
SyncInitDone == Init /\ done = 1

\* hello_init: init_completion.
SyncInit == Init /\ done = 0

\* Mutation: complete() is left out.
NotCompleted(n) == n

\* Line 81: complete() wakes one waiting reader, now or when one comes.
Completed(n) == n + 1

SyncWriteReturn(t) ==
    /\ WriteReturn(t)
    /\ done' = Completed(done)

\* Mutation: the wait is left out.
PassFreely(n) == TRUE

\* Line 105: wait_for_completion, which no signal interrupts; then line 112,
\* where the list is taken.
MayPass(n) == n > 0

SyncReadLoad(t) ==
    /\ MayPass(done)
    /\ done' = done - 1
    /\ ReadLoad(t)

SyncNext == \E t \in Task :
    \/ (Calls(t) \/ WriteStep(t) \/ ReadStep(t)) /\ UNCHANGED done
    \/ SyncWriteReturn(t)
    \/ SyncReadLoad(t)

\* The kernel runs a task that can run; whether a task calls is its own affair.
Progress(t) ==
    \/ (WriteStep(t) \/ ReadStep(t)) /\ UNCHANGED done
    \/ SyncWriteReturn(t)
    \/ SyncReadLoad(t)

SyncSpec == SyncInit /\ [][SyncNext]_syncVars
FairSyncSpec == SyncSpec /\ \A t \in Task : WF_syncVars(Progress(t))
-----------------------------------------------------------------------------
(***************************************************************************)
(* When writes are not empty, a read that got past wait_for_completion has *)
(* a real list in its hand, and so has every read a completion is there    *)
(* for: it never meets the null or uninitialised scullqset of a device     *)
(* nothing was written to, which ScullStore's reads do.                    *)
(***************************************************************************)
NoEmptyWrites == 0 \notin WriteCounts

ReadAfterPublish ==
    NoEmptyWrites =>
        /\ done > 0 => head \in Node
        /\ \A t \in Task : pc[t] = "r_check" => cur[t] \in Node

(***************************************************************************)
(* When moreover a read asks for no more than any write provides and for   *)
(* no more than one node holds, it can never fault, although the list it   *)
(* walks may be under construction by another writer: the first node is    *)
(* complete before it is published.                                        *)
(***************************************************************************)
OneNodeReads == \A r \in ReadCounts : r <= QUANTUM_SIZE * QSET_SIZE

NoReadFault ==
    NoEmptyWrites /\ ReadsFit /\ OneNodeReads =>
        \A t \in Task : pc[t] = "r_walk" /\ cnt[t] > 0 => ~Faults(t)

(***************************************************************************)
(* A write that goes on while a read waits lets some read through, unless  *)
(* the kernel kills the writer: a completion is not lost, whoever else is  *)
(* waiting or arrives meanwhile.                                           *)
(***************************************************************************)
WriteLetsReadThrough ==
    \A w, r \in Task :
        (pc[w] \in Writing /\ pc[r] = "r_enter") ~>
            (pc[w] = "dead" \/ \E t \in Task : pc[t] \in {"r_check", "r_walk"})
=============================================================================
