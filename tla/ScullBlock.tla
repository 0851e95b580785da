----------------------------- MODULE ScullBlock -----------------------------
(***************************************************************************)
(* char_driver/ioblock_driver: the device of ScullStore with a wait queue. *)
(* scull_read sleeps until the global wait_flag is set; scull_write sets   *)
(* it and wakes the queue; the read clears it at its end.  The readers and *)
(* writers are the programs reader.c and writer.c.                         *)
(*                                                                         *)
(* The module is loaded with NOD devices, which hello_init adds to the     *)
(* kernel under the same number, so that open finds the last one added.    *)
(* All files are of that device, but a reader sleeps on sculldev[0].       *)
(***************************************************************************)
EXTENDS ScullStore

CONSTANTS Readers, Writers,   \* the tasks that run reader.c and writer.c
          NOD                 \* the module parameter nod

ASSUME BlockAssumption == /\ Readers \cup Writers = Task
                          /\ NOD \in Nat \ {0}

VARIABLES wait_flag,     \* the global flag
          raised,        \* raised[t]: writer t has set it and not woken the queue yet
          asleep,        \* the readers on sculldev[0].my_queue
          unread         \* history: no read has begun since the flag was last set

waiting == <<wait_flag, raised, asleep, unread>>
blockVars == <<vars, waiting>>

BlockTypeOK ==
    /\ TypeOK
    /\ wait_flag \in {0, 1}
    /\ raised \in [Task -> BOOLEAN]
    /\ asleep \subseteq Readers
    /\ unread \in BOOLEAN

BlockInit ==
    /\ Init
    /\ wait_flag = 0
    /\ raised = [t \in Task |-> FALSE]
    /\ asleep = {}
    /\ unread = FALSE

\* Mutation: open resolves to the device after the last one added.
BoundPastLast == NOD

\* The device that open resolves to: kobj_map finds the newest of equal ranges.
BoundDevice == NOD - 1
\* The device whose queue a reader sleeps on (line 90).
QueueOfReader == 0
-----------------------------------------------------------------------------
\* Mutation: the flag is set before the list is there.
RaiseFlagEarly(t) ==
    /\ pc[t] \in Writing
    /\ ~raised[t]
    /\ wait_flag' = 1
    /\ raised' = [raised EXCEPT ![t] = TRUE]
    /\ unread' = TRUE
    /\ UNCHANGED <<vars, asleep>>

\* Line 80: the flag is set ...
RaiseFlag(t) ==
    /\ pc[t] = "w_ret"
    /\ ~raised[t]
    /\ wait_flag' = 1
    /\ raised' = [raised EXCEPT ![t] = TRUE]
    /\ unread' = TRUE
    /\ UNCHANGED <<vars, asleep>>

\* Mutation: the writer clears the flag once it has woken the queue.
WakeQueueClears(t) ==
    /\ raised[t]
    /\ raised' = [raised EXCEPT ![t] = FALSE]
    /\ asleep' = IF BoundDevice = QueueOfReader THEN {} ELSE asleep
    /\ WriteReturn(t)
    /\ wait_flag' = 0
    /\ UNCHANGED unread

\* ... and line 81: the queue of lsculldev[0], the opened device, is woken.
WakeQueue(t) ==
    /\ raised[t]
    /\ raised' = [raised EXCEPT ![t] = FALSE]
    /\ asleep' = IF BoundDevice = QueueOfReader THEN {} ELSE asleep
    /\ WriteReturn(t)
    /\ UNCHANGED <<wait_flag, unread>>

\* Line 90: wait_event.  The condition is tested again once the task is on the
\* queue, so testing and going to sleep are one step.
Sleep(t) ==
    /\ pc[t] = "r_enter"
    /\ t \notin asleep
    /\ wait_flag = 0
    /\ asleep' = asleep \cup {t}
    /\ UNCHANGED <<vars, wait_flag, raised, unread>>

\* Lines 90 and 97: the condition holds, the list is taken.
BlockReadLoad(t) ==
    /\ t \notin asleep
    /\ wait_flag # 0
    /\ ReadLoad(t)
    /\ unread' = FALSE
    /\ UNCHANGED <<wait_flag, raised, asleep>>

\* The end of a read.
FlagAfterRead == 0

\* Line 113; the exit of line 101 jumps over it (ReadCheck).
BlockReadReturn(t) ==
    /\ ReadReturn(t)
    /\ wait_flag' = FlagAfterRead
    /\ UNCHANGED <<raised, asleep, unread>>

BlockCalls(t) ==
    \/ Open(t) \/ Release(t)
    \/ t \in Writers /\ \E c \in WriteCounts : WriteCall(t, c)
    \/ t \in Readers /\ \E c \in ReadCounts : ReadCall(t, c)

BlockSteps(t) ==
    \/ WriteStep(t) /\ UNCHANGED waiting
    \/ RaiseFlag(t)
    \/ WakeQueue(t)
    \/ Sleep(t)
    \/ BlockReadLoad(t)
    \/ (ReadCheck(t) \/ ReadNode(t) \/ ReadFault(t)) /\ UNCHANGED waiting
    \/ BlockReadReturn(t)

BlockNext == \E t \in Task :
    \/ BlockCalls(t) /\ UNCHANGED waiting
    \/ BlockSteps(t)

BlockSpec == BlockInit /\ [][BlockNext]_blockVars

\* The kernel runs a task that can run; whether a task calls is its own affair.
FairBlockSpec == BlockSpec /\ \A t \in Task : WF_blockVars(BlockSteps(t))
-----------------------------------------------------------------------------
(***************************************************************************)
(* With one device: whenever a reader sleeps although the flag is set, the *)
(* writer that set it has yet to wake the queue.  A wake-up is never spent *)
(* before the flag can be seen, nor a flag set that nobody announces       *)
(* (line 80 before line 81, and the retest of wait_event).                 *)
(***************************************************************************)
NoLostWakeup ==
    NOD = 1 /\ asleep # {} /\ wait_flag = 1 => \E t \in Writers : raised[t]

(***************************************************************************)
(* As long as the flag lets readers in, there is a list to be read: the    *)
(* flag is only ever set after a publication, and scullqset never returns  *)
(* to null.                                                                *)
(***************************************************************************)
FlagAfterPublish ==
    0 \notin WriteCounts =>
        /\ wait_flag = 1 => head \in Node
        /\ \A t \in Task : pc[t] \in {"r_check", "r_walk"} => head \in Node

(***************************************************************************)
(* A reader that sleeps while a write goes on wakes up, unless the kernel  *)
(* kills the writer: what reader.c:8 tells its user, "Waiting for writer". *)
(***************************************************************************)
WriterWakesReader ==
    \A r \in Readers, w \in Writers :
        (r \in asleep /\ pc[w] \in Writing) ~> (r \notin asleep \/ pc[w] = "dead")

(***************************************************************************)
(* The flag that a write sets for a sleeper is not lost, if no other read  *)
(* is under way when it is set: a read begins that takes the list of this  *)
(* write or of a later one, the sleeper's or that of a reader who came     *)
(* first.  A read that is under way takes the flag away at its end (line   *)
(* 113), and then the sleeper wakes up for nothing and sleeps again.       *)
(***************************************************************************)
SleeperReads ==
    \A r \in Readers, w \in Writers :
        (/\ r \in asleep /\ raised[w] /\ wait_flag = 1 /\ unread
         /\ \A s \in Readers : pc[s] \notin {"r_check", "r_walk"}) ~> ~unread
=============================================================================
