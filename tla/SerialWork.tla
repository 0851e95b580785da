----------------------------- MODULE SerialWork -----------------------------
(***************************************************************************)
(* serial_driver/serial_new: the line of SerialLine, with the polling moved*)
(* to a work queue.  serialport_write queues my_wq_func, which polls CTS   *)
(* and sets flag to 1, and sleeps until flag = 1; serialport_read queues   *)
(* my_rwq_func, which polls DSR and sets flag to 0, and sleeps until       *)
(* flag = 0.  Nothing takes a flag back: the writer waits for its first    *)
(* byte only, the reader never.  writer.c and reader.c run on a machine    *)
(* each, with a flag and a work queue each; both drivers can be unloaded.  *)
(***************************************************************************)
EXTENDS SerialLine

Machine == {"writer", "reader"}

VARIABLES
    flag,      \* flag[m]: the driver's flag on machine m
    queued,    \* queued[m]: m's work item is pending
    work,      \* work[m]: what m's work function is about to do
    module,    \* module[m]: whether the driver is loaded on m
    killed     \* writer.c has been sent a signal (^C) during its write

works    == <<flag, queued, work, module, killed>>
workVars == <<vars, works>>

WorkTypeOK ==
    /\ TypeOK
    /\ flag \in [Machine -> {0, 1}]
    /\ queued \in [Machine -> BOOLEAN]
    /\ work \in [Machine -> {"off", "look", "up"}]
    /\ module \in [Machine -> {"in", "leaving", "out"}]
    /\ killed \in BOOLEAN

WorkInit ==
    /\ Init
    /\ flag = [m \in Machine |-> 0]
    /\ queued = [m \in Machine |-> FALSE]
    /\ work = [m \in Machine |-> "off"]
    /\ module = [m \in Machine |-> "in"]
    /\ killed = FALSE

\* queue_work: a pending item is not queued twice, a running one is queued again.
QueueWork(m) == queued' = [queued EXCEPT ![m] = TRUE]
-----------------------------------------------------------------------------
(***************************************************************************)
(* serialport_write (lines 188-234).                                       *)
(***************************************************************************)

\* Lines 215-218.
QueueAndRaiseDtr ==
    /\ RaiseDtr
    /\ QueueWork("writer")
    /\ UNCHANGED <<flag, work, module, killed>>

\* Mutation: the writer waits for the other value.
AwaitOther ==
    /\ WriterGoes("cts", IF flag["writer"] = 0 THEN "send" ELSE "cts", 0)
    /\ UNCHANGED <<dtr, rts, rbr, sent, wruns, reader, works>>

\* Line 219: wait_event_interruptible.  That a signal ended it is not looked at.
AwaitFlag ==
    /\ WriterGoes("cts", IF flag["writer"] = 1 \/ killed THEN "send" ELSE "cts", 0)
    /\ UNCHANGED <<dtr, rts, rbr, sent, wruns, reader, works>>

Kill ==
    /\ wpc # "idle"
    /\ killed' = TRUE
    /\ UNCHANGED <<vars, flag, queued, work, module>>

\* Everything else is SerialLine's, line for line.
WriteRest == (SendByte \/ DropDtr \/ WriteReturn) /\ UNCHANGED works
-----------------------------------------------------------------------------
(***************************************************************************)
(* serialport_read (lines 137-186).                                        *)
(***************************************************************************)

\* Lines 166-167: nothing on this machine sets flag to 1.
QueueAndGoOn ==
    /\ ReaderGoes("dsr", IF flag["reader"] = 0 THEN "raise" ELSE "dsr", 0)
    /\ QueueWork("reader")
    /\ UNCHANGED <<dtr, rts, rbr, got, rruns, writer, flag, work, module, killed>>

\* Lines 174-178.  What was read before is read again until the next byte
\* comes; got records the bytes that differ from the one before.
TakeAgain ==
    /\ ReaderGoes("take", IF rbr = Dot THEN "idle" ELSE "drop", 0)
    /\ got' = IF got # << >> /\ got[Len(got)] = rbr THEN got ELSE Append(got, rbr)
    /\ UNCHANGED <<dtr, rts, rbr, rruns, writer, works>>

ReadRest == (RaiseRts \/ DropRts) /\ UNCHANGED works
-----------------------------------------------------------------------------
(***************************************************************************)
(* my_wq_func and my_rwq_func (lines 238-289).                             *)
(***************************************************************************)
InputLine(m) == IF m = "writer" THEN rts ELSE dtr

WorkStart(m) ==
    /\ queued[m] /\ work[m] = "off"
    /\ queued' = [queued EXCEPT ![m] = FALSE]
    /\ work' = [work EXCEPT ![m] = "look"]
    /\ UNCHANGED <<vars, flag, module, killed>>

\* MSR is read, and again after schedule(), until the line was up when it was ...
WorkLook(m) ==
    /\ work[m] = "look" /\ InputLine(m)
    /\ work' = [work EXCEPT ![m] = "up"]
    /\ UNCHANGED <<vars, flag, queued, module, killed>>

\* ... then flag is set and the queue woken.
WorkDone(m) ==
    /\ work[m] = "up"
    /\ work' = [work EXCEPT ![m] = "off"]
    /\ flag' = [flag EXCEPT ![m] = IF m = "writer" THEN 1 ELSE 0]
    /\ UNCHANGED <<vars, queued, module, killed>>
-----------------------------------------------------------------------------
\* rmmod comes after the program, as in the test script.  Nothing else keeps the
\* module: hello_init has cdev_init clear the owner (lines 26 and 35) ...
ProgramEnded(m) == IF m = "writer" THEN wpc = "idle" ELSE rpc = "idle"

Unload(m) ==
    /\ module[m] = "in" /\ ProgramEnded(m)
    /\ module' = [module EXCEPT ![m] = "leaving"]
    /\ UNCHANGED <<vars, flag, queued, work, killed>>

\* Mutation: the work queue is not flushed.
FlushedNot(m) ==
    /\ module[m] = "leaving"
    /\ module' = [module EXCEPT ![m] = "out"]
    /\ UNCHANGED <<vars, flag, queued, work, killed>>

\* ... and hello_exit waits for the work (lines 83-84).
Flushed(m) ==
    /\ module[m] = "leaving"
    /\ ~queued[m] /\ work[m] = "off"
    /\ module' = [module EXCEPT ![m] = "out"]
    /\ UNCHANGED <<vars, flag, queued, work, killed>>

WorkCalls ==
    \/ module["writer"] = "in" /\ WriteCall /\ UNCHANGED works
    \/ module["reader"] = "in" /\ ReadCall /\ UNCHANGED works
    \/ Kill
    \/ \E m \in Machine : Unload(m)

WriteWorkStep == QueueAndRaiseDtr \/ AwaitFlag \/ WriteRest
ReadWorkStep  == QueueAndGoOn \/ TakeAgain \/ ReadRest
WorkStep(m)   == WorkStart(m) \/ WorkLook(m) \/ WorkDone(m)

WorkNext ==
    \/ WorkCalls \/ WriteWorkStep \/ ReadWorkStep
    \/ \E m \in Machine : WorkStep(m) \/ Flushed(m)
    \/ Tick /\ UNCHANGED works

WorkSpec == WorkInit /\ [][WorkNext]_workVars

\* Processes and workers get to run, and time goes by.  A worker goes round its
\* loop many times in the second for which RTS stays up, so it does not miss a
\* line that keeps coming up.
FairWorkSpec ==
    /\ WorkSpec
    /\ WF_workVars(WriteWorkStep) /\ WF_workVars(ReadWorkStep)
    /\ \A m \in Machine : WF_workVars(WorkStep(m)) /\ WF_workVars(Flushed(m))
    /\ \A m \in Machine : SF_workVars(WorkLook(m))
    /\ WF_workVars(Tick /\ UNCHANGED works)
-----------------------------------------------------------------------------
(***************************************************************************)
(* The pace at which the reader, with four steps to a turn, keeps ahead of *)
(* the writer: a second and four steps take less than two seconds.         *)
(***************************************************************************)
WorkPace == 4 * Late < Second

(***************************************************************************)
(* Although the flags keep nobody waiting after the first byte, the first  *)
(* transfer loses nothing: the reader looks at RBR more often than the     *)
(* writer changes it, so that, repetitions aside, it reads the bytes 1, 2, *)
(* 3, ... in turn (after the 0 that RBR may hold before), unless a signal  *)
(* makes the writer go ahead without a reader.                             *)
(***************************************************************************)
NothingSkipped ==
    WorkPace /\ wruns <= 1 /\ rruns <= 1 /\ ~killed =>
        /\ got # << >> => got[1] \in {0, 1}
        /\ \A k \in 1 .. Len(got) - 1 : got[k + 1] = got[k] + 1

(***************************************************************************)
(* A read that runs beside a write returns, and so does the write: the     *)
(* first byte is held back until the reader is there, and the '.' stays in *)
(* RBR long enough to be seen.                                             *)
(***************************************************************************)
BothEnd ==
    (WorkPace /\ wruns = 1 /\ rruns = 1 /\ wpc # "idle" /\ rpc # "idle" /\ ~killed)
        ~> ((wpc = "idle" /\ rpc = "idle") \/ killed)

(***************************************************************************)
(* A write that is killed returns, reader or no reader (where the polling  *)
(* loop of serial_normal would go on for ever).                            *)
(***************************************************************************)
KilledEnds == killed ~> wpc = "idle"

(***************************************************************************)
(* No work function runs once the driver is gone, nor is one pending: the  *)
(* queue is flushed after the last program that could queue work has left, *)
(* if it has left before rmmod (lines 83-84 against 166 and 218).          *)
(***************************************************************************)
NoWorkAfterUnload ==
    \A m \in Machine : module[m] = "out" => work[m] = "off" /\ ~queued[m]

=============================================================================
