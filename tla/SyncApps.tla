------------------------------ MODULE SyncApps ------------------------------
(***************************************************************************)
(* The programs of char_driver/driver_sync over its driver: app1, app2 and *)
(* app3 each write a message under a System V semaphore that they share,   *)
(* and read the device after they gave the semaphore back.  The write and  *)
(* the read run in threads that main creates and joins at once, so a       *)
(* process is one sequential task; app1 differs from the others by setting *)
(* the semaphore first.  A process may be killed between two calls of the  *)
(* driver (inside one, nothing it waits for ends on a signal).             *)
(***************************************************************************)
EXTENDS ScullSync, FiniteSets

CONSTANTS App1,        \* the process that runs app1, if one does
          SizeOfCh1,   \* sizeof(ch) in app1 (26)
          SizeOfCh     \* sizeof(ch) in app2 and app3 (28)

\* A task writes once, and no thread is lost to the kernel for want of memory.
ASSUME EnoughMemory ==
    /\ App1 \in Task /\ {SizeOfCh1, SizeOfCh} \subseteq WriteCounts
    /\ IsFiniteSet(Task) /\ IsFiniteSet(Node)
    /\ MaxWrites = Cardinality(Task)
    /\ \A c \in WriteCounts : Cardinality(Task) * Qsets(c) <= Cardinality(Node)

\* The messages take one node, and slot for slot the same quanta.
Messages == {SizeOfCh1, SizeOfCh}

ASSUME MessageSizes ==
    \A r, c \in Messages : /\ c \in ReadCounts /\ c \in 1 .. QUANTUM_SIZE * QSET_SIZE
                           /\ ReadSlots(r) \subseteq FilledSlots(c, 0)

VARIABLES app,     \* where each process is
          sem,     \* the semaphore's value
          undo,    \* undo[t]: what the kernel adds to sem when t ends (SEM_UNDO)
          size,    \* size[t]: sizeof(ch), and c once it has written
          wrote    \* wrote[t]: which write was its own (history)

ipc     == <<app, sem, undo, size, wrote>>
appVars == <<syncVars, ipc>>

Critical == {"w_open", "w_call", "w_close", "v"}
Location == {"set", "p"} \cup Critical \cup {"r_open", "r_call", "r_close", "exit", "end"}

AppTypeOK ==
    /\ SyncTypeOK
    /\ \A t \in Task : pc[t] # "dead"
    /\ app \in [Task -> Location]
    /\ sem \in 0 .. 1
    /\ undo \in [Task -> 0 .. 1]
    /\ size \in [Task -> WriteCounts]
    /\ wrote \in [Task -> 0 .. MaxWrites]

\* Either semget has just created the set, with value 0, and one process runs
\* app1, or the set was left free by earlier programs and all run app2 or app3.
\* (An app1 that sets the semaphore while another process holds it is the one
\* case left out: it lets a second process in.)
AppInit ==
    /\ SyncInit
    /\ \/ /\ sem = 0
          /\ app  = [t \in Task |-> IF t = App1 THEN "set" ELSE "p"]
          /\ size = [t \in Task |-> IF t = App1 THEN SizeOfCh1 ELSE SizeOfCh]
       \/ /\ sem = 1
          /\ app  = [t \in Task |-> "p"]
          /\ size = [t \in Task |-> SizeOfCh]
    /\ undo  = [t \in Task |-> 0]
    /\ wrote = [t \in Task |-> 0]

Advance(t, from, to) == app[t] = from /\ app' = [app EXCEPT ![t] = to]
-----------------------------------------------------------------------------
(***************************************************************************)
(* semaphore.c, and what the kernel does for it.                           *)
(***************************************************************************)

\* set_sem_value: SETVAL also forgets every process's adjustment.
SetSem(t) ==
    /\ Advance(t, "set", "p")
    /\ sem' = 1
    /\ undo' = [u \in Task |-> 0]
    /\ UNCHANGED <<syncVars, size, wrote>>

\* Mutation: semop does not wait.
TakeAny(s) == TRUE
\* Mutation: sem_flg without SEM_UNDO.
NoUndo(u) == u

MayTake(s) == s > 0
TakeUndo(u) == u + 1
GiveUndo(u) == u - 1

\* A semop that fails, interrupted by SIGCONT or because the set is removed, is left
\* out: its result is not looked at (semaphore.c:37), and the program goes on.
SemaphoreP(t) ==
    /\ Advance(t, "p", "w_open")
    /\ MayTake(sem)
    /\ sem' = sem - 1
    /\ undo' = [undo EXCEPT ![t] = TakeUndo(@)]
    /\ UNCHANGED <<syncVars, size, wrote>>

SemaphoreV(t) ==
    /\ Advance(t, "v", "r_open")
    /\ sem' = sem + 1
    /\ undo' = [undo EXCEPT ![t] = GiveUndo(@)]
    /\ UNCHANGED <<syncVars, size, wrote>>

\* The kernel's part of a process's end: its adjustment, never below 0.
GiveBack(t) ==
    /\ sem' = IF sem + undo[t] > 0 THEN sem + undo[t] ELSE 0
    /\ undo' = [undo EXCEPT ![t] = 0]
    /\ UNCHANGED <<size, wrote>>
-----------------------------------------------------------------------------
(***************************************************************************)
(* write_driver, read_driver and the rest of main.                         *)
(***************************************************************************)
File(t, from, to, Call) ==
    Advance(t, from, to) /\ Call /\ UNCHANGED <<done, sem, undo>>

\* Lines 21-26 of app1.c.
WriteDriver(t) ==
    /\ \/ File(t, "w_open", "w_call", Open(t)) /\ UNCHANGED wrote
       \/ /\ File(t, "w_call", "w_close", WriteCall(t, size[t]))
          /\ wrote' = [wrote EXCEPT ![t] = writes']
       \/ File(t, "w_close", "v", Release(t)) /\ UNCHANGED wrote
    /\ UNCHANGED size

\* Lines 11-15: c is what the write left in it.
ReadDriver(t) ==
    /\ \/ File(t, "r_open", "r_call", Open(t))
       \/ File(t, "r_call", "r_close", ReadCall(t, size[t]))
       \/ File(t, "r_close", "exit", Release(t))
    /\ UNCHANGED <<size, wrote>>

\* main returns.
Exit(t) == Advance(t, "exit", "end") /\ GiveBack(t) /\ UNCHANGED syncVars

\* A signal kills the process; the kernel closes its file.
Kill(t) ==
    /\ app[t] # "end" /\ app' = [app EXCEPT ![t] = "end"]
    /\ pc[t] \in {"open", "closed"} /\ pc' = [pc EXCEPT ![t] = "closed"]
    /\ GiveBack(t)
    /\ UNCHANGED <<memory, locals, done>>

Driver(t) == Progress(t) /\ UNCHANGED ipc

Run(t) == SemaphoreV(t) \/ WriteDriver(t) \/ ReadDriver(t) \/ Exit(t) \/ Driver(t)

AppNext == \E t \in Task : SetSem(t) \/ SemaphoreP(t) \/ Run(t) \/ Kill(t)

AppSpec == AppInit /\ [][AppNext]_appVars

\* A started program runs on; semop serves the waiting processes in turn.
FairAppSpec ==
    /\ AppSpec
    /\ \A t \in Task : WF_appVars(Run(t)) /\ SF_appVars(SemaphoreP(t))
-----------------------------------------------------------------------------
(***************************************************************************)
(* The semaphore does what the driver leaves out: no two scull_writes run  *)
(* at a time, also when holders are killed and the kernel gives their unit *)
(* back.                                                                   *)
(***************************************************************************)
WritesExclusive ==
    \A t, u \in Task : pc[t] \in Writing /\ pc[u] \in Writing => t = u

(***************************************************************************)
(* The unit of the semaphore is neither lost nor doubled, whoever is       *)
(* killed where: a process holds it, or it is there to take (or it was     *)
(* never put there); an adjustment is pending for the holder alone.        *)
(***************************************************************************)
Holders == {t \in Task : app[t] \in Critical}

OneUnit ==
    /\ \A t, u \in Holders : t = u
    /\ Holders # {} => sem = 0
    /\ \A t \in Task : undo[t] = IF t \in Holders THEN 1 ELSE 0

(***************************************************************************)
(* A read goes without the semaphore, beside other processes' writes, and  *)
(* asks for the size of its own message.  Still it delivers its process's  *)
(* message or one written later, and never anything unset.                 *)
(***************************************************************************)
ReadsOwnOrNewer ==
    \A t \in Task : app[t] = "r_close" /\ pc[t] = "r_walk" =>
        /\ cnt[t] > 0 => ~Faults(t)
        /\ \A k \in DOMAIN out[t] : out[t][k] # WILD /\ out[t][k].w >= wrote[t]

(***************************************************************************)
(* Other reads may use up the completion of a process's write, but never   *)
(* leave its read without one: there is a completion for each process that *)
(* has written and not yet read, so no read of theirs waits.               *)
(***************************************************************************)
ToRead == {t \in Task :
    \/ app[t] = "w_close" /\ pc[t] = "open"
    \/ app[t] \in {"v", "r_open", "r_call"}
    \/ app[t] = "r_close" /\ pc[t] = "r_enter"}

NoReadWaits == Cardinality(ToRead) <= done

(***************************************************************************)
(* Once the semaphore was there to take, every process ends: nobody keeps  *)
(* it (killed or not) and nobody waits in the driver for ever.             *)
(***************************************************************************)
AllEnd == sem = 1 ~> \A t \in Task : app[t] = "end"
=============================================================================
