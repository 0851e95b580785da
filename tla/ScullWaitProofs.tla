-------------------------- MODULE ScullWaitProofs --------------------------
(***************************************************************************)
(* The drivers whose reads wait for a write.                               *)
(*                                                                         *)
(* With the completion of driver_sync, a read that fits in a node and asks *)
(* for no more than every write provides never faults, for any number of   *)
(* tasks and writes, although nothing keeps writers from running while it  *)
(* walks the list.  And the semaphore of driver_sync's programs keeps      *)
(* their writes apart, for any number of processes, killed at any point    *)
(* between their calls, so that each reads its own message or a later one. *)
(*                                                                         *)
(* ioblock_driver, for any number of readers, writers and writes: its      *)
(* variables are typed, a reader that sleeps although the flag is set will *)
(* be woken by the writer that set it (with one device), and the flag lets *)
(* no reader in before there is a list.                                    *)
(***************************************************************************)
EXTENDS SyncApps, ScullBlock, ScullStoreProofs, FiniteSetTheorems

\* The completion restricts when a list is taken and nothing else, so what
\* holds of driver_2 holds of driver_sync.
LEMMA SyncStepIsStoreStep == [SyncNext]_syncVars => [Next]_vars
BY DEF SyncNext, SyncWriteReturn, SyncReadLoad, syncVars, Next

(* The shared state keeps its shape and types in driver_sync too.           *)
THEOREM SyncStore == SyncSpec => []StoreInv
<1>1. SyncInit => StoreInv
  BY StoreInvInit DEF SyncInit
<1>2. StoreInv /\ [SyncNext]_syncVars => StoreInv'
  BY SyncStepIsStoreStep, StoreInvStep
<1> QED
  BY <1>1, <1>2, PTL DEF SyncSpec

(* The completion's count is never below zero: a read takes one from it only *)
(* when there is one.                                                        *)
THEOREM SyncTyped == SyncSpec => []SyncTypeOK
<1>1. SyncInit => StoreInv /\ SyncTypeOK
  BY StoreInvInit DEF SyncInit, SyncTypeOK, StoreInv
<1>2. StoreInv /\ SyncTypeOK /\ [SyncNext]_syncVars => StoreInv' /\ SyncTypeOK'
  <2> SUFFICES ASSUME StoreInv, SyncTypeOK, [SyncNext]_syncVars
               PROVE  StoreInv' /\ SyncTypeOK'
    OBVIOUS
  <2>1. StoreInv'
    BY SyncStepIsStoreStep, StoreInvStep
  <2>2. ASSUME NEW t \in Task, SyncWriteReturn(t) PROVE done' \in Nat
    BY <2>2 DEF SyncWriteReturn, Completed, SyncTypeOK
  <2>3. ASSUME NEW t \in Task, SyncReadLoad(t) PROVE done' \in Nat
    BY <2>3 DEF SyncReadLoad, MayPass, SyncTypeOK
  <2>4. done' \in Nat
    BY <2>2, <2>3 DEF SyncNext, syncVars, SyncTypeOK
  <2> QED
    BY <2>1, <2>4 DEF SyncTypeOK, StoreInv
<1> QED
  BY <1>1, <1>2, PTL DEF SyncSpec

(* driver_sync's device implements the register too: the completion keeps  *)
(* a read waiting and takes part in nothing that it delivers.              *)
THEOREM SyncImplementsRegister == SyncSpec => ImplementsRegister
<1>1. SyncInit => Init
  BY DEF SyncInit
<1> QED
  BY <1>1, SyncStepIsStoreStep, StoreImplementsRegister, PTL DEF SyncSpec, Spec

(***************************************************************************)
(* What the completion adds, when no write is empty: a completion stands   *)
(* for a write that has published its list, and a read past the wait has   *)
(* the list in its hand until it needs no more of it.                      *)
(***************************************************************************)
Gate ==
    /\ done \in Nat
    /\ done > 0 => head \in Node
    /\ \A t \in Task :
          /\ pc[t] = "w_loop" /\ idx[t] > 0 => head \in Node
          /\ pc[t] \in {"w_term", "w_ret"} => head \in Node
          /\ pc[t] = "r_check" => cur[t] \in Node
          /\ OneNodeReads /\ pc[t] = "r_walk" /\ cnt[t] > 0 => cur[t] \in Node

LEMMA GateStep ==
    ASSUME NoEmptyWrites, StoreInv, Gate, SyncNext
    PROVE  Gate'
<1> USE DEF memory, locals, Goto
<1>1. TypeOK
  BY DEF StoreInv
<1>2. head \in Node => head' \in Node
  BY StoreAssumption
     DEF SyncNext, SyncWriteReturn, SyncReadLoad, Calls, Open, Release, WriteCall,
         ReadCall, WriteStep, WriteNode, Publish, Link, WriteOom, WriteTerm,
         WriteTermWild, WriteReturn, ReadLoad, ReadStep, ReadCheck, ReadNode,
         ReadFault, ReadReturn
<1>3. PICK t \in Task :
         \/ (Calls(t) \/ WriteStep(t) \/ ReadStep(t)) /\ UNCHANGED done
         \/ SyncWriteReturn(t)
         \/ SyncReadLoad(t)
  BY DEF SyncNext
<1> DEFINE At(u) ==
      /\ pc[u] = "w_loop" /\ idx[u] > 0 => head \in Node
      /\ pc[u] \in {"w_term", "w_ret"} => head \in Node
      /\ pc[u] = "r_check" => cur[u] \in Node
      /\ OneNodeReads /\ pc[u] = "r_walk" /\ cnt[u] > 0 => cur[u] \in Node
\* Every step is of one task: the others keep what is said of them.
<1>4. ASSUME OthersKept(t), At(t)', done' \in Nat, done' > 0 => head' \in Node
      PROVE  Gate'
  <2>1. ASSUME NEW u \in Task PROVE At(u)'
    <3>1. CASE u = t
      BY <1>4, <3>1
    <3>2. CASE u # t
      <4>1. pc'[u] = pc[u] /\ cnt'[u] = cnt[u] /\ idx'[u] = idx[u] /\ cur'[u] = cur[u]
        BY <1>4, <3>2 DEF OthersKept
      <4>2. At(u)
        BY DEF Gate
      <4> QED
        BY <1>2, <4>1, <4>2 DEF OneNodeReads
    <3> QED
      BY <3>1, <3>2
  <2> QED
    BY <1>4, <2>1 DEF Gate
<1>5. CASE Calls(t) /\ UNCHANGED done
  <2>1. CASE Open(t) \/ Release(t)
    BY <1>1, <1>4, <1>5, <2>1 DEF Open, Release, OthersKept, TypeOK, Gate
  <2>2. ASSUME NEW c \in WriteCounts, WriteCall(t, c) PROVE Gate'
    <3>1. c > 0
      BY StoreAssumption DEF NoEmptyWrites, StoreAssumption
    <3>2. idx[t] = 0
      BY <1>1, <2>2 DEF WriteCall, StoreInv, Fresh
    <3>3. pc'[t] = "w_loop" /\ idx'[t] = 0 /\ OthersKept(t) /\ head' = head
      BY <1>1, <2>2, <3>1, <3>2 DEF WriteCall, OthersKept, TypeOK
    <3> QED
      BY <1>4, <1>5, <3>3 DEF Gate
  <2>3. ASSUME NEW c \in ReadCounts, ReadCall(t, c) PROVE Gate'
    BY <1>1, <1>4, <1>5, <2>3 DEF ReadCall, OthersKept, TypeOK, Gate
  <2> QED
    BY <1>5, <2>1, <2>2, <2>3 DEF Calls
<1>6. CASE WriteStep(t) /\ UNCHANGED done
  <2>1. CASE WriteNode(t)
    <3>1. PICK n \in Node \ used : /\ Publish(t, n) \/ Link(t, n)
                                   /\ cur' = [cur EXCEPT ![t] = n]
      BY <2>1 DEF WriteNode
    <3>2. head' \in Node
      BY <1>1, <2>1, <3>1 DEF WriteNode, Publish, Link, Gate, TypeOK
    <3>3. OthersKept(t) /\ pc'[t] \in {"w_loop", "w_term"}
      BY <1>1, <2>1, <3>1 DEF WriteNode, OthersKept, TypeOK
    <3> QED
      BY <1>4, <1>6, <3>2, <3>3 DEF Gate
  <2>2. CASE WriteOom(t)
    BY <1>1, <1>4, <1>6, <2>2 DEF WriteOom, OthersKept, TypeOK, Gate
  <2>3. CASE WriteTerm(t)
    BY <1>1, <1>4, <1>6, <2>3 DEF WriteTerm, OthersKept, TypeOK, Gate
  <2>4. CASE WriteTermWild(t)
    <3>1. /\ OthersKept(t) /\ head' = head /\ pc[t] = "w_term"
          /\ pc'[t] \in {"dead", "w_ret"}
      BY <1>1, <2>4 DEF WriteTermWild, OthersKept, TypeOK
    <3> QED
      BY <1>4, <1>6, <3>1 DEF Gate
  <2> QED
    BY <1>6, <2>1, <2>2, <2>3, <2>4 DEF WriteStep
<1>7. CASE SyncWriteReturn(t)
  <2>1. /\ OthersKept(t) /\ head' = head /\ head \in Node
        /\ pc'[t] = "open" /\ done' = done + 1
    BY <1>1, <1>7 DEF SyncWriteReturn, Completed, WriteReturn, Forget, OthersKept, TypeOK, Gate
  <2> QED
    BY <1>4, <2>1 DEF Gate
<1>8. CASE SyncReadLoad(t)
  <2>1. /\ OthersKept(t) /\ head' = head /\ head \in Node /\ cur'[t] = head
        /\ pc'[t] = "r_check" /\ done' = done - 1 /\ done > 0
    BY <1>1, <1>8 DEF SyncReadLoad, MayPass, ReadLoad, OthersKept, TypeOK, Gate
  <2> QED
    BY <1>4, <2>1 DEF Gate
<1>9. CASE ReadStep(t) /\ UNCHANGED done
  <2>1. ASSUME pc[t] \in {"r_check", "r_walk"}, Forget(t), UNCHANGED memory,
               pc' = [pc EXCEPT ![t] = "open"]
        PROVE  Gate'
    BY <1>1, <1>4, <1>9, <2>1 DEF Forget, OthersKept, TypeOK, Gate
  <2>2. CASE ReadCheck(t)
    <3>1. CASE Goto(t, "r_check", "r_walk") /\ UNCHANGED <<memory, locals>>
      BY <1>1, <1>4, <1>9, <3>1 DEF OthersKept, TypeOK, Gate
    <3> QED
      BY <2>1, <2>2, <3>1 DEF ReadCheck
  <2>3. CASE ReadNode(t)
    <3>1. /\ OthersKept(t) /\ head' = head /\ pc[t] = "r_walk" /\ pc'[t] = "r_walk"
          /\ cnt[t] > 0 /\ cnt[t] \in Nat /\ cnt'[t] = RestAfter(cnt[t])
      BY <1>1, <2>3 DEF ReadNode, OthersKept, TypeOK
    \* One node is all the read needs.
    <3>2. OneNodeReads => cnt'[t] = 0
      <4> SUFFICES ASSUME OneNodeReads PROVE cnt'[t] = 0
        OBVIOUS
      <4>1. cur[t] \in Node /\ ReaderAt(t)
        BY <3>1 DEF Gate, StoreInv, ReadersAt, Reading
      <4>2. cnt[t] + QUANTUM_SIZE * Base(cur[t]) \in ReadCounts /\ cur[t] \in used
        BY <3>1, <4>1 DEF ReaderAt
      <4>3. PICK j \in Nat : Base(cur[t]) = QSET_SIZE * j
        BY <4>2, NodePlace
      <4>4. QUANTUM_SIZE * (QSET_SIZE * j) \in Nat /\ QUANTUM_SIZE * QSET_SIZE \in Nat
        BY Sizes
      <4>5. cnt[t] + QUANTUM_SIZE * (QSET_SIZE * j) <= QUANTUM_SIZE * QSET_SIZE
        BY <4>2, <4>3 DEF OneNodeReads
      <4>6. cnt[t] <= QUANTUM_SIZE * QSET_SIZE
        BY <3>1, <4>4, <4>5
      <4> QED
        BY <3>1, <4>4, <4>6 DEF RestAfter
    <3> QED
      BY <1>4, <1>9, <3>1, <3>2 DEF Gate, OneNodeReads
  <2>4. CASE ReadFault(t)
    BY <1>1, <1>4, <1>9, <2>4 DEF ReadFault, OthersKept, TypeOK, Gate
  <2>5. CASE ReadReturn(t)
    BY <2>1, <2>5 DEF ReadReturn
  <2> QED
    BY <1>9, <2>2, <2>3, <2>4, <2>5 DEF ReadStep
<1> QED
  BY <1>3, <1>5, <1>6, <1>7, <1>8, <1>9

SyncInv == StoreInv /\ done \in Nat /\ (NoEmptyWrites => Gate)

LEMMA SyncInvStep == SyncInv /\ [SyncNext]_syncVars => SyncInv'
<1> SUFFICES ASSUME SyncInv, [SyncNext]_syncVars PROVE SyncInv'
  OBVIOUS
<1>1. StoreInv'
  BY SyncStepIsStoreStep, StoreInvStep DEF SyncInv
<1>2. done' \in Nat
  BY DEF SyncInv, SyncNext, SyncWriteReturn, Completed, SyncReadLoad, MayPass, syncVars
<1>3. ASSUME NoEmptyWrites PROVE Gate'
  <2>1. CASE SyncNext
    BY <1>3, <2>1, GateStep DEF SyncInv
  <2>2. CASE UNCHANGED syncVars
    BY <1>3, <2>2 DEF SyncInv, Gate, syncVars, vars, OneNodeReads
  <2> QED
    BY <2>1, <2>2
<1> QED
  BY <1>1, <1>2, <1>3 DEF SyncInv, NoEmptyWrites

THEOREM SyncInvariant == SyncSpec => []SyncInv
<1>1. SyncInit => SyncInv
  BY StoreInvInit DEF SyncInit, SyncInv, Gate, Init
<1> QED
  BY <1>1, SyncInvStep, PTL DEF SyncSpec

(* Past wait_for_completion a read has a list that was published.           *)
THEOREM SyncReadAfterPublish == SyncSpec => []ReadAfterPublish
<1>1. SyncInv => ReadAfterPublish
  BY DEF SyncInv, Gate, ReadAfterPublish
<1> QED
  BY <1>1, SyncInvariant, PTL

(* Such a read, when it fits, cannot fault.                                 *)
THEOREM SyncNoReadFault == SyncSpec => []NoReadFault
<1>1. SyncInv => NoReadFault
  <2> SUFFICES ASSUME SyncInv, NoEmptyWrites, ReadsFit, OneNodeReads,
                      NEW t \in Task, pc[t] = "r_walk", cnt[t] > 0
               PROVE  ~Faults(t)
    BY DEF NoReadFault
  <2>1. cur[t] \in Node /\ cur[t] # NULL
    BY StoreAssumption DEF SyncInv, Gate, StoreAssumption
  <2>2. \A i \in ReadSlots(cnt[t]) : data[cur[t]][i] # WILD
    BY <2>1, StoreInvCovered DEF SyncInv, WalkCovered
  <2> QED
    BY <2>1, <2>2 DEF Faults, DataOf
<1> QED
  BY <1>1, SyncInvariant, PTL
-----------------------------------------------------------------------------
(***************************************************************************)
(* Beside the unit itself: until app1 has set the semaphore nobody holds   *)
(* it, so that setting it does not add a second unit; and a scull_write    *)
(* runs inside the critical section only.                                  *)
(***************************************************************************)
Shapes ==
    /\ app \in [Task -> Location]
    /\ pc \in [Task -> Idle \cup Writing \cup Reading]
    /\ sem \in 0 .. 1
    /\ undo \in [Task -> 0 .. 1]

NotYetSet == \A t \in Task : app[t] = "set" => t = App1 /\ sem = 0 /\ Holders = {}

WritesInside == \A t \in Task : pc[t] \in Writing => app[t] = "w_close"

UnitInv == Shapes /\ OneUnit /\ NotYetSet /\ WritesInside

LEMMA UnitInit == AppInit => UnitInv
<1> USE DEF Location, Critical
<1> SUFFICES ASSUME AppInit PROVE UnitInv
  OBVIOUS
<1>1. Holders = {}
  BY DEF AppInit, Holders
<1>2. Shapes /\ WritesInside
  BY DEF AppInit, SyncInit, Init, Shapes, WritesInside, Idle, Writing
<1>3. OneUnit /\ NotYetSet
  BY <1>1 DEF AppInit, OneUnit, NotYetSet
<1> QED
  BY <1>2, <1>3 DEF UnitInv

\* A step that moves one process without touching the semaphore, neither into
\* nor out of the critical section, keeps the unit where it is.
LEMMA UnitKept ==
    ASSUME UnitInv, NEW t \in Task, NEW to \in Location,
           app' = [app EXCEPT ![t] = to], UNCHANGED <<sem, undo>>,
           app[t] \in Critical <=> to \in Critical, to # "set"
    PROVE  OneUnit' /\ NotYetSet'
<1>1. Holders' = Holders
  BY DEF UnitInv, Shapes, Holders
<1>2. \A u \in Task : app'[u] = "set" => app[u] = "set"
  BY DEF UnitInv, Shapes
<1> QED
  BY <1>1, <1>2 DEF UnitInv, OneUnit, NotYetSet

\* The calls and steps of the driver: where they leave a task.
LEMMA DriverSteps ==
    ASSUME UnitInv, NEW t \in Task, Driver(t)
    PROVE  UnitInv'
<1> USE DEF Goto, Writing, Reading, Idle
<1>1. pc' \in [Task -> Idle \cup Writing \cup Reading]
      /\ \A u \in Task : pc'[u] \in Writing => pc[u] \in Writing
  BY DEF Driver, Progress, UnitInv, Shapes, SyncWriteReturn, SyncReadLoad, WriteStep,
         WriteNode, WriteOom, WriteTerm, WriteTermWild, WriteReturn, ReadLoad, ReadStep,
         ReadCheck, ReadNode, ReadFault, ReadReturn
<1>2. UNCHANGED ipc
  BY DEF Driver
<1> QED
  BY <1>1, <1>2 DEF ipc, UnitInv, Shapes, OneUnit, NotYetSet, WritesInside, Holders

LEMMA WriteDriverSteps ==
    ASSUME UnitInv, NEW t \in Task, WriteDriver(t)
    PROVE  UnitInv'
<1> USE DEF Advance, Goto, File, Location, Critical
<1>1. PICK to \in {"w_call", "w_close", "v"} :
         /\ app[t] \in {"w_open", "w_call", "w_close"}
         /\ app' = [app EXCEPT ![t] = to]
         /\ UNCHANGED <<sem, undo>>
  BY DEF WriteDriver
<1>2. OneUnit' /\ NotYetSet'
  BY <1>1, UnitKept
<1>3. Shapes'
  BY <1>1 DEF WriteDriver, Open, WriteCall, Release, UnitInv, Shapes, Idle, Writing
<1>4. WritesInside'
  BY DEF WriteDriver, Open, WriteCall, Release, UnitInv, Shapes, WritesInside, Writing
<1> QED
  BY <1>2, <1>3, <1>4 DEF UnitInv

LEMMA ReadDriverSteps ==
    ASSUME UnitInv, NEW t \in Task, ReadDriver(t)
    PROVE  UnitInv'
<1> USE DEF Advance, Goto, File, Location, Critical
<1>1. PICK to \in {"r_call", "r_close", "exit"} :
         /\ app[t] \in {"r_open", "r_call", "r_close"}
         /\ app' = [app EXCEPT ![t] = to]
         /\ UNCHANGED <<sem, undo>>
  BY DEF ReadDriver
<1>2. OneUnit' /\ NotYetSet'
  BY <1>1, UnitKept
<1>3. Shapes'
  BY <1>1 DEF ReadDriver, Open, ReadCall, Release, UnitInv, Shapes, Idle, Reading
<1>4. WritesInside'
  BY DEF ReadDriver, Open, ReadCall, Release, UnitInv, Shapes, WritesInside, Writing
<1> QED
  BY <1>2, <1>3, <1>4 DEF UnitInv

LEMMA UnitStep ==
    ASSUME UnitInv, [AppNext]_appVars
    PROVE  UnitInv'
<1> USE DEF Location, Critical
<1>1. CASE UNCHANGED appVars
  BY <1>1 DEF appVars, syncVars, vars, ipc, UnitInv, Shapes, OneUnit, NotYetSet,
              WritesInside, Holders
<1>2. ASSUME NEW t \in Task, SetSem(t) PROVE UnitInv'
  <2>1. t = App1 /\ Holders = {} /\ app' = [app EXCEPT ![t] = "p"] /\ sem' = 1
        /\ undo' = [u \in Task |-> 0] /\ pc' = pc
    BY <1>2 DEF SetSem, Advance, UnitInv, NotYetSet, syncVars, vars
  <2>2. Holders' = {} /\ \A u \in Task : app'[u] # "set"
    BY <2>1 DEF UnitInv, Shapes, NotYetSet, Holders
  <2>3. OneUnit' /\ NotYetSet'
    BY <2>1, <2>2 DEF OneUnit, NotYetSet
  <2>4. Shapes' /\ WritesInside'
    BY <1>2, <2>1 DEF SetSem, Advance, UnitInv, Shapes, WritesInside
  <2> QED
    BY <2>3, <2>4 DEF UnitInv
<1>3. ASSUME NEW t \in Task, SemaphoreP(t) PROVE UnitInv'
  <2>1. app[t] = "p" /\ app' = [app EXCEPT ![t] = "w_open"] /\ sem = 1 /\ sem' = 0
        /\ undo' = [undo EXCEPT ![t] = undo[t] + 1] /\ pc' = pc
    BY <1>3 DEF SemaphoreP, Advance, MayTake, TakeUndo, UnitInv, Shapes, syncVars, vars
  <2>2. Holders = {} /\ Holders' = {t}
    BY <2>1 DEF UnitInv, Shapes, OneUnit, Holders
  <2>3. OneUnit'
    BY <2>1, <2>2 DEF UnitInv, Shapes, OneUnit
  <2>4. \A u \in Task : app'[u] # "set"
    BY <2>1 DEF UnitInv, Shapes, NotYetSet
  <2>5. Shapes' /\ WritesInside'
    BY <2>1, <2>2 DEF UnitInv, Shapes, OneUnit, WritesInside
  <2> QED
    BY <2>3, <2>4, <2>5 DEF UnitInv, NotYetSet
<1>4. ASSUME NEW t \in Task, SemaphoreV(t) PROVE UnitInv'
  <2>1. app[t] = "v" /\ app' = [app EXCEPT ![t] = "r_open"] /\ sem' = sem + 1
        /\ undo' = [undo EXCEPT ![t] = undo[t] - 1] /\ pc' = pc
    BY <1>4 DEF SemaphoreV, Advance, GiveUndo, syncVars, vars
  <2>2. sem = 0 /\ undo[t] = 1 /\ Holders = {t} /\ Holders' = {}
    BY <2>1 DEF UnitInv, Shapes, OneUnit, Holders
  <2>3. \A u \in Task : app'[u] # "set"
    BY <2>1, <2>2 DEF UnitInv, Shapes, NotYetSet
  <2>4. OneUnit'
    BY <2>1, <2>2 DEF UnitInv, Shapes, OneUnit
  <2>5. Shapes' /\ WritesInside'
    BY <2>1, <2>2 DEF UnitInv, Shapes, WritesInside
  <2> QED
    BY <2>3, <2>4, <2>5 DEF UnitInv, NotYetSet
\* The end of a process, killed or not.
<1>5. ASSUME NEW t \in Task, GiveBack(t), app' = [app EXCEPT ![t] = "end"],
             \/ pc' = pc /\ app[t] = "exit"
             \/ pc[t] \in {"open", "closed"} /\ pc' = [pc EXCEPT ![t] = "closed"]
      PROVE  UnitInv'
  <2>1. Holders' = Holders \ {t}
    BY <1>5 DEF UnitInv, Shapes, Holders
  <2>2. undo' = [undo EXCEPT ![t] = 0] /\ sem' = sem + undo[t] /\ sem' \in 0 .. 1
    BY <1>5 DEF GiveBack, UnitInv, Shapes, OneUnit
  <2>3. OneUnit'
    BY <2>1, <2>2 DEF UnitInv, Shapes, OneUnit
  <2>4. NotYetSet'
    BY <1>5, <2>1, <2>2 DEF UnitInv, Shapes, OneUnit, NotYetSet
  <2>5. Shapes'
    BY <1>5, <2>2 DEF UnitInv, Shapes, Idle
  <2>6. WritesInside'
    BY <1>5 DEF UnitInv, Shapes, WritesInside, Writing
  <2> QED
    BY <2>3, <2>4, <2>5, <2>6 DEF UnitInv
<1>6. ASSUME NEW t \in Task, Run(t) PROVE UnitInv'
  <2>1. CASE Exit(t)
    BY <1>5, <2>1 DEF Exit, Advance, syncVars, vars
  <2> QED
    BY <1>4, <1>6, <2>1, DriverSteps, WriteDriverSteps, ReadDriverSteps DEF Run
<1>7. ASSUME NEW t \in Task, Kill(t) PROVE UnitInv'
  BY <1>5, <1>7 DEF Kill
<1> QED
  BY <1>1, <1>2, <1>3, <1>6, <1>7 DEF AppNext

(* The unit of the semaphore is neither lost nor doubled (semaphore.c).     *)
THEOREM AppsOneUnit == AppSpec => []OneUnit
<1>1. UnitInv => OneUnit
  BY DEF UnitInv
<1> QED
  BY <1>1, UnitInit, UnitStep, PTL DEF AppSpec

(***************************************************************************)
(* No two scull_writes of driver_sync's programs run at a time: the driver *)
(* takes no lock, main's semaphore_p and semaphore_v do it.                *)
(***************************************************************************)
THEOREM AppsWritesExclusive == AppSpec => []WritesExclusive
<1>1. UnitInv => WritesExclusive
  <2> SUFFICES ASSUME UnitInv, NEW t \in Task, NEW u \in Task,
                      pc[t] \in Writing, pc[u] \in Writing
               PROVE  t = u
    BY DEF WritesExclusive
  <2>1. t \in Holders /\ u \in Holders
    BY DEF UnitInv, WritesInside, Holders, Critical
  <2> QED
    BY <2>1 DEF UnitInv, OneUnit
<1> QED
  BY <1>1, UnitInit, UnitStep, PTL DEF AppSpec

(***************************************************************************)
(* Where a process is, and where its task is in the driver: a write that   *)
(* returned has completed, and only then does its process go on to read.   *)
(***************************************************************************)
PlaceOf(t) ==
    /\ app[t] \in {"set", "p", "w_open", "v", "r_open", "exit", "end"} => pc[t] = "closed"
    /\ app[t] \in {"w_call", "r_call"} => pc[t] = "open"
    /\ app[t] = "w_close" => pc[t] \in Writing \cup {"open", "dead"}
    /\ app[t] = "r_close" => pc[t] \in Reading \cup {"open", "dead"}

Places == Shapes /\ \A t \in Task : PlaceOf(t)

\* A step of one process leaves the others where they are.
OthersStay(t) == \A u \in Task \ {t} : app'[u] = app[u] /\ pc'[u] = pc[u]

\* What a step does to the processes with a completion to their credit.
LEMMA CreditStep ==
    ASSUME Places, done \in Nat, [AppNext]_appVars
    PROVE  /\ \A t \in Task : PlaceOf(t)'
           /\ \/ ToRead' \subseteq ToRead /\ done' = done
              \/ \E t \in Task : ToRead' = ToRead \cup {t} /\ done' = done + 1
              \/ \E t \in ToRead : ToRead' = ToRead \ {t} /\ done' = done - 1
<1> USE DEF Places, Shapes, PlaceOf, Location, Critical, Idle, Writing, Reading, Goto, Advance
<1>1. CASE UNCHANGED appVars
  BY <1>1 DEF appVars, syncVars, vars, ipc, ToRead
<1>2. ASSUME NEW t \in Task, OthersStay(t), PlaceOf(t)', done' = done,
             t \in ToRead' => t \in ToRead
      PROVE  (\A u \in Task : PlaceOf(u)') /\ ToRead' \subseteq ToRead /\ done' = done
  BY <1>2 DEF OthersStay, ToRead
<1>3. ASSUME NEW t \in Task, SetSem(t) \/ SemaphoreP(t) \/ SemaphoreV(t) \/ Exit(t)
      PROVE  OthersStay(t) /\ PlaceOf(t)' /\ done' = done /\ (t \in ToRead' => t \in ToRead)
  BY <1>3 DEF SetSem, SemaphoreP, SemaphoreV, Exit, syncVars, vars, OthersStay, ToRead
<1>4. ASSUME NEW t \in Task, WriteDriver(t) \/ ReadDriver(t)
      PROVE  OthersStay(t) /\ PlaceOf(t)' /\ done' = done /\ (t \in ToRead' => t \in ToRead)
  BY <1>4 DEF WriteDriver, ReadDriver, File, Open, Release, WriteCall, ReadCall, OthersStay,
              ToRead
<1>5. ASSUME NEW t \in Task, Kill(t)
      PROVE  OthersStay(t) /\ PlaceOf(t)' /\ done' = done /\ (t \in ToRead' => t \in ToRead)
  BY <1>5 DEF Kill, OthersStay, ToRead
<1>6. ASSUME NEW t \in Task, (WriteStep(t) \/ ReadStep(t)) /\ UNCHANGED done, UNCHANGED ipc
      PROVE  OthersStay(t) /\ PlaceOf(t)' /\ done' = done /\ (t \in ToRead' => t \in ToRead)
  BY <1>6 DEF WriteStep, WriteNode, WriteOom, WriteTerm, WriteTermWild, ReadStep, ReadCheck,
              ReadNode, ReadFault, ReadReturn, ipc, OthersStay, ToRead
<1>7. ASSUME NEW t \in Task, SyncWriteReturn(t), UNCHANGED ipc
      PROVE  /\ \A u \in Task : PlaceOf(u)'
             /\ ToRead' = ToRead \cup {t} /\ done' = done + 1
  <2>1. /\ app' = app /\ app[t] = "w_close" /\ pc[t] = "w_ret" /\ pc' = [pc EXCEPT ![t] = "open"]
        /\ done' = done + 1
    BY <1>7 DEF SyncWriteReturn, WriteReturn, Completed, ipc
  <2> QED BY <2>1 DEF ToRead
<1>8. ASSUME NEW t \in Task, SyncReadLoad(t), UNCHANGED ipc
      PROVE  /\ \A u \in Task : PlaceOf(u)'
             /\ t \in ToRead /\ ToRead' = ToRead \ {t} /\ done' = done - 1
  <2>1. /\ app' = app /\ app[t] = "r_close" /\ pc[t] = "r_enter"
        /\ pc' = [pc EXCEPT ![t] = "r_check"] /\ done' = done - 1
    BY <1>8 DEF SyncReadLoad, ReadLoad, ipc
  <2> QED BY <2>1 DEF ToRead
<1>9. CASE AppNext
  <2>1. PICK t \in Task : SetSem(t) \/ SemaphoreP(t) \/ Run(t) \/ Kill(t)
    BY <1>9 DEF AppNext
  <2> QED
    BY <1>2, <1>3, <1>4, <1>5, <1>6, <1>7, <1>8, <2>1 DEF Run, Driver, Progress
<1> QED BY <1>1, <1>9

Credit == done \in Nat /\ NoReadWaits /\ \A t \in Task : PlaceOf(t)

LEMMA CreditInvStep ==
    ASSUME UnitInv, Credit, [AppNext]_appVars
    PROVE  Credit'
<1>1. Places /\ done \in Nat /\ Cardinality(ToRead) <= done
  BY DEF UnitInv, Credit, Places, NoReadWaits
<1>2. IsFiniteSet(ToRead) /\ Cardinality(ToRead) \in Nat
  <2>1. ToRead \subseteq Task
    BY DEF ToRead
  <2> QED BY <2>1, EnoughMemory, FS_Subset, FS_CardinalityType DEF EnoughMemory
<1>3. CASE ToRead' \subseteq ToRead /\ done' = done
  <2>1. Cardinality(ToRead') <= Cardinality(ToRead) /\ Cardinality(ToRead') \in Nat
    BY <1>2, <1>3, FS_Subset, FS_CardinalityType
  <2> QED BY <1>1, <1>2, <1>3, <2>1, CreditStep DEF Credit, NoReadWaits
<1>4. ASSUME NEW t \in Task, ToRead' = ToRead \cup {t}, done' = done + 1
      PROVE  Credit'
  <2>1. Cardinality(ToRead') <= Cardinality(ToRead) + 1 /\ Cardinality(ToRead') \in Nat
    <3>1. /\ IsFiniteSet(ToRead')
          /\ Cardinality(ToRead') = IF t \in ToRead THEN Cardinality(ToRead)
                                                   ELSE Cardinality(ToRead) + 1
      BY <1>2, <1>4, FS_AddElement
    <3> QED BY <1>2, <3>1
  <2> QED BY <1>1, <1>2, <1>4, <2>1, CreditStep DEF Credit, NoReadWaits
<1>5. ASSUME NEW t \in ToRead, ToRead' = ToRead \ {t}, done' = done - 1
      PROVE  Credit'
  <2>1. Cardinality(ToRead') = Cardinality(ToRead) - 1 /\ Cardinality(ToRead') \in Nat
    BY <1>2, <1>5, FS_RemoveElement, FS_CardinalityType
  <2> QED BY <1>1, <1>2, <1>5, <2>1, CreditStep DEF Credit, NoReadWaits
<1> QED BY <1>1, <1>3, <1>4, <1>5, CreditStep

LEMMA CreditInit == AppInit => Credit
<1> SUFFICES ASSUME AppInit PROVE Credit
  OBVIOUS
<1>1. ToRead = {}
  BY DEF AppInit, SyncInit, Init, ToRead
<1>2. \A t \in Task : PlaceOf(t)
  BY DEF AppInit, SyncInit, Init, PlaceOf
<1> QED
  BY <1>1, <1>2, FS_EmptySet DEF Credit, NoReadWaits, AppInit, SyncInit

(***************************************************************************)
(* A process of driver_sync that has written never waits in its read,      *)
(* however many others read, write or are killed meanwhile.                *)
(***************************************************************************)
THEOREM AppsNoReadWaits == AppSpec => []NoReadWaits
<1>1. Credit => NoReadWaits
  BY DEF Credit
<1> QED
  BY <1>1, CreditInit, UnitInit, UnitStep, CreditInvStep, PTL DEF AppSpec
-----------------------------------------------------------------------------
(***************************************************************************)
(* What the programs do with the device is what ScullStore's tasks may do: *)
(* a process that is killed closes its file.                               *)
(***************************************************************************)
Sized == size \in [Task -> Messages]

LEMMA AppStepIsStoreStep ==
    ASSUME TypeOK, Sized, [AppNext]_appVars
    PROVE  [Next]_vars
<1> USE DEF File, Goto
<1>1. CASE UNCHANGED appVars
  BY <1>1 DEF appVars, syncVars
<1>2. ASSUME NEW t \in Task,
             SetSem(t) \/ SemaphoreP(t) \/ SemaphoreV(t) \/ Exit(t)
      PROVE  UNCHANGED vars
  BY <1>2 DEF SetSem, SemaphoreP, SemaphoreV, Exit, syncVars
<1>3. ASSUME NEW t \in Task, WriteDriver(t) PROVE Next
  <2>1. size[t] \in WriteCounts
    BY EnoughMemory DEF Sized, Messages, EnoughMemory
  <2> QED BY <1>3, <2>1 DEF WriteDriver, Next, Calls
<1>4. ASSUME NEW t \in Task, ReadDriver(t) PROVE Next
  <2>1. size[t] \in ReadCounts
    BY MessageSizes DEF Sized, MessageSizes
  <2> QED BY <1>4, <2>1 DEF ReadDriver, Next, Calls
<1>5. ASSUME NEW t \in Task, Driver(t) PROVE Next
  BY <1>5 DEF Driver, Progress, SyncWriteReturn, SyncReadLoad, Next
<1>6. ASSUME NEW t \in Task, Kill(t) PROVE [Next]_vars
  <2>1. CASE pc[t] = "open"
    BY <1>6, <2>1 DEF Kill, Next, Calls, Release
  <2>2. CASE pc[t] = "closed"
    <3>1. pc' = pc
      BY <1>6, <2>2 DEF Kill, TypeOK
    <3> QED BY <1>6, <3>1 DEF Kill, vars, memory, locals
  <2> QED BY <1>6, <2>1, <2>2 DEF Kill
<1> QED
  BY <1>1, <1>2, <1>3, <1>4, <1>5, <1>6 DEF AppNext, Run

(***************************************************************************)
(* The inductive invariant of what is read.  The write that runs is the    *)
(* last one begun, and once its first node is there it is the published    *)
(* one; so what is published is never older than a write that returned.    *)
(* A process's own write is published when it goes on to its read, and the *)
(* list its read takes is no older.                                        *)
(***************************************************************************)
Filled(n) == \A r \in Messages : \A i \in ReadSlots(r) : data[n][i] # WILD

FirstNodesFilled == \A n \in used : Base(n) = 0 => Filled(n)

PublishedSince(w) == head \in Node /\ Owner(head) >= w

WriterNewest(t) ==
    /\ pc[t] \in Writing =>
          cnt[t] \in Messages /\ wid[t] = writes /\ wrote[t] = writes
    /\ (pc[t] = "w_loop" /\ idx[t] > 0) \/ pc[t] \in {"w_term", "w_ret"} =>
          PublishedSince(writes)

ReadsNoOlder(t) ==
    /\ t \in ToRead => PublishedSince(wrote[t])
    /\ pc[t] \in {"r_enter", "r_check"} => cnt[t] \in Messages
    /\ pc[t] = "r_check" \/ (pc[t] = "r_walk" /\ cnt[t] > 0) =>
          /\ cur[t] \in Node /\ Owner(cur[t]) >= wrote[t] /\ Base(cur[t]) = 0
          /\ cnt[t] \in Messages
    /\ pc[t] = "r_walk" /\ cnt[t] = 0 =>
          \A k \in DOMAIN out[t] : out[t][k] # WILD /\ out[t][k].w >= wrote[t]

AgeOf(t) == wrote[t] <= writes /\ WriterNewest(t) /\ ReadsNoOlder(t)

OwnInv ==
    /\ WalkInv /\ UnitInv /\ Credit
    /\ Sized /\ wrote \in [Task -> Nat]
    /\ FirstNodesFilled
    /\ \A t \in Task : AgeOf(t)

\* A step of t keeps what the invariant says of the others: the published list
\* is the same, or that of the last write, which only t can have begun.
NoOlder == head' = head \/ PublishedSince(writes)'

Alone(t) == \A u \in Task \ {t} :
    app'[u] = app[u] /\ size'[u] = size[u] /\ wrote'[u] = wrote[u]

LEMMA OwnFrame ==
    ASSUME OwnInv, WalkInv', NEW t \in Task, StepFrame(t), Alone(t), NoOlder,
           writes' \in Nat, writes' = writes \/ (writes' > writes /\ app[t] = "w_call"),
           NEW u \in Task \ {t}
    PROVE  AgeOf(u)'
<1>1. /\ pc'[u] = pc[u] /\ cnt'[u] = cnt[u] /\ idx'[u] = idx[u] /\ cur'[u] = cur[u]
      /\ wid'[u] = wid[u] /\ out'[u] = out[u]
      /\ app'[u] = app[u] /\ wrote'[u] = wrote[u]
  BY DEF StepFrame, OthersKept, Alone
<1>2. AgeOf(u) /\ wrote[u] \in Nat /\ TypeOK
  BY DEF OwnInv, WalkInv, StoreInv
<1>3. \A w \in Nat : PublishedSince(w) /\ w <= writes' => PublishedSince(w)'
  <2> SUFFICES ASSUME NEW w \in Nat, PublishedSince(w), w <= writes'
               PROVE  PublishedSince(w)'
    OBVIOUS
  <2>1. CASE head' = head
    <3>1. data'[head] = data[head]
      BY DEF OwnInv, WalkInv, StoreInv, Memory, StepFrame, DataKept, PublishedSince
    <3> QED BY <2>1, <3>1 DEF PublishedSince, Owner
  <2>2. CASE PublishedSince(writes)'
    <3>1. head' \in used' /\ Owner(head)' \in Nat
      BY <2>2 DEF PublishedSince, WalkInv, StoreInv, Memory
    <3> QED BY <2>2, <3>1 DEF PublishedSince
  <2> QED BY <2>1, <2>2 DEF NoOlder
<1>4. pc[u] \in Writing => writes' = writes
  <2>1. ASSUME pc[u] \in Writing, app[t] = "w_call" PROVE FALSE
    <3>1. u \in Holders /\ t \in Holders
      BY <2>1 DEF OwnInv, UnitInv, WritesInside, Holders, Critical
    <3> QED BY <3>1 DEF OwnInv, UnitInv, OneUnit
  <2> QED BY <2>1
<1>5. wrote'[u] <= writes'
  BY <1>1, <1>2 DEF AgeOf, TypeOK
<1>6. WriterNewest(u)'
  BY <1>1, <1>2, <1>3, <1>4 DEF AgeOf, WriterNewest, Writing, TypeOK
<1>7. cur[u] \in Node /\ pc[u] \in Reading => data'[cur[u]] = data[cur[u]]
  BY DEF OwnInv, WalkInv, StoreInv, ReadersAt, ReaderAt, StepFrame, DataKept
<1>8. ReadsNoOlder(u)'
  BY <1>1, <1>2, <1>3, <1>5, <1>7 DEF AgeOf, ReadsNoOlder, ToRead, Owner, Base, Reading
<1> QED
  BY <1>5, <1>6, <1>8 DEF AgeOf

\* A step that leaves the nodes and the published list alone.
LEMMA OwnQuiet ==
    ASSUME OwnInv, WalkInv', NEW t \in Task, StepFrame(t), Alone(t), UNCHANGED <<head, used, data>>,
           writes' \in Nat, writes' = writes \/ (writes' > writes /\ app[t] = "w_call"),
           AgeOf(t)'
    PROVE  FirstNodesFilled' /\ \A u \in Task : AgeOf(u)'
<1>1. FirstNodesFilled'
  BY DEF OwnInv, FirstNodesFilled, Filled, Base
<1>2. NoOlder
  BY DEF NoOlder
<1> QED
  BY <1>1, <1>2, OwnFrame

\* Steps beside the driver, killed processes included.
LEMMA BesideOwn ==
    ASSUME OwnInv, WalkInv', NEW t \in Task,
           SetSem(t) \/ SemaphoreP(t) \/ SemaphoreV(t) \/ Exit(t) \/ Kill(t)
    PROVE  FirstNodesFilled' /\ \A u \in Task : AgeOf(u)'
<1> USE DEF Advance, Goto
<1>1. /\ TypeOK /\ AgeOf(t) /\ PlaceOf(t) /\ wrote[t] \in Nat
      /\ app \in [Task -> Location]
  BY DEF OwnInv, WalkInv, StoreInv, UnitInv, Shapes, Credit
<1>2. /\ UNCHANGED <<head, used, data, cnt, idx, cur, wid, out, writes, size, wrote>>
      /\ \/ pc' = pc
         \/ pc[t] \in {"open", "closed"} /\ pc' = [pc EXCEPT ![t] = "closed"] /\ app'[t] = "end"
      /\ \E to \in Location : app' = [app EXCEPT ![t] = to]
      /\ app'[t] \in {"v", "r_open", "r_call"} => app[t] \in {"v", "r_open", "r_call"}
      /\ app'[t] \notin {"w_close", "r_close"}
  BY <1>1 DEF SetSem, SemaphoreP, SemaphoreV, Exit, Kill, GiveBack, syncVars, vars, memory,
              locals, Location, Critical
<1>3. StepFrame(t) /\ Alone(t)
  BY <1>1, <1>2 DEF StepFrame, OthersKept, DataKept, Alone, TypeOK
<1>4. AgeOf(t)'
  BY <1>1, <1>2 DEF AgeOf, WriterNewest, ReadsNoOlder, ToRead, PublishedSince, Owner, Base,
                    PlaceOf, Writing, Reading, TypeOK
<1> QED
  BY <1>1, <1>2, <1>3, <1>4, OwnQuiet DEF TypeOK

\* open, the calls' first steps, and release.
LEMMA FileOwn ==
    ASSUME OwnInv, WalkInv', NEW t \in Task, WriteDriver(t) \/ ReadDriver(t)
    PROVE  FirstNodesFilled' /\ \A u \in Task : AgeOf(u)'
<1> USE DEF Advance, Goto, File, memory, locals
<1>1. /\ TypeOK /\ AgeOf(t) /\ PlaceOf(t) /\ wrote \in [Task -> Nat] /\ Sized
      /\ app \in [Task -> Location] /\ idx[t] \in Nat
      /\ pc[t] \in {"closed", "open"} => idx[t] = 0 /\ cur[t] = WILD
  BY DEF OwnInv, WalkInv, StoreInv, UnitInv, Shapes, Fresh, TypeOK, Credit
<1>2. CASE WriteDriver(t) /\ app[t] = "w_call"
  <2>1. /\ writes' = writes + 1 /\ wid' = [wid EXCEPT ![t] = writes + 1]
        /\ cnt' = [cnt EXCEPT ![t] = size[t]] /\ wrote' = [wrote EXCEPT ![t] = writes + 1]
        /\ pc' = [pc EXCEPT ![t] = "w_loop"] /\ pc[t] = "open"
        /\ app' = [app EXCEPT ![t] = "w_close"]
        /\ UNCHANGED <<head, used, data, idx, cur, out, size>>
    <3>1. size[t] > 0
      BY <1>1, MessageSizes DEF Sized, MessageSizes
    <3> QED BY <1>2, <3>1 DEF WriteDriver, WriteCall
  <2>2. StepFrame(t) /\ Alone(t)
    BY <1>1, <2>1 DEF StepFrame, OthersKept, DataKept, Alone, TypeOK
  <2>3. AgeOf(t)'
    BY <1>1, <2>1 DEF AgeOf, WriterNewest, ReadsNoOlder, ToRead, Writing, TypeOK, Sized
  <2> QED
    BY <1>1, <1>2, <2>1, <2>2, <2>3, OwnQuiet DEF TypeOK
<1>3. CASE ReadDriver(t) /\ app[t] = "r_call"
  <2>1. /\ cnt' = [cnt EXCEPT ![t] = size[t]]
        /\ pc' = [pc EXCEPT ![t] = "r_enter"] /\ pc[t] = "open"
        /\ app' = [app EXCEPT ![t] = "r_close"]
        /\ UNCHANGED <<head, used, data, idx, cur, wid, out, writes, size, wrote>>
    BY <1>3 DEF ReadDriver, ReadCall
  <2>2. StepFrame(t) /\ Alone(t)
    BY <1>1, <2>1 DEF StepFrame, OthersKept, DataKept, Alone, TypeOK
  <2>3. AgeOf(t)'
    <3>1. pc'[t] = "r_enter" /\ cnt'[t] \in Messages /\ wrote'[t] = wrote[t] /\ writes' = writes
      BY <1>1, <2>1 DEF Sized, TypeOK
    <3>2. PublishedSince(wrote[t])'
      BY <1>1, <1>3, <2>1 DEF AgeOf, ReadsNoOlder, ToRead, PublishedSince, Owner
    <3> QED
      BY <1>1, <3>1, <3>2 DEF AgeOf, WriterNewest, ReadsNoOlder, PublishedSince, Writing
  <2> QED
    BY <1>1, <2>1, <2>2, <2>3, OwnQuiet DEF TypeOK
<1>4. CASE (WriteDriver(t) /\ app[t] # "w_call") \/ (ReadDriver(t) /\ app[t] # "r_call")
  <2>1. /\ UNCHANGED <<head, used, data, cnt, idx, cur, wid, out, writes, size, wrote>>
        /\ \E at \in {"open", "closed"} : pc' = [pc EXCEPT ![t] = at]
        /\ pc[t] \in {"open", "closed"}
        /\ \E to \in {"w_call", "v", "r_call", "exit"} : app' = [app EXCEPT ![t] = to]
        /\ app'[t] \in {"v", "r_call"} => t \in ToRead
    BY <1>1, <1>4 DEF WriteDriver, ReadDriver, Open, Release, ToRead
  <2>2. StepFrame(t) /\ Alone(t)
    BY <1>1, <2>1 DEF StepFrame, OthersKept, DataKept, Alone, TypeOK
  <2>3. AgeOf(t)'
    BY <1>1, <2>1 DEF AgeOf, WriterNewest, ReadsNoOlder, ToRead, PublishedSince, Owner, Writing,
                      TypeOK
  <2> QED
    BY <1>1, <2>1, <2>2, <2>3, OwnQuiet DEF TypeOK
<1> QED
  BY <1>2, <1>3, <1>4 DEF WriteDriver, ReadDriver

\* A node of a message has filled what a read of any message copies, and the
\* first one is published as the last write's.
LEMMA WriteNodeOwn ==
    ASSUME OwnInv, WalkInv', NEW t \in Task, WriteNode(t), UNCHANGED ipc
    PROVE  FirstNodesFilled' /\ \A u \in Task : AgeOf(u)'
<1> USE DEF Goto
<1>1. /\ TypeOK /\ AgeOf(t) /\ PlaceOf(t) /\ wrote \in [Task -> Nat]
      /\ pc[t] = "w_loop" /\ cnt[t] \in Messages /\ wid[t] = writes /\ wrote[t] = writes
      /\ idx[t] \in Nat /\ cnt[t] \in Nat /\ writes \in Nat /\ idx[t] < Qsets(cnt[t])
  BY DEF OwnInv, WalkInv, StoreInv, WritersAt, WriterAt, AgeOf, WriterNewest, Writing, TypeOK,
         WriteNode, Credit
<1>2. PICK n \in Node \ used :
         /\ used' = used \cup {n}
         /\ data' = [data EXCEPT ![n] = NodeData(wid[t], cnt[t], idx[t])]
         /\ Publish(t, n) \/ Link(t, n)
         /\ cur' = [cur EXCEPT ![t] = n]
  BY DEF WriteNode
<1>3. /\ data'[n] = NodeData(writes, cnt[t], idx[t])
      /\ data'[n][0] = [w |-> writes, q |-> QSET_SIZE * idx[t]]
  BY <1>1, <1>2, NodeDataFirst DEF TypeOK
<1>4. StepFrame(t) /\ Alone(t)
  BY <1>1, <1>2 DEF WriteNode, StepFrame, OthersKept, DataKept, Alone, TypeOK, ipc
<1>5. FirstNodesFilled'
  <2> SUFFICES ASSUME Base(n)' = 0 PROVE Filled(n)'
    BY <1>1, <1>2 DEF FirstNodesFilled, Filled, Base, OwnInv, TypeOK
  <2>1. idx[t] = 0
    BY <1>1, <1>3, Sizes DEF Base
  <2>2. ASSUME NEW r \in Messages, NEW i \in ReadSlots(r)
        PROVE  data'[n][i] # WILD
    <3>1. i \in Slot /\ i \in FilledSlots(cnt[t], 0)
      BY <1>1, MessageSizes DEF MessageSizes, ReadSlots
    <3>2. data'[n][i] = [w |-> writes, q |-> QSET_SIZE * 0 + i]
      BY <1>3, <2>1, <3>1 DEF NodeData
    <3>3. [w |-> writes, q |-> QSET_SIZE * 0 + i] \in Quantum
      BY <1>1, <3>1, Sizes DEF Quantum, Slot
    <3> QED BY <3>2, <3>3, StoreAssumption DEF StoreAssumption
  <2> QED BY <2>2 DEF Filled
<1>6. /\ PublishedSince(writes)'
      /\ pc'[t] \in {"w_loop", "w_term"} /\ UNCHANGED <<app, wrote, cnt, wid, writes>>
      /\ idx'[t] > 0
  <2>1. CASE Publish(t, n)
    BY <1>1, <1>2, <1>3, <2>1 DEF Publish, PublishedSince, Owner, WriteNode, TypeOK, ipc
  <2>2. CASE Link(t, n)
    <3>1. PublishedSince(writes) /\ head' = head
      BY <1>1, <2>2 DEF Link, AgeOf, WriterNewest
    <3>2. data'[head] = data[head]
      BY <1>2, <3>1 DEF PublishedSince, OwnInv, WalkInv, StoreInv, Memory, TypeOK
    <3> QED BY <1>1, <1>2, <3>1, <3>2 DEF PublishedSince, Owner, WriteNode, TypeOK, ipc
  <2> QED BY <1>2, <2>1, <2>2
<1>7. AgeOf(t)'
  BY <1>1, <1>6 DEF AgeOf, WriterNewest, ReadsNoOlder, ToRead, PlaceOf, Writing
<1> QED
  BY <1>1, <1>4, <1>5, <1>6, <1>7, OwnFrame DEF NoOlder

\* The other steps of scull_write leave the nodes and the published list alone.
LEMMA WriteOwn ==
    ASSUME OwnInv, WalkInv', NEW t \in Task, UNCHANGED ipc,
           WriteOom(t) \/ WriteTerm(t) \/ WriteTermWild(t) \/ WriteReturn(t)
    PROVE  FirstNodesFilled' /\ \A u \in Task : AgeOf(u)'
<1> USE DEF Goto, memory, locals
<1>1. /\ TypeOK /\ AgeOf(t) /\ PlaceOf(t) /\ wrote[t] \in Nat /\ WalkInv
  BY DEF OwnInv, WalkInv, StoreInv, Credit
<1>2. StepFrame(t) /\ Alone(t)
  BY <1>1, SlightFrame DEF Alone, ipc
<1>3. UNCHANGED <<head, used, data, writes, app, wrote>>
  BY DEF WriteOom, WriteTerm, WriteTermWild, WriteReturn, Forget, ipc
<1>4. \A w : PublishedSince(w)' = PublishedSince(w)
  BY <1>3 DEF PublishedSince, Owner
<1>. SUFFICES AgeOf(t)'
  BY <1>1, <1>2, <1>3, OwnQuiet DEF TypeOK
<1>5. CASE pc'[t] = "dead"
  BY <1>1, <1>3, <1>5 DEF AgeOf, WriterNewest, ReadsNoOlder, ToRead, PlaceOf, Writing,
                          WriteOom, WriteTerm, WriteTermWild, WriteReturn, Reading
<1>6. CASE pc[t] = "w_term" /\ pc'[t] = "w_ret" /\ UNCHANGED <<cnt, wid>>
  BY <1>1, <1>3, <1>4, <1>6 DEF AgeOf, WriterNewest, ReadsNoOlder, ToRead, PlaceOf, Writing
<1>7. CASE WriteReturn(t)
  <2>1. pc[t] = "w_ret" /\ pc'[t] = "open"
    BY <1>1, <1>7 DEF WriteReturn, TypeOK
  <2> QED
    BY <1>1, <1>3, <1>4, <2>1 DEF AgeOf, WriterNewest, ReadsNoOlder, ToRead, PublishedSince, Writing
<1>8. pc'[t] = "dead" \/ (pc[t] = "w_term" /\ pc'[t] = "w_ret" /\ UNCHANGED <<cnt, wid>>)
      \/ WriteReturn(t)
  BY <1>1 DEF WriteOom, WriteTerm, WriteTermWild, TypeOK
<1> QED
  BY <1>5, <1>6, <1>7, <1>8

\* One turn of scull_read's loop copies all that is wanted of a message, from
\* slots that are filled, and all of it of one write.
LEMMA ReadNodeOwn ==
    ASSUME OwnInv, NEW t \in Task, ReadNode(t)
    PROVE  /\ cnt'[t] = 0 /\ pc'[t] = "r_walk"
           /\ \A k \in DOMAIN out'[t] : out'[t][k] # WILD /\ out'[t][k].w >= wrote[t]
<1> DEFINE n == cur[t]
           more == Copied(n, cnt[t])
<1>1. /\ TypeOK /\ WalkAt(t) /\ pc[t] = "r_walk" /\ cnt[t] > 0 /\ cnt[t] \in Nat
      /\ n \in Node /\ n \in used /\ Owner(n) >= wrote[t] /\ Base(n) = 0
      /\ cnt[t] \in Messages /\ n \in Pointer
  BY DEF OwnInv, WalkInv, StoreInv, ReadersAt, ReaderAt, AgeOf, ReadsNoOlder, ReadNode, Goto,
         Reading, TypeOK, Pointer
<1>2. cnt[t] <= QUANTUM_SIZE * QSET_SIZE /\ QUANTUM_SIZE * QSET_SIZE \in Nat
  BY <1>1, MessageSizes, Sizes DEF MessageSizes
<1>3. out[t] = << >>
  <2>1. Len(out[t]) = 0 /\ out[t] \in Seq(Quantum \cup {WILD})
    BY <1>1 DEF WalkAt, Delivered, TypeOK
  <2> QED BY <2>1
<1>4. /\ cnt'[t] = RestAfter(cnt[t]) /\ pc'[t] = "r_walk"
      /\ out'[t] = << >> \o more
  BY <1>1, <1>3 DEF ReadNode, Goto, TypeOK
<1>5. /\ more \in Seq(Quantum \cup {WILD})
      /\ Len(more) \in Nat
      /\ \A k \in 1 .. Len(more) : k - 1 \in Slot /\ more[k] = data[n][k - 1]
      /\ \A k \in 1 .. Len(more) :
            more[k] = WILD \/ more[k] = [w |-> Owner(n), q |-> Base(n) + k - 1]
  <2> HIDE DEF n, more
  <2>1. DataOf(n) = data[n]
    BY <1>1 DEF DataOf
  <2>2. StoreInv
    BY DEF OwnInv, WalkInv
  <2>3. more = Copied(n, cnt[t])
    BY DEF more
  <2>4. /\ more \in Seq(Quantum \cup {WILD}) /\ Len(more) \in Nat \ {0}
        /\ \A k \in 1 .. Len(more) : k - 1 \in Slot /\ more[k] = DataOf(n)[k - 1]
    BY <1>1, <2>3, CopiedItems
  <2>5. \A k \in 1 .. Len(more) :
            more[k] = WILD \/ more[k] = [w |-> Owner(n), q |-> Base(n) + k - 1]
    BY <1>1, <2>2, <2>3, NodeCopied
  <2> QED BY <2>1, <2>4, <2>5
<1>6. Len(more) = Quanta(cnt[t]) /\ Quanta(cnt[t]) \in Nat
  <2>1. Quanta(cnt[t]) \in Nat /\ more = [k \in 1 .. Quanta(cnt[t]) |-> DataOf(n)[k - 1]]
    BY <1>1, <1>2, QsetsBound DEF Copied
  <2> QED BY <2>1
<1> HIDE DEF n, more
<1>7. ASSUME NEW k \in 1 .. Len(more) PROVE more[k] # WILD
  <2>1. k - 1 \in Nat /\ k - 1 < Quanta(cnt[t])
    BY <1>5, <1>6
  <2>2. QUANTUM_SIZE * (k - 1) < cnt[t]
    BY <1>1, <2>1, QsetsBound
  <2>3. k - 1 \in ReadSlots(cnt[t])
    BY <1>5, <2>2 DEF ReadSlots
  <2>4. Filled(n)
    BY <1>1 DEF OwnInv, FirstNodesFilled
  <2> QED BY <1>1, <1>5, <2>3, <2>4 DEF Filled
<1>8. out'[t] = more
  BY <1>4, <1>5
<1>9. ASSUME NEW k \in DOMAIN out'[t] PROVE out'[t][k] # WILD /\ out'[t][k].w >= wrote[t]
  <2>1. k \in 1 .. Len(more)
    BY <1>5, <1>8
  <2>2. more[k] # WILD
    BY <1>7, <2>1
  <2>3. more[k] = [w |-> Owner(n), q |-> Base(n) + k - 1]
    BY <1>5, <2>1, <2>2
  <2>4. more[k].w = Owner(n)
    BY <2>3
  <2> QED BY <1>1, <1>8, <2>2, <2>4
<1> QED
  BY <1>1, <1>2, <1>4, <1>9 DEF RestAfter

\* scull_read: the list it takes is no older than the process's own write.
LEMMA ReadOwn ==
    ASSUME OwnInv, WalkInv', NEW t \in Task, UNCHANGED ipc, ReadLoad(t) \/ ReadStep(t)
    PROVE  FirstNodesFilled' /\ \A u \in Task : AgeOf(u)'
<1> USE DEF Goto, memory, locals
<1>1. /\ TypeOK /\ AgeOf(t) /\ PlaceOf(t) /\ wrote[t] \in Nat /\ WalkInv /\ Memory
  BY DEF OwnInv, WalkInv, StoreInv, Credit
<1>2. StepFrame(t) /\ Alone(t)
  BY <1>1, SlightFrame DEF Alone, ipc
<1>3. UNCHANGED <<head, used, data, writes, app, wrote>>
  BY DEF ReadLoad, ReadStep, ReadCheck, ReadNode, ReadFault, ReadReturn, Forget, ipc
<1>4. app[t] = "r_close"
  BY <1>1 DEF PlaceOf, ReadLoad, ReadStep, ReadCheck, ReadNode, ReadFault, ReadReturn, Writing,
              Location, Critical, OwnInv, UnitInv, Shapes
<1>. SUFFICES AgeOf(t)'
  BY <1>1, <1>2, <1>3, OwnQuiet DEF TypeOK
<1>5. CASE ReadLoad(t)
  <2>1. /\ pc[t] = "r_enter" /\ pc'[t] = "r_check" /\ cur'[t] = head /\ cnt' = cnt
    BY <1>1, <1>5 DEF ReadLoad, TypeOK
  <2>2. PublishedSince(wrote[t]) /\ cnt[t] \in Messages
    BY <1>1, <1>4, <2>1 DEF AgeOf, ReadsNoOlder, ToRead
  <2>3. Base(head) = 0
    BY <1>1, <2>2 DEF PublishedSince, Memory
  <2> QED
    BY <1>1, <1>3, <1>4, <2>1, <2>2, <2>3
    DEF AgeOf, WriterNewest, ReadsNoOlder, ToRead, PublishedSince, Owner, Base, Writing
<1>6. CASE ReadCheck(t) /\ pc'[t] = "r_walk"
  <2>1. /\ pc[t] = "r_check" /\ cur' = cur /\ cnt' = cnt /\ out' = out
    BY <1>1, <1>6 DEF ReadCheck, TypeOK
  <2>2. cnt[t] \in Messages /\ cnt[t] # 0
    BY <1>1, <2>1, MessageSizes DEF AgeOf, ReadsNoOlder, MessageSizes
  <2> QED
    BY <1>1, <1>3, <1>4, <1>6, <2>1, <2>2
    DEF AgeOf, WriterNewest, ReadsNoOlder, ToRead, Owner, Base, Writing
<1>7. CASE ReadNode(t)
  BY <1>1, <1>3, <1>4, <1>7, ReadNodeOwn
  DEF AgeOf, WriterNewest, ReadsNoOlder, ToRead, Writing
<1>8. CASE pc'[t] \in {"open", "dead"}
  BY <1>1, <1>3, <1>4, <1>8 DEF AgeOf, WriterNewest, ReadsNoOlder, ToRead, Writing
<1> QED
  BY <1>1, <1>5, <1>6, <1>7, <1>8 DEF ReadStep, ReadCheck, ReadFault, ReadReturn, TypeOK

\* Every step of a program keeps the invariant ...
LEMMA OwnInvStep == OwnInv /\ [AppNext]_appVars => OwnInv'
<1> SUFFICES ASSUME OwnInv, [AppNext]_appVars PROVE OwnInv'
  OBVIOUS
<1>1. WalkInv' /\ UnitInv'
  <2>1. [Next]_vars
    BY AppStepIsStoreStep DEF OwnInv, WalkInv, StoreInv
  <2> QED BY <2>1, WalkStep, UnitStep DEF OwnInv
<1>2. Credit'
  BY CreditInvStep DEF OwnInv
<1>3. Sized'
  BY DEF OwnInv, Sized, AppNext, SetSem, SemaphoreP, Run, SemaphoreV, WriteDriver, ReadDriver,
         Exit, GiveBack, Driver, Kill, ipc, appVars
<1>4. wrote' \in [Task -> Nat]
  <2>1. ASSUME NEW t \in Task, WriteDriver(t) PROVE wrote' \in [Task -> Nat]
    BY <1>1, <2>1 DEF OwnInv, WalkInv, StoreInv, TypeOK, WriteDriver
  <2> QED
    BY <2>1 DEF OwnInv, AppNext, SetSem, SemaphoreP, Run, SemaphoreV, ReadDriver,
                Exit, GiveBack, Driver, Kill, ipc, appVars
<1>5. FirstNodesFilled' /\ \A t \in Task : AgeOf(t)'
  <2>1. CASE UNCHANGED appVars
    BY <2>1 DEF appVars, syncVars, vars, ipc, OwnInv, FirstNodesFilled, Filled, Base, AgeOf,
                WriterNewest, ReadsNoOlder, ToRead, PublishedSince, Owner
  <2>2. ASSUME NEW t \in Task, Driver(t)
        PROVE  FirstNodesFilled' /\ \A u \in Task : AgeOf(u)'
    BY <1>1, <2>2, WriteNodeOwn, WriteOwn, ReadOwn
    DEF Driver, Progress, SyncWriteReturn, SyncReadLoad, WriteStep
  <2>3. CASE AppNext
    BY <1>1, <2>2, <2>3, BesideOwn, FileOwn DEF AppNext, Run
  <2> QED BY <2>1, <2>3
<1> QED
  BY <1>1, <1>2, <1>3, <1>4, <1>5 DEF OwnInv

\* ... which hello_init establishes.
LEMMA OwnInvInit == AppInit => OwnInv
<1> SUFFICES ASSUME AppInit PROVE OwnInv
  OBVIOUS
<1>1. WalkInv /\ UnitInv /\ Credit
  BY WalkInit, UnitInit, CreditInit DEF AppInit, SyncInit
<1>2. Sized /\ wrote \in [Task -> Nat] /\ FirstNodesFilled
  BY DEF AppInit, SyncInit, Init, Sized, Messages, FirstNodesFilled
<1>3. \A t \in Task : AgeOf(t)
  BY DEF AppInit, SyncInit, Init, AgeOf, WriterNewest, ReadsNoOlder, ToRead, Writing
<1> QED
  BY <1>1, <1>2, <1>3 DEF OwnInv

\* What a read has got, and that it goes on.
LEMMA OwnReads ==
    ASSUME OwnInv, NEW t \in Task, pc[t] = "r_walk"
    PROVE  /\ cnt[t] > 0 => ~Faults(t)
           /\ \A k \in DOMAIN out[t] : out[t][k] # WILD /\ out[t][k].w >= wrote[t]
<1>1. cnt[t] \in Nat /\ AgeOf(t) /\ WalkAt(t) /\ out[t] \in Seq(Quantum \cup {WILD})
  BY DEF OwnInv, WalkInv, StoreInv, TypeOK
<1>2. CASE cnt[t] > 0
  <2>1. cur[t] \in used /\ cur[t] \in Node /\ Base(cur[t]) = 0 /\ cnt[t] \in Messages
    BY <1>1, <1>2 DEF OwnInv, WalkInv, StoreInv, ReadersAt, ReaderAt, Reading, AgeOf, ReadsNoOlder
  <2>2. ~Faults(t)
    BY <2>1, StoreAssumption
    DEF OwnInv, FirstNodesFilled, Filled, Faults, DataOf, StoreAssumption
  <2>3. Len(out[t]) = 0
    BY <1>1, <1>2, <2>1 DEF WalkAt, Delivered
  <2> QED BY <1>1, <2>2, <2>3
<1>3. CASE cnt[t] = 0
  BY <1>1, <1>3 DEF AgeOf, ReadsNoOlder
<1> QED BY <1>1, <1>2, <1>3

(***************************************************************************)
(* A process of driver_sync reads its own message or a later one, and      *)
(* nothing unset, although its read runs beside the others' writes.        *)
(***************************************************************************)
THEOREM AppsReadOwnOrNewer == AppSpec => []ReadsOwnOrNewer
<1>1. OwnInv => ReadsOwnOrNewer
  BY OwnReads DEF ReadsOwnOrNewer
<1> QED
  BY <1>1, OwnInvInit, OwnInvStep, PTL DEF AppSpec

(* Under the programs, killed at any point, the device is still the register. *)
THEOREM AppsImplementRegister == AppSpec => ImplementsRegister
<1>1. AppInit => Register!Init
  BY RegisterInit DEF AppInit, SyncInit
<1>2. OwnInv /\ [AppNext]_appVars => Refined
  <2> SUFFICES ASSUME OwnInv, [AppNext]_appVars PROVE Refined
    OBVIOUS
  <2>1. [Next]_vars
    BY AppStepIsStoreStep DEF OwnInv, WalkInv, StoreInv
  <2> QED BY <2>1, WalkStep DEF OwnInv
<1> QED
  BY <1>1, <1>2, OwnInvInit, OwnInvStep, PTL DEF AppSpec, ImplementsRegister, Register!Spec, Refined
-----------------------------------------------------------------------------
(***************************************************************************)
(* Nobody dies in driver_sync.  A message takes one node, so a write that  *)
(* looks for one finds it: each node that is used has been spent by a      *)
(* process of its own.                                                     *)
(***************************************************************************)
Spent == {t \in Task :
    /\ app[t] \notin {"set", "p", "w_open", "w_call"}
    /\ ~(app[t] = "w_close" /\ pc[t] = "w_loop")}

Room  == IsFiniteSet(used) /\ Cardinality(used) <= Cardinality(Spent)
Alive == \A t \in Task : pc[t] # "dead"

LiveInv == OwnInv /\ Alive /\ Room /\ writes <= MaxWrites

LEMMA OneNodeMessages == \A c \in Messages : Qsets(c) = 1
<1> SUFFICES ASSUME NEW c \in Messages PROVE Qsets(c) = 1
  OBVIOUS
<1>1. c \in Nat /\ c > 0 /\ c <= QUANTUM_SIZE * QSET_SIZE
      /\ QUANTUM_SIZE \in Nat /\ QSET_SIZE \in Nat
  BY MessageSizes, Sizes DEF MessageSizes
<1>2. Qsets(c) \in Nat
  BY <1>1, QsetsBound
<1>3. QUANTUM_SIZE * (QSET_SIZE * 0) = 0 /\ QUANTUM_SIZE * (QSET_SIZE * 1) = QUANTUM_SIZE * QSET_SIZE
      /\ QUANTUM_SIZE * QSET_SIZE \in Nat
  BY <1>1
<1>4. 0 < Qsets(c) /\ ~(1 < Qsets(c))
  BY <1>1, <1>3, QsetsBound
<1> QED BY <1>2, <1>4

LEMMA SpentFinite == IsFiniteSet(Spent) /\ Cardinality(Spent) \in Nat
<1>1. Spent \subseteq Task
  BY DEF Spent
<1> QED BY <1>1, EnoughMemory, FS_Subset, FS_CardinalityType DEF EnoughMemory

\* The first and last node of a message's write.
LEMMA WriteNodeSpends ==
    ASSUME OwnInv, NEW t \in Task, WriteNode(t), UNCHANGED ipc
    PROVE  /\ t \notin Spent /\ Spent' = Spent \cup {t}
           /\ \E n \in Node \ used : used' = used \cup {n}
           /\ pc' = [pc EXCEPT ![t] = "w_term"]
<1>1. /\ TypeOK /\ pc[t] = "w_loop" /\ app[t] = "w_close" /\ cnt[t] \in Messages
      /\ idx[t] \in Nat /\ app' = app
  BY DEF WriteNode, Goto, OwnInv, WalkInv, StoreInv, TypeOK, UnitInv, WritesInside, Writing,
         AgeOf, WriterNewest, ipc
<1>2. pc' = [pc EXCEPT ![t] = "w_term"]
  <2>1. ~(idx[t] + 1 < Qsets(cnt[t]))
    BY <1>1, OneNodeMessages
  <2> QED BY <2>1 DEF WriteNode, Goto
<1>3. Spent' = Spent \cup {t} /\ t \notin Spent
  BY <1>1, <1>2 DEF Spent, TypeOK
<1> QED BY <1>2, <1>3 DEF WriteNode

\* A write never finds the memory used up.
LEMMA MemoryLeft ==
    ASSUME LiveInv, NEW t \in Task, pc[t] = "w_loop"
    PROVE  used # Node
<1> SUFFICES ASSUME used = Node PROVE FALSE
  OBVIOUS
<1>1. t \notin Spent /\ Spent \subseteq Task
  BY DEF LiveInv, OwnInv, UnitInv, WritesInside, Writing, Spent
<1>2. Cardinality(Spent) < Cardinality(Task) /\ Cardinality(Task) \in Nat
  <2>1. /\ IsFiniteSet(Task) /\ Cardinality(Spent) <= Cardinality(Task)
        /\ Cardinality(Spent) = Cardinality(Task) => Spent = Task
    BY <1>1, EnoughMemory, FS_Subset DEF EnoughMemory
  <2> QED BY <1>1, <2>1, SpentFinite, FS_CardinalityType
<1>3. Cardinality(Task) <= Cardinality(Node) /\ Cardinality(Node) \in Nat
  <2>1. SizeOfCh \in WriteCounts /\ Qsets(SizeOfCh) = 1
    BY EnoughMemory, OneNodeMessages DEF EnoughMemory, Messages
  <2>2. Cardinality(Task) * Qsets(SizeOfCh) <= Cardinality(Node)
    BY <2>1, EnoughMemory DEF EnoughMemory
  <2> QED BY <1>2, <2>1, <2>2, EnoughMemory, FS_CardinalityType DEF EnoughMemory
<1> QED BY <1>2, <1>3, SpentFinite DEF LiveInv, Room

\* What a step of the driver does to the task, and that it does not kill it.
LEMMA DriverLives ==
    ASSUME LiveInv, NEW t \in Task, Driver(t), ~WriteNode(t)
    PROVE  /\ used' = used /\ writes' = writes /\ app' = app
           /\ pc[t] # "w_loop"
           /\ \E to \in {"open", "w_ret", "r_check", "r_walk"} : pc' = [pc EXCEPT ![t] = to]
<1> USE DEF Goto, memory, locals
<1>1. /\ OwnInv /\ TypeOK /\ AgeOf(t) /\ UNCHANGED ipc
  BY DEF LiveInv, OwnInv, WalkInv, StoreInv, Driver
<1>2. CASE WriteStep(t)
  <2>1. ~WriteOom(t)
    BY MemoryLeft DEF WriteOom
  <2>2. ~WriteTermWild(t)
    <3> SUFFICES ASSUME pc[t] = "w_term" PROVE cur[t] # WILD
      BY DEF WriteTermWild
    <3>1. cnt[t] \in Messages /\ WriterAt(t) /\ used \subseteq Node
      BY <1>1 DEF LiveInv, OwnInv, WalkInv, StoreInv, TypeOK, WritersAt, AgeOf, WriterNewest, Writing
    <3>2. idx[t] = 1
      BY <3>1, OneNodeMessages DEF WriterAt
    <3> QED BY <3>1, <3>2, StoreAssumption DEF WriterAt
  <2>3. WriteTerm(t)
    BY <1>2, <2>1, <2>2 DEF WriteStep
  <2> QED BY <1>1, <2>3 DEF WriteTerm, ipc
<1>3. CASE ReadStep(t)
  <2>1. ~ReadFault(t)
    BY <1>1, OwnReads DEF ReadFault
  <2>2. ReadCheck(t) \/ ReadNode(t) \/ ReadReturn(t)
    BY <1>3, <2>1 DEF ReadStep
  <2> QED BY <1>1, <2>2 DEF ReadCheck, ReadNode, ReadReturn, Forget, ipc
<1>4. CASE SyncWriteReturn(t) \/ SyncReadLoad(t)
  BY <1>1, <1>4 DEF SyncWriteReturn, WriteReturn, SyncReadLoad, ReadLoad, Forget, ipc
<1> QED BY <1>2, <1>3, <1>4 DEF Driver, Progress

LEMMA LiveStep == LiveInv /\ [AppNext]_appVars => LiveInv'
<1> SUFFICES ASSUME LiveInv, [AppNext]_appVars PROVE LiveInv'
  OBVIOUS
<1>0. /\ OwnInv' /\ OwnInv /\ TypeOK /\ app \in [Task -> Location] /\ MaxWrites \in Nat
      /\ writes \in Nat /\ writes <= MaxWrites /\ Alive /\ Room
  BY OwnInvStep, StoreAssumption
  DEF LiveInv, OwnInv, WalkInv, StoreInv, TypeOK, UnitInv, Shapes, StoreAssumption
<1>1. ASSUME used' = used, Spent \subseteq Spent' PROVE Room'
  <2>1. Cardinality(Spent) <= Cardinality(Spent')
    <3>1. IsFiniteSet(Spent')
      <4>1. Spent' \subseteq Task
        BY DEF Spent
      <4> QED BY <4>1, EnoughMemory, FS_Subset DEF EnoughMemory
    <3> QED BY <1>1, <3>1, FS_Subset
  <2>2. Cardinality(used) \in Nat /\ Cardinality(Spent) \in Nat /\ Cardinality(Spent') \in Nat
    <3>1. Spent' \subseteq Task
      BY DEF Spent
    <3> QED BY <1>0, <3>1, SpentFinite, EnoughMemory, FS_Subset, FS_CardinalityType DEF EnoughMemory, Room
  <2> QED BY <1>0, <1>1, <2>1, <2>2 DEF Room
<1>2. CASE UNCHANGED appVars
  <2>1. UNCHANGED <<used, writes, app, pc>>
    BY <1>2 DEF appVars, syncVars, vars, ipc
  <2>2. Spent' = Spent /\ Alive'
    BY <1>0, <2>1 DEF Spent, Alive
  <2> QED BY <1>0, <1>1, <2>1, <2>2 DEF LiveInv
<1>3. ASSUME NEW t \in Task,
             SetSem(t) \/ SemaphoreP(t) \/ SemaphoreV(t) \/ Exit(t) \/ Kill(t)
      PROVE  LiveInv'
  <2>1. /\ UNCHANGED <<used, writes>>
        /\ pc' = pc \/ (pc' = [pc EXCEPT ![t] = "closed"] /\ app'[t] = "end")
        /\ \E to \in Location : app' = [app EXCEPT ![t] = to]
        /\ app'[t] \in {"p", "w_open"} => app[t] \in {"set", "p"}
        /\ app'[t] \notin {"set", "w_call", "w_close"}
    BY <1>0, <1>3 DEF SetSem, SemaphoreP, SemaphoreV, Exit, Kill, Advance, syncVars, vars, memory,
                      locals, Location, Critical
  <2>2. Spent \subseteq Spent' /\ Alive'
    BY <1>0, <2>1 DEF Spent, Alive, TypeOK
  <2> QED BY <1>0, <1>1, <2>1, <2>2 DEF LiveInv
<1>4. ASSUME NEW t \in Task, WriteDriver(t) \/ ReadDriver(t) PROVE LiveInv'
  <2>1. /\ used' = used /\ writes' \in Nat /\ writes' <= MaxWrites
        /\ \E to \in {"open", "closed", "w_loop", "w_term", "r_enter"} : pc' = [pc EXCEPT ![t] = to]
        /\ \E to \in Location : app' = [app EXCEPT ![t] = to]
        /\ \/ app[t] \in {"w_open", "w_call"}
           \/ app'[t] \in {"v", "r_call", "r_close", "exit"}
    BY <1>0, <1>4 DEF WriteDriver, ReadDriver, File, Advance, Goto, Open, Release, WriteCall, ReadCall,
                      memory, locals, Location, Critical
  <2>2. Spent \subseteq Spent' /\ Alive'
    BY <1>0, <2>1 DEF Spent, Alive, TypeOK
  <2> QED BY <1>0, <1>1, <2>1, <2>2 DEF LiveInv
<1>5. ASSUME NEW t \in Task, Driver(t), WriteNode(t) PROVE LiveInv'
  <2>1. /\ t \notin Spent /\ Spent' = Spent \cup {t}
        /\ pc' = [pc EXCEPT ![t] = "w_term"]
    BY <1>0, <1>5, WriteNodeSpends DEF Driver
  <2>2. PICK n \in Node \ used : used' = used \cup {n}
    BY <1>0, <1>5, WriteNodeSpends DEF Driver
  <2>3. /\ IsFiniteSet(used') /\ Cardinality(used') = Cardinality(used) + 1
        /\ Cardinality(Spent') = Cardinality(Spent) + 1
    BY <1>0, <2>1, <2>2, SpentFinite, FS_AddElement DEF Room
  <2>4. Room'
    BY <1>0, <2>3, SpentFinite, FS_CardinalityType DEF Room
  <2>5. Alive' /\ writes' = writes
    BY <1>0, <1>5, <2>1 DEF Alive, TypeOK, WriteNode
  <2> QED BY <1>0, <2>4, <2>5 DEF LiveInv
<1>6. ASSUME NEW t \in Task, Driver(t), ~WriteNode(t) PROVE LiveInv'
  <2>1. /\ used' = used /\ writes' = writes /\ app' = app /\ pc[t] # "w_loop"
        /\ \E to \in {"open", "w_ret", "r_check", "r_walk"} : pc' = [pc EXCEPT ![t] = to]
    BY <1>6, DriverLives
  <2>2. Spent \subseteq Spent' /\ Alive'
    BY <1>0, <2>1 DEF Spent, Alive, TypeOK
  <2> QED BY <1>0, <1>1, <2>1, <2>2 DEF LiveInv
<1> QED BY <1>2, <1>3, <1>4, <1>5, <1>6 DEF AppNext, Run

(***************************************************************************)
(* The programs' states are typed, and no process of theirs is killed for  *)
(* a fault in the driver, neither its writes for want of memory (if there  *)
(* is a node for each process) nor its reads for what they find, although  *)
(* scull_write stores through temp2 and scull_read follows next unchecked. *)
(***************************************************************************)
THEOREM AppsTyped == AppSpec => []AppTypeOK
<1>1. LiveInv => AppTypeOK
  <2> SUFFICES ASSUME LiveInv PROVE AppTypeOK
    OBVIOUS
  <2>1. /\ TypeOK /\ done \in Nat /\ Alive /\ Shapes /\ Sized /\ wrote \in [Task -> Nat]
        /\ writes \in Nat /\ writes <= MaxWrites /\ MaxWrites \in Nat
        /\ \A t \in Task : wrote[t] <= writes
    BY StoreAssumption
    DEF LiveInv, OwnInv, WalkInv, StoreInv, UnitInv, Credit, AgeOf, TypeOK, StoreAssumption
  <2>2. wrote \in [Task -> 0 .. MaxWrites]
    BY <2>1
  <2>3. size \in [Task -> WriteCounts]
    <3>1. Messages \subseteq WriteCounts
      BY EnoughMemory DEF EnoughMemory, Messages
    <3> QED BY <2>1, <3>1 DEF Sized
  <2> QED BY <2>1, <2>2, <2>3 DEF AppTypeOK, SyncTypeOK, Shapes, Alive
<1>2. AppInit => LiveInv
  <2> SUFFICES ASSUME AppInit PROVE LiveInv
    OBVIOUS
  <2>1. Alive /\ used = {} /\ writes = 0
    BY DEF AppInit, SyncInit, Init, Alive
  <2>2. Room
    BY <2>1, SpentFinite, FS_EmptySet DEF Room
  <2> QED BY <2>1, <2>2, OwnInvInit, StoreAssumption DEF LiveInv, StoreAssumption
<1> QED BY <1>1, <1>2, LiveStep, PTL DEF AppSpec
-----------------------------------------------------------------------------
(***************************************************************************)
(* ioblock_driver.                                                         *)
(***************************************************************************)

\* The flag restricts when a list is taken and nothing else, so what holds of
\* driver_2 holds of ioblock_driver.
LEMMA BlockStepIsStoreStep == [BlockNext]_blockVars => [Next]_vars
BY BlockAssumption
   DEF BlockNext, BlockCalls, BlockSteps, RaiseFlag, WakeQueue, Sleep, BlockReadLoad,
       BlockReadReturn, BlockAssumption, blockVars, Next, Calls, ReadStep

(***************************************************************************)
(* Who is in scull_write is a writer and who waits in scull_read a reader, *)
(* and the flag goes up between the end of a list and the write's return.  *)
(***************************************************************************)
Flags ==
    /\ wait_flag \in {0, 1}
    /\ raised \in [Task -> BOOLEAN]
    /\ asleep \subseteq Readers /\ unread \in BOOLEAN
    /\ \A t \in Task : pc[t] \in Writing => t \in Writers
    /\ \A t \in Task : pc[t] = "r_enter" => t \in Readers
    /\ \A t \in Task : raised[t] => pc[t] = "w_ret"

LEMMA FlagsStep ==
    ASSUME TypeOK, Flags, BlockNext
    PROVE  Flags'
<1> USE DEF Flags, waiting, Goto, Writing, Reading, Idle
<1>0. PICK t \in Task : (BlockCalls(t) /\ UNCHANGED waiting) \/ BlockSteps(t)
  BY DEF BlockNext
<1>1. pc \in [Task -> Idle \cup Writing \cup Reading]
  BY DEF TypeOK
<1>2. CASE BlockCalls(t) /\ UNCHANGED waiting
  BY <1>1, <1>2 DEF BlockCalls, Open, Release, WriteCall, ReadCall
<1>3. CASE WriteStep(t) /\ UNCHANGED waiting
  BY <1>1, <1>3 DEF WriteStep, WriteNode, WriteOom, WriteTerm, WriteTermWild
<1>4. CASE RaiseFlag(t)
  BY <1>1, <1>4 DEF RaiseFlag, vars
<1>5. CASE WakeQueue(t)
  BY <1>1, <1>5 DEF WakeQueue, WriteReturn
<1>6. CASE Sleep(t)
  <2>1. t \in Readers
    BY <1>6 DEF Sleep
  <2> QED BY <1>6, <2>1 DEF Sleep, vars
<1>7. CASE BlockReadLoad(t)
  BY <1>1, <1>7 DEF BlockReadLoad, ReadLoad
<1>8. CASE (ReadCheck(t) \/ ReadNode(t) \/ ReadFault(t)) /\ UNCHANGED waiting
  BY <1>1, <1>8 DEF ReadCheck, ReadNode, ReadFault
<1>9. CASE BlockReadReturn(t)
  BY <1>1, <1>9 DEF BlockReadReturn, ReadReturn, FlagAfterRead
<1> QED BY <1>0, <1>2, <1>3, <1>4, <1>5, <1>6, <1>7, <1>8, <1>9 DEF BlockSteps

\* Setting the flag and waking the queue come in that order, and a reader that
\* goes to sleep has seen the flag down.
LEMMA WakeupStep ==
    ASSUME TypeOK, Flags, NoLostWakeup, BlockNext
    PROVE  NoLostWakeup'
<1> USE DEF NoLostWakeup, Flags, waiting
<1>0. PICK t \in Task : (BlockCalls(t) /\ UNCHANGED waiting) \/ BlockSteps(t)
  BY DEF BlockNext
<1>1. CASE UNCHANGED waiting
  BY <1>1
<1>2. CASE RaiseFlag(t)
  <2>1. t \in Writers /\ raised'[t]
    BY <1>2 DEF RaiseFlag, Writing
  <2> QED BY <2>1
<1>3. CASE WakeQueue(t)
  <2>1. NOD = 1 => asleep' = {}
    BY <1>3 DEF WakeQueue, BoundDevice, QueueOfReader
  <2> QED BY <2>1
<1>4. CASE Sleep(t)
  BY <1>4 DEF Sleep
<1>5. CASE BlockReadReturn(t)
  BY <1>5 DEF BlockReadReturn, FlagAfterRead
<1>6. CASE BlockReadLoad(t)
  BY <1>6 DEF BlockReadLoad
<1> QED
  BY <1>0, <1>1, <1>2, <1>3, <1>4, <1>5, <1>6 DEF BlockSteps

(***************************************************************************)
(* When no write is empty, a write that is past its first node has         *)
(* published a list, and so has the one that set the flag.                 *)
(***************************************************************************)
Published ==
    /\ wait_flag = 1 => head \in Node
    /\ \A t \in Task :
          /\ pc[t] = "w_loop" /\ idx[t] > 0 => head \in Node
          /\ pc[t] \in {"w_term", "w_ret"} => head \in Node
          /\ pc[t] \in {"r_check", "r_walk"} => head \in Node

LEMMA PublishedStep ==
    ASSUME 0 \notin WriteCounts, StoreInv, Flags, Published, BlockNext
    PROVE  Published'
<1> USE DEF waiting, memory, locals, Goto
<1>0. PICK t \in Task : (BlockCalls(t) /\ UNCHANGED waiting) \/ BlockSteps(t)
  BY DEF BlockNext
<1>1. TypeOK
  BY DEF StoreInv
\* Once there is a list, there is one for good: all that is left to show is what
\* a step does before the first is published.
<1>2. CASE head' \in Node
  BY <1>2 DEF Published
<1>3. CASE head' \notin Node
  <2>1. head' = head /\ head \notin Node
    BY <1>0, <1>1, <1>3
       DEF BlockCalls, BlockSteps, Open, Release, WriteCall, ReadCall, WriteStep, WriteNode,
           Publish, Link, WriteOom, WriteTerm, WriteTermWild, RaiseFlag, WakeQueue,
           WriteReturn, Sleep, BlockReadLoad, ReadLoad, ReadCheck, ReadNode, ReadFault,
           BlockReadReturn, ReadReturn, vars, TypeOK, Published
  <2>2. wait_flag = 0 /\ \A u \in Task :
          pc[u] \in Idle \cup {"w_loop", "r_enter"} /\ (pc[u] = "w_loop" => idx[u] = 0)
    BY <1>1, <2>1 DEF Published, Flags, TypeOK, Idle, Writing, Reading
  <2>3. CASE Sleep(t)
    BY <2>1, <2>2, <2>3 DEF Sleep, vars, Published
  <2>4. CASE WriteStep(t) /\ UNCHANGED waiting
    BY <1>1, <1>3, <2>1, <2>2, <2>4
       DEF WriteStep, WriteNode, Publish, Link, WriteOom, WriteTerm, WriteTermWild,
           TypeOK, Published
  <2>5. CASE BlockCalls(t) /\ UNCHANGED waiting
    <3>1. /\ \A u \in Task \ {t} : pc'[u] = pc[u] /\ idx'[u] = idx[u]
          /\ pc'[t] \in Idle \cup {"w_loop", "r_enter"} /\ wait_flag' = 0
          /\ pc'[t] = "w_loop" => idx'[t] = 0
      <4>1. CASE Open(t) \/ Release(t)
        BY <1>1, <2>2, <2>5, <4>1 DEF Open, Release, TypeOK, Idle
      <4>2. ASSUME NEW c \in WriteCounts, WriteCall(t, c)
            PROVE  /\ pc' = [pc EXCEPT ![t] = "w_loop"] /\ idx' = idx /\ idx[t] = 0
        <5>1. c > 0
          BY StoreAssumption DEF StoreAssumption
        <5>2. pc[t] = "open" /\ idx[t] = 0
          BY <4>2 DEF WriteCall, StoreInv, Fresh
        <5> QED BY <4>2, <5>1, <5>2 DEF WriteCall
      <4>3. ASSUME NEW c \in ReadCounts, ReadCall(t, c)
            PROVE  pc' = [pc EXCEPT ![t] = "r_enter"] /\ idx' = idx
        BY <1>1, <4>3 DEF ReadCall, TypeOK
      <4> QED BY <1>1, <2>2, <2>5, <4>1, <4>2, <4>3 DEF BlockCalls, TypeOK
    <3> QED BY <2>2, <3>1 DEF Published, Idle
  \* Every other step is that of a task which is further, or sees the flag up.
  <2>6. ~(RaiseFlag(t) \/ WakeQueue(t) \/ BlockReadLoad(t) \/ BlockReadReturn(t))
    BY <2>2 DEF RaiseFlag, WakeQueue, WriteReturn, BlockReadLoad, BlockReadReturn,
                ReadReturn, Idle
  <2>7. ~(ReadCheck(t) \/ ReadNode(t) \/ ReadFault(t))
    BY <2>2 DEF ReadCheck, ReadNode, ReadFault, Idle
  <2> QED
    BY <1>0, <2>3, <2>4, <2>5, <2>6, <2>7 DEF BlockSteps
<1> QED BY <1>2, <1>3

BlockInv ==
    /\ StoreInv /\ Flags /\ NoLostWakeup
    /\ 0 \notin WriteCounts => Published

LEMMA BlockInvInit == BlockInit => BlockInv
<1> SUFFICES ASSUME BlockInit PROVE BlockInv
  OBVIOUS
<1>1. StoreInv
  BY StoreInvInit DEF BlockInit
<1>2. Flags
  <2>1. unread \in BOOLEAN
    BY DEF BlockInit
  <2>2. \A t \in Task : pc[t] = "closed" /\ ~raised[t]
    BY DEF BlockInit, Init
  <2>3. wait_flag \in {0, 1} /\ asleep \subseteq Readers
    BY DEF BlockInit
  <2>4. raised \in [Task -> BOOLEAN]
    BY DEF BlockInit
  <2> QED BY <2>1, <2>2, <2>3, <2>4 DEF Flags, Writing
<1>3. NoLostWakeup
  BY DEF BlockInit, NoLostWakeup
<1>4. Published
  BY DEF BlockInit, Published, Init, Writing
<1> QED BY <1>1, <1>2, <1>3, <1>4 DEF BlockInv

LEMMA BlockInvStep == BlockInv /\ [BlockNext]_blockVars => BlockInv'
<1> SUFFICES ASSUME BlockInv, [BlockNext]_blockVars PROVE BlockInv'
  OBVIOUS
<1>1. StoreInv' /\ TypeOK
  BY BlockStepIsStoreStep, StoreInvStep DEF BlockInv, StoreInv
<1>2. CASE BlockNext
  BY <1>1, <1>2, FlagsStep, WakeupStep, PublishedStep DEF BlockInv
<1>3. CASE UNCHANGED blockVars
  BY <1>1, <1>3 DEF BlockInv, Flags, NoLostWakeup, Published, blockVars, waiting, vars
<1> QED BY <1>2, <1>3

THEOREM BlockInvariant == BlockSpec => []BlockInv
BY BlockInvInit, BlockInvStep, PTL DEF BlockSpec

(* The handlers of ioblock_driver keep the types of what they share.        *)
THEOREM BlockTyped == BlockSpec => []BlockTypeOK
<1>1. BlockInv => BlockTypeOK
  BY DEF BlockInv, StoreInv, Flags, BlockTypeOK
<1> QED
  BY <1>1, BlockInvariant, PTL

(* Nobody sleeps through a flag that no writer is about to announce (lines  *)
(* 80, 81 and 90).                                                          *)
THEOREM BlockNoLostWakeup == BlockSpec => []NoLostWakeup
<1>1. BlockInv => NoLostWakeup
  BY DEF BlockInv
<1> QED
  BY <1>1, BlockInvariant, PTL

(* The flag lets a reader in only when there is a list to read.             *)
THEOREM BlockFlagAfterPublish == BlockSpec => []FlagAfterPublish
<1>1. BlockInv => FlagAfterPublish
  BY DEF BlockInv, Published, FlagAfterPublish
<1> QED
  BY <1>1, BlockInvariant, PTL

(* ioblock_driver's device implements the register, with any number of     *)
(* devices and whatever the flag does.                                     *)
THEOREM BlockImplementsRegister == BlockSpec => ImplementsRegister
<1>1. BlockInit => Init
  BY DEF BlockInit
<1> QED
  BY <1>1, BlockStepIsStoreStep, StoreImplementsRegister, PTL DEF BlockSpec, Spec
=============================================================================
