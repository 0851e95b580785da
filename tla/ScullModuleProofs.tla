------------------------- MODULE ScullModuleProofs -------------------------
(***************************************************************************)
(* ScullModule for any number of processes, devices and loads, and each of *)
(* the four drivers: type correctness, LoadedIsSound, ScriptIsSound and    *)
(* OneDeviceLeavesNothing.  The same, and ReadsAsWritten, for ScullIoctl,  *)
(* where ioctl_driver's calls store messages and its ioctls set the        *)
(* quantum.                                                                *)
(***************************************************************************)
EXTENDS ScullIoctl, ScullLayoutProofs, SequenceTheorems, TLAPS

WithEntry == driver \in {"proc_driver", "jiffies_driver"}

\* What hello_init and hello_exit have left to do.
InitTodo ==
    IF WithEntry
    THEN {ProcInit, <<"alloc", "devices", "entry">>, <<"devices", "entry">>, <<"entry">>, << >>}
    ELSE {Driver2Init, <<"alloc", "devices">>, <<"devices">>, << >>}
ExitTodo ==
    IF WithEntry
    THEN {ProcExit, <<"free", "del", "remove">>, <<"del", "remove">>, <<"remove">>, << >>}
    ELSE {Driver2Exit, <<"free", "del">>, <<"del">>, << >>}

LEMMA Tails ==
    /\ \A a, b, c, d : Tail(<<a, b, c, d>>) = <<b, c, d>> /\ Head(<<a, b, c, d>>) = a
    /\ \A a, b, c : Tail(<<a, b, c>>) = <<b, c>> /\ Head(<<a, b, c>>) = a
    /\ \A a, b : Tail(<<a, b>>) = <<b>> /\ Head(<<a, b>>) = a
    /\ \A a : Tail(<<a>>) = << >> /\ Head(<<a>>) = a
OBVIOUS

LEMMA InitTodoStep ==
    ASSUME todo \in InitTodo, todo # << >>
    PROVE  /\ Head(todo) \in {"region", "alloc", "devices", "entry"}
           /\ Tail(todo) \in InitTodo
           /\ Head(todo) = "region" => Tail(todo) # << >> /\ Head(Tail(todo)) = "alloc"
           /\ Head(todo) = "alloc" => Tail(todo) # << >> /\ Head(Tail(todo)) = "devices"
           /\ Head(todo) = "devices" /\ Tail(todo) # << >> => Head(Tail(todo)) = "entry"
           /\ Head(todo) = "entry" => Tail(todo) = << >> /\ WithEntry
<1>1. CASE WithEntry
  <2>1. CASE todo = ProcInit
    BY <1>1, <2>1, Tails DEF InitTodo, ProcInit
  <2>2. CASE todo = <<"alloc", "devices", "entry">>
    BY <1>1, <2>2, Tails DEF InitTodo, ProcInit
  <2>3. CASE todo = <<"devices", "entry">>
    BY <1>1, <2>3, Tails DEF InitTodo, ProcInit
  <2>4. CASE todo = <<"entry">>
    BY <1>1, <2>4, Tails DEF InitTodo, ProcInit
  <2> QED BY <1>1, <2>1, <2>2, <2>3, <2>4 DEF InitTodo
<1>2. CASE ~WithEntry
  <2>1. CASE todo = Driver2Init
    BY <1>2, <2>1, Tails DEF InitTodo, Driver2Init
  <2>2. CASE todo = <<"alloc", "devices">>
    BY <1>2, <2>2, Tails DEF InitTodo, Driver2Init
  <2>3. CASE todo = <<"devices">>
    BY <1>2, <2>3, Tails DEF InitTodo, Driver2Init
  <2> QED BY <1>2, <2>1, <2>2, <2>3 DEF InitTodo
<1> QED BY <1>1, <1>2

LEMMA ExitTodoStep ==
    ASSUME todo \in ExitTodo, todo # << >>
    PROVE  /\ Head(todo) \in {"unregister", "free", "del", "remove"}
           /\ Tail(todo) \in ExitTodo
           /\ Tail(todo) = << >> => Head(todo) = "remove" \/ ~WithEntry
<1>1. CASE WithEntry
  <2>1. CASE todo = ProcExit
    BY <1>1, <2>1, Tails DEF ExitTodo, ProcExit
  <2>2. CASE todo = <<"free", "del", "remove">>
    BY <1>1, <2>2, Tails DEF ExitTodo, ProcExit
  <2>3. CASE todo = <<"del", "remove">>
    BY <1>1, <2>3, Tails DEF ExitTodo, ProcExit
  <2>4. CASE todo = <<"remove">>
    BY <1>1, <2>4, Tails DEF ExitTodo, ProcExit
  <2> QED BY <1>1, <2>1, <2>2, <2>3, <2>4 DEF ExitTodo
<1>2. CASE ~WithEntry
  <2>1. CASE todo = Driver2Exit
    BY <1>2, <2>1, Tails DEF ExitTodo, Driver2Exit
  <2>2. CASE todo = <<"free", "del">>
    BY <1>2, <2>2, Tails DEF ExitTodo, Driver2Exit
  <2>3. CASE todo = <<"del">>
    BY <1>2, <2>3, Tails DEF ExitTodo, Driver2Exit
  <2> QED BY <1>2, <2>1, <2>2, <2>3 DEF ExitTodo
<1> QED BY <1>1, <1>2
-----------------------------------------------------------------------------
(***************************************************************************)
(* The inductive invariant.                                                *)
(***************************************************************************)

\* A device is of this load, and added, or of an earlier one.
KnownAt(b, l, a) == b # NONE => b.load <= l /\ (b.load = l => b.dev < a)
Known(b) == KnownAt(b, loads, added)

AllKnown ==
    /\ \A t \in Task : Known(file[t])
    /\ Known(inode)
    /\ \A i \in 1 .. Len(map) : Known(map[i])

\* Devices are set up before they are added, in memory that is there.
Backed ==
    /\ added <= ready
    /\ phase \in {"init", "live"} /\ ready > 0 => mem = "live"

\* How far hello_init has come.
Loaded ==
    phase = "init" =>
        /\ todo \in InitTodo
        /\ todo # << >> /\ Head(todo) \in {"region", "alloc"} => ready = 0
        /\ todo = << >> \/ Head(todo) = "entry" => added > 0

\* The file in /proc is there, or someone is still inside read_proc.
Seen == entry \/ \E r \in Reader : proc[r] = "in"

\* How far hello_exit has come.
Unloaded ==
    phase = "exit" => todo \in ExitTodo /\ (todo = << >> => ~Seen)

Entered ==
    /\ Seen => WithEntry
    /\ phase = "out" => ~Seen
    /\ phase \in {"init", "live"} /\ entry => added > 0

ModInv == ModTypeOK /\ AllKnown /\ Backed /\ Loaded /\ Unloaded /\ Entered

LEMMA Scripts ==
    ASSUME driver \in KnownDrivers
    PROVE  /\ HelloInit \in InitTodo /\ HelloInit # << >> /\ Head(HelloInit) = "region"
           /\ HelloExit \in ExitTodo /\ HelloExit # << >>
           /\ HelloInit \in Seq({"region", "alloc", "devices", "entry",
                                 "unregister", "free", "del", "remove"})
           /\ HelloExit \in Seq({"region", "alloc", "devices", "entry",
                                 "unregister", "free", "del", "remove"})
<1>1. CASE driver \in {"proc_driver", "jiffies_driver"}
  <2>1. HelloInit = ProcInit /\ HelloExit = ProcExit /\ WithEntry
    BY <1>1 DEF HelloInit, HelloExit, JiffiesInit, JiffiesExit, ProcInit, ProcExit, WithEntry
  <2> QED BY <2>1, Tails DEF InitTodo, ExitTodo, ProcInit, ProcExit
<1>2. CASE driver \in {"driver_2", "ioctl_driver"}
  <2>1. HelloInit = Driver2Init /\ HelloExit = Driver2Exit /\ ~WithEntry
    BY <1>2 DEF HelloInit, HelloExit, IoctlInit, IoctlExit, Driver2Init, Driver2Exit, WithEntry
  <2> QED BY <2>1, Tails DEF InitTodo, ExitTodo, Driver2Init, Driver2Exit
<1> QED BY <1>1, <1>2 DEF KnownDrivers

LEMMA ModInit == Init => ModInv
<1> SUFFICES ASSUME Init PROVE ModInv
  OBVIOUS
<1>1. ModTypeOK
  <2>1. todo \in Seq({"region", "alloc", "devices", "entry",
                      "unregister", "free", "del", "remove"}) /\ map \in Seq(Device)
    BY EmptySeq DEF Init
  <2> QED BY <2>1 DEF Init, ModTypeOK
<1>2. AllKnown /\ Backed /\ Loaded /\ Unloaded
  BY EmptySeq DEF Init, AllKnown, Known, KnownAt, Backed, Loaded, Unloaded
<1>3. Entered
  BY DEF Init, Entered, Seen
<1> QED BY <1>1, <1>2, <1>3 DEF ModInv

LEMMA UsersFrame ==
    ASSUME NEW t \in Task, Opening(t) \/ Calls(t)
    PROVE  UNCHANGED <<driver, nod, script, loads, phase, todo, mem, ready, added, deleted,
                       region, map, made, entry, proc, dirty>>
BY DEF Opening, Calls, Open, Release, BeginCall, EndCall, Use, fixed, array, kernel

LEMMA ReaderFrame ==
    ASSUME ModTypeOK, NEW r \in Reader, Reading(r)
    PROVE  /\ UNCHANGED <<driver, nod, script, loads, phase, todo, mem, ready, added, deleted,
                          region, map, inode, made, entry, pc, file, dirty>>
           /\ proc' \in [Reader -> {"out", "in", "dead"}]
           /\ Seen' => Seen
BY DEF Reading, ProcBegin, ProcEnd, Seen, ModTypeOK, fixed, array, kernel

LEMMA ThisDevice == ASSUME ModTypeOK PROVE \A k \in Nat : This(k) \in Device
BY DEF ModTypeOK, This, Device

LEMMA LookupTyped == ModTypeOK => Lookup \in Device \cup {NONE}
BY DEF ModTypeOK, Lookup

(***************************************************************************)
(* The types.                                                              *)
(***************************************************************************)
LEMMA TypeStep == ModTypeOK /\ [Next]_vars => ModTypeOK'
<1> SUFFICES ASSUME ModTypeOK, [Next]_vars PROVE ModTypeOK'
  OBVIOUS
<1> USE DEF ModTypeOK, fixed, array, kernel, users
<1> DEFINE Call == {"region", "alloc", "devices", "entry", "unregister", "free", "del", "remove"}
<1>1. \A c : Did(c) => todo' \in Seq(Call)
  BY DEF Did, Doing
<1>2. CASE Insmod \/ Rmmod
  <2>1. driver \in KnownDrivers
    BY ModuleAssumption
  <2>2. todo' \in Seq(Call)
    BY <1>2, <2>1, Scripts DEF Insmod, Rmmod
  <2>3. CASE Insmod
    <3>1. UNCHANGED <<driver, nod, script, region, map, inode, made, entry, pc, file, proc, dirty>>
      BY <2>3 DEF Insmod
    <3>2. /\ loads' \in Nat /\ phase' = "init" /\ mem' = "none"
          /\ ready' = 0 /\ added' = 0 /\ deleted' = FALSE
      BY <2>3 DEF Insmod
    <3> QED BY <2>2, <3>1, <3>2
  <2>4. CASE Rmmod
    BY <2>2, <2>4 DEF Rmmod
  <2> QED BY <1>2, <2>3, <2>4
<1>3. CASE Register \/ AllocDevices \/ CreateEntry \/ InitReturn
  <2>1. CASE Register
    BY <1>1, <2>1 DEF Register, Did
  <2>2. CASE AllocDevices
    BY <1>1, <2>2 DEF AllocDevices, Did
  <2>3. CASE CreateEntry \/ InitReturn
    BY <1>1, <2>3 DEF CreateEntry, InitReturn, Did
  <2> QED BY <1>3, <2>1, <2>2, <2>3
<1>4. CASE SetUpDevice
  BY <1>4 DEF SetUpDevice, Doing
<1>5. CASE AddDevice
  <2>1. This(added) \in Device
    BY ThisDevice
  <2>2. map' \in Seq(Device) /\ todo' \in Seq(Call)
    BY <1>5, <2>1 DEF AddDevice, Doing
  <2> QED BY <1>5, <2>2 DEF AddDevice
<1>6. CASE Unregister \/ FreeDevices \/ DelGarbage \/ EntryRemoved
  BY <1>1, <1>6 DEF Unregister, FreeDevices, DelGarbage, EntryRemoved, Did
<1>7. CASE DelDevice
  <2>1. map' \in Seq(Device) /\ inode' \in Device \cup {NONE}
    BY <1>7 DEF DelDevice, Forget0
  <2> QED BY <1>1, <1>7, <2>1 DEF DelDevice, Did
<1>8. CASE RemoveEntry \/ ExitReturn \/ TakeMemory \/ MakeNode
  BY <1>8 DEF RemoveEntry, ExitReturn, TakeMemory, MakeNode
<1>9. ASSUME NEW t \in Task, Open(t) PROVE ModTypeOK'
  BY <1>9, LookupTyped DEF Open, Enter, Dies
<1>10. ASSUME NEW t \in Task, Release(t) PROVE ModTypeOK'
  <2>1. inode' \in Device \cup {NONE}
    BY <1>10 DEF Release, Put, Forget0, Dies
  <2>2. pc' \in [Task -> {"closed", "open", "call", "dead", "killed"}]
        /\ file' \in [Task -> Device \cup {NONE}]
    BY <1>10 DEF Release, Enter, Dies
  <2> QED BY <1>10, <2>1, <2>2 DEF Release
<1>11. ASSUME NEW t \in Task, Calls(t) PROVE ModTypeOK'
  BY <1>11 DEF Calls, BeginCall, EndCall, Use, Enter
<1>12. ASSUME NEW r \in Reader, Reading(r) PROVE ModTypeOK'
  BY <1>12, ReaderFrame
<1>13. CASE UNCHANGED vars
  BY <1>13 DEF vars
<1> QED
  BY <1>2, <1>3, <1>4, <1>5, <1>6, <1>7, <1>8, <1>9, <1>10, <1>11, <1>12, <1>13
  DEF Next, Admin, Loading, Unloading, Opening

(***************************************************************************)
(* Where a device can be found.                                            *)
(***************************************************************************)
LEMMA LookupKnown == ModTypeOK /\ AllKnown => Known(Lookup)
BY DEF ModTypeOK, AllKnown, Known, KnownAt, Lookup

LEMMA KnownStep == ModTypeOK /\ AllKnown /\ [Next]_vars => AllKnown'
<1> SUFFICES ASSUME ModTypeOK, AllKnown, [Next]_vars PROVE AllKnown'
  OBVIOUS
<1>0. loads \in Nat /\ added \in Nat /\ map \in Seq(Device) /\ NONE \notin Device
      /\ inode \in Device \cup {NONE} /\ file \in [Task -> Device \cup {NONE}]
  BY ModuleAssumption DEF ModTypeOK
<1> USE DEF fixed, array, kernel, users
<1>1. CASE Insmod
  <2>1. loads' = loads + 1 /\ UNCHANGED <<file, inode, map>>
    BY <1>1 DEF Insmod
  <2>2. \A b \in Device \cup {NONE} : Known(b) => KnownAt(b, loads', added')
    BY <1>0, <2>1 DEF Known, KnownAt, Device
  <2> QED BY <1>0, <2>1, <2>2 DEF AllKnown, Known
<1>2. CASE AddDevice
  <2> DEFINE K(b) == KnownAt(b, loads', added')
  <2>1. added' = added + 1 /\ UNCHANGED <<loads, file, inode>>
        /\ map' = IF region THEN <<This(added)>> \o map ELSE map
    BY <1>2 DEF AddDevice
  <2>2. \A b \in Device \cup {NONE} : Known(b) => K(b)
    BY <1>0, <2>1 DEF Known, KnownAt, Device
  <2>3. K(This(added))
    BY <1>0, <2>1 DEF KnownAt, This
  <2> HIDE DEF K
  <2>4. \A i \in 1 .. Len(map) : K(map[i])
    BY <1>0, <2>2 DEF AllKnown
  <2>5. ASSUME region, NEW i \in 1 .. Len(map') PROVE K(map'[i])
    <3> DEFINE one == <<This(added)>>
    <3>1. one \in Seq(Device) /\ Len(one) = 1 /\ one[1] = This(added)
      BY <1>0, ThisDevice
    <3>2. map' = one \o map
      BY <2>1, <2>5
    <3> HIDE DEF one
    <3>3. Len(map') = 1 + Len(map) /\ map'[i] = IF i <= 1 THEN one[i] ELSE map[i - 1]
      <4>1. /\ Len(one \o map) = 1 + Len(map)
            /\ \A j \in 1 .. 1 + Len(map) : (one \o map)[j] = IF j <= 1 THEN one[j] ELSE map[j - 1]
        <5>1. /\ Len(one \o map) = Len(one) + Len(map)
              /\ \A j \in 1 .. Len(one) + Len(map) :
                    (one \o map)[j] = IF j <= Len(one) THEN one[j] ELSE map[j - Len(one)]
          BY <1>0, <3>1, ConcatProperties, Zenon
        <5> QED BY <3>1, <5>1, Zenon
      <4> QED BY <2>5, <3>2, <4>1, Zenon
    <3>4. CASE i = 1
      BY <2>3, <3>1, <3>3, <3>4
    <3>5. CASE i # 1
      <4>1. i - 1 \in 1 .. Len(map) /\ map'[i] = map[i - 1]
        BY <1>0, <3>3, <3>5, LenProperties
      <4> QED BY <2>4, <4>1
    <3> QED BY <3>4, <3>5
  <2>6. \A i \in 1 .. Len(map') : K(map'[i])
    BY <2>1, <2>4, <2>5
  <2> QED BY <1>0, <2>1, <2>2, <2>6 DEF AllKnown, Known, K
<1>3. CASE DelDevice
  <2>1. UNCHANGED <<loads, added, file>> /\ inode' \in {inode, NONE}
        /\ map' = IF region /\ map # << >> THEN Tail(map) ELSE map
    BY <1>3 DEF DelDevice, Forget0
  <2>2. \A i \in 1 .. Len(map') : \E j \in 1 .. Len(map) : map'[i] = map[j]
    <3>1. CASE map' = Tail(map) /\ map # << >>
      <4>1. Len(map') = Len(map) - 1 /\ \A i \in 1 .. Len(map') : map'[i] = map[i + 1]
        BY <1>0, <3>1, HeadTailProperties
      <4>2. \A i \in 1 .. Len(map') : i + 1 \in 1 .. Len(map)
        BY <1>0, <4>1, LenProperties
      <4> QED BY <4>1, <4>2
    <3>2. CASE map' = map
      BY <3>2
    <3> QED BY <2>1, <3>1, <3>2
  <2> QED BY <2>1, <2>2 DEF AllKnown, Known, KnownAt, KnownAt
<1>4. CASE MakeNode
  BY <1>4 DEF MakeNode, AllKnown, Known, KnownAt, KnownAt
<1>5. ASSUME NEW t \in Task, Open(t) PROVE AllKnown'
  <2>1. UNCHANGED <<loads, added, map>> /\ inode' \in {inode, Lookup}
        /\ \A u \in Task : file'[u] \in {file[u], Lookup}
    BY <1>0, <1>5 DEF Open, Dies
  <2> QED BY <2>1, LookupKnown DEF AllKnown, Known, KnownAt, KnownAt
<1>6. ASSUME NEW t \in Task, Release(t) PROVE AllKnown'
  <2>1. UNCHANGED <<loads, added, map>> /\ inode' \in {inode, NONE}
        /\ \A u \in Task : file'[u] \in {file[u], NONE}
    BY <1>0, <1>6 DEF Release, Dies, Put, Forget0
  <2> QED BY <2>1 DEF AllKnown, Known, KnownAt, KnownAt
<1>7. ASSUME UNCHANGED <<loads, added, file, inode, map>> PROVE AllKnown'
  BY <1>7 DEF AllKnown, Known, KnownAt, KnownAt
<1>8. CASE Register \/ AllocDevices \/ SetUpDevice \/ CreateEntry \/ InitReturn \/ Rmmod
  BY <1>7, <1>8 DEF Register, AllocDevices, SetUpDevice, CreateEntry, InitReturn, Rmmod
<1>9. CASE Unregister \/ FreeDevices \/ DelGarbage \/ RemoveEntry \/ EntryRemoved \/ ExitReturn \/ TakeMemory
  BY <1>7, <1>9 DEF Unregister, FreeDevices, DelGarbage, RemoveEntry, EntryRemoved, ExitReturn, TakeMemory
<1>10. ASSUME NEW t \in Task, Calls(t) PROVE AllKnown'
  BY <1>7, <1>10 DEF Calls, BeginCall, EndCall, Use
<1>11. ASSUME NEW r \in Reader, Reading(r) PROVE AllKnown'
  BY <1>7, <1>11, ReaderFrame
<1>12. CASE UNCHANGED vars
  BY <1>7, <1>12 DEF vars
<1> QED
  BY <1>1, <1>2, <1>3, <1>4, <1>5, <1>6, <1>8, <1>9, <1>10, <1>11, <1>12
  DEF Next, Admin, Loading, Unloading, Opening
-----------------------------------------------------------------------------
(***************************************************************************)
(* How far loading and unloading have come.                                *)
(***************************************************************************)
Progress == Backed /\ Loaded /\ Unloaded /\ Entered

\* Which of the two scripts makes a call.
LEMMA WhoCalls ==
    ASSUME ModInv
    PROVE  /\ \A c \in {"region", "alloc", "devices", "entry"} :
                  Doing(c) => phase = "init" /\ todo \in InitTodo
           /\ \A c \in {"unregister", "free", "del", "remove"} :
                  Doing(c) => phase = "exit" /\ todo \in ExitTodo
BY InitTodoStep, ExitTodoStep DEF ModInv, Doing, Loaded, Unloaded

\* Nothing that Progress speaks of changes.
LEMMA ProgressKept ==
    ASSUME Progress,
           UNCHANGED <<driver, loads, phase, todo, mem, ready, added, entry, proc>>
    PROVE  Progress'
BY DEF Progress, Backed, Loaded, Unloaded, Entered, Seen, WithEntry, InitTodo, ExitTodo

LEMMA LoadingProgress == ModInv /\ (Insmod \/ Loading) => Progress'
<1> SUFFICES ASSUME ModInv, Insmod \/ Loading PROVE Progress'
  OBVIOUS
<1>0. /\ ready \in Nat /\ added \in Nat /\ nod \in Nat /\ nod > 0
      /\ driver \in KnownDrivers /\ Backed /\ Loaded /\ Unloaded /\ Entered
  BY ModuleAssumption DEF ModInv, ModTypeOK
<1> USE DEF fixed, array, kernel, users, Progress
<1>1. CASE Insmod
  <2>1. /\ phase = "out" /\ phase' = "init" /\ todo' = HelloInit /\ ready' = 0 /\ added' = 0
        /\ UNCHANGED <<driver, entry, proc>>
    BY <1>1 DEF Insmod
  <2>2. InitTodo' = InitTodo
    BY <2>1 DEF InitTodo, WithEntry
  <2>3. Loaded'
    BY <1>0, <2>1, <2>2, Scripts DEF Loaded
  <2> QED BY <1>0, <2>1, <2>3 DEF Backed, Unloaded, Entered, Seen, WithEntry
<1>2. CASE Register
  <2>1. /\ phase = "init" /\ Head(todo) = "region" /\ todo # << >> /\ todo \in InitTodo
        /\ todo' = Tail(todo)
        /\ UNCHANGED <<driver, phase, mem, ready, added, entry, proc>>
    BY <1>2, WhoCalls DEF Register, Did, Doing
  <2>2. Loaded'
    BY <1>0, <2>1, InitTodoStep DEF Loaded, InitTodo, WithEntry
  <2> QED BY <1>0, <2>1, <2>2 DEF Backed, Unloaded, Entered, Seen, WithEntry
<1>3. CASE AllocDevices
  <2>1. /\ phase = "init" /\ Head(todo) = "alloc" /\ todo # << >> /\ todo \in InitTodo
        /\ todo' = Tail(todo)
        /\ UNCHANGED <<driver, phase, ready, added, entry, proc>>
    BY <1>3, WhoCalls DEF AllocDevices, Did, Doing
  <2>2. Loaded' /\ ready = 0
    BY <1>0, <2>1, InitTodoStep DEF Loaded, InitTodo, WithEntry
  <2> QED BY <1>0, <2>1, <2>2 DEF Backed, Unloaded, Entered, Seen, WithEntry
<1>4. CASE SetUpDevice
  <2>1. /\ phase = "init" /\ Head(todo) = "devices" /\ todo # << >> /\ todo \in InitTodo
        /\ UNCHANGED <<driver, todo, mem, added, entry, proc>>
        /\ IF mem = "live" THEN ready' = ready + 1 /\ phase' = phase
                           ELSE phase' = "stuck" /\ ready' = ready
    BY <1>4, WhoCalls DEF SetUpDevice, Doing
  <2>2. Loaded'
    BY <1>0, <2>1 DEF Loaded, InitTodo, WithEntry
  <2> QED BY <1>0, <2>1, <2>2 DEF Backed, Unloaded, Entered, Seen, WithEntry
<1>5. CASE AddDevice
  <2>1. /\ phase = "init" /\ Head(todo) = "devices" /\ todo # << >> /\ todo \in InitTodo
        /\ added < ready /\ added' = added + 1
        /\ todo' = IF added' = nod THEN Tail(todo) ELSE todo
        /\ UNCHANGED <<driver, phase, mem, ready, entry, proc>>
    BY <1>5, WhoCalls DEF AddDevice, MayAdd, Doing
  <2>2. Loaded'
    BY <1>0, <2>1, InitTodoStep DEF Loaded, InitTodo, WithEntry
  <2> QED BY <1>0, <2>1, <2>2 DEF Backed, Unloaded, Entered, Seen, WithEntry
<1>6. CASE CreateEntry
  <2>1. /\ phase = "init" /\ Head(todo) = "entry" /\ todo # << >> /\ todo \in InitTodo
        /\ todo' = Tail(todo)
        /\ UNCHANGED <<driver, phase, mem, ready, added, proc>>
    BY <1>6, WhoCalls DEF CreateEntry, Did, Doing
  <2>2. Loaded' /\ added > 0 /\ WithEntry
    BY <1>0, <2>1, InitTodoStep DEF Loaded, InitTodo, WithEntry
  <2> QED BY <1>0, <2>1, <2>2 DEF Backed, Unloaded, Entered, Seen, WithEntry
<1>7. CASE InitReturn
  BY <1>0, <1>7 DEF InitReturn, Backed, Loaded, Unloaded, Entered, Seen, WithEntry
<1> QED BY <1>1, <1>2, <1>3, <1>4, <1>5, <1>6, <1>7 DEF Loading

LEMMA UnloadingProgress == ModInv /\ (Rmmod \/ Unloading) => Progress'
<1> SUFFICES ASSUME ModInv, Rmmod \/ Unloading PROVE Progress'
  OBVIOUS
<1>0. /\ driver \in KnownDrivers /\ ready \in Nat /\ added \in Nat
      /\ Backed /\ Loaded /\ Unloaded /\ Entered
  BY ModuleAssumption DEF ModInv, ModTypeOK
<1> USE DEF fixed, array, kernel, users, Progress
<1>1. CASE Rmmod
  <2>1. /\ phase' = "exit" /\ todo' = HelloExit
        /\ UNCHANGED <<driver, ready, added, entry, proc>>
    BY <1>1 DEF Rmmod
  <2>2. Unloaded'
    BY <1>0, <2>1, Scripts DEF Unloaded, ExitTodo, WithEntry
  <2> QED BY <1>0, <2>1, <2>2 DEF Backed, Loaded, Entered, Seen, WithEntry
<1>2. CASE Unregister \/ FreeDevices \/ DelDevice \/ DelGarbage
  <2>1. /\ phase = "exit" /\ todo # << >> /\ todo \in ExitTodo /\ Head(todo) # "remove"
        /\ \/ todo' = Tail(todo) /\ phase' = "exit"
           \/ phase' = "stuck"
        /\ UNCHANGED <<driver, ready, added, entry, proc>>
    BY <1>2, WhoCalls DEF Unregister, FreeDevices, DelDevice, DelGarbage, Did, Doing
  <2>2. Unloaded'
    BY <1>0, <2>1, ExitTodoStep DEF Unloaded, Entered, ExitTodo, Seen, WithEntry
  <2> QED BY <1>0, <2>1, <2>2 DEF Backed, Loaded, Entered, Seen, WithEntry
<1>3. CASE RemoveEntry
  <2>1. /\ phase = "exit" /\ todo # << >> /\ todo \in ExitTodo /\ entry
        /\ entry' = FALSE
        /\ UNCHANGED <<driver, phase, todo, ready, added, proc>>
    BY <1>3, WhoCalls DEF RemoveEntry, Doing
  <2> QED
    BY <1>0, <2>1 DEF Backed, Loaded, Unloaded, Entered, ExitTodo, Seen, WithEntry
<1>4. CASE EntryRemoved
  <2>1. /\ phase = "exit" /\ todo # << >> /\ todo \in ExitTodo /\ ~Seen
        /\ todo' = Tail(todo)
        /\ UNCHANGED <<driver, phase, ready, added, entry, proc>>
    BY <1>4, WhoCalls DEF EntryRemoved, MayEndRemoval, Did, Doing, Seen
  <2>2. Unloaded'
    BY <2>1, ExitTodoStep DEF Unloaded, ExitTodo, Seen, WithEntry
  <2> QED BY <1>0, <2>1, <2>2 DEF Backed, Loaded, Entered, Seen, WithEntry
<1>5. CASE ExitReturn
  BY <1>0, <1>5 DEF ExitReturn, Backed, Loaded, Unloaded, Entered, Seen, WithEntry
<1> QED BY <1>1, <1>2, <1>3, <1>4, <1>5 DEF Unloading

LEMMA ProgressStep == ModInv /\ [Next]_vars => Progress'
<1> SUFFICES ASSUME ModInv, [Next]_vars PROVE Progress'
  OBVIOUS
<1>0. Progress /\ ModTypeOK
  BY DEF ModInv, Progress
<1>1. CASE TakeMemory
  <2>1. /\ mem = "freed" /\ UNCHANGED <<driver, phase, todo, ready, added, entry, proc>>
    BY <1>1 DEF TakeMemory, fixed, kernel, users
  <2> QED
    BY <1>0, <2>1 DEF Progress, Backed, Loaded, Unloaded, Entered, Seen, WithEntry, InitTodo, ExitTodo
<1>2. CASE MakeNode
  BY <1>0, <1>2, ProgressKept DEF MakeNode, fixed, array, users
<1>3. ASSUME NEW t \in Task, Opening(t) \/ Calls(t) PROVE Progress'
  BY <1>0, <1>3, ProgressKept, UsersFrame
<1>4. ASSUME NEW r \in Reader, Reading(r) PROVE Progress'
  <2>1. /\ UNCHANGED <<driver, phase, todo, mem, ready, added, entry>>
        /\ Seen' => Seen
    BY <1>0, <1>4, ReaderFrame
  <2> QED
    BY <1>0, <2>1 DEF Progress, Backed, Loaded, Unloaded, Entered, WithEntry, InitTodo, ExitTodo
<1>5. CASE UNCHANGED vars
  BY <1>0, <1>5, ProgressKept DEF vars, fixed, array, kernel, users
<1> QED
  BY <1>1, <1>2, <1>3, <1>4, <1>5, LoadingProgress, UnloadingProgress DEF Next, Admin
-----------------------------------------------------------------------------
LEMMA ModStep == ModInv /\ [Next]_vars => ModInv'
BY TypeStep, KnownStep, ProgressStep DEF ModInv, Progress

LEMMA ModInvariant == Spec => []ModInv
BY ModInit, ModStep, PTL DEF Spec

(***************************************************************************)
(* Type correctness, for every number of processes, devices and loads.     *)
(***************************************************************************)
THEOREM ModTyped == Spec => []ModTypeOK
<1>1. ModInv => ModTypeOK
  BY DEF ModInv
<1> QED BY <1>1, ModInvariant, PTL

LEMMA ModSound == ASSUME ModInv PROVE LoadedIsSound
<1>1. ready \in Nat /\ added \in Nat /\ AllKnown /\ Backed /\ Entered
      /\ file \in [Task -> Device \cup {NONE}] /\ inode \in Device \cup {NONE}
      /\ \A i \in 1 .. Len(map) : map[i] \in Device
  BY DEF ModInv, ModTypeOK
<1>2. CASE phase \in {"init", "live"}
  <2>1. \A b \in Device : Known(b) => Usable(b)
    BY <1>1, <1>2 DEF Known, KnownAt, Usable, Current, Backed, Device
  <2>2. \A b \in Device \cup {NONE} : Known(b) => Usable(b)
    BY <2>1 DEF Usable, Current
  <2>3. entry => Usable(This(0))
    BY <1>1, <1>2 DEF Entered, Backed, Usable, Current, This
  <2> QED BY <1>1, <1>2, <2>2, <2>3 DEF AllKnown, LoadedIsSound
<1>3. CASE phase = "out"
  BY <1>1, <1>3 DEF Entered, Seen, LoadedIsSound
<1>4. CASE phase \notin {"init", "live", "out"}
  BY <1>4 DEF LoadedIsSound
<1> QED BY <1>2, <1>3, <1>4

(***************************************************************************)
(* Between the first cdev_add and rmmod every device that can be found is  *)
(* set up in live memory, and read_proc is never left without its text.    *)
(***************************************************************************)
THEOREM ModLoadedIsSound == Spec => []LoadedIsSound
<1>1. ModInv => LoadedIsSound
  BY ModSound
<1> QED BY <1>1, ModInvariant, PTL
-----------------------------------------------------------------------------
(***************************************************************************)
(* The order of the test script.                                           *)
(***************************************************************************)

\* The node was made after this load or an earlier one.
NodeMade == made <= loads /\ (phase = "init" => made < loads)

\* Files are open only while the module is there.
OpenInLive == script => \A t \in Task : HasOpen(t) => phase = "live"

\* All devices have been added when insmod ends, and the kernel's map begins
\* with the one that was added last.
NewestFirst ==
    /\ phase = "live" => added > 0
    /\ phase \in {"init", "live"} /\ region /\ added > 0 => map # << >> /\ Current(Head(map))

\* What open finds, and has found, is of this load.
OpensCurrent ==
    script /\ region /\ phase = "live" =>
        /\ \A t \in Task : HasOpen(t) => Current(file[t])
        /\ made = loads => inode = NONE \/ Current(inode)

ScriptInv == NodeMade /\ OpenInLive /\ NewestFirst /\ OpensCurrent

LEMMA ScriptInit == Init => ScriptInv
BY DEF Init, ScriptInv, NodeMade, OpenInLive, NewestFirst, OpensCurrent, HasOpen

LEMMA AdminScript == ModInv /\ ScriptInv /\ Admin => ScriptInv'
<1> SUFFICES ASSUME ModInv, ScriptInv, Admin PROVE ScriptInv'
  OBVIOUS
<1>0. /\ loads \in Nat /\ made \in Nat /\ added \in Nat /\ ready \in Nat /\ map \in Seq(Device)
      /\ NodeMade /\ OpenInLive /\ NewestFirst /\ OpensCurrent /\ Backed /\ Loaded
  BY DEF ModInv, ModTypeOK, ScriptInv
<1> USE DEF fixed, array, kernel, users, ScriptInv
<1>1. CASE Insmod
  <2>1. /\ phase = "out" /\ phase' = "init" /\ loads' = loads + 1 /\ added' = 0
        /\ UNCHANGED <<script, made, pc>>
    BY <1>1 DEF Insmod
  <2>2. NodeMade' /\ NewestFirst' /\ OpensCurrent'
    BY <1>0, <2>1 DEF NodeMade, NewestFirst, OpensCurrent
  <2>3. OpenInLive'
    BY <1>0, <2>1 DEF OpenInLive, HasOpen
  <2> QED BY <2>2, <2>3
<1>2. CASE Register
  <2>1. /\ phase = "init" /\ added = 0
        /\ UNCHANGED <<script, loads, phase, added, made, pc>>
    BY <1>0, <1>2, WhoCalls DEF Register, Did, Doing, Loaded, Backed
  <2>2. NodeMade' /\ NewestFirst' /\ OpensCurrent'
    BY <1>0, <2>1 DEF NodeMade, NewestFirst, OpensCurrent
  <2>3. OpenInLive'
    BY <1>0, <2>1 DEF OpenInLive, HasOpen
  <2> QED BY <2>2, <2>3
<1>3. CASE AllocDevices \/ SetUpDevice \/ CreateEntry
  <2>1. /\ phase = "init" /\ phase' \in {"init", "stuck"}
        /\ UNCHANGED <<script, loads, added, region, map, inode, made, pc, file>>
    BY <1>3, WhoCalls DEF AllocDevices, SetUpDevice, CreateEntry, Did, Doing
  <2>2. NodeMade' /\ NewestFirst' /\ OpensCurrent'
    BY <1>0, <2>1 DEF NodeMade, NewestFirst, OpensCurrent, Current
  <2>3. OpenInLive'
    BY <1>0, <2>1 DEF OpenInLive, HasOpen
  <2> QED BY <2>2, <2>3
<1>4. CASE AddDevice
  <2>1. /\ phase = "init" /\ added' = added + 1
        /\ map' = IF region THEN <<This(added)>> \o map ELSE map
        /\ UNCHANGED <<script, loads, phase, region, made, pc>>
    BY <1>4, WhoCalls DEF AddDevice, Doing
  <2>2. ASSUME region PROVE map' # << >> /\ Head(map') = This(added)
    <3> DEFINE one == <<This(added)>>
    <3>1. one \in Seq(Device) /\ Len(one) = 1 /\ one[1] = This(added)
      BY <1>0, ThisDevice DEF ModInv
    <3>2. map' = one \o map
      BY <2>1, <2>2
    <3> HIDE DEF one
    <3>3. /\ map' \in Seq(Device) /\ Len(map') = Len(one) + Len(map)
          /\ \A j \in 1 .. Len(one) + Len(map) :
                map'[j] = IF j <= Len(one) THEN one[j] ELSE map[j - Len(one)]
      BY <1>0, <3>1, <3>2, ConcatProperties, Zenon
    <3>4. Len(map) \in Nat
      BY <1>0, LenProperties
    <3>5. Len(map') > 0 /\ map'[1] = This(added)
      BY <3>1, <3>3, <3>4
    <3>6. map' # << >>
      BY <3>3, <3>5, EmptySeq
    <3> QED BY <3>3, <3>5, <3>6
  <2>3. region => Current(Head(map))'
    <3>1. This(added).load = loads
      BY DEF This
    <3>2. This(added) # NONE
      BY <1>0, ThisDevice, ModuleAssumption DEF ModInv
    <3>3. region => Head(map') # NONE /\ Head(map').load = loads
      BY <2>2, <3>1, <3>2
    <3> QED BY <2>1, <3>3 DEF Current
  <2>4. NodeMade' /\ NewestFirst' /\ OpensCurrent'
    BY <1>0, <2>1, <2>2, <2>3 DEF NodeMade, NewestFirst, OpensCurrent
  <2>5. OpenInLive'
    BY <1>0, <2>1 DEF OpenInLive, HasOpen
  <2> QED BY <2>4, <2>5
<1>5. CASE InitReturn
  <2>1. /\ phase = "init" /\ phase' = "live" /\ added > 0
        /\ UNCHANGED <<script, loads, added, region, map, made, pc>>
    BY <1>0, <1>5 DEF InitReturn, Loaded
  <2>2. script => \A t \in Task : ~HasOpen(t) /\ ~HasOpen(t)'
    BY <1>0, <2>1 DEF OpenInLive, HasOpen
  <2>3. NodeMade' /\ NewestFirst' /\ OpensCurrent'
    BY <1>0, <2>1, <2>2 DEF NodeMade, NewestFirst, OpensCurrent, Current
  <2> QED BY <2>1, <2>2, <2>3 DEF OpenInLive
<1>6. CASE Rmmod
  <2>1. /\ phase' = "exit" /\ (script => \A t \in Task : ~HasOpen(t))
        /\ UNCHANGED <<script, loads, made, pc>>
    BY <1>6 DEF Rmmod, ScriptDone
  <2> QED
    BY <1>0, <2>1 DEF NodeMade, OpenInLive, NewestFirst, OpensCurrent, HasOpen
<1>7. CASE Unloading
  <2>1. /\ phase = "exit" /\ phase' \in {"exit", "out", "stuck"}
        /\ UNCHANGED <<script, loads, made, pc>>
    BY <1>7, WhoCalls
       DEF Unloading, Unregister, FreeDevices, DelDevice, DelGarbage, RemoveEntry, EntryRemoved,
           ExitReturn, Did, Doing
  <2> QED
    BY <1>0, <2>1 DEF NodeMade, OpenInLive, NewestFirst, OpensCurrent, HasOpen
<1>8. CASE TakeMemory
  <2>1. UNCHANGED <<script, loads, phase, added, region, map, inode, made, pc, file>>
    BY <1>8 DEF TakeMemory
  <2> QED
    BY <1>0, <2>1 DEF NodeMade, OpenInLive, NewestFirst, OpensCurrent, HasOpen, Current
<1>9. CASE MakeNode
  <2>1. /\ phase = "live" /\ made' = loads /\ inode' = NONE
        /\ UNCHANGED <<script, loads, phase, added, region, map, pc, file>>
    BY <1>9 DEF MakeNode
  <2> QED
    BY <1>0, <2>1 DEF NodeMade, OpenInLive, NewestFirst, OpensCurrent, HasOpen, Current
<1> QED BY <1>1, <1>2, <1>3, <1>4, <1>5, <1>6, <1>7, <1>8, <1>9 DEF Admin, Loading

\* On a new node of a loaded module that got a number, open finds this load.
LEMMA LookupCurrent ==
    ASSUME ScriptInv, script, region, phase = "live", made = loads, Lookup # NONE
    PROVE  Current(Lookup)
BY DEF ScriptInv, NewestFirst, OpensCurrent, Lookup

LEMMA TaskScript ==
    ASSUME ModInv, ScriptInv, NEW t \in Task, Opening(t) \/ Calls(t)
    PROVE  ScriptInv'
<1>0. /\ pc \in [Task -> {"closed", "open", "call", "dead", "killed"}]
      /\ file \in [Task -> Device \cup {NONE}]
      /\ NodeMade /\ OpenInLive /\ NewestFirst /\ OpensCurrent
  BY DEF ModInv, ModTypeOK, ScriptInv
<1>1. UNCHANGED <<script, loads, phase, added, region, map, made>>
  BY UsersFrame
<1>2. NodeMade' /\ NewestFirst'
  BY <1>0, <1>1 DEF NodeMade, NewestFirst, Current
\* It is enough to look at the one process, and at the inode.
<1>3. ASSUME /\ HasOpen(t)' /\ script => phase = "live" /\ (region => Current(file'[t]))
             /\ \A u \in Task \ {t} : pc'[u] = pc[u] /\ file'[u] = file[u]
             /\ inode' \in {inode, NONE} \/ (script /\ region => Current(inode'))
      PROVE  ScriptInv'
  <2>1. OpenInLive'
    BY <1>0, <1>1, <1>3 DEF OpenInLive, HasOpen
  <2>2. ASSUME script, region, phase = "live", NEW u \in Task, HasOpen(u)' PROVE Current(file[u])'
    BY <1>0, <1>1, <1>3, <2>2 DEF OpensCurrent, HasOpen, Current
  <2>3. OpensCurrent'
    BY <1>0, <1>1, <1>3, <2>2 DEF OpensCurrent, Current
  <2> QED BY <1>2, <2>1, <2>3 DEF ScriptInv
<1>4. CASE Open(t)
  <2>1. script => phase = "live" /\ (region => Current(Lookup))
    BY <1>4, LookupCurrent DEF Open, ScriptMayOpen
  <2>2. CASE Enter(t, "open") /\ file' = [file EXCEPT ![t] = Lookup] /\ inode' = Lookup
    BY <1>0, <1>3, <2>1, <2>2 DEF Enter
  <2>3. CASE Dies(t)
    BY <1>0, <1>3, <2>3 DEF Dies, HasOpen
  <2> QED BY <1>4, <2>2, <2>3 DEF Open
<1>5. CASE Release(t)
  <2>1. /\ pc'[t] \in {"closed", "dead"} /\ inode' \in {inode, NONE}
        /\ \A u \in Task \ {t} : pc'[u] = pc[u] /\ file'[u] = file[u]
    BY <1>0, <1>5 DEF Release, Enter, Dies, Put, Forget0
  <2> QED BY <1>3, <2>1 DEF HasOpen
<1>6. CASE Calls(t)
  <2>1. /\ HasOpen(t) /\ inode' = inode /\ file' = file
        /\ \A u \in Task \ {t} : pc'[u] = pc[u]
    BY <1>0, <1>6 DEF Calls, BeginCall, EndCall, Use, Enter, HasOpen, kernel
  <2> QED BY <1>0, <1>3, <2>1 DEF OpenInLive, OpensCurrent
<1> QED BY <1>4, <1>5, <1>6 DEF Opening

LEMMA ScriptStep == ModInv /\ ScriptInv /\ [Next]_vars => ScriptInv'
<1> SUFFICES ASSUME ModInv, ScriptInv, [Next]_vars PROVE ScriptInv'
  OBVIOUS
<1>1. ASSUME UNCHANGED <<script, loads, phase, added, region, map, inode, made, pc, file>>
      PROVE  ScriptInv'
  BY <1>1 DEF ScriptInv, NodeMade, OpenInLive, NewestFirst, OpensCurrent, HasOpen, Current
<1>2. ASSUME NEW r \in Reader, Reading(r) PROVE ScriptInv'
  BY <1>1, <1>2, ReaderFrame DEF ModInv
<1>3. CASE UNCHANGED vars
  BY <1>1, <1>3 DEF vars, fixed, array, kernel, users
<1> QED BY <1>2, <1>3, AdminScript, TaskScript DEF Next

LEMMA ScriptSound == ASSUME ModInv, ScriptInv PROVE ScriptIsSound
<1> SUFFICES ASSUME ModInv, ScriptInv, script, region
             PROVE  /\ \A t \in Task : HasOpen(t) => ~Broken(file[t])
                    /\ phase = "live" /\ made = loads /\ Lookup # NONE => ~Broken(Lookup)
  BY DEF ScriptIsSound
<1>1. /\ ready \in Nat /\ added \in Nat /\ AllKnown /\ Backed /\ ModTypeOK
      /\ file \in [Task -> Device \cup {NONE}] /\ OpenInLive /\ NewestFirst /\ OpensCurrent
  BY DEF ModInv, ModTypeOK, ScriptInv
<1>2. ASSUME NEW b \in Device, phase = "live", Current(b), Known(b) PROVE ~Broken(b)
  <2>1. b.dev \in Nat /\ b.load = loads /\ b.dev < added /\ added <= ready
    BY <1>1, <1>2 DEF Current, Known, KnownAt, Backed, Device
  <2>2. mem = "live"
    BY <1>1, <1>2, <2>1 DEF Backed
  <2> QED BY <1>1, <1>2, <2>1, <2>2 DEF Broken, Gone
<1>3. ASSUME NEW t \in Task, HasOpen(t) PROVE ~Broken(file[t])
  <2>1. phase = "live" /\ Current(file[t]) /\ Known(file[t]) /\ file[t] \in Device
    BY <1>1, <1>3 DEF OpenInLive, OpensCurrent, AllKnown, Current
  <2> QED BY <1>2, <2>1
<1>4. ASSUME phase = "live", made = loads, Lookup # NONE PROVE ~Broken(Lookup)
  <2>1. Current(Lookup) /\ Known(Lookup) /\ Lookup \in Device
    BY <1>1, <1>4, LookupCurrent, LookupKnown, LookupTyped
  <2> QED BY <1>2, <1>4, <2>1
<1> QED BY <1>3, <1>4

(***************************************************************************)
(* The order of the test scripts is safe for any number of devices, loads  *)
(* and processes.                                                          *)
(***************************************************************************)
THEOREM ModScriptIsSound == Spec => []ScriptIsSound
<1>1. ModInv /\ ScriptInv => ScriptIsSound
  BY ScriptSound
<1>2. Spec => []ScriptInv
  <2>1. ModInv /\ ModInv' /\ ScriptInv /\ [Next]_vars => ScriptInv'
    BY ScriptStep
  <2> QED BY <2>1, ScriptInit, ModInvariant, PTL DEF Spec
<1> QED BY <1>1, <1>2, ModInvariant, PTL
-----------------------------------------------------------------------------
(***************************************************************************)
(* A module with one device.                                               *)
(***************************************************************************)
LEMMA ExitOrder ==
    ASSUME todo \in ExitTodo, todo # << >>
    PROVE  Head(todo) \in {"unregister", "free"} =>
               Tail(todo) # << >> /\ Head(Tail(todo)) # "remove"
<1>1. CASE WithEntry
  <2>1. CASE todo = ProcExit
    BY <2>1, Tails DEF ProcExit
  <2>2. CASE todo = <<"free", "del", "remove">>
    BY <2>2, Tails
  <2>3. CASE todo = <<"del", "remove">>
    BY <2>3, Tails
  <2>4. CASE todo = <<"remove">>
    BY <2>4, Tails
  <2> QED BY <1>1, <2>1, <2>2, <2>3, <2>4 DEF ExitTodo
<1>2. CASE ~WithEntry
  <2>1. CASE todo = Driver2Exit
    BY <2>1, Tails DEF Driver2Exit
  <2>2. CASE todo = <<"free", "del">>
    BY <2>2, Tails
  <2>3. CASE todo = <<"del">>
    BY <2>3, Tails
  <2> QED BY <1>2, <2>1, <2>2, <2>3 DEF ExitTodo
<1> QED BY <1>1, <1>2

\* Files are of the one device, and nobody has died.
OneOpen == \A t \in Task :
    pc[t] # "dead" /\ (HasOpen(t) => file[t] = This(0) /\ added > 0 /\ phase # "out")

OneMap == map = IF region /\ added > 0 /\ ~deleted THEN <<This(0)>> ELSE << >>

\* Once it is deleted, an open file is what keeps the inode's memory of it.
OneInode == inode # NONE =>
    inode = This(0) /\ added > 0 /\ (deleted => \E t \in Task : HasOpen(t))

OneMemory == mem # "taken" /\ (added > 0 => mem \in {"live", "freed"})

OneDeleted ==
    /\ phase \in {"init", "live"} => ~deleted
    /\ phase = "out" => deleted \/ added = 0
    /\ phase = "exit" /\ (todo = << >> \/ Head(todo) = "remove") => deleted

OneAll == OneOpen /\ OneMap /\ OneInode /\ OneMemory /\ OneDeleted
OneInv == nod = 1 /\ ~dirty => OneAll

LEMMA OneInit == Init => OneInv
BY DEF Init, OneInv, OneAll, OneOpen, OneMap, OneInode, OneMemory, OneDeleted, HasOpen

\* What leads to the device is not broken.
LEMMA OneSound ==
    ASSUME ModInv, OneAll, added > 0, phase # "out"
    PROVE  ~Broken(This(0)) /\ ~Gone(This(0))
BY DEF ModInv, ModTypeOK, Backed, OneAll, OneMemory, Broken, Gone, This

LEMMA LoadingOne ==
    ASSUME ModInv, OneAll, nod = 1, ~dirty, Insmod \/ Loading
    PROVE  OneAll'
<1>0. /\ loads \in Nat /\ added \in Nat /\ ready \in Nat /\ Backed /\ Loaded
      /\ OneOpen /\ OneMap /\ OneInode /\ OneMemory /\ OneDeleted
  BY DEF ModInv, ModTypeOK, OneAll
<1> USE DEF fixed, array, kernel, users, OneAll
<1>1. CASE Insmod
  <2>1. /\ phase = "out" /\ phase' = "init" /\ mem' = "none" /\ added' = 0 /\ deleted' = FALSE
        /\ UNCHANGED <<map, inode, pc>>
    BY <1>1 DEF Insmod
  <2>2. map = << >> /\ inode = NONE /\ \A t \in Task : ~HasOpen(t)
    BY <1>0, <2>1 DEF OneMap, OneInode, OneDeleted, OneOpen
  <2>3. OneOpen'
    BY <1>0, <2>1, <2>2 DEF OneOpen, HasOpen
  <2>4. OneMap' /\ OneInode' /\ OneMemory' /\ OneDeleted'
    BY <2>1, <2>2 DEF OneMap, OneInode, OneMemory, OneDeleted
  <2> QED BY <2>3, <2>4
<1>2. CASE Register
  <2>1. /\ phase = "init" /\ added = 0
        /\ UNCHANGED <<loads, phase, mem, added, deleted, map, inode, pc, file>>
    BY <1>0, <1>2, WhoCalls DEF Register, Did, Doing, Loaded, Backed
  <2>2. OneOpen' /\ OneInode'
    BY <1>0, <2>1 DEF OneOpen, OneInode, HasOpen, This
  <2>3. OneMap' /\ OneMemory' /\ OneDeleted'
    BY <1>0, <2>1 DEF OneMap, OneMemory, OneDeleted
  <2> QED BY <2>2, <2>3
<1>3. CASE AllocDevices
  <2>1. /\ phase = "init" /\ added = 0 /\ mem' \in {"none", "live"}
        /\ UNCHANGED <<loads, phase, added, deleted, region, map, inode, pc, file>>
    BY <1>0, <1>3, WhoCalls DEF AllocDevices, Did, Doing, Loaded, Backed
  <2>2. OneOpen' /\ OneInode'
    BY <1>0, <2>1 DEF OneOpen, OneInode, HasOpen, This
  <2>3. OneMap' /\ OneMemory' /\ OneDeleted'
    BY <1>0, <2>1 DEF OneMap, OneMemory, OneDeleted
  <2> QED BY <2>2, <2>3
<1>4. CASE SetUpDevice \/ CreateEntry \/ InitReturn
  <2>1. /\ phase = "init" /\ phase' \in {"init", "live", "stuck"}
        /\ UNCHANGED <<loads, mem, added, deleted, region, map, inode, pc, file>>
    BY <1>4, WhoCalls DEF SetUpDevice, CreateEntry, InitReturn, Did, Doing
  <2>2. OneOpen' /\ OneInode'
    BY <1>0, <2>1 DEF OneOpen, OneInode, HasOpen, This
  <2>3. OneMap' /\ OneMemory' /\ OneDeleted'
    BY <1>0, <2>1 DEF OneMap, OneMemory, OneDeleted, This
  <2> QED BY <2>2, <2>3
<1>5. CASE AddDevice
  <2>1. /\ phase = "init" /\ added = 0 /\ added' = 1 /\ ready > 0
        /\ map' = IF region THEN <<This(added)>> \o map ELSE map
        /\ UNCHANGED <<loads, phase, mem, deleted, region, inode, pc, file>>
    BY <1>0, <1>5, WhoCalls DEF AddDevice, MayAdd, Doing
  <2>2. mem = "live" /\ ~deleted /\ map = << >> /\ inode = NONE /\ \A t \in Task : ~HasOpen(t)
    BY <1>0, <2>1 DEF Backed, OneDeleted, OneMap, OneInode, OneOpen
  <2>3. map' = IF region THEN <<This(0)>> ELSE << >>
    <3>1. <<This(0)>> \o << >> = <<This(0)>>
      BY ThisDevice, ConcatEmptySeq DEF ModInv
    <3> QED BY <2>1, <2>2, <3>1
  <2>4. OneOpen'
    BY <1>0, <2>1, <2>2 DEF OneOpen, HasOpen
  <2>5. OneMap' /\ OneInode' /\ OneMemory' /\ OneDeleted'
    BY <2>1, <2>2, <2>3 DEF OneMap, OneInode, OneMemory, OneDeleted, This
  <2> QED BY <2>4, <2>5
<1> QED BY <1>1, <1>2, <1>3, <1>4, <1>5 DEF Loading

LEMMA UnloadingOne ==
    ASSUME ModInv, OneAll, nod = 1, ~dirty, ~dirty', Rmmod \/ Unloading
    PROVE  OneAll'
<1>0. /\ loads \in Nat /\ added \in Nat /\ driver \in KnownDrivers
      /\ OneOpen /\ OneMap /\ OneInode /\ OneMemory /\ OneDeleted
  BY ModuleAssumption DEF ModInv, ModTypeOK, OneAll
<1> USE DEF fixed, array, kernel, users, OneAll
<1>1. CASE Rmmod
  <2>1. /\ phase = "live" /\ phase' = "exit" /\ todo' = HelloExit
        /\ UNCHANGED <<loads, mem, added, deleted, region, map, inode, pc, file>>
    BY <1>1 DEF Rmmod
  <2>2. HelloExit # << >> /\ Head(HelloExit) # "remove"
    <3>1. HelloExit \in {ProcExit, Driver2Exit}
      BY <1>0 DEF KnownDrivers, HelloExit, ProcExit, Driver2Exit, JiffiesExit, IoctlExit
    <3> QED BY <3>1, Tails DEF ProcExit, Driver2Exit
  <2>3. OneOpen' /\ OneInode'
    BY <1>0, <2>1 DEF OneOpen, OneInode, HasOpen, This
  <2>4. OneMap' /\ OneMemory' /\ OneDeleted'
    BY <1>0, <2>1, <2>2 DEF OneMap, OneMemory, OneDeleted, This
  <2> QED BY <2>3, <2>4
<1>2. CASE Unregister \/ FreeDevices
  <2>1. /\ phase = "exit" /\ phase' = "exit" /\ todo' # << >> /\ Head(todo') # "remove"
        /\ mem' \in {mem, "freed"}
        /\ UNCHANGED <<loads, added, deleted, region, map, inode, pc, file>>
    BY <1>2, WhoCalls, ExitOrder DEF Unregister, FreeDevices, Did, Doing
  <2>2. OneOpen' /\ OneInode'
    BY <1>0, <2>1 DEF OneOpen, OneInode, HasOpen, This
  <2>3. OneMap' /\ OneMemory' /\ OneDeleted'
    BY <1>0, <2>1 DEF OneMap, OneMemory, OneDeleted, This
  <2> QED BY <2>2, <2>3
<1>3. CASE DelDevice
  <2>1. /\ phase = "exit" /\ phase' = "exit" /\ deleted' = TRUE
        /\ map' = IF region /\ map # << >> THEN Tail(map) ELSE map
        /\ inode' = IF inode = This(0) /\ OpenOn(This(0)) = {} THEN NONE ELSE inode
        /\ UNCHANGED <<loads, mem, added, region, pc, file>>
    BY <1>3, WhoCalls DEF DelDevice, Forget0, Did, Doing
  <2>2. map' = << >>
    <3>1. Tail(<<This(0)>>) = << >>
      BY Tails
    <3> QED BY <1>0, <2>1, <3>1 DEF OneMap
  <2>3. OneInode'
    <3> SUFFICES ASSUME inode' # NONE
                 PROVE  inode' = This(0) /\ added > 0 /\ \E t \in Task : HasOpen(t)
      BY <2>1 DEF OneInode, This, HasOpen
    <3>1. inode = This(0) /\ inode' = inode /\ added > 0 /\ OpenOn(This(0)) # {}
      BY <1>0, <2>1 DEF OneInode
    <3> QED BY <3>1 DEF OpenOn
  <2>4. OneOpen'
    BY <1>0, <2>1 DEF OneOpen, HasOpen, This
  <2>5. OneMap' /\ OneMemory' /\ OneDeleted'
    BY <1>0, <2>1, <2>2 DEF OneMap, OneMemory, OneDeleted
  <2> QED BY <2>3, <2>4, <2>5
<1>4. CASE DelGarbage
  BY <1>0, <1>4 DEF DelGarbage, OneMemory
<1>5. CASE RemoveEntry \/ EntryRemoved
  <2>1. /\ phase = "exit" /\ phase' = "exit" /\ deleted
        /\ UNCHANGED <<loads, mem, added, deleted, region, map, inode, pc, file>>
    BY <1>0, <1>5, WhoCalls DEF RemoveEntry, EntryRemoved, Did, Doing, OneDeleted
  <2>2. OneOpen' /\ OneInode'
    BY <1>0, <2>1 DEF OneOpen, OneInode, HasOpen, This
  <2>3. OneMap' /\ OneMemory' /\ OneDeleted'
    BY <1>0, <2>1 DEF OneMap, OneMemory, OneDeleted, This
  <2> QED BY <2>2, <2>3
<1>6. CASE ExitReturn
  <2>1. /\ phase = "exit" /\ phase' = "out" /\ deleted /\ \A t \in Task : ~HasOpen(t)
        /\ UNCHANGED <<loads, mem, added, deleted, region, map, inode, pc, file>>
    BY <1>0, <1>6 DEF ExitReturn, OneDeleted
  <2>2. OneOpen' /\ OneInode'
    BY <1>0, <2>1 DEF OneOpen, OneInode, HasOpen, This
  <2>3. OneMap' /\ OneMemory' /\ OneDeleted'
    BY <1>0, <2>1 DEF OneMap, OneMemory, OneDeleted, This
  <2> QED BY <2>2, <2>3
<1> QED BY <1>1, <1>2, <1>3, <1>4, <1>5, <1>6 DEF Unloading

\* Open finds the one device, if it finds one.
LEMMA OneLookup ==
    ASSUME ModInv, OneAll, Lookup # NONE
    PROVE  Lookup = This(0) /\ added > 0 /\ phase # "out"
<1>1. CASE inode # NONE
  BY <1>1 DEF OneAll, OneInode, OneDeleted, OneOpen, Lookup, ModInv, ModTypeOK
<1>2. CASE inode = NONE
  <2>1. map # << >> /\ Lookup = Head(map)
    BY <1>2 DEF Lookup
  <2>2. map = <<This(0)>> /\ added > 0 /\ ~deleted
    BY <2>1 DEF OneAll, OneMap
  <2>3. Head(<<This(0)>>) = This(0)
    BY Tails
  <2> QED BY <2>1, <2>2, <2>3 DEF OneAll, OneDeleted, ModInv, ModTypeOK
<1> QED BY <1>1, <1>2

LEMMA TaskOne ==
    ASSUME ModInv, OneAll, NEW t \in Task, Opening(t) \/ Calls(t)
    PROVE  OneAll'
<1>0. /\ pc \in [Task -> {"closed", "open", "call", "dead", "killed"}]
      /\ file \in [Task -> Device \cup {NONE}]
      /\ OneOpen /\ OneMap /\ OneInode /\ OneMemory /\ OneDeleted
  BY DEF ModInv, ModTypeOK, OneAll
<1>1. UNCHANGED <<loads, phase, todo, mem, added, deleted, region, map>>
  BY UsersFrame
<1>2. OneMap' /\ OneMemory' /\ OneDeleted'
  BY <1>0, <1>1 DEF OneMap, OneMemory, OneDeleted, This
<1>3. CASE Open(t)
  <2>1. Lookup = This(0) /\ added > 0 /\ phase # "out" /\ ~Broken(Lookup)
    BY <1>3, OneLookup, OneSound DEF Open
  <2>2. /\ pc' = [pc EXCEPT ![t] = "open"] /\ file' = [file EXCEPT ![t] = This(0)]
        /\ inode' = This(0)
    BY <1>3, <2>1 DEF Open, Enter
  <2>3. OneOpen'
    BY <1>0, <1>1, <2>1, <2>2 DEF OneOpen, HasOpen, This
  <2>4. OneInode'
    BY <1>0, <1>1, <2>1, <2>2 DEF OneInode, HasOpen, This
  <2> QED BY <1>2, <2>3, <2>4 DEF OneAll
<1>4. CASE Release(t)
  <2>1. HasOpen(t) /\ file[t] = This(0) /\ ~Broken(file[t])
    BY <1>0, <1>4, OneSound DEF Release, HasOpen, OneOpen
  <2>2. /\ pc' = [pc EXCEPT ![t] = "closed"] /\ file' = [file EXCEPT ![t] = NONE]
        /\ inode' = IF deleted /\ inode = This(0) /\ OpenOn(This(0)) \ {t} = {}
                    THEN NONE ELSE inode
    BY <1>4, <2>1 DEF Release, Enter, Put, Forget0
  <2>3. OneOpen'
    BY <1>0, <1>1, <2>2 DEF OneOpen, HasOpen, This
  <2>4. OneInode'
    <3> SUFFICES ASSUME inode' # NONE
                 PROVE  inode' = This(0) /\ added > 0 /\ (deleted => \E u \in Task : HasOpen(u)')
      BY <1>1 DEF OneInode, This
    <3>1. inode' = inode /\ inode = This(0) /\ added > 0
      BY <1>0, <2>2 DEF OneInode
    <3>2. ASSUME deleted PROVE \E u \in Task : HasOpen(u)'
      <4>1. PICK u \in OpenOn(This(0)) : u # t
        BY <2>2, <3>1, <3>2
      <4>2. u \in Task /\ HasOpen(u) /\ pc'[u] = pc[u]
        BY <1>0, <2>2, <4>1 DEF OpenOn
      <4> QED BY <4>2 DEF HasOpen
    <3> QED BY <3>1, <3>2
  <2> QED BY <1>2, <2>3, <2>4 DEF OneAll
<1>5. CASE Calls(t)
  <2>1. HasOpen(t) /\ file[t] = This(0) /\ ~Broken(file[t])
    BY <1>0, <1>5, OneSound DEF Calls, BeginCall, EndCall, Use, HasOpen, OneOpen
  <2>2. /\ pc' \in {[pc EXCEPT ![t] = "open"], [pc EXCEPT ![t] = "call"]}
        /\ UNCHANGED <<file, inode>>
    BY <1>5, <2>1 DEF Calls, BeginCall, EndCall, Use, Enter, kernel
  <2>3. HasOpen(t)' /\ \A u \in Task : HasOpen(u)' <=> HasOpen(u)
    BY <1>0, <2>1, <2>2 DEF HasOpen
  <2>4. OneOpen'
    BY <1>0, <1>1, <2>2, <2>3 DEF OneOpen, This
  <2>5. OneInode'
    BY <1>0, <1>1, <2>2, <2>3 DEF OneInode, This
  <2> QED BY <1>2, <2>4, <2>5 DEF OneAll
<1> QED BY <1>3, <1>4, <1>5 DEF Opening

LEMMA OneStep == ModInv /\ OneInv /\ [Next]_vars => OneInv'
<1> SUFFICES ASSUME ModInv, OneInv, [Next]_vars, nod' = 1, ~dirty' PROVE OneAll'
  BY DEF OneInv
<1> USE DEF fixed, array, kernel, users
<1>1. ASSUME UNCHANGED <<loads, phase, todo, mem, added, deleted, region, map, inode, pc, file>>,
             OneAll
      PROVE  OneAll'
  BY <1>1 DEF OneAll, OneOpen, OneMap, OneInode, OneMemory, OneDeleted, HasOpen, This
<1>2. CASE Insmod \/ Loading
  <2>1. nod = 1 /\ ~dirty
    BY <1>2 DEF Insmod, Loading, Register, AllocDevices, SetUpDevice, AddDevice, CreateEntry, InitReturn
  <2> QED BY <1>2, <2>1, LoadingOne DEF OneInv
<1>3. CASE Rmmod \/ Unloading
  <2>1. nod' = nod
    BY <1>3 DEF Rmmod, Unloading, Unregister, FreeDevices, DelDevice, DelGarbage, RemoveEntry,
                EntryRemoved, ExitReturn
  <2>2. ~dirty
    <3>1. CASE ExitReturn
      BY <3>1 DEF ExitReturn
    <3>2. CASE ~ExitReturn
      BY <1>3, <3>2 DEF Rmmod, Unloading, Unregister, FreeDevices, DelDevice, DelGarbage,
                        RemoveEntry, EntryRemoved
    <3> QED BY <3>1, <3>2
  <2> QED BY <1>3, <2>1, <2>2, UnloadingOne DEF OneInv
<1>4. CASE TakeMemory
  BY <1>4 DEF TakeMemory
<1>5. CASE MakeNode
  <2>1. /\ nod = 1 /\ ~dirty /\ inode' = NONE
        /\ UNCHANGED <<loads, phase, todo, mem, added, deleted, region, map, pc, file>>
    BY <1>5 DEF MakeNode
  <2> QED
    BY <2>1 DEF OneInv, OneAll, OneOpen, OneMap, OneInode, OneMemory, OneDeleted, HasOpen, This
<1>6. ASSUME NEW t \in Task, Opening(t) \/ Calls(t) PROVE OneAll'
  <2>1. nod = 1 /\ ~dirty
    BY <1>6, UsersFrame
  <2> QED BY <1>6, <2>1, TaskOne DEF OneInv
<1>7. ASSUME NEW r \in Reader, Reading(r) PROVE OneAll'
  <2>1. nod = 1 /\ ~dirty
    BY <1>7, ReaderFrame DEF ModInv
  <2> QED BY <1>1, <1>7, <2>1, ReaderFrame DEF ModInv, OneInv
<1>8. CASE UNCHANGED vars
  BY <1>1, <1>8 DEF vars, OneInv
<1> QED BY <1>2, <1>3, <1>4, <1>5, <1>6, <1>7, <1>8 DEF Next, Admin

LEMMA OneLeavesNothing == OneInv => OneDeviceLeavesNothing
BY DEF OneInv, OneAll, OneOpen, OneMap, OneInode, OneDeleted, OneDeviceLeavesNothing

(***************************************************************************)
(* Unloading a single device leaves nothing behind, if its memory stays    *)
(* free until cdev_del and no file outlives the module, for any number of  *)
(* loads and processes.                                                    *)
(***************************************************************************)
THEOREM ModOneDeviceLeavesNothing == Spec => []OneDeviceLeavesNothing
<1>1. OneInv => OneDeviceLeavesNothing
  BY OneLeavesNothing
<1>2. Spec => []OneInv
  <2>1. ModInv /\ OneInv /\ [Next]_vars => OneInv'
    BY OneStep
  <2> QED BY <2>1, OneInit, ModInvariant, PTL DEF Spec
<1> QED BY <1>1, <1>2, PTL
-----------------------------------------------------------------------------
(***************************************************************************)
(* ioctl_driver's calls and ioctls: steps of ScullModule, or steps of a    *)
(* process that ends in the driver.                                        *)
(***************************************************************************)

\* Nothing that ModInv speaks of changes but a process's state, and what the
\* node remembers.
Ends(t, to) ==
    /\ pc' = [pc EXCEPT ![t] = to]
    /\ inode' \in {inode, NONE}
    /\ UNCHANGED <<driver, nod, script, loads, phase, todo, mem, ready, added, deleted,
                   region, map, made, entry, file, proc, dirty>>

\* A process is killed in a call, or dies in an ioctl on broken memory.
Struck(t) ==
    \/ pc[t] = "call" /\ Put(t) /\ Ends(t, "killed")
    \/ /\ pc[t] = "open" /\ (Broken(file[t]) \/ Broken(This(0)))
       /\ UNCHANGED inode /\ Ends(t, "dead")

LEMMA KilledFrame ==
    ASSUME NEW t \in Task, pc[t] = "call", Killed(t)
    PROVE  Struck(t)
BY DEF Killed, Enter, Put, Forget0, Ends, Struck, fixed, array

LEMMA IoctlFrame ==
    ASSUME NEW t \in Task, Ioctl(t)
    PROVE  UNCHANGED vars \/ (Struck(t) /\ UNCHANGED data)
<1>1. CASE UNCHANGED pc
  BY <1>1 DEF Ioctl, vars, users
<1>2. CASE ~UNCHANGED pc
  BY <1>2 DEF Ioctl, Enter, Ends, Struck, fixed, array, kernel
<1> QED BY <1>1, <1>2

LEMMA DataSteps ==
    ASSUME [DataNext]_<<vars, data>>
    PROVE  [Next]_vars \/ \E t \in Task : Struck(t)
<1>1. CASE NewArray
  BY <1>1 DEF NewArray, Next, Admin
<1>2. CASE Around \/ PlainCalls
  BY <1>2 DEF Around, PlainCalls, Next, Admin
<1>3. ASSUME NEW t \in Task, Opens(t) PROVE Next
  BY <1>3 DEF Opens, Next
<1>4. ASSUME NEW t \in Task, WriteCall(t) \/ ReadCall(t) \/ Stray(t) PROVE Next
  BY <1>4 DEF WriteCall, ReadCall, Begin, Stray, Next, Calls
<1>5. ASSUME NEW t \in Task, StrayReturn(t) \/ Faults(t) \/ WriteReturn(t) \/ ReadReturn(t) PROVE Next
  BY <1>5 DEF StrayReturn, Faults, WriteReturn, ReadReturn, Return, Next, Calls
<1>6. ASSUME NEW t \in Task, WriteDivides(t) \/ WriteOom(t) \/ ReadFault(t) PROVE Struck(t)
  BY <1>6, KilledFrame DEF WriteDivides, WriteOom, Unfinished, ReadFault, Walks, InCall
<1>7. ASSUME NEW t \in Task, WriteNode(t) \/ ReadNode(t) \/ ReadAstray(t) PROVE UNCHANGED vars
  BY <1>7 DEF WriteNode, ReadNode, ReadAstray
<1>8. CASE UNCHANGED <<vars, data>>
  BY <1>8
<1> QED
  BY <1>1, <1>2, <1>3, <1>4, <1>5, <1>6, <1>7, <1>8, IoctlFrame
  DEF DataNext, DataStep, WriteStep, ReadStep

LEMMA StruckStep ==
    ASSUME ModInv, ScriptInv, OneInv, NEW t \in Task, Struck(t)
    PROVE  ModInv' /\ ScriptInv' /\ OneInv'
<1>0. /\ inode' \in {inode, NONE}
      /\ pc' \in {[pc EXCEPT ![t] = "killed"], [pc EXCEPT ![t] = "dead"]}
      /\ UNCHANGED <<driver, nod, script, loads, phase, todo, mem, ready, added, deleted,
                     region, map, made, entry, file, proc, dirty>>
      /\ pc \in [Task -> {"closed", "open", "call", "dead", "killed"}]
  BY DEF Ends, Struck, ModInv, ModTypeOK
<1>1. \A u \in Task : HasOpen(u)' <=> HasOpen(u) /\ u # t
  BY <1>0 DEF HasOpen
<1>2. ModInv'
  <2>1. pc' \in [Task -> {"closed", "open", "call", "dead", "killed"}]
    BY <1>0
  <2>2. ModTypeOK'
    BY <1>0, <2>1 DEF ModInv, ModTypeOK
  <2>3. AllKnown'
    BY <1>0 DEF ModInv, AllKnown, Known, KnownAt
  <2> QED BY <1>0, <2>2, <2>3, ProgressKept DEF ModInv, Progress
<1>3. ScriptInv'
  BY <1>0, <1>1 DEF ScriptInv, NodeMade, OpenInLive, NewestFirst, OpensCurrent, Current
<1>4. OneInv'
  <2> SUFFICES ASSUME OneAll, nod = 1, ~dirty PROVE OneAll'
    BY <1>0 DEF OneInv
  <2>1. HasOpen(t) /\ file[t] = This(0) /\ added > 0 /\ phase # "out"
    BY DEF Struck, HasOpen, OneAll, OneOpen
  <2>2. Put(t) /\ pc' = [pc EXCEPT ![t] = "killed"]
    BY <2>1, OneSound DEF Ends, Struck
  <2>3. OneOpen'
    BY <1>0, <1>1, <2>2 DEF OneAll, OneOpen, This
  <2>4. OneInode'
    <3> SUFFICES ASSUME inode # NONE, inode' = inode, deleted
                 PROVE  \E u \in Task : HasOpen(u)'
      BY <1>0 DEF OneAll, OneInode, This
    <3>1. inode = This(0)
      BY DEF OneAll, OneInode
    <3>2. PICK u \in OpenOn(This(0)) : u # t
      BY <2>1, <2>2, <3>1 DEF Put, Forget0
    <3> QED BY <1>1, <3>2 DEF OpenOn
  <2> QED BY <1>0, <2>3, <2>4 DEF OneAll, OneMap, OneMemory, OneDeleted, This
<1> QED BY <1>2, <1>3, <1>4

(***************************************************************************)
(* The lists and the calls.                                                *)
(***************************************************************************)

\* Where the devices of this load's files can be: the domain of head.
Homes == [load : 1 .. MaxLoads, dev : 0 .. MaxNod - 1]

DataTypeOK ==
    /\ quantum \in Nat /\ tuned \in BOOLEAN
    /\ head \in [Homes -> Lists \cup {NONE}]
    /\ list \in [Lists -> [q : Nat, len : Nat, ended : BOOLEAN]]
    /\ writes \in 0 .. MaxWrites
    /\ call \in [Task -> {"none", "write", "read"}]
    /\ lq \in [Task -> Nat]
    /\ on \in [Task -> 0 .. MaxWrites]
    /\ rest \in [Task -> Nat]
    /\ at \in [Task -> Nat \cup {NULL, WILD}]
    /\ got \in [Task -> {"none", "intact", "torn", "astray"}]
    /\ whole \in [Task -> BOOLEAN]

\* Loads and devices are counted.
Counted == loads <= MaxLoads /\ added <= nod /\ (loads = 0 => phase = "out" /\ added = 0)

\* A device that the ioctl has not reached.
Untuned(b) == Current(b) /\ ~(tuned /\ b.dev = 0)

\* A list has no more nodes than its quantum asks for, and an ended one has all.
Sound(l) ==
    /\ l.len > 0 => l.q > 0 /\ l.len <= QsetsBy(l.q)
    /\ l.ended => l.q > 0 /\ l.len = QsetsBy(l.q)

ListsSound == \A w \in Lists :
    /\ Sound(list[w])
    /\ w > writes => list[w].len = 0 /\ ~list[w].ended

\* A device has a list that has begun, cut as the header says, or none yet.
HeadsSound ==
    /\ ~tuned => quantum = QUANTUM_SIZE
    /\ \A b \in Homes :
        /\ b.load > loads => head[b] = NONE
        /\ head[b] # NONE => head[b] \in 1 .. writes /\ list[head[b]].len > 0
        /\ head[b] # NONE /\ Untuned(b) => list[head[b]].q = QUANTUM_SIZE

\* A call on an untuned device.  Where a read is says how much it has copied.
Plain(t) ==
    /\ call[t] # "none" => lq[t] = QUANTUM_SIZE /\ list[on[t]].q = QUANTUM_SIZE
    /\ got[t] # "torn" /\ (got[t] = "astray" => ~whole[t])
    /\ call[t] = "read" /\ rest[t] > 0 =>
          IF OnNode(t) THEN rest[t] + QUANTUM_SIZE * QSET_SIZE * at[t] = Count
                       ELSE at[t] = WILD /\ ~whole[t]

CallSound(t) ==
    /\ HasOpen(t) => file[t] # NONE
    /\ call[t] # "none" => driver = "ioctl_driver" /\ pc[t] = "call" /\ on[t] \in 1 .. writes
    /\ got[t] # "none" => call[t] = "read" \/ pc[t] \in {"dead", "killed"}
    /\ call[t] = "write" => list[on[t]].q = lq[t]
    /\ call[t] = "read" => /\ OnNode(t) => at[t] < list[on[t]].len
                           /\ whole[t] => list[on[t]].ended
    /\ Untuned(file[t]) => Plain(t)

DataInv == DataTypeOK /\ Counted /\ ListsSound /\ HeadsSound /\ \A t \in Task : CallSound(t)

\* The nodes of a list hold Count bytes.
LEMMA QsetsEnough ==
    ASSUME NEW q \in Nat, q > 0
    PROVE  QsetsBy(q) \in Nat /\ q * (QSET_SIZE * QsetsBy(q)) >= Count
<1>1. Count \in Nat /\ QSET_SIZE \in Nat /\ QSET_SIZE > 0
  BY IoctlAssumption, LayoutAssumption
<1> DEFINE k == CeilDiv(Count, q)
           n == QsetsBy(q)
<1>2. k \in Nat /\ (k < CeilDiv(Count, q) <=> q * k < Count)
  <2>1. k \in Nat
    BY <1>1, CeilDivBound
  <2> HIDE DEF k
  <2>2. k < CeilDiv(Count, q) <=> q * k < Count
    BY <1>1, <2>1, CeilDivBound
  <2> QED BY <2>1, <2>2
<1>3. n \in Nat /\ QSET_SIZE * n >= k
  <2>1. n \in Nat
    BY <1>1, <1>2, CeilDivBound DEF QsetsBy
  <2>2. n < CeilDiv(k, QSET_SIZE) <=> QSET_SIZE * n < k
    <3> HIDE DEF n, k
    <3> QED BY <1>1, <1>2, <2>1, CeilDivBound
  <2>3. n = CeilDiv(k, QSET_SIZE)
    BY DEF QsetsBy
  <2> QED BY <1>1, <1>2, <2>1, <2>2, <2>3
<1>4. q * k >= Count
  BY <1>1, <1>2
<1> HIDE DEF k, n
<1>5. QSET_SIZE * n \in Int /\ q * (QSET_SIZE * n) >= q * k
  BY <1>1, <1>2, <1>3, TimesMonotone
<1>6. q * (QSET_SIZE * n) \in Int /\ q * k \in Int
  BY <1>2, <1>5
<1>7. n \in Nat /\ q * (QSET_SIZE * n) >= Count
  BY <1>1, <1>3, <1>4, <1>5, <1>6
<1> QED BY <1>7 DEF n

\* With the header's quantum these are ScullLayout's nodes and filled slots.
LEMMA SameLayout ==
    /\ QsetsBy(QUANTUM_SIZE) = Qsets(Count)
    /\ \A k \in Nat :
          Fills(QUANTUM_SIZE, k) <=> k % QSET_SIZE \in FilledSlots(Count, k \div QSET_SIZE)
<1>1. QUANTUM_SIZE \in Nat /\ QSET_SIZE \in Nat /\ QSET_SIZE > 0
  BY LayoutAssumption
<1>2. ASSUME NEW k \in Nat
      PROVE  Fills(QUANTUM_SIZE, k) <=> k % QSET_SIZE \in FilledSlots(Count, k \div QSET_SIZE)
  <2>1. /\ k % QSET_SIZE \in Slot
        /\ k = QSET_SIZE * (k \div QSET_SIZE) + (k % QSET_SIZE)
    BY <1>1, DivMod DEF Slot
  <2> QED BY <2>1 DEF Fills, FilledSlots
<1> QED BY <1>2 DEF QsetsBy, Qsets, Quanta

LEMMA DataStart == DataInit => DataInv
<1> SUFFICES ASSUME DataInit PROVE DataInv
  OBVIOUS
<1>1. /\ MaxLoads \in Nat /\ QUANTUM_SIZE \in Nat /\ MaxWrites \in Nat
      /\ Lists \subseteq Nat
  BY ModuleAssumption, LayoutAssumption, IoctlAssumption DEF Lists
<1>2. /\ loads = 0 /\ phase = "out" /\ added = 0 /\ nod \in 1 .. MaxNod
      /\ quantum = QUANTUM_SIZE /\ tuned = FALSE /\ head = [b \in Homes |-> NONE]
      /\ list = [w \in Lists |-> [q |-> 0, len |-> 0, ended |-> FALSE]] /\ writes = 0
      /\ pc = [t \in Task |-> "closed"] /\ call = [t \in Task |-> "none"]
      /\ lq = [t \in Task |-> 0] /\ on = [t \in Task |-> 0]
      /\ rest = [t \in Task |-> 0] /\ at = [t \in Task |-> 0]
      /\ got = [t \in Task |-> "none"] /\ whole = [t \in Task |-> FALSE]
  BY DEF DataInit, Init, Homes
<1>3. DataTypeOK
  <2>1. list \in [Lists -> [q : Nat, len : Nat, ended : BOOLEAN]]
    BY <1>2
  <2>2. quantum \in Nat /\ tuned \in BOOLEAN /\ writes \in 0 .. MaxWrites
    <3>1. quantum = QUANTUM_SIZE /\ tuned = FALSE /\ writes = 0
      BY <1>2
    <3>2. tuned \in BOOLEAN
      BY <3>1
    <3>3. quantum \in Nat /\ writes \in 0 .. MaxWrites
      BY <1>1, <3>1
    <3> QED BY <3>2, <3>3
  <2>5. head \in [Homes -> Lists \cup {NONE}] /\ call \in [Task -> {"none", "write", "read"}]
    BY <1>2
  <2>3. /\ lq \in [Task -> Nat] /\ on \in [Task -> 0 .. MaxWrites] /\ rest \in [Task -> Nat]
        /\ at \in [Task -> Nat \cup {NULL, WILD}]
    BY <1>1, <1>2
  <2>4. /\ got \in [Task -> {"none", "intact", "torn", "astray"}] /\ whole \in [Task -> BOOLEAN]
    BY <1>2
  <2> QED BY <2>1, <2>2, <2>3, <2>4, <2>5 DEF DataTypeOK
<1>4. Counted /\ ListsSound /\ HeadsSound
  BY <1>1, <1>2 DEF Counted, ListsSound, Sound, HeadsSound
<1>5. ASSUME NEW t \in Task PROVE CallSound(t)
  <2>1. pc[t] = "closed" /\ call[t] = "none" /\ got[t] = "none"
    BY <1>2
  <2> QED BY <2>1 DEF CallSound, Plain, HasOpen
<1> QED BY <1>3, <1>4, <1>5 DEF DataInv

LEMMA CountedStep == ModInv /\ Counted /\ [DataNext]_<<vars, data>> => Counted'
<1> SUFFICES ASSUME ModInv, Counted, [DataNext]_<<vars, data>> PROVE Counted'
  OBVIOUS
<1>0. /\ loads \in Nat /\ added \in Nat /\ nod \in Nat /\ MaxLoads \in Nat
      /\ loads <= MaxLoads /\ added <= nod /\ (loads = 0 => phase = "out" /\ added = 0)
  BY ModuleAssumption DEF ModInv, ModTypeOK, Counted
<1>1. ASSUME UNCHANGED <<nod, loads, added>>, phase = "out" => phase' = "out" PROVE Counted'
  BY <1>0, <1>1 DEF Counted
<1> USE DEF fixed, array, kernel, users
<1>2. CASE Insmod
  <2>1. loads < MaxLoads /\ loads' = loads + 1 /\ added' = 0 /\ nod' = nod
    BY <1>2 DEF Insmod
  <2> QED BY <1>0, <2>1 DEF Counted
<1>3. CASE AddDevice
  <2>1. phase # "out" /\ added < nod /\ added' = added + 1 /\ UNCHANGED <<nod, loads>>
    BY <1>3 DEF AddDevice, Doing
  <2> QED BY <1>0, <2>1 DEF Counted
<1>4. CASE Register \/ AllocDevices \/ SetUpDevice \/ CreateEntry \/ InitReturn
  BY <1>1, <1>4 DEF Register, AllocDevices, SetUpDevice, CreateEntry, InitReturn, Did, Doing
<1>5. CASE Rmmod \/ Unloading
  BY <1>1, <1>5 DEF Rmmod, Unloading, Unregister, FreeDevices, DelDevice, DelGarbage, RemoveEntry,
                    EntryRemoved, ExitReturn, Did, Doing
<1>6. CASE TakeMemory \/ MakeNode
  BY <1>1, <1>6 DEF TakeMemory, MakeNode
<1>7. ASSUME NEW t \in Task, Opening(t) \/ Calls(t) PROVE Counted'
  BY <1>1, <1>7, UsersFrame
<1>8. ASSUME NEW r \in Reader, Reading(r) PROVE Counted'
  BY <1>1, <1>8, ReaderFrame DEF ModInv
<1>9. ASSUME NEW t \in Task, Struck(t) PROVE Counted'
  BY <1>1, <1>9 DEF Struck, Ends
<1>10. CASE UNCHANGED vars
  BY <1>1, <1>10 DEF vars
<1> QED
  BY <1>2, <1>3, <1>4, <1>5, <1>6, <1>7, <1>8, <1>9, <1>10, DataSteps DEF Next, Admin, Loading

\* A current device is one that head has an entry for.
LEMMA CurrentHome ==
    ASSUME ModInv, Counted, NEW t \in Task, Current(file[t])
    PROVE  file[t] \in Homes
<1>1. /\ file[t] \in Device /\ file[t].load = loads /\ file[t].dev < added
      /\ loads \in Nat /\ added \in Nat /\ nod \in 1 .. MaxNod /\ MaxNod \in Nat /\ MaxLoads \in Nat
  BY ModuleAssumption DEF ModInv, ModTypeOK, AllKnown, Known, KnownAt, Current
<1>2. file[t] = [load |-> file[t].load, dev |-> file[t].dev] /\ file[t].dev \in Nat
  BY <1>1 DEF Device
<1>3. loads \in 1 .. MaxLoads /\ file[t].dev \in 0 .. MaxNod - 1
  BY <1>1, <1>2 DEF Counted
<1> QED BY <1>1, <1>2, <1>3 DEF Homes

\* Lists only grow, but for the one that a write begins.
ListsGrow == \A w \in 1 .. writes :
    /\ list'[w].q = list[w].q /\ list'[w].len >= list[w].len
    /\ list[w].ended => list'[w].ended

\* A task and its call stay as they are.
Rests(t) ==
    /\ pc'[t] = pc[t] /\ file'[t] = file[t] /\ call'[t] = call[t] /\ lq'[t] = lq[t]
    /\ on'[t] = on[t] /\ rest'[t] = rest[t] /\ at'[t] = at[t] /\ got'[t] = got[t]
    /\ whole'[t] = whole[t]

LEMMA TaskRests ==
    ASSUME DataTypeOK, DataTypeOK', driver' = driver, writes' >= writes, ListsGrow,
           NEW t \in Task, CallSound(t), Rests(t), Untuned(file[t])' => Untuned(file[t])
    PROVE  CallSound(t)'
<1>1. /\ writes \in Nat /\ writes' \in Nat /\ 1 .. writes \subseteq Lists
      /\ NULL \notin Nat /\ WILD \notin Nat /\ MaxWrites \in Nat
      /\ call[t] \in {"none", "write", "read"}
      /\ at[t] \in Nat \cup {NULL, WILD}
  BY IoctlAssumption DEF DataTypeOK, Lists
<1>2. ASSUME call[t] # "none"
      PROVE  /\ on[t] \in 1 .. writes /\ on[t] \in 1 .. writes'
             /\ list'[on[t]].q = list[on[t]].q /\ list'[on[t]].len >= list[on[t]].len
             /\ list[on[t]].ended => list'[on[t]].ended
             /\ list[on[t]].len \in Nat /\ list'[on[t]].len \in Nat
  <2>1. on[t] \in 1 .. writes
    BY <1>2 DEF CallSound
  <2>2. on[t] \in Lists /\ on[t] \in 1 .. writes'
    BY <1>1, <2>1
  <2> QED BY <2>1, <2>2 DEF ListsGrow, DataTypeOK
<1>3. OnNode(t)' <=> OnNode(t)
  BY DEF Rests, OnNode
<1>4. Plain(t) => Plain(t)'
  BY <1>1, <1>2, <1>3 DEF Rests, Plain
<1>5. CASE call[t] = "none"
  BY <1>4, <1>5 DEF CallSound, Rests, HasOpen
<1>6. CASE call[t] # "none"
  <2>1. call[t] = "read" => (OnNode(t)' => at'[t] < list'[on'[t]].len)
    <3>1. OnNode(t) => at[t] \in Nat
      BY <1>1 DEF OnNode
    <3> QED BY <1>2, <1>3, <1>6, <3>1 DEF CallSound, Rests
  <2> QED BY <1>2, <1>4, <1>6, <2>1 DEF CallSound, Rests, HasOpen
<1> QED BY <1>5, <1>6

LEMMA HeadsRest ==
    ASSUME DataTypeOK, DataTypeOK', HeadsSound, ListsGrow, writes' >= writes,
           UNCHANGED <<loads, tuned, quantum, head>>
    PROVE  HeadsSound'
<1>1. /\ writes \in Nat /\ writes' \in Nat /\ 1 .. writes \subseteq Lists
  BY IoctlAssumption DEF DataTypeOK, Lists
<1> SUFFICES ASSUME NEW b \in Homes
             PROVE  /\ b.load > loads => head[b] = NONE
                    /\ head[b] # NONE => head[b] \in 1 .. writes' /\ list'[head[b]].len > 0
                    /\ head[b] # NONE /\ Untuned(b) => list'[head[b]].q = QUANTUM_SIZE
  BY DEF HeadsSound, Untuned, Current
<1>2. CASE head[b] = NONE
  BY <1>2
<1>3. CASE head[b] # NONE
  <2>1. head[b] \in 1 .. writes /\ list[head[b]].len > 0
    BY <1>3 DEF HeadsSound
  <2>2. head[b] \in Lists /\ head[b] \in 1 .. writes'
    BY <1>1, <2>1
  <2>3. list'[head[b]].len > 0
    BY <2>1, <2>2 DEF ListsGrow, DataTypeOK
  <2> QED BY <1>3, <2>1, <2>2, <2>3 DEF HeadsSound, ListsGrow
<1> QED BY <1>2, <1>3

\* A task's step in its call.
LEMMA TaskStep ==
    ASSUME DataInv, Counted', DataTypeOK', ListsSound', HeadsSound', ListsGrow,
           writes' >= writes, UNCHANGED <<driver, loads, tuned>>,
           NEW t \in Task, CallSound(t)', \A u \in Task \ {t} : Rests(u)
    PROVE  DataInv'
<1> SUFFICES ASSUME NEW u \in Task, u # t PROVE CallSound(u)'
  BY DEF DataInv
<1>1. Rests(u) /\ CallSound(u)
  BY DEF DataInv
<1>2. Untuned(file[u])' => Untuned(file[u])
  BY <1>1 DEF Rests, Untuned, Current
<1> QED BY <1>1, <1>2, TaskRests DEF DataInv

LEMMA SameGrow ==
    ASSUME DataTypeOK, list' = list
    PROVE  ListsGrow
<1>1. \A w \in 1 .. writes : list[w].len \in Nat
  <2>1. 1 .. writes \subseteq Lists
    BY IoctlAssumption DEF DataTypeOK, Lists
  <2> QED BY <2>1 DEF DataTypeOK
<1> QED BY <1>1 DEF ListsGrow

\* A task without a call.
LEMMA Idle ==
    ASSUME NEW t \in Task, CallSound(t), pc[t] \notin {"dead", "killed"},
           pc[t] = "call" => call[t] = "none"
    PROVE  call[t] = "none" /\ got[t] = "none"
BY DEF CallSound

\* The data stays, and the tasks without a call move.
LEMMA SameData ==
    ASSUME DataInv, Counted', UNCHANGED <<driver, loads, data>>,
           \A u \in Task :
              \/ pc'[u] = pc[u] /\ file'[u] = file[u]
              \/ /\ call[u] = "none" /\ got[u] = "none"
                 /\ HasOpen(u)' => file'[u] # NONE
    PROVE  DataInv'
<1>0. /\ UNCHANGED <<driver, loads, quantum, tuned, head, list, writes, call, lq, on, rest,
                     at, got, whole>>
      /\ DataTypeOK /\ writes \in Nat
  BY IoctlAssumption DEF data, walk, DataInv, DataTypeOK
<1>1. DataTypeOK' /\ ListsSound' /\ HeadsSound'
  BY <1>0 DEF DataInv, DataTypeOK, ListsSound, HeadsSound, Untuned, Current
<1>2. ASSUME NEW u \in Task PROVE CallSound(u)'
  <2>1. CASE pc'[u] = pc[u] /\ file'[u] = file[u]
    <3>1. Rests(u) /\ CallSound(u) /\ writes' >= writes /\ ListsGrow
      BY <1>0, <2>1, SameGrow DEF Rests, DataInv
    <3>2. Untuned(file[u])' => Untuned(file[u])
      BY <1>0, <2>1 DEF Untuned, Current
    <3> QED BY <1>0, <1>1, <3>1, <3>2, TaskRests
  <2>2. CASE call[u] = "none" /\ got[u] = "none" /\ (HasOpen(u)' => file'[u] # NONE)
    BY <1>0, <2>2 DEF CallSound, Plain
  <2> QED BY <2>1, <2>2
<1> QED BY <1>1, <1>2 DEF DataInv

LEMMA ArrayData ==
    ASSUME ModInv, DataInv, Counted', NewArray
    PROVE  DataInv'
<1>1. /\ loads \in Nat /\ loads' = loads + 1 /\ quantum' = QUANTUM_SIZE /\ tuned' = FALSE
      /\ UNCHANGED <<driver, pc, file, head, list, writes, call, lq, on, rest, at, got, whole>>
      /\ file \in [Task -> Device \cup {NONE}] /\ DataTypeOK /\ writes \in Nat
  BY IoctlAssumption DEF NewArray, Insmod, fixed, users, walk, ModInv, ModTypeOK, DataInv, DataTypeOK
<1>2. DataTypeOK' /\ ListsSound'
  BY <1>1, LayoutAssumption DEF DataInv, DataTypeOK, ListsSound
<1>3. HeadsSound'
  <2> SUFFICES ASSUME NEW b \in Homes
               PROVE  /\ b.load > loads' => head[b] = NONE
                      /\ head[b] # NONE => head[b] \in 1 .. writes /\ list[head[b]].len > 0
                      /\ head[b] # NONE => b.load # loads'
    BY <1>1 DEF HeadsSound, Untuned, Current
  <2>1. b.load \in Nat
    BY DEF Homes
  <2> QED BY <1>1, <2>1 DEF DataInv, HeadsSound
<1>4. ASSUME NEW u \in Task PROVE CallSound(u)'
  <2>1. ~Untuned(file[u])'
    <3> SUFFICES ASSUME file[u] # NONE PROVE file[u].load # loads'
      BY <1>1 DEF Untuned, Current
    <3>1. file[u] \in Device /\ file[u].load <= loads
      BY <1>1 DEF ModInv, AllKnown, Known, KnownAt
    <3> QED BY <1>1, <3>1 DEF Device
  <2>2. Rests(u) /\ CallSound(u) /\ writes' >= writes /\ ListsGrow
    BY <1>1, SameGrow DEF Rests, DataInv
  <2> QED BY <1>1, <1>2, <2>1, <2>2, TaskRests
<1> QED BY <1>2, <1>3, <1>4 DEF DataInv

\* The beginning of a call.
LEMMA BeginFrame ==
    ASSUME ModInv, DataInv, NEW t \in Task, NEW what, NEW w, Begin(t, what, w)
    PROVE  /\ UNCHANGED <<driver, loads, file, quantum, tuned, head>>
           /\ pc[t] = "open" /\ pc' = [pc EXCEPT ![t] = "call"]
           /\ file[t] \in Homes
           /\ call' = [call EXCEPT ![t] = what] /\ lq' = [lq EXCEPT ![t] = QuantumOf(file[t])]
           /\ on' = [on EXCEPT ![t] = w]
           /\ QuantumOf(file[t]) \in Nat
           /\ Untuned(file[t]) => QuantumOf(file[t]) = QUANTUM_SIZE
           /\ call[t] = "none" /\ got[t] = "none" /\ file[t] # NONE
<1>1. /\ UNCHANGED <<driver, loads, file, quantum, tuned, head>>
      /\ pc[t] = "open" /\ pc' = [pc EXCEPT ![t] = "call"]
      /\ call' = [call EXCEPT ![t] = what] /\ lq' = [lq EXCEPT ![t] = QuantumOf(file[t])]
      /\ on' = [on EXCEPT ![t] = w]
  BY DEF Begin, BeginCall, Use, Enter, fixed, array, kernel
<1>2. CallSound(t) /\ HasOpen(t)
  BY <1>1 DEF DataInv, HasOpen
<1>3. call[t] = "none" /\ got[t] = "none" /\ file[t] # NONE
  BY <1>1, <1>2, Idle DEF CallSound
<1>4. Current(file[t])
  BY <1>3 DEF Begin, Broken, Current
<1>5. file[t] \in Homes
  BY <1>4, CurrentHome DEF DataInv
<1>6. QuantumOf(file[t]) \in Nat
  BY LayoutAssumption DEF QuantumOf, DataInv, DataTypeOK
<1>7. Untuned(file[t]) => QuantumOf(file[t]) = QUANTUM_SIZE
  BY DEF QuantumOf, This, Untuned, DataInv, HeadsSound
<1> QED BY <1>1, <1>3, <1>5, <1>6, <1>7

LEMMA WriteCallStep ==
    ASSUME ModInv, DataInv, Counted', driver = "ioctl_driver", NEW t \in Task, WriteCall(t)
    PROVE  DataInv'
<1> DEFINE q == QuantumOf(file[t])
<1>1. /\ UNCHANGED <<driver, loads, file, quantum, tuned, head, rest, at, got, whole>>
      /\ pc[t] = "open" /\ pc' = [pc EXCEPT ![t] = "call"]
      /\ call' = [call EXCEPT ![t] = "write"] /\ lq' = [lq EXCEPT ![t] = q]
      /\ on' = [on EXCEPT ![t] = writes'] /\ q \in Nat
      /\ Untuned(file[t]) => q = QUANTUM_SIZE
      /\ call[t] = "none" /\ got[t] = "none" /\ file[t] # NONE
  BY BeginFrame DEF WriteCall
<1> HIDE DEF q
<1>2. /\ writes \in 0 .. MaxWrites /\ MaxWrites \in Nat /\ writes' = writes + 1 /\ writes' \in Lists
      /\ Lists \subseteq Nat
  <2>1. LooseWrites \in 0 .. MaxWrites /\ MaxWrites \in Nat /\ writes \in 0 .. MaxWrites
    BY IoctlAssumption DEF DataInv, DataTypeOK
  <2>2. writes < MaxWrites
    BY <2>1 DEF WriteCall
  <2> QED BY <2>1, <2>2 DEF WriteCall, Lists
<1>3. DataTypeOK /\ pc \in [Task -> {"closed", "open", "call", "dead", "killed"}]
  BY DEF DataInv, ModInv, ModTypeOK
<1>4. list' = [list EXCEPT ![writes'] = [list[writes'] EXCEPT !.q = q]]
  BY <1>1, <1>3 DEF WriteCall, DataTypeOK
<1>5. /\ list' \in [Lists -> [q : Nat, len : Nat, ended : BOOLEAN]]
      /\ list'[writes'].q = q /\ list'[writes'].len = 0 /\ ~list'[writes'].ended
      /\ \A w \in Lists \ {writes'} : list'[w] = list[w]
  <2>1. list[writes'] \in [q : Nat, len : Nat, ended : BOOLEAN]
    BY <1>2, <1>3 DEF DataTypeOK
  <2>2. list[writes'].len = 0 /\ ~list[writes'].ended
    BY <1>2 DEF DataInv, ListsSound
  <2> QED BY <1>1, <1>2, <1>3, <1>4, <2>1, <2>2 DEF DataTypeOK
<1>6. DataTypeOK'
  <2>1. writes' \in 0 .. MaxWrites
    BY <1>2 DEF Lists
  <2> QED BY <1>1, <1>3, <1>5, <2>1 DEF DataTypeOK
<1>7. ListsSound'
  <2> SUFFICES ASSUME NEW w \in Lists
               PROVE  Sound(list'[w]) /\ (w > writes' => list'[w].len = 0 /\ ~list'[w].ended)
    BY DEF ListsSound, Sound
  <2>1. CASE w = writes'
    BY <1>2, <1>5, <2>1 DEF Sound
  <2>2. CASE w # writes'
    BY <1>2, <1>5, <2>2 DEF DataInv, ListsSound
  <2> QED BY <2>1, <2>2
<1>8. ListsGrow
  <2> SUFFICES ASSUME NEW w \in 1 .. writes PROVE list'[w] = list[w] /\ list[w].len \in Nat
    BY DEF ListsGrow
  <2>1. w \in Lists \ {writes'}
    BY <1>2 DEF Lists
  <2> QED BY <1>3, <1>5, <2>1 DEF DataTypeOK
<1>9. HeadsSound'
  BY <1>1, <1>2, <1>3, <1>6, <1>8, HeadsRest DEF DataInv
<1>10. CallSound(t)'
  <2>1. /\ pc'[t] = "call" /\ call'[t] = "write" /\ lq'[t] = q /\ on'[t] = writes'
        /\ got'[t] = "none"
    BY <1>1, <1>3 DEF DataTypeOK
  <2>2. on'[t] \in 1 .. writes' /\ list'[on'[t]].q = q
    BY <1>2, <1>5, <2>1
  <2> QED BY <1>1, <2>1, <2>2 DEF CallSound, Plain, Untuned, Current
<1>11. \A u \in Task \ {t} : Rests(u)
  BY <1>1, <1>3 DEF Rests, DataTypeOK
<1> QED BY <1>1, <1>2, <1>6, <1>7, <1>8, <1>9, <1>10, <1>11, TaskStep

LEMMA ReadCallStep ==
    ASSUME ModInv, DataInv, Counted', driver = "ioctl_driver", NEW t \in Task, ReadCall(t)
    PROVE  DataInv'
<1> DEFINE q == QuantumOf(file[t])
           w == head[file[t]]
<1>1. /\ UNCHANGED <<driver, loads, file, quantum, tuned, head, list, writes>>
      /\ pc[t] = "open" /\ pc' = [pc EXCEPT ![t] = "call"] /\ file[t] \in Homes
      /\ call' = [call EXCEPT ![t] = "read"] /\ lq' = [lq EXCEPT ![t] = q]
      /\ on' = [on EXCEPT ![t] = w] /\ rest' = [rest EXCEPT ![t] = Count]
      /\ at' = [at EXCEPT ![t] = 0] /\ got' = [got EXCEPT ![t] = "intact"]
      /\ whole' = [whole EXCEPT ![t] = list[w].ended]
      /\ q \in Nat /\ (Untuned(file[t]) => q = QUANTUM_SIZE) /\ w # NONE /\ file[t] # NONE
  BY BeginFrame DEF ReadCall
<1>2. /\ w \in 1 .. writes /\ list[w].len > 0
      /\ Untuned(file[t]) => list[w].q = QUANTUM_SIZE
  BY <1>1 DEF DataInv, HeadsSound
<1> HIDE DEF q, w
<1>3. DataTypeOK /\ pc \in [Task -> {"closed", "open", "call", "dead", "killed"}]
  BY DEF DataInv, ModInv, ModTypeOK
<1>4. /\ writes \in 0 .. MaxWrites /\ MaxWrites \in Nat /\ w \in Lists /\ w \in 0 .. MaxWrites
      /\ Count \in Nat
      /\ list[w].len \in Nat /\ list[w].ended \in BOOLEAN
  <2>1. writes \in 0 .. MaxWrites /\ MaxWrites \in Nat /\ Count \in Nat
    BY <1>3, IoctlAssumption DEF DataTypeOK
  <2>2. w \in Lists /\ w \in 0 .. MaxWrites
    BY <1>2, <2>1 DEF Lists
  <2> QED BY <1>3, <2>1, <2>2 DEF DataTypeOK
<1>5. DataTypeOK'
  BY <1>1, <1>3, <1>4 DEF DataTypeOK
<1>6. ListsSound' /\ ListsGrow
  BY <1>1, <1>3, SameGrow DEF DataInv, ListsSound
<1>7. HeadsSound'
  BY <1>1, <1>3, <1>4, <1>5, <1>6, HeadsRest DEF DataInv
<1>8. CallSound(t)'
  <2>1. /\ pc'[t] = "call" /\ call'[t] = "read" /\ lq'[t] = q /\ on'[t] = w
        /\ rest'[t] = Count /\ at'[t] = 0 /\ got'[t] = "intact" /\ whole'[t] = list[w].ended
    BY <1>1, <1>3 DEF DataTypeOK
  <2>2. Untuned(file[t]) => Plain(t)'
    <3>1. Count + QUANTUM_SIZE * QSET_SIZE * 0 = Count
      BY <1>4, LayoutAssumption
    <3> QED BY <1>1, <1>2, <2>1, <3>1, IoctlAssumption DEF Plain, OnNode
  <2> QED BY <1>1, <1>2, <2>1, <2>2 DEF CallSound, Untuned, Current
<1>9. \A u \in Task \ {t} : Rests(u)
  BY <1>1, <1>3 DEF Rests, DataTypeOK
<1> QED BY <1>1, <1>4, <1>5, <1>6, <1>7, <1>8, <1>9, TaskStep

LEMMA WriteNodeStep ==
    ASSUME ModInv, DataInv, Counted', NEW t \in Task, WriteNode(t)
    PROVE  DataInv'
<1> DEFINE w == on[t]
<1>1. /\ UNCHANGED <<driver, loads, file, pc, quantum, tuned, writes, call, lq, on, rest, at,
                     got, whole>>
      /\ pc[t] = "call" /\ call[t] = "write" /\ lq[t] > 0 /\ list[w].len < QsetsBy(lq[t])
      /\ list' = [list EXCEPT ![w].len = @ + 1]
      /\ head' = IF list[w].len = 0 THEN [head EXCEPT ![file[t]] = w] ELSE head
  BY DEF WriteNode, Unfinished, InCall, vars, fixed, users, walk
<1>2. /\ w \in 1 .. writes /\ list[w].q = lq[t] /\ file[t] # NONE
      /\ Untuned(file[t]) => list[w].q = QUANTUM_SIZE
  BY <1>1 DEF DataInv, CallSound, Plain, HasOpen
<1> HIDE DEF w
<1>3. DataTypeOK
  BY DEF DataInv
<1>4. /\ w \in Lists /\ Lists \subseteq Nat /\ 1 .. writes \subseteq Lists /\ writes \in Nat
      /\ list[w] \in [q : Nat, len : Nat, ended : BOOLEAN] /\ lq[t] \in Nat
      /\ QsetsBy(lq[t]) \in Nat /\ NONE \notin Nat
  <2>1. /\ writes \in 0 .. MaxWrites /\ MaxWrites \in Nat /\ lq[t] \in Nat
        /\ list \in [Lists -> [q : Nat, len : Nat, ended : BOOLEAN]] /\ NONE \notin Nat
    BY <1>3, IoctlAssumption DEF DataTypeOK
  <2>2. w \in Lists /\ Lists \subseteq Nat /\ 1 .. writes \subseteq Lists /\ writes \in Nat
    BY <1>2, <2>1 DEF Lists
  <2> QED BY <1>1, <2>1, <2>2, QsetsEnough
<1>5. /\ list' \in [Lists -> [q : Nat, len : Nat, ended : BOOLEAN]]
      /\ list'[w].q = list[w].q /\ list'[w].len = list[w].len + 1
      /\ list'[w].ended = list[w].ended
      /\ \A v \in Lists \ {w} : list'[v] = list[v]
  <2>1. list' = [list EXCEPT ![w] = [list[w] EXCEPT !.len = list[w].len + 1]]
    BY <1>1, <1>3, <1>4 DEF DataTypeOK
  <2> QED BY <1>3, <1>4, <2>1 DEF DataTypeOK
<1>6. head' \in [Homes -> Lists \cup {NONE}]
  BY <1>1, <1>3, <1>4 DEF DataTypeOK
<1>7. DataTypeOK'
  BY <1>1, <1>3, <1>5, <1>6 DEF DataTypeOK
<1>8. ListsGrow
  BY <1>3, <1>4, <1>5 DEF ListsGrow, DataTypeOK
<1>9. ListsSound'
  <2> SUFFICES ASSUME NEW v \in Lists
               PROVE  Sound(list'[v]) /\ (v > writes => list'[v].len = 0 /\ ~list'[v].ended)
    BY <1>1 DEF ListsSound, Sound
  <2>1. CASE v = w
    <3>1. ~list[w].ended
      BY <1>1, <1>2, <1>4 DEF DataInv, ListsSound, Sound
    <3>2. list[w].len + 1 <= QsetsBy(lq[t]) /\ ~(w > writes)
      BY <1>1, <1>2, <1>4
    <3> QED BY <1>1, <1>2, <1>5, <2>1, <3>1, <3>2 DEF Sound
  <2>2. CASE v # w
    BY <1>5, <2>2 DEF DataInv, ListsSound
  <2> QED BY <2>1, <2>2
<1>10. HeadsSound'
  <2> SUFFICES ASSUME NEW b \in Homes
               PROVE  /\ b.load > loads => head'[b] = NONE
                      /\ head'[b] # NONE => head'[b] \in 1 .. writes /\ list'[head'[b]].len > 0
                      /\ head'[b] # NONE /\ Untuned(b) => list'[head'[b]].q = QUANTUM_SIZE
    BY <1>1 DEF DataInv, HeadsSound, Untuned, Current
  <2>1. CASE head'[b] = head[b]
    <3>1. head[b] # NONE => head[b] \in 1 .. writes /\ list[head[b]].len \in Nat /\ list'[head[b]].len \in Nat
      BY <1>3, <1>4, <1>5 DEF DataInv, HeadsSound, DataTypeOK
    <3> QED BY <1>8, <2>1, <3>1 DEF DataInv, HeadsSound, ListsGrow
  <2>2. CASE head'[b] # head[b]
    <3>1. b = file[t] /\ head'[b] = w
      BY <1>1, <1>3, <2>2 DEF DataTypeOK
    <3>2. ~(b.load > loads)
      <4>1. Known(b) /\ b # NONE /\ b.load \in Nat /\ loads \in Nat
        BY <1>2, <3>1 DEF ModInv, ModTypeOK, AllKnown, Homes
      <4> QED BY <4>1 DEF Known, KnownAt
    <3>3. list'[w].len > 0
      BY <1>4, <1>5
    <3> QED BY <1>2, <1>5, <3>1, <3>2, <3>3
  <2> QED BY <2>1, <2>2
<1>11. \A u \in Task : Rests(u)
  BY <1>1 DEF Rests
<1>12. CallSound(t)'
  <2>1. CallSound(t) /\ (Untuned(file[t])' => Untuned(file[t]))
    BY <1>1 DEF DataInv, Untuned, Current
  <2> QED BY <1>1, <1>3, <1>4, <1>7, <1>8, <1>11, <2>1, TaskRests
<1> QED BY <1>1, <1>4, <1>7, <1>8, <1>9, <1>10, <1>11, <1>12, TaskStep

\* The end of a call.
LEMMA ForgetStep ==
    ASSUME ModInv, DataInv, Counted', UNCHANGED <<driver, loads, file>>,
           NEW t \in Task, Forget(t), call[t] # "none",
           NEW to, pc' = [pc EXCEPT ![t] = to],
           NEW g \in {"none", "intact", "torn", "astray"}, got' = [got EXCEPT ![t] = g],
           NEW h \in BOOLEAN, whole' = [whole EXCEPT ![t] = h],
           g = "none" \/ to \in {"dead", "killed"},
           Untuned(file[t]) => g # "torn" /\ (g = "astray" => ~h),
           list' \in [Lists -> [q : Nat, len : Nat, ended : BOOLEAN]], ListsSound', ListsGrow
    PROVE  DataInv'
<1>1. /\ call' = [call EXCEPT ![t] = "none"] /\ lq' = [lq EXCEPT ![t] = 0]
      /\ on' = [on EXCEPT ![t] = 0] /\ rest' = [rest EXCEPT ![t] = 0] /\ at' = [at EXCEPT ![t] = 0]
      /\ UNCHANGED <<quantum, tuned, head, writes>>
  BY DEF Forget
<1>2. /\ DataTypeOK /\ writes \in Nat /\ MaxWrites \in Nat
      /\ pc \in [Task -> {"closed", "open", "call", "dead", "killed"}]
  BY IoctlAssumption DEF DataInv, DataTypeOK, ModInv, ModTypeOK
<1>3. DataTypeOK'
  BY <1>1, <1>2 DEF DataTypeOK
<1>4. HeadsSound'
  BY <1>1, <1>2, <1>3, HeadsRest DEF DataInv
<1>5. CallSound(t)'
  <2>1. call'[t] = "none" /\ got'[t] = g /\ whole'[t] = h /\ pc'[t] = to
    BY <1>1, <1>2 DEF DataTypeOK
  <2>2. file[t] # NONE
    BY DEF DataInv, CallSound, HasOpen
  <2> QED BY <1>1, <2>1, <2>2 DEF CallSound, Plain, Untuned, Current
<1>6. \A u \in Task \ {t} : Rests(u)
  BY <1>1, <1>2 DEF Rests, DataTypeOK
<1> QED BY <1>1, <1>2, <1>3, <1>4, <1>5, <1>6, TaskStep

LEMMA ReturnStep ==
    ASSUME ModInv, DataInv, Counted', NEW t \in Task, WriteReturn(t) \/ ReadReturn(t)
    PROVE  DataInv'
<1>1. /\ Forget(t) /\ call[t] # "none" /\ UNCHANGED <<driver, loads, file, writes>>
      /\ pc' = [pc EXCEPT ![t] = "open"]
      /\ got' = [got EXCEPT ![t] = "none"] /\ whole' = [whole EXCEPT ![t] = FALSE]
  <2>1. pc'[t] = "open" /\ EndCall(t) /\ pc \in [Task -> {"closed", "open", "call", "dead", "killed"}]
    BY DEF WriteReturn, ReadReturn, Return, ModInv, ModTypeOK
  <2> QED BY <2>1 DEF WriteReturn, ReadReturn, Return, InCall, EndCall, Use, Enter, fixed, Forget
<1>2. DataTypeOK
  BY DEF DataInv
<1>3. CASE ReadReturn(t)
  <2>1. list' = list
    BY <1>3 DEF ReadReturn
  <2>2. ListsSound' /\ ListsGrow /\ list' \in [Lists -> [q : Nat, len : Nat, ended : BOOLEAN]]
    BY <1>1, <1>2, <2>1, SameGrow DEF DataInv, ListsSound, DataTypeOK
  <2> QED BY <1>1, <2>2, ForgetStep
<1>4. CASE WriteReturn(t)
  <2> DEFINE w == on[t]
  <2>1. /\ lq[t] > 0 /\ list[w].len = QsetsBy(lq[t]) /\ list[w].q = lq[t] /\ w \in 1 .. writes
        /\ list' = [list EXCEPT ![w].ended = TRUE]
    BY <1>4 DEF WriteReturn, InCall, DataInv, CallSound
  <2> HIDE DEF w
  <2>2. w \in Lists /\ 1 .. writes \subseteq Lists /\ Lists \subseteq Nat /\ writes \in Nat
    BY <1>2, <2>1, IoctlAssumption DEF DataTypeOK, Lists
  <2>3. /\ list' \in [Lists -> [q : Nat, len : Nat, ended : BOOLEAN]]
        /\ list'[w].q = list[w].q /\ list'[w].len = list[w].len /\ list'[w].ended
        /\ \A v \in Lists \ {w} : list'[v] = list[v]
    <3>1. list' = [list EXCEPT ![w] = [list[w] EXCEPT !.ended = TRUE]]
      BY <1>2, <2>1, <2>2 DEF DataTypeOK
    <3> QED BY <1>2, <2>2, <3>1 DEF DataTypeOK
  <2>4. ListsGrow
    BY <1>2, <2>2, <2>3 DEF ListsGrow, DataTypeOK
  <2>5. ListsSound'
    <3> SUFFICES ASSUME NEW v \in Lists
                 PROVE  Sound(list'[v]) /\ (v > writes => list'[v].len = 0 /\ ~list'[v].ended)
      BY <1>1 DEF ListsSound, Sound
    <3>1. CASE v = w
      <4>1. ~(w > writes)
        BY <2>1, <2>2
      <4>2. list'[w].len <= QsetsBy(list'[w].q)
        BY <2>1, <2>2, <2>3, QsetsEnough, <1>2 DEF DataTypeOK
      <4> QED BY <2>1, <2>3, <3>1, <4>1, <4>2 DEF Sound
    <3>2. CASE v # w
      BY <2>3, <3>2 DEF DataInv, ListsSound
    <3> QED BY <3>1, <3>2
  <2> QED BY <1>1, <2>3, <2>4, <2>5, ForgetStep
<1> QED BY <1>3, <1>4

\* A process whose call is the last thing it does.
LEMMA StruckData ==
    ASSUME ModInv, DataInv, Counted', UNCHANGED <<driver, loads, file, list, whole>>,
           NEW t \in Task, Forget(t), call[t] # "none",
           NEW to \in {"dead", "killed"}, pc' = [pc EXCEPT ![t] = to],
           NEW g \in {"none", "intact", "torn", "astray"}, got' = [got EXCEPT ![t] = g],
           Untuned(file[t]) => g # "torn" /\ (g = "astray" => ~whole[t])
    PROVE  DataInv'
<1>1. DataTypeOK /\ whole[t] \in BOOLEAN /\ writes' = writes
  BY DEF DataInv, DataTypeOK, Forget
<1>2. whole' = [whole EXCEPT ![t] = whole[t]]
  BY <1>1 DEF DataTypeOK
<1>3. ListsSound' /\ ListsGrow /\ list' \in [Lists -> [q : Nat, len : Nat, ended : BOOLEAN]]
  BY <1>1, SameGrow DEF DataInv, ListsSound, DataTypeOK
<1> QED BY <1>1, <1>2, <1>3, ForgetStep

\* A read's turn at a node of a list cut by the header's quantum.
LEMMA PlainNode ==
    ASSUME DataInv, NEW t \in Task, Untuned(file[t]), Walks(t), OnNode(t)
    PROVE  /\ CopiesIntact(t)
           /\ LET r == RestBy(lq[t], rest[t])
                  j == NextOf(list[on[t]], at[t])
              IN  r > 0 => IF j \notin {NULL, WILD}
                           THEN r + QUANTUM_SIZE * QSET_SIZE * j = Count
                           ELSE j = WILD /\ ~whole[t]
<1> DEFINE Q == QUANTUM_SIZE
           S == QSET_SIZE
           l == list[on[t]]
           a == at[t]
           r == rest[t]
<1>1. /\ Q \in Nat /\ Q > 0 /\ S \in Nat /\ S > 0 /\ Count \in Nat
      /\ NULL \notin Nat /\ WILD \notin Nat /\ NULL # WILD
  BY LayoutAssumption, IoctlAssumption
<1>2. /\ lq[t] = Q /\ l.q = Q /\ r > 0 /\ r + Q * S * a = Count
      /\ a < l.len /\ (whole[t] => l.ended) /\ on[t] \in 1 .. writes
  BY DEF DataInv, CallSound, Plain, Walks, InCall
<1>3. a \in Nat /\ r \in Nat /\ l.len \in Nat /\ on[t] \in Lists
  <2>1. on[t] \in Lists
    BY <1>2, IoctlAssumption DEF DataInv, DataTypeOK, Lists
  <2> QED BY <2>1 DEF DataInv, DataTypeOK, OnNode
<1>4. Sound(l)
  BY <1>3 DEF DataInv, ListsSound
<1> HIDE DEF Q, S, l, a, r
<1>5. CopiesIntact(t)
  <2>1. ASSUME NEW k \in Copied(t)
        PROVE  k \in Nat /\ Q * k <= Count
    <3>1. PICK i \in Slots(Q, r) : k = S * a + i
      BY <1>2 DEF Copied, S, a, r
    <3>2. i \in Nat /\ Q * i < r
      BY <1>1, <3>1 DEF Slots, Slot
    <3>3. S * a \in Nat /\ Q * i \in Nat
      BY <1>1, <1>3, <3>2
    <3>4. Q * (S * a + i) = Q * S * a + Q * i
      BY <1>1, <1>3, <3>2
    <3>5. Q * S * a \in Nat
      BY <1>1, <1>3
    <3> QED BY <1>1, <1>2, <1>3, <3>1, <3>2, <3>3, <3>4, <3>5
  <2>2. ~MeetsUnset(t)
    BY <1>2, <2>1 DEF MeetsUnset, Fills, l
  <2>3. ASSUME NEW k \in Copied(t) PROVE SameBytes(Q, Q, k)
    BY <1>1, <2>1 DEF SameBytes
  <2> QED BY <1>2, <2>2, <2>3 DEF CopiesIntact, l
<1>6. CASE a + 1 < l.len
  <2>1. NextOf(l, a) = a + 1 /\ a + 1 \notin {NULL, WILD}
    BY <1>1, <1>3, <1>6 DEF NextOf
  <2>2. Q * S * (a + 1) = Q * S * a + Q * S /\ Q * S \in Nat
    BY <1>1, <1>3
  <2>3. Q * S * a \in Nat
    BY <1>1, <1>3
  <2>4. RestBy(Q, r) > 0 => RestBy(Q, r) + Q * S * (a + 1) = Count
    BY <1>1, <1>2, <1>3, <2>2, <2>3 DEF RestBy, Q, S
  <2> QED BY <1>2, <1>5, <2>1, <2>4 DEF Q, S, l, a, r
<1>7. CASE ~(a + 1 < l.len) /\ ~l.ended
  <2>1. NextOf(l, a) = WILD
    BY <1>7 DEF NextOf
  <2> QED BY <1>2, <1>5, <1>7, <2>1 DEF l, a
<1>8. CASE ~(a + 1 < l.len) /\ l.ended
  <2>1. l.len = a + 1 /\ l.len = QsetsBy(Q)
    BY <1>2, <1>3, <1>4, <1>8 DEF Sound
  <2>2. Q * (S * (a + 1)) >= Count
    BY <1>1, <2>1, QsetsEnough DEF S
  <2>3. Q * (S * (a + 1)) = Q * S * a + Q * S /\ Q * S \in Nat
    BY <1>1, <1>3
  <2>4. Q * S * a \in Nat
    BY <1>1, <1>3
  <2>5. RestBy(Q, r) = 0
    BY <1>1, <1>2, <1>3, <2>2, <2>3, <2>4 DEF RestBy, Q, S
  <2> QED BY <1>2, <1>5, <2>5 DEF Q, r
<1> QED BY <1>6, <1>7, <1>8

LEMMA ReadNodeStep ==
    ASSUME ModInv, DataInv, Counted', NEW t \in Task, ReadNode(t) \/ ReadAstray(t)
    PROVE  DataInv'
<1>1. /\ UNCHANGED <<driver, loads, file, pc, quantum, tuned, head, list, writes, call, lq, on,
                     whole>>
      /\ pc[t] = "call" /\ call[t] = "read" /\ rest[t] > 0
      /\ rest' = [rest EXCEPT ![t] = RestBy(lq[t], rest[t])]
  BY DEF ReadNode, ReadAstray, Walks, InCall, vars, fixed, users
<1>2. /\ DataTypeOK /\ CallSound(t) /\ writes \in Nat /\ on[t] \in 1 .. writes
      /\ NULL \notin Nat /\ WILD \notin Nat
  BY <1>1, IoctlAssumption DEF DataInv, DataTypeOK, CallSound
<1>3. RestBy(lq[t], rest[t]) \in Nat
  <2>1. lq[t] \in Nat /\ rest[t] \in Nat /\ QSET_SIZE \in Nat
    BY <1>2, LayoutAssumption DEF DataTypeOK
  <2>2. lq[t] * QSET_SIZE \in Nat
    BY <2>1
  <2> QED BY <2>1, <2>2 DEF RestBy
<1>4. \E g \in {"none", "intact", "torn", "astray"} : got' = [got EXCEPT ![t] = g]
  <2>1. got[t] \in {"none", "intact", "torn", "astray"}
    BY <1>2 DEF DataTypeOK
  <2> QED BY <2>1 DEF ReadNode, ReadAstray
<1>5. at' \in [Task -> Nat \cup {NULL, WILD}] /\ (\A u \in Task \ {t} : at'[u] = at[u])
      /\ (OnNode(t)' => at'[t] < list[on[t]].len)
  <2>1. CASE ReadAstray(t)
    BY <1>2, <2>1 DEF ReadAstray, DataTypeOK, OnNode
  <2>2. CASE ReadNode(t)
    <3>1. at' = [at EXCEPT ![t] = NextOf(list[on[t]], at[t])] /\ at[t] \in Nat
      BY <1>2, <2>2 DEF ReadNode, DataTypeOK, OnNode
    <3>2. NextOf(list[on[t]], at[t]) \in Nat \cup {NULL, WILD}
      BY <3>1 DEF NextOf
    <3>3. NextOf(list[on[t]], at[t]) \notin {NULL, WILD} => NextOf(list[on[t]], at[t]) < list[on[t]].len
      BY <3>1 DEF NextOf
    <3> QED BY <1>2, <3>1, <3>2, <3>3 DEF DataTypeOK, OnNode
  <2> QED BY <2>1, <2>2
<1>6. DataTypeOK'
  BY <1>1, <1>2, <1>3, <1>4, <1>5 DEF DataTypeOK
<1>7. ListsSound' /\ ListsGrow
  BY <1>1, <1>2, SameGrow DEF DataInv, ListsSound
<1>8. HeadsSound'
  BY <1>1, <1>2, <1>6, <1>7, HeadsRest DEF DataInv
<1>9. Untuned(file[t]) => Plain(t)'
  <2> SUFFICES ASSUME Untuned(file[t]) PROVE Plain(t)'
    OBVIOUS
  <2>0. Plain(t) /\ rest'[t] = RestBy(lq[t], rest[t])
    BY <1>1, <1>2 DEF CallSound, DataTypeOK
  <2>1. CASE ReadNode(t)
    <3>1. Walks(t) /\ OnNode(t)
      BY <2>1 DEF ReadNode
    <3>2. /\ got'[t] = got[t] /\ at'[t] = NextOf(list[on[t]], at[t])
      BY <1>2, <2>1, <3>1, PlainNode DEF ReadNode, DataTypeOK
    <3> QED BY <1>1, <2>0, <3>1, <3>2, PlainNode DEF Plain, OnNode
  <2>2. CASE ReadAstray(t)
    <3>1. got'[t] = "astray" /\ at'[t] = WILD /\ at[t] = WILD
      BY <1>2, <2>2 DEF ReadAstray, DataTypeOK
    <3>2. ~whole[t]
      BY <1>1, <2>0, <3>1 DEF Plain, OnNode
    <3> QED BY <1>1, <2>0, <3>1, <3>2 DEF Plain, OnNode
  <2> QED BY <2>1, <2>2
<1>10. CallSound(t)'
  BY <1>1, <1>2, <1>5, <1>9 DEF CallSound, Untuned, Current, HasOpen
<1>11. \A u \in Task \ {t} : Rests(u)
  BY <1>1, <1>2, <1>4, <1>5 DEF Rests, DataTypeOK
<1> QED BY <1>1, <1>2, <1>6, <1>7, <1>8, <1>9, <1>10, <1>11, TaskStep

\* Faulting and being killed.
LEMMA EndDataStep ==
    ASSUME ModInv, DataInv, Counted', NEW t \in Task,
           Faults(t) \/ WriteDivides(t) \/ WriteOom(t) \/ ReadFault(t)
    PROVE  DataInv'
<1>1. /\ UNCHANGED <<driver, loads, file, list, whole>> /\ Forget(t)
      /\ \E to \in {"dead", "killed"} : pc' = [pc EXCEPT ![t] = to]
  <2>1. CASE Faults(t)
    <3>1. pc'[t] = "dead" /\ EndCall(t) /\ pc \in [Task -> {"closed", "open", "call", "dead", "killed"}]
      BY <2>1 DEF Faults, ModInv, ModTypeOK
    <3> QED BY <2>1, <3>1 DEF Faults, EndCall, Use, Enter, fixed
  <2>2. CASE ~Faults(t)
    BY <2>2 DEF WriteDivides, WriteOom, ReadFault, Killed, Enter, fixed
  <2> QED BY <2>1, <2>2
<1>2. DataTypeOK /\ CallSound(t) /\ got[t] \in {"none", "intact", "torn", "astray"}
  BY DEF DataInv, DataTypeOK
<1>3. CASE UNCHANGED got /\ call[t] # "none"
  <2>1. got' = [got EXCEPT ![t] = got[t]]
    BY <1>2, <1>3 DEF DataTypeOK
  <2>2. Untuned(file[t]) => got[t] # "torn" /\ (got[t] = "astray" => ~whole[t])
    BY <1>2 DEF CallSound, Plain
  <2> QED BY <1>1, <1>2, <1>3, <2>1, <2>2, StruckData
<1>4. CASE ReadFault(t)
  <2>1. /\ call[t] = "read" /\ rest[t] > 0
        /\ got' = [got EXCEPT ![t] = IF OnNode(t) THEN "torn" ELSE "astray"]
        /\ Walks(t) /\ (~OnNode(t) \/ MeetsUnset(t))
    BY <1>4 DEF ReadFault, Walks, InCall
  <2>2. Untuned(file[t]) => ~OnNode(t)
    BY <2>1, PlainNode DEF CopiesIntact
  <2>3. Untuned(file[t]) => ~whole[t]
    BY <1>2, <2>1, <2>2 DEF CallSound, Plain
  <2>4. CASE OnNode(t)
    <3>1. got' = [got EXCEPT ![t] = "torn"] /\ ~Untuned(file[t])
      BY <2>1, <2>2, <2>4
    <3> QED BY <1>1, <2>1, <3>1, StruckData
  <2>5. CASE ~OnNode(t)
    <3>1. got' = [got EXCEPT ![t] = "astray"]
      BY <2>1, <2>5
    <3> QED BY <1>1, <2>1, <2>3, <3>1, StruckData
  <2> QED BY <2>4, <2>5
<1>5. CASE Faults(t) \/ WriteDivides(t) \/ WriteOom(t)
  <2>1. UNCHANGED got /\ call[t] # "none"
    BY <1>5 DEF Faults, WriteDivides, WriteOom, Unfinished, InCall
  <2> QED BY <1>3, <2>1
<1> QED BY <1>4, <1>5

LEMMA IoctlStep ==
    ASSUME ModInv, DataInv, Counted', NEW t \in Task, Ioctl(t)
    PROVE  DataInv'
<1>0. /\ UNCHANGED <<driver, loads, file>> /\ pc[t] = "open" /\ DataTypeOK
      /\ pc \in [Task -> {"closed", "open", "call", "dead", "killed"}]
  BY DEF Ioctl, fixed, DataInv, ModInv, ModTypeOK
<1>1. CASE UNCHANGED data
  <2>1. pc' = pc \/ pc' = [pc EXCEPT ![t] = "dead"]
    BY DEF Ioctl, Enter
  <2>2. call[t] = "none" /\ got[t] = "none"
    BY <1>0, Idle DEF DataInv
  <2>3. \A u \in Task : (pc'[u] = pc[u] /\ file'[u] = file[u]) \/ (u = t /\ ~HasOpen(u)')
    BY <1>0, <2>1 DEF HasOpen
  <2> QED BY <1>0, <1>1, <2>2, <2>3, SameData
<1>2. CASE UNCHANGED pc /\ (Reset(t) \/ SQuantum(t))
  <2>1. /\ UNCHANGED <<head, list, writes, call, lq, on, rest, at, got, whole>>
        /\ quantum' \in Nat /\ tuned' \in {tuned, TRUE}
        /\ quantum' = QUANTUM_SIZE \/ tuned' = TRUE
    <3>1. CASE Reset(t)
      BY <1>2, <3>1, LayoutAssumption DEF Reset, SetQuantum, walk
    <3>2. CASE SQuantum(t)
      <4>1. PICK q \in Settable \cup {0} : SetQuantum(q)
        BY <3>2 DEF SQuantum
      <4>2. q \in Nat
        BY IoctlAssumption
      <4> QED BY <3>2, <4>1, <4>2 DEF SQuantum, SetQuantum, walk
    <3> QED BY <1>2, <3>1, <3>2
  <2>2. \A b : Untuned(b)' => Untuned(b)
    BY <1>0, <2>1 DEF Untuned, Current, DataTypeOK
  <2>3. DataTypeOK' /\ ListsSound'
    BY <1>0, <2>1 DEF DataInv, DataTypeOK, ListsSound
  <2>4. HeadsSound'
    BY <1>0, <2>1, <2>2 DEF DataInv, HeadsSound
  <2>5. ASSUME NEW u \in Task PROVE CallSound(u)'
    <3>1. /\ Rests(u) /\ CallSound(u) /\ ListsGrow /\ writes' >= writes
          /\ Untuned(file[u])' => Untuned(file[u])
      <4>1. writes \in Nat
        BY <1>0, IoctlAssumption DEF DataTypeOK
      <4>2. Untuned(file[u])' => Untuned(file[u])
        BY <1>0, <2>1 DEF Untuned, Current, DataTypeOK
      <4> QED BY <1>0, <1>2, <2>1, <4>1, <4>2, SameGrow DEF Rests, DataInv
    <3> QED BY <1>0, <2>3, <3>1, TaskRests
  <2> QED BY <2>3, <2>4, <2>5 DEF DataInv
<1> QED BY <1>1, <1>2 DEF Ioctl

LEMMA AroundStep ==
    ASSUME ModInv, DataInv, Counted', Around, UNCHANGED data
    PROVE  DataInv'
<1>1. UNCHANGED <<driver, loads, pc, file>>
  <2> USE DEF fixed, array, kernel, users
  <2>1. CASE Loading
    BY <2>1 DEF Loading, Register, AllocDevices, SetUpDevice, AddDevice, CreateEntry, InitReturn
  <2>2. CASE Rmmod \/ Unloading
    BY <2>2 DEF Rmmod, Unloading, Unregister, FreeDevices, DelDevice, DelGarbage, RemoveEntry,
                EntryRemoved, ExitReturn
  <2>3. CASE TakeMemory \/ MakeNode
    BY <2>3 DEF TakeMemory, MakeNode
  <2>4. ASSUME NEW r \in Reader, Reading(r) PROVE UNCHANGED <<driver, loads, pc, file>>
    BY <2>4, ReaderFrame DEF ModInv
  <2> QED BY <2>1, <2>2, <2>3, <2>4 DEF Around
<1> QED BY <1>1, SameData

\* Opening, closing, and the calls that store nothing.
LEMMA UserDataStep ==
    ASSUME ModInv, DataInv, Counted', NEW t \in Task, UNCHANGED data,
           Opening(t) \/ (Calls(t) /\ call[t] = "none")
    PROVE  DataInv'
<1>0. /\ pc \in [Task -> {"closed", "open", "call", "dead", "killed"}]
      /\ file \in [Task -> Device \cup {NONE}]
      /\ UNCHANGED <<driver, loads>> /\ CallSound(t)
  BY UsersFrame DEF ModInv, ModTypeOK, DataInv
<1>1. /\ pc[t] \notin {"dead", "killed"} /\ (HasOpen(t)' => file'[t] # NONE)
      /\ \A u \in Task \ {t} : pc'[u] = pc[u] /\ file'[u] = file[u]
  <2>1. CASE Open(t)
    <3>1. /\ pc[t] = "closed" /\ Lookup # NONE
          /\ \/ pc' = [pc EXCEPT ![t] = "open"] /\ file' = [file EXCEPT ![t] = Lookup]
             \/ pc' = [pc EXCEPT ![t] = "dead"] /\ file' = file
      BY <2>1 DEF Open, Enter, Dies
    <3> QED BY <1>0, <3>1 DEF HasOpen
  <2>2. CASE Release(t)
    <3>1. /\ pc[t] = "open"
          /\ \/ pc' = [pc EXCEPT ![t] = "closed"] /\ file' = [file EXCEPT ![t] = NONE]
             \/ pc' = [pc EXCEPT ![t] = "dead"] /\ file' = file
      BY <2>2 DEF Release, Enter, Dies
    <3> QED BY <1>0, <3>1 DEF HasOpen
  <2>3. CASE Calls(t)
    <3>1. /\ HasOpen(t) /\ file' = file
          /\ \E to \in {"call", "open", "dead"} : pc' = [pc EXCEPT ![t] = to]
      BY <2>3 DEF Calls, BeginCall, EndCall, Use, Enter, HasOpen
    <3>2. file[t] # NONE
      BY <1>0, <3>1 DEF CallSound
    <3> QED BY <1>0, <3>1, <3>2 DEF HasOpen
  <2> QED BY <2>1, <2>2, <2>3 DEF Opening
<1>2. pc[t] = "call" => call[t] = "none"
  <2>1. CASE Opening(t)
    BY <2>1 DEF Opening, Open, Release
  <2> QED BY <2>1
<1>3. call[t] = "none" /\ got[t] = "none"
  BY <1>0, <1>1, <1>2, Idle
<1> QED BY <1>0, <1>1, <1>3, SameData

LEMMA DataInvStep == ModInv /\ DataInv /\ [DataNext]_<<vars, data>> => DataInv'
<1> SUFFICES ASSUME ModInv, DataInv, [DataNext]_<<vars, data>> PROVE DataInv'
  OBVIOUS
<1>0. Counted'
  BY CountedStep DEF DataInv
<1>1. CASE NewArray
  BY <1>0, <1>1, ArrayData
<1>2. CASE Around /\ UNCHANGED data
  BY <1>0, <1>2, AroundStep
<1>3. CASE PlainCalls
  <2>1. PICK t \in Task : Calls(t)
    BY <1>3 DEF PlainCalls
  <2>2. call[t] = "none" /\ UNCHANGED data
    BY <1>3 DEF PlainCalls, DataInv, CallSound
  <2> QED BY <1>0, <2>1, <2>2, UserDataStep
<1>4. ASSUME NEW t \in Task, Opens(t) PROVE DataInv'
  BY <1>0, <1>4, UserDataStep DEF Opens
<1>5. ASSUME driver = "ioctl_driver", NEW t \in Task,
             WriteCall(t) \/ ReadCall(t) \/ Stray(t) \/ DataStep(t) \/ Ioctl(t)
      PROVE  DataInv'
  <2>1. CASE WriteCall(t)
    BY <1>0, <1>5, <2>1, WriteCallStep
  <2>2. CASE ReadCall(t)
    BY <1>0, <1>5, <2>2, ReadCallStep
  <2>3. CASE Stray(t) \/ StrayReturn(t)
    <3>1. UNCHANGED data /\ Calls(t)
      BY <2>3 DEF Stray, StrayReturn, Calls
    <3>2. call[t] = "none"
      BY <2>3 DEF Stray, StrayReturn, BeginCall, Use, DataInv, CallSound
    <3> QED BY <1>0, <3>1, <3>2, UserDataStep
  <2>4. CASE Faults(t) \/ WriteDivides(t) \/ WriteOom(t) \/ ReadFault(t)
    BY <1>0, <2>4, EndDataStep
  <2>5. CASE WriteNode(t)
    BY <1>0, <2>5, WriteNodeStep
  <2>6. CASE ReadNode(t) \/ ReadAstray(t)
    BY <1>0, <2>6, ReadNodeStep
  <2>7. CASE WriteReturn(t) \/ ReadReturn(t)
    BY <1>0, <2>7, ReturnStep
  <2>8. CASE Ioctl(t)
    BY <1>0, <2>8, IoctlStep
  <2> QED
    BY <1>5, <2>1, <2>2, <2>3, <2>4, <2>5, <2>6, <2>7, <2>8 DEF DataStep, WriteStep, ReadStep
<1>6. CASE UNCHANGED <<vars, data>>
  BY <1>0, <1>6, SameData DEF vars, fixed, users
<1> QED BY <1>1, <1>2, <1>3, <1>4, <1>5, <1>6 DEF DataNext

LEMMA DataInvariant == DataSpec => [](ModInv /\ ScriptInv /\ OneInv /\ DataInv)
<1> DEFINE Whole == ModInv /\ ScriptInv /\ OneInv /\ DataInv
<1>1. DataInit => Whole
  BY ModInit, ScriptInit, OneInit, DataStart DEF DataInit
<1>2. Whole /\ [DataNext]_<<vars, data>> => Whole'
  <2> SUFFICES ASSUME Whole, [DataNext]_<<vars, data>> PROVE Whole'
    OBVIOUS
  <2>1. CASE [Next]_vars
    BY <2>1, ModStep, ScriptStep, OneStep, DataInvStep
  <2>2. CASE \E t \in Task : Struck(t)
    BY <2>2, StruckStep, DataInvStep
  <2> QED BY <2>1, <2>2, DataSteps
<1> HIDE DEF Whole
<1>3. DataSpec => []Whole
  BY <1>1, <1>2, PTL DEF DataSpec
<1> QED BY <1>3 DEF Whole

(***************************************************************************)
(* ioctl_driver's states are typed, with its lists and its calls.          *)
(***************************************************************************)
THEOREM DataTyped == DataSpec => [](ModTypeOK /\ DataTypeOK)
<1>1. ModInv /\ ScriptInv /\ OneInv /\ DataInv => ModTypeOK /\ DataTypeOK
  BY DEF ModInv, DataInv
<1> QED BY <1>1, DataInvariant, PTL

(***************************************************************************)
(* With ioctl_driver's messages and ioctls too, and its processes killed   *)
(* in their calls, loading and unloading is as sound as it is without.     *)
(***************************************************************************)
THEOREM DataKeepsModule ==
    DataSpec => [](LoadedIsSound /\ ScriptIsSound /\ OneDeviceLeavesNothing)
<1>1. ModInv /\ ScriptInv /\ OneInv /\ DataInv
        => LoadedIsSound /\ ScriptIsSound /\ OneDeviceLeavesNothing
  BY ModSound, ScriptSound, OneLeavesNothing
<1> QED BY <1>1, DataInvariant, PTL

(***************************************************************************)
(* ioctl_driver's reads and writes are node by node and take no lock: for  *)
(* any message, quanta and numbers of processes and writes, a read of an   *)
(* untuned device copies the message's bytes to their places, and leaves   *)
(* the list early only if it was not yet ended when the read took it.      *)
(***************************************************************************)
THEOREM DataReadsAsWritten == DataSpec => []ReadsAsWritten
<1>1. DataInv => ReadsAsWritten
  <2> SUFFICES ASSUME DataInv, NEW t \in Task, Untuned(file[t])
               PROVE  /\ got[t] # "torn" /\ (got[t] = "astray" => ~whole[t])
                      /\ call[t] # "none" => lq[t] > 0
    BY DEF ReadsAsWritten, Untuned
  <2>1. Plain(t)
    BY DEF DataInv, CallSound
  <2> QED BY <2>1, LayoutAssumption DEF Plain
<1> QED BY <1>1, DataInvariant, PTL
=============================================================================
