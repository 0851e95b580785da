---------------------------- MODULE ScullModule ----------------------------
(***************************************************************************)
(* Loading and unloading of the scull drivers that share driver_2's code:  *)
(* hello_init and hello_exit as the kernel calls they make, one step each, *)
(* beside processes that open the node, call the driver, close, or read    *)
(* the file in /proc.                                                      *)
(*                                                                         *)
(* Nothing keeps a module whose devices are open: hello_init sets a cdev's *)
(* owner and then has cdev_init clear the cdev, so no open is counted and  *)
(* rmmod may come at any time.  All devices are added under one number.    *)
(***************************************************************************)
EXTENDS Naturals, Sequences

CONSTANTS Task,      \* the processes that use the device through its node
          Reader,    \* the processes that read the driver's file in /proc
          Drivers,   \* the drivers considered
          MaxNod,    \* bound: devices of a module (module parameter nod)
          MaxLoads,  \* bound: how often the module is loaded
          NONE       \* no device

KnownDrivers == {"driver_2", "ioctl_driver", "proc_driver", "jiffies_driver"}

\* A device: element dev of the array sculldev of the load-th loading.
Device == [load : Nat, dev : Nat]

ASSUME ModuleAssumption ==
    /\ Drivers \subseteq KnownDrivers
    /\ MaxNod \in Nat \ {0} /\ MaxLoads \in Nat
    /\ NONE \notin Device

VARIABLES
    driver, nod, \* which driver, and how many devices (fixed)
    script,      \* whether its users keep to the order of the test script (fixed)
    loads,       \* how often the module was loaded
    phase,       \* "out", "init", "live", "exit", or "stuck": insmod or rmmod died
    todo,        \* the kernel calls hello_init or hello_exit has yet to make
    region,      \* whether alloc_chrdev_region gave a number
    mem,         \* the array sculldev: "none", "live", "freed", "taken" by others
    ready,       \* the devices whose fields are set
    added,       \* the devices given to cdev_add
    deleted,     \* whether cdev_del has put device 0
    map,         \* the kernel's entries for the number, as it searches them
    inode,       \* the device the node's inode remembers (i_cdev)
    made,        \* the load after which the node was made
    entry,       \* whether the file in /proc exists
    pc,          \* tasks: "closed", "open", in a "call", "dead", "killed"
    file,        \* tasks: the device that open has bound
    proc,        \* readers of /proc: "out", "in" read_proc, "dead"
    dirty        \* history: freed memory was reused, or a file outlived its module

fixed  == <<driver, nod, script>>
array  == <<mem, ready, added, deleted>>
kernel == <<region, map, inode, made, entry>>
users  == <<pc, file, proc>>
vars   == <<fixed, loads, phase, todo, array, kernel, users, dirty>>

ModTypeOK ==
    /\ driver \in Drivers /\ nod \in 1 .. MaxNod /\ script \in BOOLEAN
    /\ loads \in Nat
    /\ phase \in {"out", "init", "live", "exit", "stuck"}
    /\ todo \in Seq({"region", "alloc", "devices", "entry",
                     "unregister", "free", "del", "remove"})
    /\ region \in BOOLEAN
    /\ mem \in {"none", "live", "freed", "taken"}
    /\ ready \in Nat /\ added \in Nat /\ deleted \in BOOLEAN
    /\ map \in Seq(Device)
    /\ inode \in Device \cup {NONE}
    /\ made \in Nat /\ entry \in BOOLEAN
    /\ pc \in [Task -> {"closed", "open", "call", "dead", "killed"}]
    /\ file \in [Task -> Device \cup {NONE}]
    /\ proc \in [Reader -> {"out", "in", "dead"}]
    /\ dirty \in BOOLEAN
-----------------------------------------------------------------------------
(***************************************************************************)
(* The four drivers: the kernel calls of hello_init and hello_exit.        *)
(***************************************************************************)

Driver2Init == <<"region", "alloc", "devices">>
IoctlInit   == <<"region", "alloc", "devices">>
ProcInit    == <<"region", "alloc", "devices", "entry">>
JiffiesInit == <<"region", "alloc", "devices", "entry">>

\* Mutation: the device is not deleted.
Driver2ExitKeeps == <<"unregister", "free">>

Driver2Exit == <<"unregister", "free", "del">>
IoctlExit   == <<"unregister", "free", "del">>
ProcExit    == <<"unregister", "free", "del", "remove">>
JiffiesExit == <<"unregister", "free", "del", "remove">>

HelloInit == CASE driver = "driver_2"       -> Driver2Init
               [] driver = "ioctl_driver"   -> IoctlInit
               [] driver = "proc_driver"    -> ProcInit
               [] driver = "jiffies_driver" -> JiffiesInit
HelloExit == CASE driver = "driver_2"       -> Driver2Exit
               [] driver = "ioctl_driver"   -> IoctlExit
               [] driver = "proc_driver"    -> ProcExit
               [] driver = "jiffies_driver" -> JiffiesExit

Init ==
    /\ driver \in Drivers /\ nod \in 1 .. MaxNod /\ script \in BOOLEAN
    /\ loads = 0 /\ phase = "out" /\ todo = << >>
    /\ mem = "none" /\ ready = 0 /\ added = 0 /\ deleted = FALSE
    /\ region = FALSE /\ map = << >> /\ inode = NONE /\ made = 0 /\ entry = FALSE
    /\ pc = [t \in Task |-> "closed"]
    /\ file = [t \in Task |-> NONE]
    /\ proc = [r \in Reader |-> "out"]
    /\ dirty = FALSE

This(k) == [load |-> loads, dev |-> k]
HasOpen(t) == pc[t] \in {"open", "call"}

\* The kernel call that insmod or rmmod makes next, and its end.
Doing(call) == phase \in {"init", "exit"} /\ todo # << >> /\ Head(todo) = call
Did(call)   == Doing(call) /\ todo' = Tail(todo) /\ UNCHANGED phase
-----------------------------------------------------------------------------
(***************************************************************************)
(* insmod.                                                                 *)
(***************************************************************************)
Insmod ==
    /\ phase = "out" /\ loads < MaxLoads
    /\ loads' = loads + 1
    /\ phase' = "init"
    /\ todo' = HelloInit
    /\ mem' = "none" /\ ready' = 0 /\ added' = 0 /\ deleted' = FALSE
    /\ UNCHANGED <<fixed, kernel, users, dirty>>

\* Line 143-144: errors are other numbers than -1, so hello_init goes on.
Register ==
    /\ Did("region")
    /\ region' \in BOOLEAN
    /\ UNCHANGED <<fixed, loads, array, map, inode, made, entry, users, dirty>>

\* Line 152: the result is not checked.
AllocDevices ==
    /\ Did("alloc")
    /\ mem' \in {"none", "live"}
    /\ UNCHANGED <<fixed, loads, ready, added, deleted, kernel, users, dirty>>

\* Lines 156-165: the fields of a device, or an oops of insmod.
SetUpDevice ==
    /\ Doing("devices")
    /\ ready = added /\ ready < nod
    /\ IF mem = "live" THEN ready' = ready + 1 /\ UNCHANGED phase
                       ELSE phase' = "stuck" /\ UNCHANGED ready
    /\ UNCHANGED <<fixed, loads, todo, mem, added, deleted, kernel, users, dirty>>

\* Mutation: the device is added first.
MayAddUnset == added <= ready

MayAdd == added < ready

\* Line 166.  A new entry is found before those of the same number; without
\* a number the devices end up under 0, where no node leads.
AddDevice ==
    /\ Doing("devices")
    /\ added < nod
    /\ MayAdd
    /\ added' = added + 1
    /\ map' = IF region THEN <<This(added)>> \o map ELSE map
    /\ todo' = IF added' = nod THEN Tail(todo) ELSE todo
    /\ UNCHANGED <<fixed, loads, phase, mem, ready, deleted, region, inode, made,
                   entry, users, dirty>>

\* proc_driver and jiffies_driver: create_proc_read_entry, not checked.
CreateEntry ==
    /\ Did("entry")
    /\ entry' \in BOOLEAN
    /\ UNCHANGED <<fixed, loads, array, region, map, inode, made, users, dirty>>

InitReturn ==
    /\ phase = "init" /\ todo = << >>
    /\ phase' = "live"
    /\ UNCHANGED <<fixed, loads, todo, array, kernel, users, dirty>>
-----------------------------------------------------------------------------
(***************************************************************************)
(* rmmod.                                                                  *)
(***************************************************************************)

\* Lines 156 and 165: cdev_init clears the owner that was just set ...
OwnerSet == FALSE

\* ... so that no open counts as a use of the module.
Uses == IF OwnerSet THEN {t \in Task : HasOpen(t)} ELSE {}

\* The test script unloads after its program has ended.
ScriptDone == script => \A t \in Task : ~HasOpen(t)

Rmmod ==
    /\ phase = "live" /\ Uses = {} /\ ScriptDone
    /\ phase' = "exit"
    /\ todo' = HelloExit
    /\ UNCHANGED <<fixed, loads, array, kernel, users, dirty>>

Unregister ==
    /\ Did("unregister")
    /\ UNCHANGED <<fixed, loads, array, kernel, users, dirty>>

\* Line 183: kfree comes before cdev_del ...
FreeDevices ==
    /\ Did("free")
    /\ mem' = "freed"
    /\ UNCHANGED <<fixed, loads, ready, added, deleted, kernel, users, dirty>>

\* ... and anyone may be given that memory in between, or later.
TakeMemory ==
    /\ mem = "freed"
    /\ mem' = "taken"
    /\ dirty' = TRUE
    /\ UNCHANGED <<fixed, loads, phase, todo, ready, added, deleted, kernel, users>>

\* The last reference to device 0 is put: inodes forget it.
Forget0(open) == IF inode = This(0) /\ open = {} THEN NONE ELSE inode

OpenOn(b) == {t \in Task : HasOpen(t) /\ file[t] = b}

\* Line 184, on memory that is still as it was: the kernel drops the first
\* entry with that number, the last device's, and puts device 0.
DelDevice ==
    /\ mem = "freed"
    /\ Did("del")
    /\ map' = IF region /\ map # << >> THEN Tail(map) ELSE map
    /\ inode' = Forget0(OpenOn(This(0)))
    /\ deleted' = TRUE
    /\ UNCHANGED <<fixed, loads, mem, ready, added, region, made, entry, users, dirty>>

\* The same on memory that is another's: no entry matches, or rmmod dies.
DelGarbage ==
    /\ mem = "taken"
    /\ \/ Did("del")
       \/ Doing("del") /\ phase' = "stuck" /\ UNCHANGED todo
    /\ UNCHANGED <<fixed, loads, array, kernel, users, dirty>>

\* Mutation: the file is taken away when nobody reads it.
RemoveWhenIdle ==
    /\ Doing("remove") /\ entry /\ \A r \in Reader : proc[r] = "out"
    /\ entry' = FALSE
    /\ UNCHANGED <<fixed, loads, phase, todo, array, region, map, inode, made, users,
                   dirty>>

\* remove_proc_entry takes the file away, then waits for those reading it.
RemoveEntry ==
    /\ Doing("remove") /\ entry
    /\ entry' = FALSE
    /\ UNCHANGED <<fixed, loads, phase, todo, array, region, map, inode, made, users,
                   dirty>>

MayEndRemoval == ~entry /\ \A r \in Reader : proc[r] = "out"

EntryRemoved ==
    /\ Did("remove") /\ MayEndRemoval
    /\ UNCHANGED <<fixed, loads, array, kernel, users, dirty>>

\* hello_exit returns and the module's text and data are unmapped.
ExitReturn ==
    /\ phase = "exit" /\ todo = << >>
    /\ phase' = "out"
    /\ dirty' = (dirty \/ \E t \in Task : HasOpen(t))
    /\ UNCHANGED <<fixed, loads, todo, array, kernel, users>>
-----------------------------------------------------------------------------
(***************************************************************************)
(* Users.                                                                  *)
(***************************************************************************)

\* Mutation: the node of the last run is used again.
MakeNodeAgain ==
    /\ phase = "live"
    /\ made' = loads
    /\ UNCHANGED <<fixed, loads, phase, todo, array, region, map, inode, entry, users,
                   dirty>>

\* rm and mknod: a new inode remembers no device.
MakeNode ==
    /\ phase = "live"
    /\ made' = loads /\ inode' = NONE
    /\ UNCHANGED <<fixed, loads, phase, todo, array, region, map, entry, users, dirty>>

\* What open finds: the inode's device, else the first entry of the map.
Lookup == IF inode # NONE THEN inode
          ELSE IF map # << >> THEN Head(map) ELSE NONE

\* Using a device after its module is gone is a fault; on memory that was never
\* set up, or is another's, it may be one.
Gone(b)   == phase = "out"
Broken(b) == Gone(b) \/ b.load # loads \/ mem \in {"none", "taken"} \/ b.dev >= ready

Dies(t) ==
    /\ pc' = [pc EXCEPT ![t] = "dead"]
    /\ UNCHANGED <<file, inode>>

Enter(t, to) == pc' = [pc EXCEPT ![t] = to]

\* The script runs its program on a new node of the loaded module.
ScriptMayOpen == script => phase = "live" /\ made = loads

\* chrdev_open and scull_open: the inode and the file get the device.
Open(t) ==
    /\ pc[t] = "closed" /\ ScriptMayOpen /\ Lookup # NONE
    /\ \/ /\ ~Gone(Lookup)
          /\ Enter(t, "open")
          /\ file' = [file EXCEPT ![t] = Lookup]
          /\ inode' = Lookup
       \/ Broken(Lookup) /\ Dies(t)
    /\ UNCHANGED <<fixed, loads, phase, todo, array, region, map, made, entry, proc, dirty>>

\* A step of a process in the driver's code, which uses its device.
Use(t, from, to) ==
    /\ pc[t] = from
    /\ \/ ~Gone(file[t]) /\ Enter(t, to)
       \/ Broken(file[t]) /\ Enter(t, "dead")
    /\ UNCHANGED <<fixed, loads, phase, todo, array, kernel, file, proc, dirty>>

BeginCall(t) == Use(t, "open", "call")
EndCall(t)   == Use(t, "call", "open")

\* The kernel puts the device of t's file.
Put(t) == inode' = IF deleted /\ file[t] = This(0)
                   THEN Forget0(OpenOn(This(0)) \ {t}) ELSE inode

\* scull_release and the kernel's put.
Release(t) ==
    /\ pc[t] = "open"
    /\ \/ /\ ~Gone(file[t])
          /\ Enter(t, "closed")
          /\ file' = [file EXCEPT ![t] = NONE]
          /\ Put(t)
       \/ Broken(file[t]) /\ Dies(t)
    /\ UNCHANGED <<fixed, loads, phase, todo, array, region, map, made, entry, proc, dirty>>

\* read_proc: called through the entry, it reads device 0 through sculldev.
\* The test scripts do not read it.
ProcBegin(r) ==
    /\ ~script /\ entry /\ proc[r] = "out"
    /\ proc' = [proc EXCEPT ![r] = "in"]
    /\ UNCHANGED <<fixed, loads, phase, todo, array, kernel, pc, file, dirty>>

ProcEnd(r) ==
    /\ proc[r] = "in"
    /\ \/ ~Gone(This(0)) /\ proc' = [proc EXCEPT ![r] = "out"]
       \/ Broken(This(0)) /\ proc' = [proc EXCEPT ![r] = "dead"]
    /\ UNCHANGED <<fixed, loads, phase, todo, array, kernel, pc, file, dirty>>
-----------------------------------------------------------------------------
Loading   == Register \/ AllocDevices \/ SetUpDevice \/ AddDevice \/ CreateEntry \/ InitReturn
Unloading == Unregister \/ FreeDevices \/ DelDevice \/ DelGarbage \/ RemoveEntry
             \/ EntryRemoved \/ ExitReturn
Calls(t)  == BeginCall(t) \/ EndCall(t)
Opening(t) == Open(t) \/ Release(t)
Reading(r) == ProcBegin(r) \/ ProcEnd(r)
Admin     == Insmod \/ Loading \/ Rmmod \/ Unloading \/ TakeMemory \/ MakeNode

Next ==
    \/ Admin
    \/ \E t \in Task : Opening(t) \/ Calls(t)
    \/ \E r \in Reader : Reading(r)

Fairness == WF_vars(Loading) /\ WF_vars(Unloading) /\ \A r \in Reader : WF_vars(ProcEnd(r))

Spec == Init /\ [][Next]_vars /\ Fairness
-----------------------------------------------------------------------------
(***************************************************************************)
(* Properties.                                                             *)
(***************************************************************************)
Current(b) == b # NONE /\ b.load = loads
Usable(b)  == Current(b) => mem = "live" /\ b.dev < ready

(***************************************************************************)
(* From the first cdev_add until rmmod, although the devices go live one   *)
(* by one while others are not set up: whatever leads to a device of this  *)
(* load (a file, the node's inode, the kernel's map, the file in /proc)    *)
(* leads to memory that is allocated and set up.  And nobody is inside     *)
(* read_proc when the module's text goes.                                  *)
(***************************************************************************)
LoadedIsSound ==
    /\ phase \in {"init", "live"} =>
          /\ \A t \in Task : Usable(file[t])
          /\ Usable(inode)
          /\ \A i \in 1 .. Len(map) : Usable(map[i])
          /\ entry => Usable(This(0))
    /\ phase = "out" => \A r \in Reader : proc[r] # "in"

(***************************************************************************)
(* The order of the test scripts (load, make the node, run the program,    *)
(* unload) is safe again and again, with any nod, although each unloading  *)
(* of several devices leaves entries for freed ones behind: new entries    *)
(* are found first, and a new node remembers no device.  Only a load that  *)
(* got no number and goes on regardless has nothing in front of the old.   *)
(***************************************************************************)
ScriptIsSound ==
    script /\ region =>
        /\ \A t \in Task : HasOpen(t) => ~Broken(file[t])
        /\ phase = "live" /\ made = loads /\ Lookup # NONE => ~Broken(Lookup)

(***************************************************************************)
(* With one device, and if nobody got its memory between kfree and         *)
(* cdev_del and no file was open to the end, unloading leaves nothing that *)
(* leads to it, whoever opened and closed meanwhile.                       *)
(***************************************************************************)
OneDeviceLeavesNothing ==
    nod = 1 /\ ~dirty =>
        /\ phase = "out" => map = << >> /\ inode = NONE
        /\ \A t \in Task : pc[t] # "dead"

(***************************************************************************)
(* rmmod comes to an end, or it dies, or it waits for a reader that the    *)
(* freed memory has killed inside read_proc.                               *)
(***************************************************************************)
RmmodEnds ==
    phase = "exit" ~> phase \in {"out", "stuck"} \/ \E r \in Reader : proc[r] = "dead"
=============================================================================
