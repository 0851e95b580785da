----------------------------- MODULE BlockDisk -----------------------------
(***************************************************************************)
(* block_driver: a RAM disk of 4 sectors, loaded, used by processes that   *)
(* open it and send requests, and unloaded.  The block layer holds the     *)
(* queue's lock while it adds a request and while it runs sbull_request,   *)
(* which fetches requests, transfers them segment by segment and ends      *)
(* them.  A transfer begins at the start of the disk's memory whatever its *)
(* sector.                                                                 *)
(*                                                                         *)
(* All requests are of type FS: the driver has no ioctl through which      *)
(* others could come.  The module is loaded once; a second load has a      *)
(* struct sbull, memory and a queue of its own.                            *)
(***************************************************************************)
EXTENDS Naturals, Sequences, FiniteSets

CONSTANTS Task,         \* the processes that use the disk
          Starts,       \* sectors at which requests begin
          Segs,         \* what requests consist of: sequences of segment lengths
          PageSectors,  \* sectors of a page (8), the longest segment
          DataSectors,  \* nsectors (4), which the disk's memory is asked for
          Capacity,     \* nsectors*sect_size, the sectors the kernel is told of
          MaxWrites,    \* bound: write requests
          UNSET,        \* memory nobody wrote
          NONE          \* no request

Request == [by : Task, w : 0 .. MaxWrites, sector : Nat, segs : Seq(1 .. PageSectors)]

ASSUME DiskAssumption ==
    /\ PageSectors \in Nat \ {0} /\ DataSectors \in Nat \ {0}
    /\ Capacity \in Nat /\ MaxWrites \in Nat
    /\ Starts \subseteq 0 .. Capacity - 1
    /\ Segs \subseteq Seq(1 .. PageSectors) \ {<< >>}
    /\ UNSET \notin Nat \X Nat
    /\ NONE \notin Request

VARIABLES
    phase,    \* "new", "alloc", "setup", "live", "unlock", "unregister", "out",
              \* or "stuck": insmod died
    vmem,     \* whether vmalloc gave memory
    cells,    \* dev->data, by sectors
    lock,     \* the queue's lock: "free", "held", "broken" by an unlock too many
    queue,    \* the requests waiting, in the elevator's hands
    req,      \* sbull_request's req, or NONE for NULL
    pc,       \* tasks: "closed", "open", "wait" for a request, "run" the queue, "dead"
    writes,   \* the write requests so far, each names its contents
    ideal,    \* history: what a disk would hold
    begun,    \* history: the sectors at which transfers began
    lost      \* history: a read got something else than the disk would hold

life == <<phase, vmem>>
data == <<cells, ideal, begun, lost>>
vars == <<life, lock, queue, req, pc, writes, data>>

\* vmalloc gives whole pages.
Allocated == PageSectors * ((DataSectors + PageSectors - 1) \div PageSectors)

Init ==
    /\ phase = "new" /\ vmem = FALSE
    /\ cells = [s \in 0 .. Allocated - 1 |-> UNSET]
    /\ lock = "free" /\ queue = {} /\ req = NONE
    /\ pc = [t \in Task |-> "closed"]
    /\ writes = 0
    /\ ideal = [s \in 0 .. Capacity - 1 |-> UNSET]
    /\ begun = {} /\ lost = FALSE
-----------------------------------------------------------------------------
(***************************************************************************)
(* start and end.                                                          *)
(***************************************************************************)
Step(from, to) == phase = from /\ phase' = to

\* Lines 6-12; that register_blkdev fails, which is only printed, is left out.
Insmod ==
    /\ Step("new", "alloc")
    /\ UNCHANGED <<vmem, lock, queue, req, pc, writes, data>>

\* Lines 13-19: kmalloc's failure kills insmod at line 14, vmalloc's is only
\* printed.
AllocMemory ==
    /\ \/ Step("alloc", "setup") /\ vmem' \in BOOLEAN
       \/ Step("alloc", "stuck") /\ UNCHANGED vmem
    /\ UNCHANGED <<lock, queue, req, pc, writes, data>>

\* Lines 20-44: the lock, the queue and the disk, which may be opened from line
\* 41 on; without a queue or a gendisk insmod dies.
SetUp ==
    /\ Step("setup", "live") \/ Step("setup", "stuck")
    /\ lock' = "free"
    /\ UNCHANGED <<vmem, queue, req, pc, writes, data>>

\* One that died in a transfer hangs in its close, waiting for its page.
Users == {t \in Task : pc[t] # "closed"}

\* Mutation: opens are not counted, as in the character drivers.
Uncounted == {}

\* header.h:28: the owner of b_ops makes every open a use of the module.
Uses == Users

\* Line 108: rmmod of an unused module, and the disk is gone.
DelDisk ==
    /\ Step("live", "unlock") /\ Uses = {}
    /\ UNCHANGED <<vmem, lock, queue, req, pc, writes, data>>

\* Line 109: end does not hold the lock it gives back.
StrayUnlock ==
    /\ Step("unlock", "unregister")
    /\ lock' = IF lock = "held" THEN "free" ELSE "broken"
    /\ UNCHANGED <<vmem, queue, req, pc, writes, data>>

\* Line 111: and the module goes; memory and queue stay behind.
Unregister ==
    /\ Step("unregister", "out")
    /\ UNCHANGED <<vmem, lock, queue, req, pc, writes, data>>
-----------------------------------------------------------------------------
(***************************************************************************)
(* Processes and the block layer.                                          *)
(***************************************************************************)
Open(t) ==
    /\ pc[t] = "closed" /\ phase = "live"
    /\ pc' = [pc EXCEPT ![t] = "open"]
    /\ UNCHANGED <<life, lock, queue, req, writes, data>>

\* The last close has written everything back: all requests were ended before.
Close(t) ==
    /\ pc[t] = "open"
    /\ pc' = [pc EXCEPT ![t] = "closed"]
    /\ UNCHANGED <<life, lock, queue, req, writes, data>>

\* A request (w = 0: a read) is added under the lock; the queue is run later.
Submit(t) ==
    /\ pc[t] = "open" /\ lock = "free"
    /\ \E s \in Starts, segs \in Segs, w \in {0, writes + 1} :
          /\ w <= MaxWrites
          /\ writes' = IF w > 0 THEN w ELSE writes
          /\ queue' = queue \cup {[by |-> t, w |-> w, sector |-> s, segs |-> segs]}
    /\ pc' = [pc EXCEPT ![t] = "wait"]
    /\ UNCHANGED <<life, lock, req, data>>

\* blk_fetch_request: the elevator decides which.
Fetch ==
    IF queue = {} THEN req' = NONE /\ UNCHANGED queue
    ELSE \E r \in queue : req' = r /\ queue' = queue \ {r}

\* A process that waits runs the queue: the lock is taken, and line 49.
Run(t) ==
    /\ pc[t] = "wait" /\ lock = "free"
    /\ pc' = [pc EXCEPT ![t] = "run"]
    /\ lock' = "held"
    /\ Fetch
    /\ UNCHANGED <<life, writes, data>>
-----------------------------------------------------------------------------
(***************************************************************************)
(* sbull_request and sbull_transfer, under the lock.                       *)
(***************************************************************************)

\* Mutation: the transfer goes to its sector.
FirstCellAt(sector) == sector

\* Lines 68-71: dev->data, not dev->data + sector*512.
FirstCell(sector) == 0

\* The k-th sectors of the segment to transfer: on the disk, and in the memory.
Sectors(r) == 0 .. Head(r.segs) - 1
Touched(r) == {FirstCell(r.sector) + k : k \in Sectors(r)}

Contents(w, s) == <<w, s>>

\* Mutation: a read is taken for a write.
CopiedAlways(r) == [s \in DOMAIN cells |->
    IF s \in Touched(r) THEN Contents(r.w, r.sector + s - FirstCell(r.sector)) ELSE cells[s]]

\* Line 69, or line 71, which leaves the memory alone.
Copied(r) == [s \in DOMAIN cells |->
    IF r.w > 0 /\ s \in Touched(r)
    THEN Contents(r.w, r.sector + s - FirstCell(r.sector)) ELSE cells[s]]

Stored(r) == [s \in DOMAIN ideal |->
    IF r.w > 0 /\ s - r.sector \in Sectors(r) THEN Contents(r.w, s) ELSE ideal[s]]

\* A sector that was written is read with other contents.
ReadsWrong(r) ==
    r.w = 0 /\ \E k \in Sectors(r) :
        /\ r.sector + k \in DOMAIN ideal /\ ideal[r.sector + k] # UNSET
        /\ FirstCell(r.sector) + k \in DOMAIN cells
        /\ cells[FirstCell(r.sector) + k] # ideal[r.sector + k]

\* Mutation: the request that was ended is kept.
KeepRequest == UNCHANGED <<req, queue>>

\* Lines 59-62: the last segment was ended, the next request is fetched.
NextRequest == Fetch

Transfer(t) ==
    /\ pc[t] = "run" /\ req # NONE /\ vmem
    /\ cells' = Copied(req) /\ ideal' = Stored(req)
    /\ begun' = begun \cup {req.sector}
    /\ lost' = (lost \/ ReadsWrong(req))
    /\ IF Len(req.segs) > 1
       THEN /\ req' = [req EXCEPT !.sector = @ + Head(req.segs), !.segs = Tail(@)]
            /\ UNCHANGED <<queue, pc>>
       ELSE /\ NextRequest
            /\ pc' = IF req.by = t THEN pc ELSE [pc EXCEPT ![req.by] = "open"]
    /\ UNCHANGED <<life, lock, writes>>

\* Without memory the copy faults, and its process dies holding the lock.
TransferFaults(t) ==
    /\ pc[t] = "run" /\ req # NONE /\ ~vmem
    /\ pc' = [pc EXCEPT ![t] = "dead"]
    /\ UNCHANGED <<life, lock, queue, req, writes, data>>

\* The queue is empty: the lock is given back.
Return(t) ==
    /\ pc[t] = "run" /\ req = NONE
    /\ lock' = "free"
    /\ pc' = [pc EXCEPT ![t] = "open"]
    /\ UNCHANGED <<life, queue, req, writes, data>>
-----------------------------------------------------------------------------
Module == Insmod \/ AllocMemory \/ SetUp \/ DelDisk \/ StrayUnlock \/ Unregister
Running(t) == Run(t) \/ Transfer(t) \/ TransferFaults(t) \/ Return(t)

Next ==
    \/ Module
    \/ \E t \in Task : Open(t) \/ Close(t) \/ Submit(t) \/ Running(t)

\* The block layer runs the queue some time after a request was added, and what
\* runs goes on.
Spec == Init /\ [][Next]_vars /\ WF_vars(\E t \in Task : Running(t))
-----------------------------------------------------------------------------
(***************************************************************************)
(* Properties.                                                             *)
(***************************************************************************)
DiskTypeOK ==
    /\ phase \in {"new", "alloc", "setup", "live", "unlock", "unregister", "out", "stuck"}
    /\ vmem \in BOOLEAN
    /\ cells \in [0 .. Allocated - 1 -> (Nat \X Nat) \cup {UNSET}]
    /\ lock \in {"free", "held", "broken"}
    /\ queue \subseteq Request /\ req \in Request \cup {NONE}
    /\ pc \in [Task -> {"closed", "open", "wait", "run", "dead"}]
    /\ writes \in 0 .. MaxWrites
    /\ ideal \in [0 .. Capacity - 1 -> (Nat \X Nat) \cup {UNSET}]
    /\ begun \subseteq Nat /\ lost \in BOOLEAN

(***************************************************************************)
(* The kernel is told of nsectors*sect_size sectors (1 MB) where nsectors  *)
(* were asked for, and yet no transfer leaves the memory: every one begins *)
(* at its start, is no longer than a page, and vmalloc gave a page.        *)
(***************************************************************************)
StaysInMemory ==
    req # NONE /\ vmem => Touched(req) \subseteq DOMAIN cells

(***************************************************************************)
(* Used in one place only, with requests of one segment, the disk gives    *)
(* back what was written, whoever runs the queue and in whatever order;    *)
(* used in two it need not.                                                *)
(***************************************************************************)
OnePlaceReadsBack == Cardinality(begun) <= 1 => ~lost

(***************************************************************************)
(* end gives back a lock it does not hold, and leaves the queue and its    *)
(* function behind: from its first line on no request is on the way, and   *)
(* nobody is left who could send one or waits for the lock.                *)
(***************************************************************************)
UnloadIsQuiet ==
    phase \in {"unlock", "unregister", "out"} =>
        Users = {} /\ queue = {} /\ req = NONE /\ lock # "held"

(***************************************************************************)
(* Every request is ended and its process goes on, whoever runs the queue  *)
(* and whatever requests it consists of, unless vmalloc had failed: then   *)
(* the first one dies with the lock and everybody waits.                   *)
(***************************************************************************)
RequestsEnd ==
    \A t \in Task : (pc[t] \in {"wait", "run"} /\ vmem) ~> pc[t] = "open"
=============================================================================
