-------------------------- MODULE BlockDiskProofs --------------------------
(***************************************************************************)
(* BlockDisk for any number of processes and requests: type correctness,   *)
(* StaysInMemory, UnloadIsQuiet and OnePlaceReadsBack.                     *)
(***************************************************************************)
EXTENDS BlockDisk, SequenceTheorems, FiniteSetTheorems, TLAPS

Pending == queue \cup (IF req = NONE THEN {} ELSE {req})
Busy(t) == pc[t] \in {"run", "dead"}

\* Whose requests are on the way waits for them, or runs the queue.
Owned == \A r \in Pending : pc[r.by] \in {"wait", "run", "dead"}

\* A process has one request at a time.
Single ==
    /\ \A r, s \in queue : r.by = s.by => r = s
    /\ req # NONE => \A r \in queue : r.by # req.by

\* The lock is held by the one process that runs the queue, which has a request
\* in hand unless the queue is empty.
Locked ==
    /\ lock = "held" <=> \E t \in Task : Busy(t)
    /\ \A t, u \in Task : Busy(t) /\ Busy(u) => t = u
    /\ lock = "held" /\ req = NONE => queue = {}
    /\ lock # "held" => req = NONE

Whole == \A r \in Pending : r.segs # << >>

DiskInv ==
    /\ DiskTypeOK
    /\ Whole /\ Owned /\ Single /\ Locked
    /\ phase # "live" => Users = {}

LEMMA AllocatedPage == Allocated \in Nat /\ PageSectors <= Allocated
<1> DEFINE q == (DataSectors + PageSectors - 1) \div PageSectors
<1>1. q \in Nat /\ q >= 1
  BY DiskAssumption
<1>2. PageSectors * q \in Nat /\ PageSectors <= PageSectors * q
  <2> HIDE DEF q
  <2>1. PageSectors \in Nat
    BY DiskAssumption
  <2>2. \A p, n \in Nat : n >= 1 => p * n \in Nat /\ p <= p * n
    <3> SUFFICES ASSUME NEW p \in Nat, NEW n \in Nat, n >= 1 PROVE p * n \in Nat /\ p <= p * n
      OBVIOUS
    <3>1. p * n = p + p * (n - 1) /\ n - 1 \in Nat
      OBVIOUS
    <3>2. p * (n - 1) \in Nat
      BY <3>1
    <3> QED BY <3>1, <3>2
  <2> QED BY <1>1, <2>1, <2>2
<1> QED BY <1>2 DEF Allocated

LEMMA DiskInit == Init => DiskInv
<1> SUFFICES ASSUME Init PROVE DiskInv
  OBVIOUS
<1>1. DiskTypeOK
  <2>1. cells \in [0 .. Allocated - 1 -> (Nat \X Nat) \cup {UNSET}]
    BY DEF Init
  <2>2. ideal \in [0 .. Capacity - 1 -> (Nat \X Nat) \cup {UNSET}]
    BY DEF Init
  <2>3. writes \in 0 .. MaxWrites
    BY DiskAssumption DEF Init
  <2>4. /\ phase = "new" /\ vmem \in BOOLEAN /\ lock = "free" /\ lost \in BOOLEAN
        /\ queue \subseteq Request /\ req \in Request \cup {NONE} /\ begun \subseteq Nat
    BY DEF Init
  <2>5. pc \in [Task -> {"closed", "open", "wait", "run", "dead"}]
    BY DEF Init
  <2> QED BY <2>1, <2>2, <2>3, <2>4, <2>5 DEF DiskTypeOK
<1>2. Pending = {} /\ \A t \in Task : ~Busy(t) /\ t \notin Users
  BY DEF Init, Pending, Busy, Users
<1>3. Whole /\ Owned /\ Single
  BY <1>2 DEF Init, Whole, Owned, Single
<1>4. Locked
  BY <1>2 DEF Init, Locked
<1> QED BY <1>1, <1>2, <1>3, <1>4 DEF DiskInv, Users

(***************************************************************************)
(* The types, one action at a time.                                        *)
(***************************************************************************)
LEMMA FetchTyped ==
    ASSUME queue \subseteq Request, req \in Request \cup {NONE}, Fetch
    PROVE  queue' \subseteq Request /\ req' \in Request \cup {NONE}
BY DEF Fetch

LEMMA Segments ==
    ASSUME NEW segs \in Seq(1 .. PageSectors), segs # << >>
    PROVE  /\ Head(segs) \in 1 .. PageSectors /\ Head(segs) \in Nat
           /\ Tail(segs) \in Seq(1 .. PageSectors)
           /\ Len(segs) > 1 => Tail(segs) # << >>
<1>1. /\ Head(segs) \in 1 .. PageSectors /\ Tail(segs) \in Seq(1 .. PageSectors)
      /\ Len(Tail(segs)) = Len(segs) - 1
  BY HeadTailProperties
<1>2. ASSUME Len(segs) > 1, Tail(segs) = << >> PROVE FALSE
  <2>1. Len(<< >>) = 0
    BY EmptySeq
  <2>2. Len(Tail(segs)) = 0
    BY <1>2, <2>1, Zenon
  <2> DEFINE n == Len(segs)
  <2>3. n \in Nat /\ n - 1 = 0 /\ n > 1
    BY <1>1, <1>2, <2>2, LenProperties
  <2> HIDE DEF n
  <2> QED BY <2>3
<1>3. Len(segs) > 1 => Tail(segs) # << >>
  BY <1>2, Zenon
<1>4. Head(segs) \in Nat
  BY <1>1, DiskAssumption
<1> QED BY <1>1, <1>3, <1>4, Zenon

\* What is left of a request when a segment was ended.
LEMMA NextPart ==
    ASSUME req \in Request, Len(req.segs) > 1
    PROVE  [req EXCEPT !.sector = @ + Head(req.segs), !.segs = Tail(@)] \in Request
<1>1. req.segs \in Seq(1 .. PageSectors) /\ req.segs # << >> /\ req.sector \in Nat
  BY DEF Request
<1>2. Tail(req.segs) \in Seq(1 .. PageSectors) /\ req.sector + Head(req.segs) \in Nat
  <2> DEFINE q == req.segs
  <2>1. q \in Seq(1 .. PageSectors) /\ q # << >>
    BY <1>1
  <2>2. Head(q) \in Nat /\ Tail(q) \in Seq(1 .. PageSectors)
    <3> HIDE DEF q
    <3> QED BY <2>1, Segments
  <2> QED BY <1>1, <2>2
<1>3. \A s \in Nat, q \in Seq(1 .. PageSectors) :
        [req EXCEPT !.sector = s, !.segs = q] \in Request
  BY DEF Request
<1>4. [req EXCEPT !.sector = req.sector + Head(req.segs), !.segs = Tail(req.segs)] \in Request
  BY <1>2, <1>3
<1> QED BY <1>4

LEMMA TransferTyped ==
    ASSUME DiskTypeOK, Whole, NEW t \in Task, Transfer(t)
    PROVE  DiskTypeOK'
<1> USE DEF DiskTypeOK
<1>1. req \in Request /\ req.w \in Nat /\ req.sector \in Nat /\ req.segs \in Seq(1 .. PageSectors)
      /\ req.segs # << >>
  BY DiskAssumption DEF Transfer, Request, Whole, Pending
<1>2. cells' \in [0 .. Allocated - 1 -> (Nat \X Nat) \cup {UNSET}]
  BY <1>1, AllocatedPage DEF Transfer, Copied, Contents, FirstCell
<1>3. ideal' \in [0 .. Capacity - 1 -> (Nat \X Nat) \cup {UNSET}]
  BY <1>1, DiskAssumption DEF Transfer, Stored, Contents
<1>4. begun' \subseteq Nat /\ lost' \in BOOLEAN
  BY <1>1 DEF Transfer, ReadsWrong
<1>5. queue' \subseteq Request /\ req' \in Request \cup {NONE}
  <2>1. CASE Len(req.segs) > 1
    BY <1>1, <2>1, NextPart DEF Transfer
  <2>2. CASE ~(Len(req.segs) > 1)
    BY <2>2, FetchTyped DEF Transfer, NextRequest
  <2> QED BY <2>1, <2>2
<1>6. pc' \in [Task -> {"closed", "open", "wait", "run", "dead"}]
  BY DEF Transfer
<1> QED BY <1>2, <1>3, <1>4, <1>5, <1>6 DEF Transfer, life

LEMMA TypeStep == DiskTypeOK /\ Whole /\ [Next]_vars => DiskTypeOK'
<1> SUFFICES ASSUME DiskTypeOK, Whole, [Next]_vars PROVE DiskTypeOK'
  OBVIOUS
<1>1. CASE Module
  BY <1>1 DEF Module, Insmod, AllocMemory, SetUp, DelDisk, StrayUnlock, Unregister, Step,
     data, DiskTypeOK
<1>2. ASSUME NEW t \in Task, Open(t) \/ Close(t) PROVE DiskTypeOK'
  BY <1>2 DEF Open, Close, life, data, DiskTypeOK
<1>3. ASSUME NEW t \in Task, Submit(t) PROVE DiskTypeOK'
  <2>1. PICK s \in Starts, segs \in Segs, w \in {0, writes + 1} :
          /\ w <= MaxWrites
          /\ writes' = IF w > 0 THEN w ELSE writes
          /\ queue' = queue \cup {[by |-> t, w |-> w, sector |-> s, segs |-> segs]}
    BY <1>3 DEF Submit
  <2>2. w \in 0 .. MaxWrites /\ s \in Nat /\ segs \in Seq(1 .. PageSectors)
    BY <2>1, DiskAssumption DEF DiskTypeOK
  <2>3. [by |-> t, w |-> w, sector |-> s, segs |-> segs] \in Request
    BY <2>2 DEF Request
  <2>4. writes' \in 0 .. MaxWrites
    BY <2>1, <2>2 DEF DiskTypeOK
  <2> QED BY <1>3, <2>1, <2>3, <2>4 DEF Submit, life, data, DiskTypeOK
<1>4. ASSUME NEW t \in Task, Run(t) PROVE DiskTypeOK'
  <2>1. queue' \subseteq Request /\ req' \in Request \cup {NONE}
    BY <1>4, FetchTyped DEF Run, DiskTypeOK
  <2> QED BY <1>4, <2>1 DEF Run, life, data, DiskTypeOK
<1>5. ASSUME NEW t \in Task, Transfer(t) PROVE DiskTypeOK'
  BY <1>5, TransferTyped
<1>6. ASSUME NEW t \in Task, TransferFaults(t) \/ Return(t) PROVE DiskTypeOK'
  BY <1>6 DEF TransferFaults, Return, life, data, DiskTypeOK
<1>7. CASE UNCHANGED vars
  BY <1>7 DEF vars, life, data, DiskTypeOK
<1> QED BY <1>1, <1>2, <1>3, <1>4, <1>5, <1>6, <1>7 DEF Next, Running

(***************************************************************************)
(* The rest of the invariant.                                              *)
(***************************************************************************)
LEMMA ModuleStep == DiskInv /\ Module => (Whole /\ Owned /\ Single /\ Locked /\ (phase # "live" => Users = {}))'
<1> SUFFICES ASSUME DiskInv, Module
             PROVE  (Whole /\ Owned /\ Single /\ Locked /\ (phase # "live" => Users = {}))'
  OBVIOUS
<1>1. queue' = queue /\ req' = req /\ pc' = pc
  BY DEF Module, Insmod, AllocMemory, SetUp, DelDisk, StrayUnlock, Unregister
<1>2. Pending' = Pending /\ Users' = Users /\ \A t : Busy(t)' <=> Busy(t)
  BY <1>1 DEF Pending, Users, Busy
<1>3. (Whole /\ Owned /\ Single)'
  BY <1>1, <1>2 DEF DiskInv, Whole, Owned, Single
<1>4. phase' # "live" => Users = {}
  BY DEF DiskInv, Module, Insmod, AllocMemory, SetUp, DelDisk, StrayUnlock, Unregister, Step, Uses
<1>5. CASE lock' = lock
  BY <1>1, <1>2, <1>3, <1>4, <1>5 DEF DiskInv, Locked
<1>6. CASE SetUp \/ StrayUnlock
  <2>1. Users = {}
    BY <1>6 DEF SetUp, StrayUnlock, Step, DiskInv
  <2>2. \A t \in Task : ~Busy(t)
    BY <2>1 DEF Users, Busy
  <2>3. lock # "held" /\ lock' # "held" /\ req = NONE
    BY <1>6, <2>2 DEF SetUp, StrayUnlock, DiskInv, Locked
  <2>4. Locked'
    BY <1>1, <1>2, <2>2, <2>3 DEF Locked
  <2> QED BY <1>2, <1>3, <1>4, <2>4
<1> QED BY <1>5, <1>6 DEF Module, Insmod, AllocMemory, DelDisk, Unregister

\* What a fetch leaves on the way.
LEMMA FetchKeeps ==
    ASSUME DiskTypeOK, Fetch
    PROVE  /\ req' = NONE => queue = {} /\ queue' = {}
           /\ queue' \subseteq queue
           /\ Pending' = queue
           /\ req' # NONE => req' \in queue /\ req' \notin queue'
BY DiskAssumption DEF DiskTypeOK, Fetch, Pending

LEMMA TaskStep ==
    ASSUME DiskInv, NEW t \in Task, Open(t) \/ Close(t) \/ Submit(t) \/ Running(t)
    PROVE  (Whole /\ Owned /\ Single /\ Locked /\ (phase # "live" => Users = {}))'
<1> USE DEF DiskInv, DiskTypeOK, Busy
<1>1. phase' = phase /\ (pc[t] = "closed" => phase = "live")
  BY DEF Open, Close, Submit, Running, Run, Transfer, TransferFaults, Return, life, Users
<1>2. (phase # "live" => Users = {})'
  <2>1. phase = "live"
    BY <1>1 DEF Users
  <2> QED BY <1>1, <2>1
<1>3. CASE Open(t) \/ Close(t)
  <2>1. queue' = queue /\ req' = req /\ lock' = lock /\ Pending' = Pending
    BY <1>3 DEF Open, Close, Pending
  <2>2. pc[t] \in {"closed", "open"} /\ pc'[t] \in {"closed", "open"}
        /\ \A u \in Task \ {t} : pc'[u] = pc[u]
    BY <1>3 DEF Open, Close
  <2>3. \A r \in Pending : r.by # t /\ r.by \in Task
    BY <2>2 DEF Owned, Pending, Request
  <2> QED BY <1>2, <2>1, <2>2, <2>3 DEF Whole, Owned, Single, Locked
<1>4. CASE Submit(t)
  <2>1. PICK s \in Starts, segs \in Segs, w \in {0, writes + 1} :
          queue' = queue \cup {[by |-> t, w |-> w, sector |-> s, segs |-> segs]}
    BY <1>4 DEF Submit
  <2>2. /\ req' = req /\ lock' = lock /\ lock = "free" /\ req = NONE
        /\ pc[t] = "open" /\ pc' = [pc EXCEPT ![t] = "wait"]
    BY <1>4 DEF Submit, Locked
  <2>3. \A r \in queue : r.by # t /\ r.by \in Task
    BY <2>2 DEF Owned, Pending, Request
  <2>4. segs # << >>
    BY DiskAssumption
  <2>5. Whole' /\ Owned'
    BY <2>1, <2>2, <2>3, <2>4 DEF Whole, Owned, Pending
  <2>6. Single'
    BY <2>1, <2>2, <2>3 DEF Single
  <2>7. Locked'
    BY <2>2 DEF Locked
  <2> QED BY <1>2, <2>5, <2>6, <2>7
<1>5. CASE Run(t)
  <2>1. /\ pc[t] = "wait" /\ lock = "free" /\ lock' = "held" /\ req = NONE
        /\ pc' = [pc EXCEPT ![t] = "run"] /\ Fetch
    BY <1>5 DEF Run, Locked
  <2>2. \A u \in Task : ~Busy(u)
    BY <2>1 DEF Locked
  <2>3. Pending = queue
    BY <2>1 DEF Pending
  <2>4. Whole' /\ Owned'
    BY <2>1, <2>3, FetchKeeps DEF Whole, Owned, Pending, Request
  <2>5. Single'
    BY <2>1, FetchKeeps DEF Single
  <2>6. Locked'
    BY <2>1, <2>2, FetchKeeps DEF Locked
  <2> QED BY <1>2, <2>4, <2>5, <2>6
<1>6. CASE Transfer(t)
  <2>1. /\ pc[t] = "run" /\ req \in Request /\ lock' = lock /\ lock = "held"
        /\ req.by \in Task
    BY <1>6 DEF Transfer, Locked, Request
  <2>2. CASE Len(req.segs) > 1
    <3>1. /\ req' = [req EXCEPT !.sector = @ + Head(req.segs), !.segs = Tail(@)]
          /\ queue' = queue /\ pc' = pc
      BY <1>6, <2>2 DEF Transfer
    <3>2. req'.by = req.by /\ req'.segs = Tail(req.segs) /\ req' # NONE
      <4>1. req'.by = req.by /\ req'.segs = Tail(req.segs)
        BY <2>1, <3>1 DEF Request
      <4>2. req' \in Request
        BY <2>1, <2>2, <3>1, NextPart
      <4> QED BY <4>1, <4>2, DiskAssumption
    <3>3. Tail(req.segs) # << >>
      BY <2>1, <2>2, Segments DEF Request, Whole, Pending
    <3>4. Pending' = queue \cup {req'} /\ req # NONE
      BY <2>1, <3>1, <3>2, DiskAssumption DEF Pending
    <3>5. Whole' /\ Owned'
      BY <2>1, <3>1, <3>2, <3>3, <3>4 DEF Whole, Owned, Pending
    <3>6. Single' /\ Locked'
      BY <2>1, <3>1, <3>2, <3>4 DEF Single, Locked
    <3> QED BY <1>2, <3>5, <3>6
  <2>3. CASE ~(Len(req.segs) > 1)
    <3>1. Fetch /\ pc' = IF req.by = t THEN pc ELSE [pc EXCEPT ![req.by] = "open"]
      BY <1>6, <2>3 DEF Transfer, NextRequest
    <3>2. \A r \in queue : r.by # req.by /\ r.by \in Task
      BY <2>1, DiskAssumption DEF Single, Request
    <3>3. Whole' /\ Owned'
      BY <3>1, <3>2, FetchKeeps DEF Whole, Owned, Pending
    <3>4. Single'
      BY FetchKeeps, <3>1 DEF Single
    <3>5. pc'[t] = "run" /\ \A u \in Task : pc'[u] \in {"run", "dead"} => pc[u] \in {"run", "dead"}
      BY <2>1, <3>1
    <3>6. Locked'
      BY <2>1, <3>1, <3>5, FetchKeeps DEF Locked
    <3> QED BY <1>2, <3>3, <3>4, <3>6
  <2> QED BY <2>2, <2>3
<1>7. CASE TransferFaults(t)
  <2>1. /\ pc[t] = "run" /\ pc' = [pc EXCEPT ![t] = "dead"]
        /\ queue' = queue /\ req' = req /\ lock' = lock /\ Pending' = Pending
    BY <1>7 DEF TransferFaults, Pending
  <2>2. \A r \in Pending : r.by \in Task
    BY DEF Pending, Request
  <2> QED BY <1>2, <2>1, <2>2 DEF Whole, Owned, Single, Locked
<1>8. CASE Return(t)
  <2>1. /\ pc[t] = "run" /\ pc' = [pc EXCEPT ![t] = "open"] /\ req = NONE /\ lock = "held"
        /\ queue' = queue /\ req' = req /\ lock' = "free"
    BY <1>8 DEF Return, Locked
  <2>2. queue = {} /\ Pending' = {}
    BY <2>1 DEF Locked, Pending
  <2>3. \A u \in Task : pc'[u] \notin {"run", "dead"}
    BY <2>1 DEF Locked
  <2> QED BY <1>2, <2>1, <2>2, <2>3 DEF Whole, Owned, Single, Locked
<1> QED BY <1>3, <1>4, <1>5, <1>6, <1>7, <1>8 DEF Running

LEMMA DiskStep == DiskInv /\ [Next]_vars => DiskInv'
<1> SUFFICES ASSUME DiskInv, [Next]_vars PROVE DiskInv'
  OBVIOUS
<1>1. DiskTypeOK'
  BY TypeStep DEF DiskInv
<1>2. CASE Module
  BY <1>1, <1>2, ModuleStep DEF DiskInv
<1>3. ASSUME NEW t \in Task, Open(t) \/ Close(t) \/ Submit(t) \/ Running(t) PROVE DiskInv'
  BY <1>1, <1>3, TaskStep DEF DiskInv
<1>4. CASE UNCHANGED vars
  <2>1. Pending' = Pending /\ Users' = Users /\ \A t : Busy(t)' <=> Busy(t)
    BY <1>4 DEF vars, Pending, Users, Busy
  <2> QED BY <1>1, <1>4, <2>1 DEF vars, life, DiskInv, Whole, Owned, Single, Locked
<1> QED BY <1>2, <1>3, <1>4 DEF Next
-----------------------------------------------------------------------------
(***************************************************************************)
(* The disk's state has its types, for every number of processes.          *)
(***************************************************************************)
THEOREM DiskTyped == Spec => []DiskTypeOK
<1>1. DiskInv => DiskTypeOK
  BY DEF DiskInv
<1> QED BY <1>1, DiskInit, DiskStep, PTL DEF Spec

(***************************************************************************)
(* StaysInMemory: no transfer of sbull_transfer (lines 65-73) leaves what  *)
(* vmalloc gave, for every capacity, number of sectors and request.        *)
(***************************************************************************)
THEOREM DiskStaysInMemory == Spec => []StaysInMemory
<1>1. DiskInv => StaysInMemory
  <2> SUFFICES ASSUME DiskInv, req # NONE PROVE Touched(req) \subseteq DOMAIN cells
    BY DEF StaysInMemory
  <2>1. req.segs \in Seq(1 .. PageSectors) /\ req.segs # << >>
    BY DEF DiskInv, DiskTypeOK, Whole, Pending, Request
  <2>2. Head(req.segs) \in 1 .. PageSectors
    BY <2>1, Segments
  <2>3. DOMAIN cells = 0 .. Allocated - 1
    BY DEF DiskInv, DiskTypeOK
  <2> QED BY <2>2, <2>3, AllocatedPage, DiskAssumption DEF Touched, FirstCell, Sectors
<1> QED BY <1>1, DiskInit, DiskStep, PTL DEF Spec

(***************************************************************************)
(* UnloadIsQuiet: when end (lines 105-112) begins, no request is on the    *)
(* way and nobody holds or wants the queue's lock.                         *)
(***************************************************************************)
THEOREM DiskUnloadIsQuiet == Spec => []UnloadIsQuiet
<1>1. DiskInv => UnloadIsQuiet
  <2> SUFFICES ASSUME DiskInv, phase # "live"
               PROVE  Users = {} /\ queue = {} /\ req = NONE /\ lock # "held"
    BY DEF UnloadIsQuiet
  <2>1. \A t \in Task : pc[t] = "closed"
    BY DEF DiskInv, Users
  <2>2. Pending = {}
    BY <2>1 DEF DiskInv, DiskTypeOK, Owned, Pending, Request
  <2> QED BY <2>1, <2>2 DEF DiskInv, Users, Pending, Locked, Busy
<1> QED BY <1>1, DiskInit, DiskStep, PTL DEF Spec
-----------------------------------------------------------------------------
(***************************************************************************)
(* The disk used in one place.  As long as all transfers have begun at one *)
(* sector, the memory holds from its start what a disk would hold from     *)
(* that sector on.                                                         *)
(***************************************************************************)
OnePlace == \A a, b \in begun : a = b

Mirrored ==
    /\ ~lost
    /\ \A s \in begun, k \in DOMAIN cells :
          s + k \in DOMAIN ideal /\ ideal[s + k] # UNSET => cells[k] = ideal[s + k]

PlaceInv ==
    /\ IsFiniteSet(begun)
    /\ begun = {} => \A x \in DOMAIN ideal : ideal[x] = UNSET
    /\ OnePlace => Mirrored

LEMMA PlaceTransfer ==
    ASSUME DiskInv, PlaceInv, NEW t \in Task, Transfer(t)
    PROVE  PlaceInv'
<1> DEFINE r == req
<1>0. /\ r.sector \in Nat /\ Sectors(r) \subseteq Nat
      /\ DOMAIN cells = 0 .. Allocated - 1 /\ DOMAIN ideal = 0 .. Capacity - 1
  <2>1. r \in Request /\ r.segs # << >>
    BY DEF Transfer, DiskInv, DiskTypeOK, Whole, Pending
  <2> QED BY <2>1 DEF DiskInv, DiskTypeOK, Request, Sectors
<1> HIDE DEF r
<1>1. /\ begun' = begun \cup {r.sector} /\ cells' = Copied(r) /\ ideal' = Stored(r)
      /\ lost' = (lost \/ ReadsWrong(r))
  BY DEF Transfer, r
<1>2. IsFiniteSet(begun') /\ begun' # {}
  BY <1>1, FS_AddElement DEF PlaceInv
<1>3. ASSUME OnePlace' PROVE Mirrored'
  <2>1. begun' = {r.sector} /\ OnePlace /\ (begun # {} => r.sector \in begun)
    BY <1>1, <1>3 DEF OnePlace
  <2>2. Mirrored
    BY <2>1 DEF PlaceInv
  <2>3. ~ReadsWrong(r)
    <3> SUFFICES ASSUME NEW k \in Sectors(r), r.sector + k \in DOMAIN ideal,
                        ideal[r.sector + k] # UNSET, k \in DOMAIN cells
                 PROVE  cells[k] = ideal[r.sector + k]
      BY <1>0 DEF ReadsWrong, FirstCell
    <3>1. r.sector \in begun
      BY <2>1 DEF PlaceInv
    <3> QED BY <2>2, <3>1 DEF Mirrored
  <2>4. ASSUME NEW k \in DOMAIN cells, r.sector + k \in DOMAIN ideal,
               ideal'[r.sector + k] # UNSET
        PROVE  cells'[k] = ideal'[r.sector + k]
    <3>1. k \in Nat /\ (r.sector + k) - r.sector = k
      BY <1>0, <2>4
    <3>2. ideal'[r.sector + k] = IF r.w > 0 /\ k \in Sectors(r)
                                 THEN Contents(r.w, r.sector + k) ELSE ideal[r.sector + k]
      BY <1>1, <2>4, <3>1 DEF Stored
    <3>3. k \in Touched(r) <=> k \in Sectors(r)
      BY <1>0 DEF Touched, FirstCell
    <3>4. cells'[k] = IF r.w > 0 /\ k \in Sectors(r)
                      THEN Contents(r.w, r.sector + k) ELSE cells[k]
      <4>1. r.sector + k - FirstCell(r.sector) = r.sector + k
        BY <1>0, <3>1 DEF FirstCell
      <4> QED BY <1>1, <2>4, <3>3, <4>1 DEF Copied
    <3>5. CASE r.w > 0 /\ k \in Sectors(r)
      BY <3>2, <3>4, <3>5
    <3>6. CASE ~(r.w > 0 /\ k \in Sectors(r))
      <4>1. r.sector \in begun
        BY <2>1, <2>4, <3>2, <3>6 DEF PlaceInv
      <4> QED BY <2>2, <2>4, <3>2, <3>4, <3>6, <4>1 DEF Mirrored
    <3> QED BY <3>5, <3>6
  <2>5. DOMAIN cells' = DOMAIN cells /\ DOMAIN ideal' = DOMAIN ideal
    BY <1>1 DEF Copied, Stored
  <2>6. ~lost'
    BY <1>1, <2>2, <2>3 DEF Mirrored
  <2> QED BY <2>1, <2>4, <2>5, <2>6 DEF Mirrored
<1> QED BY <1>2, <1>3 DEF PlaceInv

LEMMA PlaceStep == DiskInv /\ PlaceInv /\ [Next]_vars => PlaceInv'
<1> SUFFICES ASSUME DiskInv, PlaceInv, [Next]_vars PROVE PlaceInv'
  OBVIOUS
<1>1. (\E t \in Task : Transfer(t)) \/ UNCHANGED data
  BY DEF Next, Module, Insmod, AllocMemory, SetUp, DelDisk, StrayUnlock, Unregister, Open, Close,
         Submit, Running, Run, TransferFaults, Return, vars
<1>2. CASE UNCHANGED data
  BY <1>2 DEF data, PlaceInv, OnePlace, Mirrored
<1> QED BY <1>1, <1>2, PlaceTransfer

(***************************************************************************)
(* Whatever the processes do, as long as all their transfers begin at one  *)
(* sector each read gets what was last written, although the transfer      *)
(* (blk.c:69) never looks at the sector.                                   *)
(***************************************************************************)
THEOREM DiskOnePlaceReadsBack == Spec => []OnePlaceReadsBack
<1>1. Init => PlaceInv
  BY FS_EmptySet DEF Init, PlaceInv, OnePlace, Mirrored
<1>2. PlaceInv => OnePlaceReadsBack
  <2> SUFFICES ASSUME PlaceInv, Cardinality(begun) <= 1 PROVE OnePlace
    BY DEF PlaceInv, Mirrored, OnePlaceReadsBack
  <2>1. Cardinality(begun) \in Nat
    BY FS_CardinalityType DEF PlaceInv
  <2>2. begun = {} \/ \E x : begun = {x}
    BY <2>1, FS_EmptySet, FS_Singleton DEF PlaceInv
  <2> QED BY <2>2 DEF OnePlace
<1> QED
  BY <1>1, <1>2, PlaceStep, DiskInit, DiskStep, PTL DEF Spec
=============================================================================
