----------------------------- MODULE SerialIrq ------------------------------
(***************************************************************************)
(* serial_driver/serial_interrupt_handshake_wrietr and .._reader: a byte   *)
(* stream over a null-modem cable, driven by interrupts.  A change of a    *)
(* modem line raises an interrupt, whose handler queues a work item, which *)
(* polls the line and sets a flag (flag for CTS, rflag for DSR), which the *)
(* sleeping serialport_write or serialport_read waits for.  writer.c runs  *)
(* on one machine and reader.c on the other.  The two lkm.c differ in a few*)
(* places; either may be loaded on either machine.                         *)
(*                                                                         *)
(* A step is one access to the port or to a flag.  Time is left out.       *)
(***************************************************************************)
EXTENDS Naturals

CONSTANTS Size,        \* the bytes writer.c writes
          Dot,         \* which of them is '.'
          WriterLkm, ReaderLkm,  \* the driver loaded on each machine
          OUT2_GATES,  \* set of BOOLEAN: does the board need OUT2 for an interrupt?
          Runs         \* bound: how often each program is run

ASSUME IrqAssumption ==
    /\ {WriterLkm, ReaderLkm} \subseteq {"wrietr", "reader"}
    /\ Size \in Nat /\ Dot \in 1 .. Size /\ Runs \in Nat
    /\ OUT2_GATES \subseteq BOOLEAN /\ OUT2_GATES # {}

Machine == {"writer", "reader"}
Peer(m) == IF m = "writer" THEN "reader" ELSE "writer"

VARIABLES
    gated,     \* whether OUT2 gates interrupts
    mcr,       \* mcr[m]: the modem control bits set
    emsi,      \* emsi[m]: modem status interrupts are enabled in IER
    delta,     \* delta[m]: a line has changed since MSR was last read
    rbr,       \* the reader's receive register
    fresh,     \* it holds a byte that has not been read
    flag,      \* flag["writer"]: flag = 1; flag["reader"]: rflag = 1
    queued,    \* queued[m]: m's work item is pending
    work,      \* work[m]: where m's work function is
    pc,        \* where the program on each machine is
    killed,    \* the programs that got a signal
    runs,      \* runs[m]: the runs of m's program
    sent,      \* the bytes this write has sent
    ch,        \* the byte the read took last
    stale      \* a byte was in rbr, unread, while a read began

line == <<rbr, fresh>>
port == <<gated, mcr, emsi, delta>>
host == <<flag, queued, work>>
prog == <<killed, runs, sent, ch, stale>>
vars == <<port, line, host, pc, prog>>

\* Where writer.c and reader.c are in their driver.
WriterAt == {"idle", "out2", "ier", "loop", "wait", "send", "drop", "reset"}
ReaderAt == {"idle", "out2", "erbi", "ier", "status", "first", "clear1", "rts",
             "second", "take", "clear2", "drop"}

TypeOK ==
    /\ gated \in BOOLEAN
    /\ mcr \in [Machine -> SUBSET {"DTR", "RTS", "OUT2"}]
    /\ emsi \in [Machine -> BOOLEAN] /\ delta \in [Machine -> BOOLEAN]
    /\ rbr \in 0 .. Size /\ fresh \in BOOLEAN /\ stale \in BOOLEAN
    /\ flag \in [Machine -> BOOLEAN] /\ queued \in [Machine -> BOOLEAN]
    /\ work \in [Machine -> {"off", "first", "look", "up"}]
    /\ pc \in [Machine -> WriterAt \cup ReaderAt]
    /\ pc["writer"] \in WriterAt /\ pc["reader"] \in ReaderAt
    /\ killed \subseteq Machine
    /\ runs \in [Machine -> 0 .. Runs]
    /\ sent \in 0 .. Size /\ ch \in 0 .. Size

\* hello_init: MCR and IER are written 0, the flags are not 1.  It also sends a
\* NUL, which the reader's port may have got.
Init ==
    /\ gated \in OUT2_GATES
    /\ mcr = [m \in Machine |-> {}]
    /\ emsi = [m \in Machine |-> FALSE] /\ delta = [m \in Machine |-> FALSE]
    /\ rbr = 0 /\ fresh \in BOOLEAN /\ stale = FALSE
    /\ flag = [m \in Machine |-> FALSE] /\ queued = [m \in Machine |-> FALSE]
    /\ work = [m \in Machine |-> "off"] /\ pc = [m \in Machine |-> "idle"]
    /\ killed = {} /\ runs = [m \in Machine |-> 0] /\ sent = 0 /\ ch = 0
-----------------------------------------------------------------------------
Goto(m, from, to) == pc[m] = from /\ pc' = [pc EXCEPT ![m] = to]

\* The cable crosses DTR with DSR and RTS with CTS.  A change is latched in the
\* peer's MSR until that is read.
Modem(m) == mcr[m] \cap {"DTR", "RTS"}

SetMcr(m, bits) ==
    /\ mcr' = [mcr EXCEPT ![m] = bits]
    /\ delta' = IF bits \cap {"DTR", "RTS"} = Modem(m)
                THEN delta ELSE [delta EXCEPT ![Peer(m)] = TRUE]
    /\ UNCHANGED <<gated, emsi>>

\* The line m's program waits for: CTS on the writer's, DSR on the reader's.
\* (The reader never raises DTR, the writer never RTS.)
InputUp(m) == Modem(Peer(m)) # {}

\* An access to the port by m's program, one to its flag, and a
\* wait_event_interruptible on bio (that a signal ended it is not looked at).
Out(m, from, to, bits) ==
    Goto(m, from, to) /\ SetMcr(m, bits) /\ UNCHANGED <<line, host, prog>>
Clear(m, from, to) ==
    /\ Goto(m, from, to)
    /\ flag' = [flag EXCEPT ![m] = FALSE]
    /\ UNCHANGED <<port, line, queued, work, prog>>
\* Mutant: a signal does not end the wait.
AwaitDeaf(m, from, to) ==
    flag[m] /\ Goto(m, from, to) /\ UNCHANGED <<port, line, host, prog>>
Await(m, from, to) ==
    /\ flag[m] \/ m \in killed
    /\ Goto(m, from, to)
    /\ UNCHANGED <<port, line, host, prog>>

\* Mutant: the two writes to IER the other way round.
EnableMsiFirst(m, from, to) ==
    Goto(m, from, to) /\ UNCHANGED <<port, line, host, prog>>

\* Of what is written to IER, the last remains: modem status interrupts.
EnableMsi(m, from, to) ==
    /\ Goto(m, from, to)
    /\ emsi' = [emsi EXCEPT ![m] = TRUE]
    /\ UNCHANGED <<gated, mcr, delta, line, host, prog>>

Called(m, to) ==
    /\ runs[m] < Runs
    /\ Goto(m, "idle", to)
    /\ runs' = [runs EXCEPT ![m] = @ + 1]
    /\ flag' = [flag EXCEPT ![m] = FALSE]
    /\ UNCHANGED <<port, line, queued, work, killed, stale>>
-----------------------------------------------------------------------------
(***************************************************************************)
(* serialport_write.                                                       *)
(***************************************************************************)
WriteCall == Called("writer", "out2") /\ sent' = 0 /\ UNCHANGED ch

RaiseDtr == sent < Size /\ Out("writer", "loop", "wait", {"DTR"})

SendByte ==
    /\ Goto("writer", "send", IF WriterLkm = "wrietr" THEN "drop" ELSE "reset")
    /\ rbr' = sent + 1 /\ fresh' = TRUE
    /\ UNCHANGED <<port, host, prog>>

\* Mutant: the flag stays set.
NextByteKeepsFlag ==
    /\ Goto("writer", "reset", "loop")
    /\ sent' = sent + 1
    /\ UNCHANGED <<port, line, host, killed, runs, ch, stale>>

\* flag = 0; --lcount.
NextByte ==
    /\ Goto("writer", "reset", "loop")
    /\ flag' = [flag EXCEPT !["writer"] = FALSE]
    /\ sent' = sent + 1
    /\ UNCHANGED <<port, line, queued, work, killed, runs, ch, stale>>

WriteReturn ==
    /\ sent = Size
    /\ Goto("writer", "loop", "idle")
    /\ UNCHANGED <<port, line, host, prog>>

WriteStep ==
    \/ Out("writer", "out2", "ier", {"OUT2"})
    \/ EnableMsi("writer", "ier", "loop")
    \/ RaiseDtr
    \/ Await("writer", "wait", "send")
    \/ SendByte
    \/ Out("writer", "drop", "reset", {})
    \/ NextByte
    \/ WriteReturn
-----------------------------------------------------------------------------
(***************************************************************************)
(* serialport_read.                                                        *)
(***************************************************************************)
ReadCall == Called("reader", "out2") /\ UNCHANGED <<sent, ch>>

\* IER = ERBI, until the next write to it: a byte that is there, or comes in now,
\* interrupts, and the handler (case 0x04) sets rflag if it is in time.
EnableErbi ==
    /\ Goto("reader", "erbi", "ier")
    /\ emsi' = [emsi EXCEPT !["reader"] = FALSE]
    /\ stale' = (stale \/ fresh)
    /\ UNCHANGED <<gated, mcr, delta, line, host, killed, runs, sent, ch>>

ByteInterrupt ==
    /\ pc["reader"] = "ier" /\ fresh
    /\ flag' = [flag EXCEPT !["reader"] = TRUE]
    /\ stale' = TRUE
    /\ UNCHANGED <<port, line, queued, work, pc, killed, runs, sent, ch>>

\* The status is printed; reading it forgets a change.
ReadStatus ==
    /\ Goto("reader", "status", "first")
    /\ delta' = [delta EXCEPT !["reader"] = FALSE]
    /\ UNCHANGED <<gated, mcr, emsi, line, host, prog>>

\* After the second wait, one driver reads RBR and then clears rflag, the other
\* the other way round.  After a '.', the read returns.
TakeFirst == ReaderLkm = "reader"

TakeByte ==
    /\ Goto("reader", "take", IF TakeFirst THEN "clear2"
                             ELSE IF rbr = Dot THEN "idle" ELSE "first")
    /\ ch' = rbr /\ fresh' = FALSE
    /\ UNCHANGED <<port, rbr, host, killed, runs, sent, stale>>

ClearAgain ==
    Clear("reader", "clear2", IF ~TakeFirst THEN "take"
                              ELSE IF ch = Dot THEN "idle" ELSE "drop")

ReadStep ==
    \/ Out("reader", "out2", "erbi", {"OUT2"})
    \/ EnableErbi
    \/ EnableMsi("reader", "ier", "status")
    \/ ReadStatus
    \/ Await("reader", "first", "clear1")
    \/ Clear("reader", "clear1", "rts")
    \/ Out("reader", "rts", "second", {"RTS"})
    \/ Await("reader", "second", IF TakeFirst THEN "take" ELSE "clear2")
    \/ TakeByte
    \/ ClearAgain
    \/ Out("reader", "drop", "first", {})

Kill(m) ==
    /\ pc[m] # "idle" /\ m \notin killed
    /\ killed' = killed \cup {m}
    /\ UNCHANGED <<port, line, host, pc, runs, sent, ch, stale>>
-----------------------------------------------------------------------------
(***************************************************************************)
(* The interrupt handler and the work functions.                           *)
(***************************************************************************)

\* Case 0x00: the status is read, which ends the interrupt, and the work queued
\* if the line is up.  Case 0x04 is ByteInterrupt; the others are never enabled.
Handler(m) ==
    /\ delta[m] /\ emsi[m] /\ (gated => "OUT2" \in mcr[m])
    /\ delta' = [delta EXCEPT ![m] = FALSE]
    /\ queued' = [queued EXCEPT ![m] = @ \/ InputUp(m)]
    /\ UNCHANGED <<gated, mcr, emsi, line, flag, work, pc, prog>>

WorkStart(m) ==
    /\ queued[m] /\ work[m] = "off"
    /\ queued' = [queued EXCEPT ![m] = FALSE]
    /\ work' = [work EXCEPT ![m] = IF m = "reader" THEN "first" ELSE "look"]
    /\ UNCHANGED <<port, line, flag, pc, prog>>

\* my_rwq_func reads MSR once more, and prints it.
WorkFirst(m) ==
    /\ work[m] = "first"
    /\ delta' = [delta EXCEPT ![m] = FALSE]
    /\ work' = [work EXCEPT ![m] = "look"]
    /\ UNCHANGED <<gated, mcr, emsi, line, flag, queued, pc, prog>>

\* The loop over MSR, which also ends a pending interrupt.
WorkLook(m) ==
    /\ work[m] = "look"
    /\ delta' = [delta EXCEPT ![m] = FALSE]
    /\ work' = [work EXCEPT ![m] = IF InputUp(m) THEN "up" ELSE "look"]
    /\ UNCHANGED <<gated, mcr, emsi, line, flag, queued, pc, prog>>

WorkDone(m) ==
    /\ work[m] = "up"
    /\ work' = [work EXCEPT ![m] = "off"]
    /\ flag' = [flag EXCEPT ![m] = TRUE]
    /\ UNCHANGED <<port, line, queued, pc, prog>>

WorkStep(m) == WorkStart(m) \/ WorkFirst(m) \/ WorkLook(m) \/ WorkDone(m)

Next ==
    \/ WriteCall \/ ReadCall
    \/ WriteStep \/ ReadStep \/ ByteInterrupt
    \/ \E m \in Machine : Kill(m) \/ Handler(m) \/ WorkStep(m)

Spec == Init /\ [][Next]_vars

\* Programs, handlers and workers get to run.
FairSpec ==
    /\ Spec
    /\ WF_vars(WriteStep) /\ WF_vars(ReadStep)
    /\ \A m \in Machine : WF_vars(Handler(m)) /\ WF_vars(WorkStep(m))
-----------------------------------------------------------------------------
(***************************************************************************)
(* No byte is sent over one that has not been read, as long as no signal   *)
(* ends a wait and no read begins with a byte in its port: the flags, each *)
(* set by work that an edge queued some time ago and cleared by a program  *)
(* that may have gone past it, never let the write run ahead of the read.  *)
(***************************************************************************)
NoOverrun ==
    [][killed = {} /\ ~stale /\ pc["writer"] = "send" /\ pc["writer"]' # "send" => ~fresh]_vars

(***************************************************************************)
(* When a read, begun with no byte in the port, waits before the write     *)
(* raises DTR, the first byte gets sent, if OUT2 does not gate interrupts  *)
(* and no signal ends the read's waits: neither edge is lost between       *)
(* handler, work and flag.                                                 *)
(***************************************************************************)
FirstByteSent ==
    (~gated /\ ~stale /\ sent = 0 /\ pc["writer"] = "loop" /\ pc["reader"] = "first")
        ~> (sent = 1 \/ "reader" \in killed)

(***************************************************************************)
(* A write that is killed returns: the waits end, and nobody looks why.    *)
(***************************************************************************)
KilledEnds == "writer" \in killed ~> pc["writer"] = "idle"

(***************************************************************************)
(* A byte that comes in while a read waits for it wakes that read, with no *)
(* signal's help: the read enables interrupts (line 186), and the handler  *)
(* has a case for "recieved data available ion RBR_REG" (line 439).        *)
(***************************************************************************)
ByteWakesRead ==
    (pc["reader"] = "second" /\ fresh /\ rbr # 0)
        ~> (pc["reader"] # "second" \/ killed # {})
=============================================================================
