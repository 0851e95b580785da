----------------------------- MODULE SerialLine -----------------------------
(***************************************************************************)
(* serial_driver/serial_normal: a byte stream over the modem control lines *)
(* of two machines joined by a null-modem cable.  On one runs writer.c, in *)
(* serialport_write; on the other reader.c, in serialport_read.  Both poll *)
(* the port: the writer raises DTR and waits for CTS, the reader waits for *)
(* DSR and raises RTS.  Nothing acknowledges a byte: the reader takes it   *)
(* one second after RTS, the writer goes on two seconds after sending.     *)
(*                                                                         *)
(* Time goes by in ticks.  A sleep lasts its length, and a process that is *)
(* not asleep is put off by Late ticks at most before its next step (the   *)
(* printk of every turn, an interrupt, the scheduler).  A step is one      *)
(* access to the port.  A byte is on the line for a millisecond (9600      *)
(* baud), far less than a tick.                                            *)
(***************************************************************************)
EXTENDS Integers, Sequences

CONSTANTS Size,      \* the bytes writer.c writes
          Dot,       \* which of them is '.' ("HELLOJI." has a NUL behind it)
          Second,    \* ticks to a second
          Late,      \* most ticks by which a step is put off
          Runs       \* bound: how often each program is run

ASSUME LineAssumption ==
    /\ Size \in Nat /\ Dot \in 1 .. Size
    /\ Second \in Nat \ {0} /\ Late \in Nat /\ Runs \in Nat

VARIABLES
    dtr,      \* the writer's MCR: DTR raised, the reader's DSR
    rts,      \* the reader's MCR: RTS raised, the writer's CTS
    rbr,      \* the reader's receive register: the byte last sent, 0 at first
    wpc,      \* where serialport_write is
    sent,     \* i, the bytes sent so far
    wtime,    \* ticks the writer still sleeps; negative: how late it is
    wruns,    \* the runs of writer.c
    rpc,      \* where serialport_read is
    got,      \* the bytes this read took; the last is what buf holds
    rtime,    \* as wtime
    rruns     \* the runs of reader.c

writer == <<wpc, sent, wtime, wruns>>
reader == <<rpc, got, rtime, rruns>>
vars == <<dtr, rts, rbr, writer, reader>>

TypeOK ==
    /\ dtr \in BOOLEAN /\ rts \in BOOLEAN
    /\ rbr \in 0 .. Size
    /\ wpc \in {"idle", "raise", "cts", "send", "drop"}
    /\ rpc \in {"idle", "dsr", "raise", "take", "drop"}
    /\ sent \in 0 .. Size
    /\ got \in Seq(0 .. Size)
    /\ wtime \in -Late .. 2 * Second
    /\ rtime \in -Late .. Second
    /\ wruns \in 0 .. Runs /\ rruns \in 0 .. Runs

\* hello_init on both machines: MCR is written 0, and so are RBR and THR.
Init ==
    /\ dtr = FALSE /\ rts = FALSE /\ rbr = 0
    /\ wpc = "idle" /\ sent = 0 /\ wtime = 0 /\ wruns = 0
    /\ rpc = "idle" /\ got = << >> /\ rtime = 0 /\ rruns = 0
-----------------------------------------------------------------------------
\* A step of the writer that is due, and the sleep that follows it.
WriterGoes(from, to, sleep) ==
    /\ wpc = from /\ wtime <= 0
    /\ wpc' = to /\ wtime' = sleep

\* Lines 180-196: the line is set up, MCR is left as it was.
WriteCall ==
    /\ wruns < Runs
    /\ WriterGoes("idle", "raise", 0)
    /\ sent' = 0 /\ wruns' = wruns + 1
    /\ UNCHANGED <<dtr, rts, rbr, reader>>

\* Lines 197-201: a byte is left, MCR = DTR.
RaiseDtr ==
    /\ sent < Size
    /\ WriterGoes("raise", "cts", 0)
    /\ dtr' = TRUE
    /\ UNCHANGED <<rts, rbr, sent, wruns, reader>>

\* Mutation: CTS is not waited for.
PollCtsOnce ==
    /\ WriterGoes("cts", "send", 0)
    /\ UNCHANGED <<dtr, rts, rbr, sent, wruns, reader>>

\* Lines 202-209: the loop that reads MSR until CTS is up.
PollCts ==
    /\ WriterGoes("cts", IF rts THEN "send" ELSE "cts", 0)
    /\ UNCHANGED <<dtr, rts, rbr, sent, wruns, reader>>

\* Line 213: the byte goes out, whatever became of the one before.
SendByte ==
    /\ WriterGoes("send", "drop", 0)
    /\ rbr' = sent + 1
    /\ UNCHANGED <<dtr, rts, sent, wruns, reader>>

\* Mutation: one second of sleep.
DropDtrHasty ==
    /\ WriterGoes("drop", "raise", Second)
    /\ dtr' = FALSE /\ sent' = sent + 1
    /\ UNCHANGED <<rts, rbr, wruns, reader>>

\* Lines 214-218: MCR = 0, then two seconds of sleep.
DropDtr ==
    /\ WriterGoes("drop", "raise", 2 * Second)
    /\ dtr' = FALSE /\ sent' = sent + 1
    /\ UNCHANGED <<rts, rbr, wruns, reader>>

\* Line 223.
WriteReturn ==
    /\ sent = Size
    /\ WriterGoes("raise", "idle", 0)
    /\ UNCHANGED <<dtr, rts, rbr, sent, wruns, reader>>
-----------------------------------------------------------------------------
ReaderGoes(from, to, sleep) ==
    /\ rpc = from /\ rtime <= 0
    /\ rpc' = to /\ rtime' = sleep

\* Lines 125-141: the line is set up, MCR is left as it was.
ReadCall ==
    /\ rruns < Runs
    /\ ReaderGoes("idle", "dsr", 0)
    /\ got' = << >> /\ rruns' = rruns + 1
    /\ UNCHANGED <<dtr, rts, rbr, writer>>

\* Lines 145-151: the loop that reads MSR until DSR is up.
PollDsr ==
    /\ ReaderGoes("dsr", IF dtr THEN "raise" ELSE "dsr", 0)
    /\ UNCHANGED <<dtr, rts, rbr, got, rruns, writer>>

\* Lines 154-157: MCR = RTS, then a second of sleep.
RaiseRts ==
    /\ ReaderGoes("raise", "take", Second)
    /\ rts' = TRUE
    /\ UNCHANGED <<dtr, rbr, got, rruns, writer>>

\* Mutation: RTS is dropped when the read ends, too.
TakeByteDrops ==
    /\ ReaderGoes("take", IF rbr = Dot THEN "idle" ELSE "drop", 0)
    /\ got' = Append(got, rbr)
    /\ rts' = (rbr # Dot)
    /\ UNCHANGED <<dtr, rbr, rruns, writer>>

\* Lines 158-162: RBR is read, new or old, and copied to buf[0]; after a '.'
\* the read returns, RTS still raised.
TakeByte ==
    /\ ReaderGoes("take", IF rbr = Dot THEN "idle" ELSE "drop", 0)
    /\ got' = Append(got, rbr)
    /\ UNCHANGED <<dtr, rts, rbr, rruns, writer>>

\* Line 163: MCR = 0.
DropRts ==
    /\ ReaderGoes("drop", "dsr", 0)
    /\ rts' = FALSE
    /\ UNCHANGED <<dtr, rbr, got, rruns, writer>>
-----------------------------------------------------------------------------
\* A tick: a sleep is a tick shorter, or a step that is due a tick later.
After(pc, time) == IF pc = "idle" THEN time ELSE time - 1

Tick ==
    /\ wpc = "idle" \/ wtime > -Late
    /\ rpc = "idle" \/ rtime > -Late
    /\ wtime' = After(wpc, wtime)
    /\ rtime' = After(rpc, rtime)
    /\ UNCHANGED <<dtr, rts, rbr, wpc, sent, wruns, rpc, got, rruns>>

WriterStep == RaiseDtr \/ PollCts \/ SendByte \/ DropDtr \/ WriteReturn
ReaderStep == PollDsr \/ RaiseRts \/ TakeByte \/ DropRts

Next == WriteCall \/ ReadCall \/ WriterStep \/ ReaderStep \/ Tick

Spec == Init /\ [][Next]_vars

\* Neither process is held up for ever (the loops above run in the kernel and
\* heed no signal), and time goes by.
FairSpec ==
    Spec /\ WF_vars(WriterStep) /\ WF_vars(ReaderStep) /\ WF_vars(Tick)
-----------------------------------------------------------------------------
(***************************************************************************)
(* The pace the two sleeps are right for: three steps in a row of either   *)
(* process (poll, send, drop) take less than a second.                     *)
(***************************************************************************)
InPace == 3 * Late < Second

(***************************************************************************)
(* In pace, the first transfer after loading neither loses, repeats nor    *)
(* invents a byte, although nothing tells the writer that a byte was taken *)
(* nor the reader that one has come: the read has taken exactly the bytes  *)
(* 1, 2, 3, ... in turn (lines 143-164 against 197-219).                   *)
(***************************************************************************)
InOrder ==
    InPace /\ wruns <= 1 /\ rruns <= 1 => \A k \in 1 .. Len(got) : got[k] = k

(***************************************************************************)
(* The inductive invariant behind InOrder, by where the reader is.  The    *)
(* timers of the two processes run together, so a difference between them  *)
(* stays what it was; it says which of the two is due first.               *)
(***************************************************************************)
AllTaken == sent = Len(got)

\* The reader looks for DSR, or has not been started.
Resting ==
    /\ rpc \in {"idle", "dsr"} /\ wpc \in {"idle", "raise", "cts"}
    /\ ~rts /\ AllTaken
    /\ wpc = "idle" => wruns = 0 /\ sent = 0
    /\ rpc = "idle" => rruns = 0 /\ sent = 0

\* It has seen DSR.
Asked == rpc = "raise" /\ wpc = "cts" /\ ~rts /\ AllTaken

\* It has raised RTS: the byte comes before the second is over.
Granted ==
    /\ rpc = "take" /\ rts /\ AllTaken
    /\ \/ wpc = "cts"  /\ wtime + Second <= rtime
       \/ wpc = "send" /\ wtime + Second - Late <= rtime
       \/ wpc = "drop" /\ wtime + Second - 2 * Late <= rtime /\ rbr = sent + 1

\* The byte is there, and is taken a second before the next.
Delivered ==
    /\ rpc = "take" /\ wpc = "raise"
    /\ sent = Len(got) + 1 /\ rbr = sent
    /\ rtime + Second <= wtime

\* It has been taken; RTS goes down before the writer wakes up.
Taken ==
    /\ rpc = "drop" /\ wpc = "raise" /\ AllTaken
    /\ rtime + Second - Late <= wtime

\* The '.' was read.
Over == rpc = "idle" /\ rruns = 1

InTurn ==
    /\ \A k \in 1 .. Len(got) : got[k] = k
    /\ rpc # "idle" => Len(got) < Dot
    /\ Resting \/ Asked \/ Granted \/ Delivered \/ Taken \/ Over

LineInv ==
    /\ TypeOK
    /\ wpc \in {"cts", "send", "drop"} => wtime <= 0 /\ sent < Size
    /\ dtr <=> wpc \in {"cts", "send", "drop"}
    /\ rpc # "idle" => rruns > 0
    /\ InPace /\ wruns <= 1 /\ rruns <= 1 => InTurn

(***************************************************************************)
(* In pace, a first write and a first read that are under way together     *)
(* both return: the read with the '.', the write with all its bytes sent,  *)
(* also those behind the '.', which nobody reads.  (The write returns only *)
(* because the read leaves RTS raised, lines 161-163.)                     *)
(***************************************************************************)
TransferEnds ==
    (InPace /\ wruns = 1 /\ rruns = 1 /\ wpc # "idle" /\ rpc # "idle")
        ~> (wpc = "idle" /\ rpc = "idle")

=============================================================================
