-------------------------- MODULE SerialLineProofs --------------------------
(***************************************************************************)
(* That serial_normal hands over every byte once and in order, for every   *)
(* message, every length of the second and every lateness with 3 * Late <  *)
(* Second; that serial_new skips none (SerialWork), with 4 * Late < Second;*)
(* and that no work of its queues outlives its driver.                     *)
(***************************************************************************)
EXTENDS SerialWork, TLAPS

\* hello_init leaves both machines in a state the invariant allows.
LEMMA LineInvInit == Init => LineInv
<1> SUFFICES ASSUME Init PROVE LineInv
  OBVIOUS
<1>1. TypeOK
  <2>1. << >> \in Seq(0 .. Size)
    OBVIOUS
  <2>2. 0 \in 0 .. Size /\ 0 \in -Late .. 2 * Second /\ 0 \in -Late .. Second
        /\ 0 \in 0 .. Runs
    BY LineAssumption
  <2> QED
    BY <2>1, <2>2 DEF Init, TypeOK
<1>2. Resting
  BY DEF Init, Resting, AllTaken
<1> QED
  BY <1>1, <1>2, LineAssumption DEF Init, LineInv, InTurn

\* Appending a byte of the line to what was read.
LEMMA Appended ==
    ASSUME NEW s \in Seq(0 .. Size), NEW b \in 0 .. Size
    PROVE  /\ Append(s, b) \in Seq(0 .. Size)
           /\ Len(Append(s, b)) = Len(s) + 1
           /\ \A k \in 1 .. Len(s) : Append(s, b)[k] = s[k]
           /\ Append(s, b)[Len(s) + 1] = b
           /\ Len(s) \in Nat
  OBVIOUS

\* The variables keep their types, whatever the pace.
LEMMA TypeStep ==
    ASSUME TypeOK, wpc \in {"send", "drop"} => sent < Size, [Next]_vars
    PROVE  TypeOK'
<1>0. TypeOK /\ (wpc \in {"send", "drop"} => sent < Size)
  OBVIOUS
<1> USE LineAssumption DEF TypeOK
<1>1. CASE WriteCall BY <1>0, <1>1 DEF WriteCall, WriterGoes, reader
<1>2. CASE RaiseDtr BY <1>0, <1>2 DEF RaiseDtr, WriterGoes, reader
<1>3. CASE PollCts BY <1>0, <1>3 DEF PollCts, WriterGoes, reader
<1>4. CASE SendByte BY <1>0, <1>4 DEF SendByte, WriterGoes, reader
<1>5. CASE DropDtr
  <2>1. dtr' \in BOOLEAN
    BY <1>5, Zenon DEF DropDtr
  <2>2. wtime' \in -Late .. 2 * Second
    BY <1>5 DEF DropDtr, WriterGoes
  <2> QED
    BY <1>0, <1>5, <2>1, <2>2 DEF DropDtr, WriterGoes, reader
<1>6. CASE WriteReturn BY <1>0, <1>6 DEF WriteReturn, WriterGoes, reader
<1>7. CASE ReadCall BY <1>0, <1>7 DEF ReadCall, ReaderGoes, writer
<1>8. CASE PollDsr BY <1>0, <1>8 DEF PollDsr, ReaderGoes, writer
<1>9. CASE RaiseRts BY <1>0, <1>9 DEF RaiseRts, ReaderGoes, writer
<1>10. CASE TakeByte BY <1>0, <1>10, Appended DEF TakeByte, ReaderGoes, writer
<1>11. CASE DropRts
  <2>1. rts' \in BOOLEAN
    BY <1>11, Zenon DEF DropRts
  <2> QED
    BY <1>0, <1>11, <2>1 DEF DropRts, ReaderGoes, writer
<1>12. CASE Tick
  <2>1. wtime' \in -Late .. 2 * Second
    BY <1>0, <1>12 DEF Tick, After
  <2>2. rtime' \in -Late .. Second
    BY <1>0, <1>12 DEF Tick, After
  <2> QED
    BY <1>0, <1>12, <2>1, <2>2 DEF Tick
<1>13. CASE UNCHANGED vars BY <1>0, <1>13 DEF vars, writer, reader
<1>. QED
  BY <1>1, <1>2, <1>3, <1>4, <1>5, <1>6, <1>7, <1>8, <1>9, <1>10, <1>11,
     <1>12, <1>13 DEF Next, WriterStep, ReaderStep

\* A writer that is at the line is due and has a byte to send, DTR is up then
\* only, and a reader that is reading has been called.
Busy ==
    /\ wpc \in {"cts", "send", "drop"} => wtime <= 0 /\ sent < Size
    /\ dtr <=> wpc \in {"cts", "send", "drop"}
    /\ rpc # "idle" => rruns > 0

LEMMA BusyStep == LineInv /\ [Next]_vars => Busy'
<1> SUFFICES ASSUME LineInv, [Next]_vars PROVE Busy'
  OBVIOUS
<1>0. TypeOK /\ Busy
  BY DEF LineInv, Busy
<1> USE LineAssumption DEF TypeOK, Busy
<1>1. CASE WriteCall BY <1>0, <1>1 DEF WriteCall, WriterGoes, reader
<1>2. CASE RaiseDtr BY <1>0, <1>2 DEF RaiseDtr, WriterGoes, reader
<1>3. CASE PollCts BY <1>0, <1>3 DEF PollCts, WriterGoes, reader
<1>4. CASE SendByte BY <1>0, <1>4 DEF SendByte, WriterGoes, reader
<1>5. CASE DropDtr BY <1>0, <1>5 DEF DropDtr, WriterGoes, reader
<1>6. CASE WriteReturn BY <1>0, <1>6 DEF WriteReturn, WriterGoes, reader
<1>7. CASE ReadCall BY <1>0, <1>7 DEF ReadCall, ReaderGoes, writer
<1>8. CASE PollDsr BY <1>0, <1>8 DEF PollDsr, ReaderGoes, writer
<1>9. CASE RaiseRts BY <1>0, <1>9 DEF RaiseRts, ReaderGoes, writer
<1>10. CASE TakeByte BY <1>0, <1>10 DEF TakeByte, ReaderGoes, writer
<1>11. CASE DropRts BY <1>0, <1>11 DEF DropRts, ReaderGoes, writer
<1>12. CASE Tick BY <1>0, <1>12 DEF Tick, After
<1>13. CASE UNCHANGED vars BY <1>0, <1>13 DEF vars, writer, reader
<1> QED
  BY <1>1, <1>2, <1>3, <1>4, <1>5, <1>6, <1>7, <1>8, <1>9, <1>10, <1>11,
     <1>12, <1>13 DEF Next, WriterStep, ReaderStep

\* In the first transfer and in pace, each step leads from one situation of
\* the reader to the next, and the timers leave no other.
LEMMA TurnStep ==
    ASSUME TypeOK, Busy, InPace, InTurn, [Next]_vars, wruns' <= 1, rruns' <= 1
    PROVE  InTurn'
<1> USE LineAssumption DEF TypeOK, InTurn, AllTaken, InPace
<1>1. CASE WriteCall
  BY <1>1 DEF WriteCall, WriterGoes, reader, Resting, Asked, Granted, Delivered,
              Taken, Over
<1>2. CASE RaiseDtr
  BY <1>2 DEF RaiseDtr, WriterGoes, reader, Resting, Asked, Granted, Delivered,
              Taken, Over
<1>3. CASE PollCts
  BY <1>3 DEF PollCts, WriterGoes, reader, Resting, Asked, Granted, Delivered,
              Taken, Over
<1>4. CASE SendByte
  BY <1>4 DEF SendByte, WriterGoes, reader, Resting, Asked, Granted, Delivered,
              Taken, Over
<1>5. CASE DropDtr
  BY <1>5 DEF DropDtr, WriterGoes, reader, Resting, Asked, Granted, Delivered,
              Taken, Over
<1>6. CASE WriteReturn
  BY <1>6 DEF WriteReturn, WriterGoes, reader, Resting, Asked, Granted, Delivered,
              Taken, Over
<1>7. CASE ReadCall
  BY <1>7 DEF ReadCall, ReaderGoes, writer, Resting, Asked, Granted, Delivered,
              Taken, Over, Busy
<1>8. CASE PollDsr
  BY <1>8 DEF PollDsr, ReaderGoes, writer, Resting, Asked, Granted, Delivered,
              Taken, Over, Busy
<1>9. CASE RaiseRts
  BY <1>9 DEF RaiseRts, ReaderGoes, writer, Resting, Asked, Granted, Delivered,
              Taken, Over, Busy
<1>10. CASE TakeByte
  <2>1. Delivered /\ rbr = Len(got) + 1
    BY <1>10 DEF TakeByte, ReaderGoes, Resting, Asked, Granted, Delivered, Taken, Over
  <2>2. /\ Len(got') = Len(got) + 1
        /\ \A k \in 1 .. Len(got') : got'[k] = k
    BY <1>10, <2>1, Appended DEF TakeByte
  <2>3. Len(got) + 1 <= Dot /\ Len(got) \in Nat
    BY <1>10 DEF TakeByte, ReaderGoes
  <2>4. CASE rbr = Dot
    BY <1>10, <2>1, <2>2, <2>4 DEF TakeByte, ReaderGoes, writer, Over, Busy
  <2>5. CASE rbr # Dot
    BY <1>10, <2>1, <2>2, <2>3, <2>5 DEF TakeByte, ReaderGoes, writer, Delivered, Taken
  <2> QED
    BY <2>4, <2>5
<1>11. CASE DropRts
  BY <1>11 DEF DropRts, ReaderGoes, writer, Resting, Asked, Granted, Delivered,
              Taken, Over
<1>12. CASE Tick
  BY <1>12 DEF Tick, After, Resting, Asked, Granted, Delivered, Taken, Over
<1>13. CASE UNCHANGED vars
  BY <1>13 DEF vars, writer, reader, Resting, Asked, Granted, Delivered, Taken, Over
<1> QED
  BY <1>1, <1>2, <1>3, <1>4, <1>5, <1>6, <1>7, <1>8, <1>9, <1>10, <1>11,
     <1>12, <1>13 DEF Next, WriterStep, ReaderStep

\* Runs are counted, so a first run was no later one before.
LEMMA RunsGrow == TypeOK /\ [Next]_vars => wruns <= wruns' /\ rruns <= rruns'
  BY LineAssumption
     DEF TypeOK, vars, writer, reader, Next, WriterStep, ReaderStep, WriteCall,
         RaiseDtr, PollCts, SendByte, DropDtr, WriteReturn, ReadCall, PollDsr,
         RaiseRts, TakeByte, DropRts, Tick

\* The parts above, put together.
LEMMA LineInvStep == LineInv /\ [Next]_vars => LineInv'
<1> SUFFICES ASSUME LineInv, [Next]_vars PROVE LineInv'
  OBVIOUS
<1>1. TypeOK' /\ Busy'
  BY TypeStep, BusyStep DEF LineInv
<1>2. ASSUME InPace, wruns' <= 1, rruns' <= 1 PROVE InTurn'
  <2>1. TypeOK /\ Busy
    BY DEF LineInv, Busy
  <2>2. wruns <= 1 /\ rruns <= 1
    BY <1>1, <1>2, <2>1, RunsGrow DEF TypeOK
  <2> QED
    BY <1>2, <2>1, <2>2, TurnStep DEF LineInv
<1> QED
  BY <1>1, <1>2 DEF LineInv, Busy, InPace

(* The invariant of the handshake, for every pace and message.              *)
THEOREM LineInvariant == Spec => []LineInv
  BY LineInvInit, LineInvStep, PTL DEF Spec

(***************************************************************************)
(* serial_normal hands over each byte once and in order in its first       *)
(* transfer, whatever the message, if 3 * Late < Second.                   *)
(***************************************************************************)
THEOREM LineInOrder == Spec => []InOrder
<1>1. LineInv => InOrder
  BY DEF LineInv, InTurn, InOrder
<1> QED
  BY <1>1, LineInvariant, PTL
-----------------------------------------------------------------------------
(***************************************************************************)
(* serial_new.  Its steps are those of serial_normal but for the two waits *)
(* and for what the read makes of a byte.                                  *)
(***************************************************************************)
WorkShape ==
    /\ WorkTypeOK
    /\ wpc \in {"cts", "send", "drop"} => wtime <= 0 /\ sent < Size
    /\ rpc \in {"dsr", "raise", "drop"} => rtime <= 0

LEMMA WorkSteps ==
    WorkNext => \/ Next
                \/ AwaitFlag
                \/ QueueAndGoOn
                \/ TakeAgain
                \/ UNCHANGED vars
BY DEF WorkNext, WorkCalls, Kill, Unload, WriteWorkStep, ReadWorkStep, WriteRest, ReadRest,
       QueueAndRaiseDtr, WorkStep, WorkStart, WorkLook, WorkDone, Flushed, Next, WriterStep,
       ReaderStep

LEMMA WorkShapeInit == WorkInit => WorkShape
<1>1. WorkInit => TypeOK
  BY LineInvInit DEF WorkInit, LineInv
<1> QED
  BY <1>1 DEF WorkInit, WorkShape, WorkTypeOK, Init

LEMMA WorkShapeStep ==
    ASSUME WorkShape, [WorkNext]_workVars
    PROVE  WorkShape'
<1>0. TypeOK
  BY DEF WorkShape, WorkTypeOK
<1> USE LineAssumption
<1>1. TypeOK'
  <2>1. CASE Next \/ UNCHANGED vars
    BY <1>0, <2>1, TypeStep DEF WorkShape
  <2>2. CASE AwaitFlag
    BY <1>0, <2>2 DEF AwaitFlag, WriterGoes, reader, TypeOK
  <2>3. CASE QueueAndGoOn
    BY <1>0, <2>3 DEF QueueAndGoOn, ReaderGoes, writer, TypeOK
  <2>4. CASE TakeAgain
    <3>1. got' \in Seq(0 .. Size)
      BY <1>0, <2>4, Appended DEF TakeAgain, TypeOK
    <3> QED
      BY <1>0, <2>4, <3>1 DEF TakeAgain, ReaderGoes, writer, TypeOK
  <2> QED
    BY <2>1, <2>2, <2>3, <2>4, WorkSteps DEF workVars
<1>2. /\ wpc' \in {"cts", "send", "drop"} => wtime' <= 0 /\ sent' < Size
      /\ rpc' \in {"dsr", "raise", "drop"} => rtime' <= 0
  <2>1. CASE UNCHANGED vars
    BY <2>1 DEF WorkShape, vars, writer, reader
  <2>2. CASE AwaitFlag
    BY <2>2 DEF WorkShape, AwaitFlag, WriterGoes, reader
  <2>3. CASE QueueAndGoOn
    BY <2>3 DEF WorkShape, QueueAndGoOn, ReaderGoes, writer
  <2>4. CASE TakeAgain
    BY <2>4 DEF WorkShape, TakeAgain, ReaderGoes, writer
  <2>5. CASE WriteCall \/ WriterStep
    BY <1>0, <2>5
       DEF WorkShape, WriteCall, WriterStep, RaiseDtr, PollCts, SendByte, DropDtr, WriteReturn,
           WriterGoes, reader, TypeOK
  <2>6. CASE ReadCall \/ ReaderStep
    BY <1>0, <2>6
       DEF WorkShape, ReadCall, ReaderStep, PollDsr, RaiseRts, TakeByte, DropRts, ReaderGoes,
           writer, TypeOK
  <2>7. CASE Tick
    BY <1>0, <2>7 DEF WorkShape, Tick, After, TypeOK
  <2> QED
    BY <2>1, <2>2, <2>3, <2>4, <2>5, <2>6, <2>7, WorkSteps DEF Next, workVars
<1>3. /\ flag' \in [Machine -> {0, 1}]
      /\ queued' \in [Machine -> BOOLEAN]
      /\ work' \in [Machine -> {"off", "look", "up"}]
      /\ module' \in [Machine -> {"in", "leaving", "out"}]
      /\ killed' \in BOOLEAN
  <2> USE DEF WorkShape, WorkTypeOK
  <2>1. "writer" \in Machine /\ "reader" \in Machine
    BY DEF Machine
  <2>2. CASE UNCHANGED works
    BY <2>2 DEF works
  <2>3. CASE QueueAndRaiseDtr \/ QueueAndGoOn
    BY <2>1, <2>3 DEF QueueAndRaiseDtr, QueueAndGoOn, QueueWork
  <2>4. CASE Kill
    BY <2>4 DEF Kill
  <2>5. ASSUME NEW m \in Machine, Unload(m) \/ WorkStep(m) \/ Flushed(m)
        PROVE  /\ flag' \in [Machine -> {0, 1}]
               /\ queued' \in [Machine -> BOOLEAN]
               /\ work' \in [Machine -> {"off", "look", "up"}]
               /\ module' \in [Machine -> {"in", "leaving", "out"}]
               /\ killed' \in BOOLEAN
    BY <2>5 DEF Unload, WorkStep, WorkStart, WorkLook, WorkDone, Flushed
  <2> QED
    BY <2>2, <2>3, <2>4, <2>5
       DEF WorkNext, WorkCalls, WriteWorkStep, ReadWorkStep, WriteRest, ReadRest, AwaitFlag,
           TakeAgain, workVars
<1> QED
  BY <1>1, <1>2, <1>3 DEF WorkShape, WorkTypeOK

THEOREM WorkShaped == WorkSpec => []WorkShape
BY WorkShapeInit, WorkShapeStep, PTL DEF WorkSpec

(* The handlers and work functions of serial_new keep the variables' types. *)
THEOREM WorkTyped == WorkSpec => []WorkTypeOK
<1>1. WorkShape => WorkTypeOK
  BY DEF WorkShape
<1> QED
  BY <1>1, WorkShaped, PTL

\* Work is queued by programs only, and they have ended when the driver leaves.
Left == NoWorkAfterUnload /\ \A m \in Machine : module[m] # "in" => ProgramEnded(m)

LEMMA LeftStep ==
    ASSUME WorkShape, Left, [WorkNext]_workVars
    PROVE  Left'
<1> USE DEF Left, NoWorkAfterUnload, ProgramEnded, Machine, WorkShape, WorkTypeOK
<1>1. CASE WorkCalls
  BY <1>1 DEF WorkCalls, WriteCall, WriterGoes, ReadCall, ReaderGoes, Kill, Unload, works,
              vars, writer, reader
<1>2. CASE WriteWorkStep
  BY <1>2 DEF WriteWorkStep, QueueAndRaiseDtr, RaiseDtr, QueueWork, AwaitFlag, WriteRest,
              SendByte, DropDtr, WriteReturn, WriterGoes, works, reader
<1>3. CASE ReadWorkStep
  BY <1>3 DEF ReadWorkStep, QueueAndGoOn, QueueWork, TakeAgain, ReadRest, RaiseRts, DropRts,
              ReaderGoes, works, writer
<1>4. ASSUME NEW m \in Machine, WorkStep(m) \/ Flushed(m) PROVE Left'
  BY <1>4 DEF WorkStep, WorkStart, WorkLook, WorkDone, Flushed, vars, writer, reader
<1>5. CASE Tick /\ UNCHANGED works
  BY <1>5 DEF Tick, works
<1>6. CASE UNCHANGED workVars
  BY <1>6 DEF workVars, works, vars, writer, reader
<1> QED
  BY <1>1, <1>2, <1>3, <1>4, <1>5, <1>6 DEF WorkNext

(* rmmod of serial_new after its program leaves no work behind that would   *)
(* run in unmapped text.                                                    *)
THEOREM WorkNoneAfterUnload == WorkSpec => []NoWorkAfterUnload
<1>1. WorkInit => Left
  BY DEF WorkInit, Left, NoWorkAfterUnload
<1>2. Left => NoWorkAfterUnload
  BY DEF Left
<1> QED
  BY <1>1, <1>2, LeftStep, WorkShaped, PTL DEF WorkSpec

(***************************************************************************)
(* In the first transfer the reader has taken the byte in RBR, or will     *)
(* have taken it before the writer can send the next: its next look at RBR *)
(* is due, with the lateness of the steps up to it, before the writer's    *)
(* sleep is over.                                                          *)
(***************************************************************************)
Last == IF got = << >> THEN 0 ELSE got[Len(got)]

TakenBy ==
    IF rpc = "take" THEN rtime + Late
    ELSE IF rpc = "raise" THEN rtime + 2 * Late + Second
    ELSE IF rpc = "dsr" THEN rtime + 3 * Late + Second
    ELSE rtime + 4 * Late + Second

SentFrom == IF wpc = "drop" THEN 2 * Second ELSE wtime

Counted ==
    /\ got # << >> => got[1] \in {0, 1}
    /\ \A k \in 1 .. Len(got) - 1 : got[k + 1] = got[k] + 1

\* Until a read has begun, the first byte is held back.
HeldBack ==
    /\ rpc = "idle" /\ ~rts /\ got = << >> /\ rbr = 0
    /\ flag["writer"] = 0 /\ work["writer"] # "up"
    /\ wpc \in {"idle", "raise", "cts"}

Following ==
    /\ rbr \in {Last, Last + 1}
    /\ rbr # Last => wpc = "idle" \/ TakenBy < SentFrom

FirstTransfer == WorkPace /\ wruns <= 1 /\ rruns <= 1 /\ ~killed

InOneTransfer ==
    /\ wruns = 0 => wpc = "idle" /\ rbr = 0
    /\ wpc \in {"raise", "cts", "send"} => rbr = sent
    /\ wpc = "drop" => rbr = sent + 1
    /\ rruns = 0 => HeldBack
    /\ rpc # "idle" => Following
    /\ Counted

SkipInv == flag["reader"] = 0 /\ (FirstTransfer => InOneTransfer)

\* Runs and signals do not go away, so a first transfer was one before.
LEMMA FirstBefore ==
    ASSUME WorkShape, [WorkNext]_workVars, FirstTransfer'
    PROVE  FirstTransfer
<1>1. wruns <= wruns' /\ rruns <= rruns'
  <2>1. CASE Next \/ UNCHANGED vars
    BY <2>1, RunsGrow DEF WorkShape, WorkTypeOK
  <2> QED
    BY <2>1, WorkSteps, LineAssumption
       DEF workVars, AwaitFlag, QueueAndGoOn, TakeAgain, WriterGoes, ReaderGoes, writer,
           reader, WorkShape, WorkTypeOK, TypeOK
<1>2. killed => killed'
  BY DEF WorkNext, WorkCalls, Kill, Unload, WriteWorkStep, ReadWorkStep, WriteRest, ReadRest,
         QueueAndRaiseDtr, QueueAndGoOn, AwaitFlag, TakeAgain, WorkStep, WorkStart, WorkLook,
         WorkDone, Flushed, works, workVars
<1>3. WorkShape'
  BY WorkShapeStep
<1> QED
  BY <1>1, <1>2, <1>3, LineAssumption
     DEF FirstTransfer, WorkPace, WorkShape, WorkTypeOK, TypeOK

\* A signal, rmmod and the work functions: only the flag may change.
LEMMA SkipByWork ==
    ASSUME WorkShape, InOneTransfer, UNCHANGED vars,
           \/ UNCHANGED <<flag, work>>
           \/ \E m \in Machine : WorkStep(m)
    PROVE  InOneTransfer'
<1> USE DEF InOneTransfer, vars, writer, reader
<1>1. Following => Following'
  BY DEF Following, Last, TakenBy, SentFrom
<1>2. Counted'
  BY DEF Counted
<1>3. HeldBack => HeldBack'
  BY DEF HeldBack, WorkStep, WorkStart, WorkLook, WorkDone, InputLine, WorkShape, WorkTypeOK,
         Machine
<1> QED BY <1>1, <1>2, <1>3

\* The writer's steps.  Not before the reader has taken a byte is the next due.
LEMMA SkipByWriter ==
    ASSUME WorkShape, FirstTransfer, FirstTransfer', InOneTransfer,
           \/ WriteCall /\ UNCHANGED works
           \/ WriteWorkStep
    PROVE  InOneTransfer'
<1> USE LineAssumption
        DEF InOneTransfer, WorkShape, WorkTypeOK, TypeOK, FirstTransfer, WorkPace
<1>0. UNCHANGED <<rts, reader, work, flag>>
  BY DEF WriteCall, WriteWorkStep, QueueAndRaiseDtr, RaiseDtr, AwaitFlag, WriteRest, SendByte,
         DropDtr, WriteReturn, works
<1>1. Counted' /\ Last' = Last /\ TakenBy' = TakenBy /\ Last \in Nat
  BY <1>0 DEF Counted, Last, TakenBy, reader
<1>2. rpc # "idle" => TakenBy \in Nat /\ TakenBy < 2 * Second
  BY DEF TakenBy
<1>3. CASE WriteCall
  <2>1. /\ wpc = "idle" /\ wpc' = "raise" /\ rbr = 0 /\ rbr' = 0 /\ sent' = 0 /\ wruns' # 0
    BY <1>3 DEF WriteCall, WriterGoes
  <2> QED BY <1>0, <1>1, <2>1 DEF Following, HeldBack, reader
<1>4. CASE QueueAndRaiseDtr
  <2>1. wpc = "raise" /\ wpc' = "cts" /\ wtime <= 0 /\ UNCHANGED <<sent, rbr, wruns>>
    BY <1>4 DEF QueueAndRaiseDtr, RaiseDtr, WriterGoes
  <2>2. rpc # "idle" => rbr = Last
    <3>1. SentFrom = wtime /\ wtime \in Int
      BY <2>1 DEF SentFrom
    <3> QED BY <1>2, <2>1, <3>1 DEF Following
  <2> QED BY <1>0, <1>1, <2>1, <2>2 DEF Following, HeldBack, reader
<1>5. CASE AwaitFlag
  <2>1. /\ wpc = "cts" /\ wtime <= 0 /\ UNCHANGED <<sent, rbr, wruns>>
        /\ wpc' = IF flag["writer"] = 1 THEN "send" ELSE "cts"
    BY <1>5 DEF AwaitFlag, WriterGoes
  <2>2. rpc # "idle" => rbr = Last
    <3>1. SentFrom = wtime /\ wtime \in Int
      BY <2>1 DEF SentFrom
    <3> QED BY <1>2, <2>1, <3>1 DEF Following
  <2> QED BY <1>0, <1>1, <2>1, <2>2 DEF Following, HeldBack, reader
<1>6. CASE SendByte
  <2>1. wpc = "send" /\ wpc' = "drop" /\ wtime <= 0 /\ rbr' = sent + 1 /\ UNCHANGED <<sent, wruns>>
    BY <1>6 DEF SendByte, WriterGoes
  <2>2. rpc # "idle" => rbr = Last
    <3>1. SentFrom = wtime /\ wtime \in Int
      BY <2>1 DEF SentFrom
    <3> QED BY <1>2, <2>1, <3>1 DEF Following
  <2> QED BY <1>0, <1>1, <1>2, <2>1, <2>2 DEF Following, SentFrom, HeldBack, reader
<1>7. CASE DropDtr
  <2>1. /\ wpc = "drop" /\ wpc' = "raise" /\ wtime' = 2 * Second /\ sent' = sent + 1
        /\ UNCHANGED <<rbr, wruns>>
    BY <1>7 DEF DropDtr, WriterGoes
  <2> QED BY <1>0, <1>1, <2>1 DEF Following, SentFrom, HeldBack, reader
<1>8. CASE WriteReturn
  <2>1. wpc = "raise" /\ wpc' = "idle" /\ UNCHANGED <<rbr, wruns>>
    BY <1>8 DEF WriteReturn, WriterGoes
  <2> QED BY <1>0, <1>1, <2>1 DEF Following, HeldBack, reader
<1> QED BY <1>3, <1>4, <1>5, <1>6, <1>7, <1>8 DEF WriteWorkStep, WriteRest

\* The reader's steps: each brings it nearer to its next look at RBR.
LEMMA SkipByReader ==
    ASSUME WorkShape, flag["reader"] = 0, FirstTransfer, FirstTransfer', InOneTransfer,
           \/ ReadCall /\ UNCHANGED works
           \/ ReadWorkStep
    PROVE  InOneTransfer'
<1> USE LineAssumption
        DEF InOneTransfer, WorkShape, WorkTypeOK, TypeOK, FirstTransfer, WorkPace
<1>0. UNCHANGED <<dtr, rbr, wpc, sent, wtime, wruns, flag, work>>
  BY DEF ReadCall, ReadWorkStep, QueueAndGoOn, TakeAgain, ReadRest, RaiseRts, DropRts, works,
         writer
<1>1. SentFrom' = SentFrom
  BY <1>0 DEF SentFrom
\* Steps that take nothing.
<1>2. ASSUME rpc # "idle", UNCHANGED <<got, rruns>>, TakenBy' \in Int, TakenBy' <= TakenBy
      PROVE  InOneTransfer'
  <2>1. rruns' # 0 /\ rruns # 0
    BY <1>2 DEF HeldBack
  <2>2. Last' = Last /\ Counted'
    BY <1>2 DEF Last, Counted
  <2>3. Following'
    <3>1. TakenBy \in Int /\ SentFrom \in Int
      BY DEF TakenBy, SentFrom
    <3> QED BY <1>0, <1>1, <1>2, <2>2, <3>1 DEF Following
  <2> QED BY <1>0, <2>1, <2>2, <2>3
<1>3. CASE ReadCall
  <2>1. rruns = 0 /\ rruns' = 1 /\ got' = << >> /\ rbr = 0
    BY <1>3 DEF ReadCall, ReaderGoes, HeldBack
  <2>2. Last' = 0 /\ Counted'
    BY <2>1 DEF Last, Counted
  <2> QED BY <1>0, <2>1, <2>2 DEF Following
<1>4. CASE QueueAndGoOn
  <2>1. rpc = "dsr" /\ rpc' = "raise" /\ rtime' = 0 /\ UNCHANGED <<got, rruns>>
    BY <1>4 DEF QueueAndGoOn, ReaderGoes
  <2>2. TakenBy' \in Int /\ TakenBy' <= TakenBy
    BY <2>1 DEF TakenBy
  <2> QED BY <1>2, <2>1, <2>2
<1>5. CASE RaiseRts
  <2>1. rpc = "raise" /\ rpc' = "take" /\ rtime' = Second /\ UNCHANGED <<got, rruns>>
    BY <1>5 DEF RaiseRts, ReaderGoes
  <2>2. TakenBy' \in Int /\ TakenBy' <= TakenBy
    BY <2>1 DEF TakenBy
  <2> QED BY <1>2, <2>1, <2>2
<1>6. CASE DropRts
  <2>1. rpc = "drop" /\ rpc' = "dsr" /\ rtime' = 0 /\ UNCHANGED <<got, rruns>>
    BY <1>6 DEF DropRts, ReaderGoes
  <2>2. TakenBy' \in Int /\ TakenBy' <= TakenBy
    BY <2>1 DEF TakenBy
  <2> QED BY <1>2, <2>1, <2>2
<1>7. CASE TakeAgain
  <2>1. /\ rpc = "take" /\ rruns' = rruns /\ rruns # 0
        /\ got' = IF got # << >> /\ got[Len(got)] = rbr THEN got ELSE Append(got, rbr)
    BY <1>7 DEF TakeAgain, ReaderGoes, HeldBack
  <2>2. Following /\ Counted /\ got \in Seq(0 .. Size) /\ rbr \in 0 .. Size
    BY <2>1
  <2>3. CASE got # << >> /\ got[Len(got)] = rbr
    <3>1. got' = got
      BY <2>1, <2>3
    <3>2. Last' = rbr /\ Counted'
      BY <2>2, <2>3, <3>1 DEF Last, Counted
    <3> QED BY <1>0, <2>1, <2>2, <3>2 DEF Following
  <2>4. CASE ~(got # << >> /\ got[Len(got)] = rbr)
    <3>1. got' = Append(got, rbr)
      BY <2>1, <2>4
    <3>2. Last' = rbr
      BY <2>2, <3>1, Appended DEF Last
    <3>3. Counted'
      <4>1. CASE got = << >>
        <5>1. rbr \in {0, 1} /\ Len(got') = 1 /\ got'[1] = rbr
          BY <2>2, <3>1, <4>1 DEF Following, Last
        <5> QED BY <5>1 DEF Counted
      <4>2. CASE got # << >>
        <5>1. rbr = got[Len(got)] + 1 /\ Len(got) \in Nat /\ Len(got) > 0
          BY <2>2, <2>4, <4>2 DEF Following, Last
        <5>2. Len(got') = Len(got) + 1 /\ got'[Len(got) + 1] = rbr
              /\ \A k \in 1 .. Len(got) : got'[k] = got[k]
          BY <2>2, <3>1, Appended
        <5>3. \A k \in 1 .. Len(got) : got'[k + 1] = got'[k] + 1
          <6> SUFFICES ASSUME NEW k \in 1 .. Len(got) PROVE got'[k + 1] = got'[k] + 1
            OBVIOUS
          <6>1. CASE k = Len(got)
            BY <5>1, <5>2, <6>1
          <6>2. CASE k < Len(got)
            BY <2>2, <5>1, <5>2, <6>2 DEF Counted
          <6> QED BY <5>1, <6>1, <6>2
        <5>4. got'[1] = got[1] /\ got[1] \in {0, 1}
          BY <2>2, <4>2, <5>1, <5>2 DEF Counted
        <5> QED BY <5>1, <5>2, <5>3, <5>4 DEF Counted
      <4> QED BY <4>1, <4>2
    <3> QED BY <1>0, <2>1, <3>2, <3>3 DEF Following
  <2> QED BY <2>3, <2>4
<1> QED BY <1>3, <1>4, <1>5, <1>6, <1>7 DEF ReadWorkStep, ReadRest

\* Time: both are nearer to what they are waiting for.
LEMMA SkipByTime ==
    ASSUME WorkShape, FirstTransfer, InOneTransfer, Tick, UNCHANGED works
    PROVE  InOneTransfer'
<1> USE LineAssumption DEF InOneTransfer, WorkShape, WorkTypeOK, TypeOK
<1>1. UNCHANGED <<dtr, rts, rbr, wpc, sent, wruns, rpc, got, rruns, flag, work>>
  BY DEF Tick, works
<1>2. Last' = Last /\ Counted' /\ (HeldBack => HeldBack')
  BY <1>1 DEF Last, Counted, HeldBack
<1>3. rpc # "idle" => Following'
  <2>1. ASSUME rpc # "idle", wpc # "idle", TakenBy < SentFrom PROVE TakenBy' < SentFrom'
    BY <1>1, <2>1 DEF TakenBy, SentFrom, Tick, After
  <2> QED BY <1>1, <1>2, <2>1 DEF Following
<1> QED BY <1>1, <1>2, <1>3

LEMMA SkipStep == WorkShape /\ SkipInv /\ [WorkNext]_workVars => SkipInv'
<1> SUFFICES ASSUME WorkShape, SkipInv, [WorkNext]_workVars PROVE SkipInv'
  OBVIOUS
<1>1. flag'["reader"] = 0
  BY DEF SkipInv, WorkShape, WorkTypeOK, Machine, WorkNext, WorkCalls, Kill, Unload,
         WriteWorkStep, ReadWorkStep, WriteRest, ReadRest, QueueAndRaiseDtr, QueueAndGoOn,
         AwaitFlag, TakeAgain, WorkStep, WorkStart, WorkLook, WorkDone, Flushed, works, workVars
<1>2. ASSUME FirstTransfer' PROVE InOneTransfer'
  <2>1. FirstTransfer /\ InOneTransfer
    BY <1>2, FirstBefore DEF SkipInv
  <2>2. CASE (WriteCall /\ UNCHANGED works) \/ WriteWorkStep
    BY <1>2, <2>1, <2>2, SkipByWriter
  <2>3. CASE (ReadCall /\ UNCHANGED works) \/ ReadWorkStep
    BY <1>2, <2>1, <2>3, SkipByReader DEF SkipInv
  <2>4. CASE Tick /\ UNCHANGED works
    BY <2>1, <2>4, SkipByTime
  <2>5. CASE \E m \in Machine : WorkStep(m)
    <3>1. UNCHANGED vars
      BY <2>5 DEF WorkStep, WorkStart, WorkLook, WorkDone
    <3> QED BY <2>1, <2>5, <3>1, SkipByWork
  <2>6. CASE Kill \/ (\E m \in Machine : Unload(m) \/ Flushed(m)) \/ UNCHANGED workVars
    <3>1. UNCHANGED vars /\ UNCHANGED <<flag, work>>
      BY <2>6 DEF Kill, Unload, Flushed, workVars, works
    <3> QED BY <2>1, <3>1, SkipByWork
  <2> QED BY <2>2, <2>3, <2>4, <2>5, <2>6 DEF WorkNext, WorkCalls
<1> QED BY <1>1, <1>2 DEF SkipInv

(***************************************************************************)
(* serial_new's first transfer skips no byte and invents none, whatever    *)
(* the message, if 4 * Late < Second and no signal cuts the write short.   *)
(***************************************************************************)
THEOREM WorkNothingSkipped == WorkSpec => []NothingSkipped
<1>1. WorkInit => SkipInv
  BY DEF WorkInit, Init, SkipInv, InOneTransfer, HeldBack, Counted, Machine
<1>2. SkipInv => NothingSkipped
  BY DEF SkipInv, FirstTransfer, InOneTransfer, Counted, NothingSkipped
<1> QED
  BY <1>1, <1>2, SkipStep, WorkShaped, PTL DEF WorkSpec
=============================================================================
