--------------------------- MODULE SerialIrqProofs ---------------------------
(***************************************************************************)
(* That the write of the interrupt drivers never runs ahead of the read,   *)
(* for every message, every place of the '.', any number of runs, either   *)
(* driver on either machine and either kind of board, as long as no signal *)
(* ends a wait and no read begins with a byte in its port.                 *)
(***************************************************************************)
EXTENDS SerialIrq, TLAPS

\* A write that has a line up or a byte to count has not sent them all.
WriteOpen == pc["writer"] \in {"wait", "send", "drop", "reset"} => sent < Size

\* A write to MCR keeps the types of what it changes.
LEMMA OutTypes ==
    ASSUME TypeOK, NEW m \in Machine, NEW from, NEW to, NEW bits \in SUBSET {"DTR", "RTS", "OUT2"},
           Out(m, from, to, bits)
    PROVE  /\ mcr' \in [Machine -> SUBSET {"DTR", "RTS", "OUT2"}]
           /\ delta' \in [Machine -> BOOLEAN]
           /\ UNCHANGED <<gated, emsi, line, host, prog>>
           /\ pc[m] = from /\ pc' = [pc EXCEPT ![m] = to]
  BY DEF TypeOK, Out, SetMcr, Goto, Machine, Peer

\* The variables keep their types, signals or not.
LEMMA TypeStep ==
    ASSUME TypeOK, WriteOpen, [Next]_vars
    PROVE  TypeOK' /\ WriteOpen'
<1>0. /\ TypeOK /\ WriteOpen
      /\ {"DTR"} \in SUBSET {"DTR", "RTS", "OUT2"} /\ {"RTS"} \in SUBSET {"DTR", "RTS", "OUT2"}
      /\ {"OUT2"} \in SUBSET {"DTR", "RTS", "OUT2"} /\ {} \in SUBSET {"DTR", "RTS", "OUT2"}
      /\ "writer" \in Machine /\ "reader" \in Machine
  BY DEF Machine
<1> USE IrqAssumption DEF WriteOpen, Goto, line, port, host, prog
<1> HIDE DEF TypeOK, WriteOpen
<1>1. CASE WriteCall
  BY <1>0, <1>1 DEF WriteCall, Called, TypeOK, WriteOpen, WriterAt, ReaderAt, Machine
<1>2. CASE ReadCall
  BY <1>0, <1>2 DEF ReadCall, Called, TypeOK, WriteOpen, WriterAt, ReaderAt, Machine
<1>3. CASE WriteStep
  <2>1. ASSUME NEW from, NEW to, NEW bits \in SUBSET {"DTR", "RTS", "OUT2"},
               Out("writer", from, to, bits), to \in WriterAt,
               to \in {"wait", "send", "drop", "reset"} => sent < Size
        PROVE  TypeOK' /\ WriteOpen'
    <3>1. /\ mcr' \in [Machine -> SUBSET {"DTR", "RTS", "OUT2"}]
          /\ delta' \in [Machine -> BOOLEAN]
          /\ UNCHANGED <<gated, emsi, line, host, prog>>
          /\ pc["writer"] = from /\ pc' = [pc EXCEPT !["writer"] = to]
      BY <1>0, <2>1, OutTypes, Zenon
    <3> QED
      BY <1>0, <2>1, <3>1 DEF TypeOK, WriteOpen, WriterAt, ReaderAt, Machine
  <2>2. CASE Out("writer", "out2", "ier", {"OUT2"})
    BY <1>0, <2>1, <2>2 DEF WriterAt
  <2>3. CASE EnableMsi("writer", "ier", "loop")
    BY <1>0, <2>3 DEF EnableMsi, TypeOK, WriteOpen, WriterAt, ReaderAt, Machine
  <2>4. CASE RaiseDtr
    BY <1>0, <2>1, <2>4 DEF RaiseDtr, WriterAt
  <2>5. CASE Await("writer", "wait", "send")
    BY <1>0, <2>5 DEF Await, TypeOK, WriteOpen, WriterAt, ReaderAt, Machine
  <2>6. CASE SendByte
    BY <1>0, <2>6 DEF SendByte, TypeOK, WriteOpen, WriterAt, ReaderAt, Machine
  <2>7. CASE Out("writer", "drop", "reset", {})
    <3>1. sent < Size
      BY <1>0, <2>7 DEF Out, WriteOpen
    <3> QED
      BY <1>0, <2>1, <2>7, <3>1 DEF WriterAt
  <2>8. CASE NextByte
    BY <1>0, <2>8 DEF NextByte, TypeOK, WriteOpen, WriterAt, ReaderAt, Machine
  <2>9. CASE WriteReturn
    BY <1>0, <2>9 DEF WriteReturn, TypeOK, WriteOpen, WriterAt, ReaderAt, Machine
  <2> QED
    BY <1>3, <2>2, <2>3, <2>4, <2>5, <2>6, <2>7, <2>8, <2>9 DEF WriteStep
<1>4. CASE ReadStep
  <2>1. ASSUME NEW from, NEW to, NEW bits \in SUBSET {"DTR", "RTS", "OUT2"},
               Out("reader", from, to, bits), to \in ReaderAt
        PROVE  TypeOK' /\ WriteOpen'
    <3>1. /\ mcr' \in [Machine -> SUBSET {"DTR", "RTS", "OUT2"}]
          /\ delta' \in [Machine -> BOOLEAN]
          /\ UNCHANGED <<gated, emsi, line, host, prog>>
          /\ pc["reader"] = from /\ pc' = [pc EXCEPT !["reader"] = to]
      BY <1>0, <2>1, OutTypes, Zenon
    <3> QED
      BY <1>0, <2>1, <3>1 DEF TypeOK, WriteOpen, WriterAt, ReaderAt, Machine
  <2>2. CASE Out("reader", "out2", "erbi", {"OUT2"})
    BY <1>0, <2>1, <2>2 DEF ReaderAt
  <2>3. CASE EnableErbi
    BY <1>0, <2>3 DEF EnableErbi, TypeOK, WriteOpen, WriterAt, ReaderAt, Machine
  <2>4. CASE EnableMsi("reader", "ier", "status")
    BY <1>0, <2>4 DEF EnableMsi, TypeOK, WriteOpen, WriterAt, ReaderAt, Machine
  <2>5. CASE ReadStatus
    BY <1>0, <2>5 DEF ReadStatus, TypeOK, WriteOpen, WriterAt, ReaderAt, Machine
  <2>6. ASSUME NEW from, NEW to, to \in ReaderAt, Await("reader", from, to)
        PROVE  TypeOK' /\ WriteOpen'
    BY <1>0, <2>6 DEF Await, TypeOK, WriteOpen, WriterAt, ReaderAt, Machine
  <2>7. ASSUME NEW from, NEW to, to \in ReaderAt, Clear("reader", from, to)
        PROVE  TypeOK' /\ WriteOpen'
    BY <1>0, <2>7 DEF Clear, TypeOK, WriteOpen, WriterAt, ReaderAt, Machine
  <2>8. CASE Out("reader", "rts", "second", {"RTS"})
    BY <1>0, <2>1, <2>8 DEF ReaderAt
  <2>9. CASE TakeByte
    BY <1>0, <2>9 DEF TakeByte, TypeOK, WriteOpen, WriterAt, ReaderAt, Machine
  <2>10. CASE Out("reader", "drop", "first", {})
    BY <1>0, <2>1, <2>10 DEF ReaderAt
  <2> QED
    BY <1>4, <2>2, <2>3, <2>4, <2>5, <2>6, <2>7, <2>8, <2>9, <2>10
    DEF ReadStep, ClearAgain, ReaderAt
<1>5. ASSUME NEW m \in Machine, Kill(m) \/ Handler(m) \/ WorkStep(m)
      PROVE  TypeOK' /\ WriteOpen'
  <2>1. CASE Kill(m)
    BY <1>0, <2>1 DEF Kill, TypeOK, WriteOpen
  <2>2. CASE Handler(m)
    BY <1>0, <2>2 DEF Handler, InputUp, TypeOK, WriteOpen
  <2>3. CASE WorkStart(m)
    BY <1>0, <2>3 DEF WorkStart, TypeOK, WriteOpen
  <2>4. CASE WorkFirst(m)
    BY <1>0, <2>4 DEF WorkFirst, TypeOK, WriteOpen
  <2>5. CASE WorkLook(m)
    BY <1>0, <2>5 DEF WorkLook, TypeOK, WriteOpen
  <2>6. CASE WorkDone(m)
    BY <1>0, <2>6 DEF WorkDone, TypeOK, WriteOpen
  <2> QED
    BY <1>5, <2>1, <2>2, <2>3, <2>4, <2>5, <2>6 DEF WorkStep
<1>6. CASE ByteInterrupt
  BY <1>0, <1>6 DEF ByteInterrupt, TypeOK, WriteOpen
<1>7. CASE UNCHANGED vars
  BY <1>0, <1>7 DEF vars, TypeOK, WriteOpen
<1> QED
  BY <1>1, <1>2, <1>3, <1>4, <1>5, <1>6, <1>7 DEF Next

-----------------------------------------------------------------------------
(***************************************************************************)
(* The inductive invariant.  The news that its input went up is on its way *)
(* to a program as an interrupt to come, a queued work item, a work        *)
(* function that runs, or the flag; it is in one of these places only, as  *)
(* a second notice would let the program through a wait it has not earned. *)
(***************************************************************************)
Edge(m) == delta[m] /\ InputUp(m)
Due(m) == Edge(m) \/ queued[m] \/ work[m] # "off" \/ flag[m]

OneNotice(m) ==
    /\ Edge(m) => ~queued[m] /\ work[m] = "off" /\ ~flag[m]
    /\ queued[m] => work[m] = "off" /\ ~flag[m]
    /\ work[m] # "off" => ~flag[m]

\* And only one program has news at a time.  The reader's: the writer has raised
\* DTR and waits.  The writer's: the reader has raised RTS and waits a second
\* time, its port empty until the byte is sent.
Turns ==
    /\ Due("reader") => pc["writer"] = "wait" /\ InputUp("reader") /\ ~Due("writer")
    /\ Due("writer") => /\ pc["reader"] = "second" /\ InputUp("writer")
                        /\ pc["writer"] \in {"wait", "send", "drop", "reset"}
    /\ Due("writer") /\ pc["writer"] \in {"wait", "send"} => ~fresh
    /\ pc["writer"] \in {"send", "drop", "reset"} => flag["writer"]
    /\ pc["reader"] = "clear1" => flag["reader"]
    /\ pc["reader"] = "rts" => pc["writer"] = "wait" /\ InputUp("reader") /\ ~Due("reader")
    /\ pc["reader"] \in {"ier", "status", "first", "clear1", "rts", "drop"} => ~fresh
    /\ pc["reader"] = "clear2" /\ TakeFirst => ~fresh

Handshake == OneNotice("writer") /\ OneNotice("reader") /\ Turns

\* Init: no news, and both programs idle.
LEMMA HandshakeInit == Init => Handshake
  BY DEF Init, Handshake, OneNotice, Turns, Edge, Due, Machine

\* What a write to MCR does to the other side: its input is up if a bit of the
\* modem is set, and whether it has noticed a change is left open.
LEMMA WriterOut ==
    ASSUME TypeOK, NEW from, NEW to, NEW bits \in SUBSET {"DTR", "RTS", "OUT2"},
           Out("writer", from, to, bits)
    PROVE  /\ pc["writer"] = from /\ pc'["writer"] = to /\ pc'["reader"] = pc["reader"]
           /\ InputUp("writer")' = InputUp("writer") /\ delta'["writer"] = delta["writer"]
           /\ InputUp("reader")' = (bits \cap {"DTR", "RTS"} # {})
           /\ UNCHANGED <<flag, queued, work, fresh>>
  BY DEF TypeOK, Out, SetMcr, Goto, Machine, Peer, InputUp, Modem, line, host

\* What a write to MCR does to the other side: its input is up if a bit of the
\* modem is set, and whether it has noticed a change is left open.
LEMMA ReaderOut ==
    ASSUME TypeOK, NEW from, NEW to, NEW bits \in SUBSET {"DTR", "RTS", "OUT2"},
           Out("reader", from, to, bits)
    PROVE  /\ pc["reader"] = from /\ pc'["reader"] = to /\ pc'["writer"] = pc["writer"]
           /\ InputUp("reader")' = InputUp("reader") /\ delta'["reader"] = delta["reader"]
           /\ InputUp("writer")' = (bits \cap {"DTR", "RTS"} # {})
           /\ UNCHANGED <<flag, queued, work, fresh>>
  BY DEF TypeOK, Out, SetMcr, Goto, Machine, Peer, InputUp, Modem, line, host

\* No step of a program, a handler or a work function gives a second notice or
\* breaks the turns.
LEMMA HandshakeStep ==
    ASSUME TypeOK, Handshake, killed' = {}, ~stale', [Next]_vars
    PROVE  Handshake'
<1>0. /\ Handshake
      /\ pc \in [Machine -> WriterAt \cup ReaderAt] /\ flag \in [Machine -> BOOLEAN]
      /\ delta \in [Machine -> BOOLEAN] /\ queued \in [Machine -> BOOLEAN]
      /\ work \in [Machine -> {"off", "first", "look", "up"}] /\ fresh \in BOOLEAN
      /\ "writer" \in Machine /\ "reader" \in Machine /\ "writer" # "reader"
      /\ killed' = {} /\ ~stale'
  BY DEF TypeOK, Machine
<1> USE DEF Handshake, OneNotice, Turns, Edge, Due, Goto
<1>1. CASE WriteCall
  <2>1. /\ InputUp("writer")' = InputUp("writer") /\ InputUp("reader")' = InputUp("reader")
        /\ UNCHANGED <<delta, queued, work, fresh>>
    BY <1>1 DEF WriteCall, Called, InputUp, Modem, line, port
  <2> QED
    BY <1>0, <1>1, <2>1 DEF WriteCall, Called
<1>2. CASE ReadCall
  <2>1. /\ InputUp("writer")' = InputUp("writer") /\ InputUp("reader")' = InputUp("reader")
        /\ UNCHANGED <<delta, queued, work, fresh>>
    BY <1>2 DEF ReadCall, Called, InputUp, Modem, line, port
  <2> QED
    BY <1>0, <1>2, <2>1 DEF ReadCall, Called
<1>3. CASE WriteStep
  <2>1. CASE Out("writer", "out2", "ier", {"OUT2"})
    <3>1. {"OUT2"} \in SUBSET {"DTR", "RTS", "OUT2"} /\ {"OUT2"} \cap {"DTR", "RTS"} = {}
      OBVIOUS
    <3>2. /\ pc["writer"] = "out2" /\ pc'["writer"] = "ier" /\ pc'["reader"] = pc["reader"]
          /\ InputUp("writer")' = InputUp("writer") /\ delta'["writer"] = delta["writer"]
          /\ ~InputUp("reader")'
          /\ UNCHANGED <<flag, queued, work, fresh>>
      BY <2>1, <3>1, WriterOut
    <3> QED
      BY <1>0, <3>2
  <2>2. CASE EnableMsi("writer", "ier", "loop")
    BY <1>0, <2>2 DEF EnableMsi, InputUp, Modem, line, host
  <2>3. CASE RaiseDtr
    <3>1. {"DTR"} \in SUBSET {"DTR", "RTS", "OUT2"} /\ {"DTR"} \cap {"DTR", "RTS"} # {}
      OBVIOUS
    <3>2. /\ pc["writer"] = "loop" /\ pc'["writer"] = "wait" /\ pc'["reader"] = pc["reader"]
          /\ InputUp("writer")' = InputUp("writer") /\ delta'["writer"] = delta["writer"]
          /\ InputUp("reader")'
          /\ UNCHANGED <<flag, queued, work, fresh>>
      BY <2>3, <3>1, WriterOut DEF RaiseDtr
    <3> QED
      BY <1>0, <3>2
  <2>4. CASE Await("writer", "wait", "send")
    BY <1>0, <2>4 DEF Await, InputUp, Modem, line, port, host, prog
  <2>5. CASE SendByte
    BY <1>0, <2>5 DEF SendByte, InputUp, Modem, port, host
  <2>6. CASE Out("writer", "drop", "reset", {})
    <3>1. {} \in SUBSET {"DTR", "RTS", "OUT2"} /\ {} \cap {"DTR", "RTS"} = {}
      OBVIOUS
    <3>2. /\ pc["writer"] = "drop" /\ pc'["writer"] = "reset" /\ pc'["reader"] = pc["reader"]
          /\ InputUp("writer")' = InputUp("writer") /\ delta'["writer"] = delta["writer"]
          /\ ~InputUp("reader")'
          /\ UNCHANGED <<flag, queued, work, fresh>>
      BY <2>6, <3>1, WriterOut
    <3> QED
      BY <1>0, <3>2
  <2>7. CASE NextByte
    BY <1>0, <2>7 DEF NextByte, InputUp, Modem, port, line
  <2>8. CASE WriteReturn
    BY <1>0, <2>8 DEF WriteReturn, InputUp, Modem, port, line, host
  <2> QED
    BY <1>3, <2>1, <2>2, <2>3, <2>4, <2>5, <2>6, <2>7, <2>8 DEF WriteStep
<1>4. CASE ReadStep
  <2>1. CASE Out("reader", "out2", "erbi", {"OUT2"})
    <3>1. {"OUT2"} \in SUBSET {"DTR", "RTS", "OUT2"} /\ {"OUT2"} \cap {"DTR", "RTS"} = {}
      OBVIOUS
    <3>2. /\ pc["reader"] = "out2" /\ pc'["reader"] = "erbi" /\ pc'["writer"] = pc["writer"]
          /\ InputUp("reader")' = InputUp("reader") /\ delta'["reader"] = delta["reader"]
          /\ ~InputUp("writer")'
          /\ UNCHANGED <<flag, queued, work, fresh>>
      BY <2>1, <3>1, ReaderOut
    <3> QED
      BY <1>0, <3>2
  <2>2. CASE EnableErbi
    BY <1>0, <2>2 DEF EnableErbi, InputUp, Modem, line, host
  <2>3. CASE EnableMsi("reader", "ier", "status")
    BY <1>0, <2>3 DEF EnableMsi, InputUp, Modem, line, host
  <2>4. CASE ReadStatus
    BY <1>0, <2>4 DEF ReadStatus, InputUp, Modem, line, host
  <2>5. CASE Await("reader", "first", "clear1")
    BY <1>0, <2>5 DEF Await, InputUp, Modem, line, port, host, prog
  <2>6. CASE Clear("reader", "clear1", "rts")
    BY <1>0, <2>6 DEF Clear, InputUp, Modem, line, port
  <2>7. CASE Out("reader", "rts", "second", {"RTS"})
    <3>1. {"RTS"} \in SUBSET {"DTR", "RTS", "OUT2"} /\ {"RTS"} \cap {"DTR", "RTS"} # {}
      OBVIOUS
    <3>2. /\ pc["reader"] = "rts" /\ pc'["reader"] = "second" /\ pc'["writer"] = pc["writer"]
          /\ InputUp("reader")' = InputUp("reader") /\ delta'["reader"] = delta["reader"]
          /\ InputUp("writer")'
          /\ UNCHANGED <<flag, queued, work, fresh>>
      BY <2>7, <3>1, ReaderOut
    <3> QED
      BY <1>0, <3>2
  <2>8. CASE Await("reader", "second", IF TakeFirst THEN "take" ELSE "clear2")
    BY <1>0, <2>8 DEF Await, InputUp, Modem, line, port, host, prog
  <2>9. CASE TakeByte
    BY <1>0, <2>9 DEF TakeByte, InputUp, Modem, port, host
  <2>10. CASE ClearAgain
    BY <1>0, <2>10 DEF ClearAgain, Clear, InputUp, Modem, port, line
  <2>11. CASE Out("reader", "drop", "first", {})
    <3>1. {} \in SUBSET {"DTR", "RTS", "OUT2"} /\ {} \cap {"DTR", "RTS"} = {}
      OBVIOUS
    <3>2. /\ pc["reader"] = "drop" /\ pc'["reader"] = "first" /\ pc'["writer"] = pc["writer"]
          /\ InputUp("reader")' = InputUp("reader") /\ delta'["reader"] = delta["reader"]
          /\ ~InputUp("writer")'
          /\ UNCHANGED <<flag, queued, work, fresh>>
      BY <2>11, <3>1, ReaderOut
    <3> QED
      BY <1>0, <3>2
  <2> QED
    BY <1>4, <2>1, <2>2, <2>3, <2>4, <2>5, <2>6, <2>7, <2>8, <2>9, <2>10, <2>11 DEF ReadStep
<1>5. ASSUME NEW m \in Machine, Handler(m) \/ WorkStep(m)
      PROVE  Handshake'
  <2>0. /\ InputUp("writer")' = InputUp("writer") /\ InputUp("reader")' = InputUp("reader")
        /\ UNCHANGED <<pc, fresh>>
    BY <1>5 DEF Handler, WorkStep, WorkStart, WorkFirst, WorkLook, WorkDone, InputUp, Modem, line, port
  <2>1. CASE Handler(m)
    BY <1>0, <2>0, <2>1 DEF Handler, Machine
  <2>2. CASE WorkStart(m)
    BY <1>0, <2>0, <2>2 DEF WorkStart, port, Machine
  <2>3. CASE WorkFirst(m)
    BY <1>0, <2>0, <2>3 DEF WorkFirst, Machine
  <2>4. CASE WorkLook(m)
    BY <1>0, <2>0, <2>4 DEF WorkLook, Machine
  <2>5. CASE WorkDone(m)
    BY <1>0, <2>0, <2>5 DEF WorkDone, port, Machine
  <2> QED
    BY <1>5, <2>1, <2>2, <2>3, <2>4, <2>5 DEF WorkStep
<1>6. ASSUME NEW m \in Machine, Kill(m)
      PROVE  Handshake'
  BY <1>0, <1>6 DEF Kill
<1>7. CASE ByteInterrupt
  BY <1>0, <1>7 DEF ByteInterrupt
<1>8. CASE UNCHANGED vars
  BY <1>0, <1>8 DEF vars, port, line, host, InputUp, Modem
<1> QED
  BY <1>1, <1>2, <1>3, <1>4, <1>5, <1>6, <1>7, <1>8 DEF Next

\* A program that was killed stays so, and so does a read that began too late.
LEMMA NothingForgiven ==
    ASSUME [Next]_vars, killed' = {}, ~stale'
    PROVE  killed = {} /\ ~stale
<1>1. UNCHANGED <<killed, stale>> \/ EnableErbi \/ ByteInterrupt \/ \E m \in Machine : Kill(m)
  BY DEF Next, WriteCall, ReadCall, WriteStep, ReadStep, WorkStep, Called, Out, Clear, Await,
         EnableMsi, RaiseDtr, SendByte, NextByte, WriteReturn, ReadStatus, TakeByte, ClearAgain,
         Handler, WorkStart, WorkFirst, WorkLook, WorkDone, vars, prog
<1>2. CASE EnableErbi \/ ByteInterrupt
  BY <1>2 DEF EnableErbi, ByteInterrupt
<1>3. CASE \E m \in Machine : Kill(m)
  BY <1>3 DEF Kill
<1> QED
  BY <1>1, <1>2, <1>3

-----------------------------------------------------------------------------
\* Signals and late reads are left out: their waits end without news.
Undisturbed == killed = {} /\ ~stale => Handshake

(***************************************************************************)
(* The drivers' and the programs' variables are typed, killed or not; the  *)
(* write never counts past the message.                                    *)
(***************************************************************************)
THEOREM IrqTyped == Spec => []TypeOK
<1>1. Init => TypeOK /\ WriteOpen
  <2> SUFFICES ASSUME Init PROVE TypeOK /\ WriteOpen
    OBVIOUS
  <2>1. mcr \in [Machine -> SUBSET {"DTR", "RTS", "OUT2"}] /\ gated \in BOOLEAN
    BY IrqAssumption DEF Init
  <2>2. pc["writer"] = "idle" /\ pc["reader"] = "idle" /\ pc \in [Machine -> WriterAt \cup ReaderAt]
    BY DEF Init, Machine, WriterAt, ReaderAt
  <2>3. 0 \in 0 .. Size /\ runs \in [Machine -> 0 .. Runs]
    BY IrqAssumption DEF Init
  <2> QED
    BY <2>1, <2>2, <2>3 DEF Init, TypeOK, WriteOpen, WriterAt, ReaderAt
<1>2. TypeOK /\ WriteOpen /\ [Next]_vars => TypeOK' /\ WriteOpen'
  BY TypeStep
<1> QED
  BY <1>1, <1>2, PTL DEF Spec

(***************************************************************************)
(* Each edge of a modem line is told once, through handler, work and flag, *)
(* and the two programs take turns.                                        *)
(***************************************************************************)
THEOREM TurnsKept == Spec => []Undisturbed
<1>1. Init => Undisturbed
  BY HandshakeInit DEF Undisturbed
<1>2. TypeOK /\ Undisturbed /\ [Next]_vars => Undisturbed'
  <2> SUFFICES ASSUME TypeOK, Undisturbed, [Next]_vars, killed' = {}, ~stale'
               PROVE  Handshake'
    BY DEF Undisturbed
  <2> QED
    BY NothingForgiven, HandshakeStep DEF Undisturbed
<1> QED
  BY <1>1, <1>2, IrqTyped, PTL DEF Spec

(***************************************************************************)
(* serialport_write sends no byte over one that serialport_read has not    *)
(* taken.                                                                  *)
(***************************************************************************)
THEOREM NoOverrunHolds == Spec => NoOverrun
<1>1. Undisturbed /\ [Next]_vars
        => [killed = {} /\ ~stale /\ pc["writer"] = "send" /\ pc["writer"]' # "send" => ~fresh]_vars
  BY DEF Undisturbed, Handshake, Turns, Due
<1> QED
  BY <1>1, TurnsKept, PTL DEF Spec, NoOverrun
=============================================================================
