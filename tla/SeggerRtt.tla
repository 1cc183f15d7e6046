------------------------------ MODULE SeggerRtt ------------------------------
(***************************************************************************)
(* An up-buffer of SEGGER RTT (src/APP/SEGGER/SEGGER_RTT.c), the channel   *)
(* behind printf (fputc in src/Public/usart.c): firmware writes a ring in  *)
(* RAM, a debug probe reads it while the processor runs.                   *)
(*                                                                         *)
(* The firmware side has two contexts.  "isr" preempts "main" except where *)
(* SEGGER_RTT_LOCK masks it, and main does not run before it has returned. *)
(* The probe is never masked: it can read or move RdOff between any two    *)
(* steps.  A write therefore is: the INIT test, the decision under the     *)
(* lock, then for every chunk a look at RdOff, the copy and the new WrOff. *)
(***************************************************************************)
EXTENDS Integers, Sequences, FiniteSets

CONSTANTS
    Size,        \* SizeOfBuffer; one byte of it stays unused
    Terminal,    \* terminal ids
    MaxLen,      \* bound: longest string of a call
    PrintfSize,  \* SEGGER_RTT_PRINTF_BUFFER_SIZE
    Serials,     \* bound: text bytes are numbered modulo this
    IsrOp,       \* the calls interrupts make
    EarlyIsr     \* may an interrupt make the first call of all?

ASSUME RttSizeAssumption ==
    /\ Size \in Nat /\ Size >= 2
    /\ 0 \in Terminal
    /\ MaxLen \in Nat \ {0} /\ PrintfSize \in Nat \ {0} /\ Serials \in Nat \ {0}
    /\ EarlyIsr \in BOOLEAN

Ctx    == {"main", "isr"}
Mode   == {"skip", "trim", "block"}
Offset == 0..(Size - 1)

(* A byte: text meant for terminal t (n tells bytes apart), or one half of *)
(* the pair 0xFF, id that makes the host switch to terminal t.             *)
Byte == [k : {"text", "esc", "id", "stale"}, n : 0..(Serials - 1), t : Terminal]
Stale == [k |-> "stale", n |-> 0, t |-> 0]
Switch(t) == <<[k |-> "esc", n |-> 0, t |-> 0], [k |-> "id", n |-> 0, t |-> t]>>

VARIABLES
    buf, wr, rd,    \* the ring: memory, WrOff, RdOff
    flags,          \* its mode
    ready,          \* acID[0] = 'S'
    active,         \* _ActiveTerminal
    call,           \* per context, the call in progress and its locals
    host,           \* the reader: its copies of RdOff and WrOff, its data
    pending,        \* history: bytes accepted and not yet taken by the host
    serial, shown   \* history: the next byte's number, the host's terminal

ring == <<buf, wr, rd>>
hist == <<pending, serial, shown>>
vars == <<buf, wr, rd, flags, ready, active, call, host, pending, serial, shown>>

Op == {"write", "skip", "putchar", "setterm", "termout", "printf"}
Pc == {"idle", "reset", "ident", "enter", "spin", "chunk", "copy", "publish"}
Idle == [op |-> "write", pc |-> "idle", t |-> 0, left |-> 0, segs |-> <<>>, n |-> 0,
         blk |-> FALSE]
Resting == [pc |-> "idle", rd |-> 0, wr |-> 0, max |-> 0]

Call == [op : Op, pc : Pc, t : Terminal, left : 0..MaxLen, segs : Seq(Seq(Byte)),
         n : 0..(Size - 1), blk : BOOLEAN]

TypeOK ==
    /\ buf \in [Offset -> Byte]
    /\ wr \in Offset /\ rd \in Offset
    /\ flags \in Mode /\ ready \in BOOLEAN /\ active \in Terminal
    /\ call \in [Ctx -> Call]
    /\ host \in [pc : {"idle", "take"}, rd : Offset, wr : Offset, max : 0..MaxLen]
    /\ pending \in Seq(Byte) /\ serial \in 0..(Serials - 1) /\ shown \in Terminal

Lesser(a, b) == IF a < b THEN a ELSE b

-----------------------------------------------------------------------------
(* The ring *)

(* Offset o moved on by n, at most once past the end.                     *)
WrapLate(o) == IF o > Size THEN o - Size ELSE o    \* mutant: off by one
Wrap(o) == IF o >= Size THEN o - Size ELSE o

(* _GetAvailWriteSpace.                                                   *)
AvailFull(r, w) == IF r <= w THEN Size - w + r ELSE r - w    \* mutant: all of it
Avail(r, w) == IF r <= w THEN Size - 1 - w + r ELSE r - w - 1

(* What _WriteBlocking can copy at once, with w not yet published beyond.  *)
Chunk(r, w, left) ==
    LET room == IF r > w THEN r - w - 1 ELSE Size - (w - r + 1)
    IN  Lesser(Lesser(room, Size - w), left)

SkipFitsExactly(r, w, n) ==    \* mutant: the unused byte is used after a wrap
    IF r <= w THEN Size - w - 1 >= n \/ Size - w + r >= n
              ELSE r - w - 1 >= n
(* Does WriteSkip find room?  Before the end, around it, or up to RdOff.   *)
SkipFits(r, w, n) ==
    IF r <= w THEN Size - w - 1 >= n \/ Size - w - 1 + r >= n
              ELSE r - w - 1 >= n

Stored(b, o, data) ==
    [x \in Offset |->
        LET i == IF x >= o THEN x - o + 1 ELSE x + Size - o + 1
        IN  IF i <= Len(data) THEN data[i] ELSE b[x]]

(* Bytes from offset r up to w, at most m of them.                        *)
Distance(r, w) == IF r <= w THEN w - r ELSE Size - r + w
Fetch(b, r, w, m) ==
    [i \in 1..Lesser(Distance(r, w), m) |-> b[Wrap(r + i - 1)]]

-----------------------------------------------------------------------------
(* Contexts *)

LockedBetween(c) ==    \* mutant: the lock is let go between the chunks of a write
    call[c].pc \in {"spin", "copy", "publish"}
Locked(c)   == call[c].pc \in {"spin", "chunk", "copy", "publish"}
Running(c)  == c = "main" => call["isr"].pc = "idle"
At(c, pc)   == call[c].pc = pc /\ Running(c)
Become(c, f) == call' = [call EXCEPT ![c] = f]
Goto(c, pc) == Become(c, [call[c] EXCEPT !.pc = pc])

(* A call: SEGGER_RTT_Write and WriteString, WriteSkipNoLock under its     *)
(* caller's lock, PutChar, SetTerminal, TerminalOut, printf.               *)
Start(c) ==
    /\ call[c].pc = "idle"
    /\ Running(c)
    /\ c = "isr" => ~Locked("main") /\ (ready \/ EarlyIsr)
    /\ \E op \in Op, t \in Terminal, len \in 1..MaxLen :
          /\ op \notin {"setterm", "termout"} => t = 0
          /\ op \in {"putchar", "setterm"} => len = 1
          /\ op = "skip" => ready          \* "may only be called after RTT has been initialized"
          /\ c = "isr" => op \in IsrOp
          /\ Become(c, [Idle EXCEPT !.op = op, !.t = t, !.left = len,
                                    !.pc = IF ready THEN "enter" ELSE "reset"])
    /\ UNCHANGED <<ring, flags, ready, active, host, hist>>

(* SEGGER_RTT_SetFlagsUpBuffer: one store under the lock.                  *)
SetFlags ==
    /\ At("main", "idle") /\ ready
    /\ \E m \in Mode \ {flags} : flags' = m
    /\ UNCHANGED <<ring, ready, active, call, host, hist>>

DoInit(c) ==
    /\ At(c, "reset")
    /\ ready' = FALSE
    /\ wr' = 0 /\ rd' = 0
    /\ flags' = "trim"
    /\ Goto(c, "ident")
    /\ UNCHANGED <<buf, active, host, hist>>

DoInitIdent(c) ==
    /\ At(c, "ident")
    /\ ready' = TRUE
    /\ Goto(c, "enter")
    /\ UNCHANGED <<ring, flags, active, host, hist>>

-----------------------------------------------------------------------------
(* The decision under the lock *)

Text(t, len) == [i \in 1..len |-> [k |-> "text", n |-> (serial + i) % Serials, t |-> t]]

(* What the call returns to when `done' of its bytes are stored: only      *)
(* printf has more to do, unless a full buffer could not be written.       *)
Portion(c) == IF call[c].op = "printf" THEN Lesser(call[c].left, PrintfSize) ELSE call[c].left
After(c, done) ==
    LET f == call[c] IN
    IF f.op = "printf" /\ done = Portion(c) /\ f.left > done
    THEN [Idle EXCEPT !.op = "printf", !.left = f.left - done, !.pc = "enter"]
    ELSE Idle

(* _WriteNoCheck of the whole of data, or nothing at all.                  *)
NoCheck(c, data) == Become(c, [call[c] EXCEPT !.pc = "copy", !.segs = <<data>>,
                                              !.n = Len(data), !.blk = FALSE])
Blocking(c, segs) == Become(c, [call[c] EXCEPT !.pc = "chunk", !.segs = segs, !.blk = TRUE])
GiveUp(c) == Become(c, After(c, 0))

(* WriteNoLock, by mode.                                                  *)
EnterWrite(c) ==
    /\ At(c, "enter") /\ call[c].op \in {"write", "printf"}
    /\ LET data == Text(active, Portion(c))
           a    == Avail(rd, wr)
       IN  CASE flags = "skip" -> IF a < Len(data) THEN GiveUp(c) ELSE NoCheck(c, data)
             [] flags = "trim" -> NoCheck(c, SubSeq(data, 1, Lesser(a, Len(data))))
             [] flags = "block" -> Blocking(c, <<data>>)
    /\ UNCHANGED <<ring, flags, ready, active, host, hist>>

EnterSkip(c) ==
    /\ At(c, "enter") /\ call[c].op = "skip"
    /\ IF SkipFits(rd, wr, call[c].left)
       THEN NoCheck(c, Text(active, call[c].left)) ELSE GiveUp(c)
    /\ UNCHANGED <<ring, flags, ready, active, host, hist>>

(* PutChar waits under the lock in blocking mode.                         *)
EnterPutChar(c) ==
    /\ At(c, "enter") /\ call[c].op = "putchar"
    /\ IF flags = "block" THEN Goto(c, "spin")
       ELSE IF Wrap(wr + 1) # rd THEN NoCheck(c, Text(active, 1)) ELSE GiveUp(c)
    /\ UNCHANGED <<ring, flags, ready, active, host, hist>>

SpinPutCharOnEmpty(c) ==    \* mutant: waits for data, not for room
    /\ At(c, "spin")
    /\ wr # rd
    /\ NoCheck(c, Text(active, 1))
    /\ UNCHANGED <<ring, flags, ready, active, host, hist>>

SpinPutChar(c) ==
    /\ At(c, "spin")
    /\ Wrap(wr + 1) # rd
    /\ NoCheck(c, Text(active, 1))
    /\ UNCHANGED <<ring, flags, ready, active, host, hist>>

(* SetTerminal changes the terminal only if the pair fits.                *)
EnterSetTerminal(c) ==
    /\ At(c, "enter") /\ call[c].op = "setterm"
    /\ LET t == call[c].t IN
          \/ flags = "block" /\ active' = t /\ Blocking(c, <<Switch(t)>>)
          \/ flags # "block" /\ Avail(rd, wr) >= 2 /\ active' = t /\ NoCheck(c, Switch(t))
          \/ flags # "block" /\ Avail(rd, wr) < 2 /\ GiveUp(c) /\ UNCHANGED active
    /\ UNCHANGED <<ring, flags, ready, host, hist>>

(* TerminalOut: the switch, the string, the switch back.                  *)
Tagged(c, len) == <<Switch(call[c].t), Text(call[c].t, len), Switch(active)>>
EnterTerminalOutTrim3(c) ==    \* mutant: one byte is reserved too few
    /\ At(c, "enter") /\ call[c].op = "termout"
    /\ LET a == Avail(rd, wr)
           l == call[c].left
       IN  CASE flags = "skip" -> IF a < l + 4 THEN GiveUp(c) ELSE Blocking(c, Tagged(c, l))
             [] flags = "trim" -> IF a < 4 THEN GiveUp(c)
                                  ELSE Blocking(c, Tagged(c, Lesser(l, a - 3)))
             [] flags = "block" -> Blocking(c, Tagged(c, l))
    /\ UNCHANGED <<ring, flags, ready, active, host, hist>>

EnterTerminalOut(c) ==
    /\ At(c, "enter") /\ call[c].op = "termout"
    /\ LET a == Avail(rd, wr)
           l == call[c].left
       IN  CASE flags = "skip" -> IF a < l + 4 THEN GiveUp(c) ELSE Blocking(c, Tagged(c, l))
             [] flags = "trim" -> IF a < 4 THEN GiveUp(c)
                                  ELSE Blocking(c, Tagged(c, Lesser(l, a - 4)))
             [] flags = "block" -> Blocking(c, Tagged(c, l))
    /\ UNCHANGED <<ring, flags, ready, active, host, hist>>

-----------------------------------------------------------------------------
(* Copying *)

(* One look at RdOff.  A round that finds no room only stores the old      *)
(* WrOff again, so it is not a step.                                       *)
BlockingChunk(c) ==
    /\ At(c, "chunk")
    /\ LET seg == Head(call[c].segs)
           n   == Chunk(rd, wr, Len(seg))
       IN  /\ n > 0 \/ seg = <<>>
           /\ Become(c, [call[c] EXCEPT !.pc = "copy", !.n = n])
    /\ UNCHANGED <<ring, flags, ready, active, host, hist>>

Copy(c) ==
    /\ At(c, "copy")
    /\ buf' = Stored(buf, wr, SubSeq(Head(call[c].segs), 1, call[c].n))
    /\ Goto(c, "publish")
    /\ UNCHANGED <<wr, rd, flags, ready, active, host, hist>>

Publish(c) ==
    /\ At(c, "publish")
    /\ LET f    == call[c]
           seg  == Head(f.segs)
           done == SubSeq(seg, 1, f.n)
           rest == SubSeq(seg, f.n + 1, Len(seg))
           segs == IF rest = <<>> THEN Tail(f.segs) ELSE <<rest>> \o Tail(f.segs)
       IN  /\ wr' = Wrap(wr + f.n)
           /\ pending' = pending \o done
           /\ serial' = (serial + Cardinality({i \in 1..f.n : seg[i].k = "text"})) % Serials
           /\ Become(c, IF segs = <<>> THEN After(c, IF f.blk THEN Portion(c) ELSE f.n)
                        ELSE [f EXCEPT !.pc = "chunk", !.segs = segs])
    /\ UNCHANGED <<buf, rd, flags, ready, active, host, shown>>

-----------------------------------------------------------------------------
(* The terminal the host is on after some bytes.                          *)
ShownAfter(t, bytes) ==
    LET ids == {j \in 1..Len(bytes) : bytes[j].k = "id"}
    IN  IF ids = {} THEN t ELSE bytes[CHOOSE j \in ids : \A x \in ids : x <= j].t

(* The reader: ReadUpBufferNoLock, "the same operation that J-Link does":  *)
(* one look at both offsets, the bytes up to the end and from the start,   *)
(* then the new RdOff.  (A byte once acknowledged is forgotten, so that    *)
(* reading it again would show.)                                           *)
HostLook ==
    /\ host.pc = "idle" /\ ready /\ rd # wr
    /\ \E m \in 1..MaxLen :
          host' = [Resting EXCEPT !.pc = "take", !.rd = rd, !.wr = wr, !.max = m]
    /\ UNCHANGED <<ring, flags, ready, active, call, hist>>

HostTake ==
    /\ host.pc = "take"
    /\ LET data == Fetch(buf, host.rd, host.wr, host.max)
           gone == {Wrap(host.rd + i - 1) : i \in 1..Len(data)}
       IN  /\ rd' = Wrap(host.rd + Len(data))
           /\ buf' = [x \in Offset |-> IF x \in gone THEN Stale ELSE buf[x]]
           /\ pending' = SubSeq(pending, Len(data) + 1, Len(pending))
           /\ shown' = ShownAfter(shown, data)
    /\ host' = Resting
    /\ UNCHANGED <<wr, flags, ready, active, call, serial>>

-----------------------------------------------------------------------------
Init ==
    /\ buf = [x \in Offset |-> Stale]
    /\ wr = 0 /\ rd = 0
    /\ flags = "trim"
    /\ ready = FALSE
    /\ active = 0
    /\ call = [c \in Ctx |-> Idle]
    /\ host = Resting
    /\ pending = <<>> /\ serial = 0 /\ shown = 0

Step(c) ==
    \/ DoInit(c) \/ DoInitIdent(c)
    \/ EnterWrite(c) \/ EnterSkip(c) \/ EnterPutChar(c) \/ SpinPutChar(c)
    \/ EnterSetTerminal(c) \/ EnterTerminalOut(c)
    \/ BlockingChunk(c) \/ Copy(c) \/ Publish(c)
Host == HostLook \/ HostTake

Next == SetFlags \/ Host \/ \E c \in Ctx : Start(c) \/ Step(c)

Spec == Init /\ [][Next]_vars

-----------------------------------------------------------------------------
(* Properties *)

(* The ring holds exactly the accepted bytes the host has not taken, in    *)
(* the order in which they were accepted, and what a host that looked a    *)
(* while ago takes is the front of them, however its reads fall between    *)
(* the copies and the offset updates of the writers.  With EarlyIsr this   *)
(* fails: INIT tests before the lock is taken, so an interrupt can         *)
(* initialise the ring and write between main's test and its _DoInit,      *)
(* which then discards the bytes.                                          *)
HostSeesStream ==
    /\ pending = Fetch(buf, rd, wr, Size)
    /\ host.pc = "take" =>
          LET data == Fetch(buf, host.rd, host.wr, host.max)
          IN  data = SubSeq(pending, 1, Len(data))

(* Every text byte is shown on the terminal it was written for, and a      *)
(* terminal id always follows its escape byte, although main program and   *)
(* interrupts share _ActiveTerminal, either may switch terminals between   *)
(* any two calls of the other, and the modes cut writes short.             *)
RightTerminal ==
    \A i \in 1..Len(pending) :
        /\ pending[i].k = "text" => pending[i].t = ShownAfter(shown, SubSeq(pending, 1, i))
        /\ pending[i].k = "id" /\ i > 1 => pending[i - 1].k = "esc"

(* A writer that looked at RdOff once never copies over bytes the host has *)
(* not acknowledged.                                                       *)
CopyFits ==
    \A c \in Ctx : call[c].pc \in {"copy", "publish"} => call[c].n <= Avail(rd, wr)

(* In the modes that must not block nothing ever waits for the host, and   *)
(* TerminalOut, which uses the blocking write there too, has made sure of  *)
(* its room.                                                               *)
NonBlocking ==
    \A c \in Ctx : At(c, "chunk") /\ flags # "block" /\ Head(call[c].segs) # <<>>
                      => Len(Head(call[c].segs)) <= Avail(rd, wr)

(* In blocking mode a call waits, with interrupts masked, only while the   *)
(* host has bytes to take: it never waits for an empty ring.               *)
WaitsOnlyForHost ==
    \A c \in Ctx : call[c].pc \in {"chunk", "spin"} /\ rd = wr => ENABLED Step(c)

(* The state without what nobody reads any more: a call that is copying,   *)
(* unless it is a printf with more to come, needs only its segments, and   *)
(* of its copies of the offsets the host needs what it is about to take.   *)
Needed(c) ==
    IF call[c].pc \in {"chunk", "copy", "publish"} /\ After(c, Portion(c)) = Idle
    THEN <<call[c].pc, call[c].segs, call[c].n, call[c].blk>>
    ELSE call[c]
Taking == IF host.pc = "idle" THEN <<>> ELSE Fetch(buf, host.rd, host.wr, host.max)
Memory == <<ring, flags, ready, active, Needed("main"), Needed("isr"), host.rd, Taking, hist>>
=============================================================================
