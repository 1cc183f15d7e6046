----------------------------- MODULE SystemView -----------------------------
(***************************************************************************)
(* SEGGER SystemView's recorder (src/APP/SEGGER/SEGGER_SYSVIEW.c): events  *)
(* are encoded and stored in an up-buffer of RTT that skips what does not  *)
(* fit; the host starts, stops and asks through a down-buffer.             *)
(*                                                                         *)
(* Two contexts record.  "isr" preempts "main" except under                *)
(* SEGGER_SYSVIEW_LOCK.  todo[c] is the work context c has left, its head  *)
(* first: a call replaces itself by the steps it consists of, so nested    *)
(* calls need no further bookkeeping.  The host reads and sends between    *)
(* any two steps.                                                          *)
(*                                                                         *)
(* The up-buffer is a FIFO that stores a packet whole or not at all        *)
(* (SeggerRtt), so only the number of bytes in it matters; what the host   *)
(* will make of the stream is kept in history variables.                   *)
(***************************************************************************)
EXTENDS Integers, Sequences, FiniteSets

CONSTANTS
    UpSize,       \* bytes the up-buffer holds
    PacketBytes,  \* sizes of packets: payloads and deltas vary
    SyncBytes,    \* size of the sync sequence
    DownSize,     \* SizeOfBuffer of the down-buffer
    Command,      \* bound: the command ids the host sends
    Mask,         \* bound: the sets of kinds of events that are disabled
    ModuleId,     \* bound: the parameters of GET_MODULE
    MaxModules,   \* bound on SEGGER_SYSVIEW_RegisterModule
    TimeMod       \* timestamps are counted modulo this (2^32)

ASSUME SystemViewAssumption ==
    /\ UpSize \in Nat /\ SyncBytes \in Nat \ {0} /\ PacketBytes \subseteq Nat \ {0}
    /\ DownSize \in Nat /\ DownSize >= 2
    /\ Command \subseteq Nat /\ ModuleId \subseteq Nat
    /\ MaxModules \in Nat
    /\ TimeMod \in Nat \ {0}

Ctx == {"main", "isr"}

(* Offsets in the down-buffer: one moved past the end, the bytes from r to *)
(* w, the offset of the i-th of them.                                      *)
DownOffset == 0..(DownSize - 1)
Wrap(o) == IF o >= DownSize THEN o - DownSize ELSE o
Distance(r, w) == IF r <= w THEN w - r ELSE DownSize - r + w

(* Command ids; "heartbeat" and unknown ids have no effect.               *)
START == 1
STOP == 2
GET_SYSTIME == 3
GET_TASKLIST == 4
GET_SYSDESC == 5
GET_NUMMODULES == 6
GET_MODULEDESC == 7
GET_MODULE == 128

OFF == 0
ON == 1
DROPPING == 2

(* What packets are about: "start" and "stop" are the events of Start and  *)
(* Stop, "info" is all that describes the system, "std" every other event  *)
(* of SystemView, "user" an event of a module.  Only the last have ids     *)
(* from 32 on, which cannot be disabled.                                   *)
Event == {"std", "user", "start", "stop", "info"}
Maskable == Event \ {"user"}

ASSUME MaskAssumption == Mask \subseteq SUBSET Maskable

VARIABLES
    used,       \* bytes in the up-buffer
    down,       \* the down-buffer: memory, WrOff, RdOff
    EnableState, RecursionCnt, LastTxTimeStamp, DisabledEvents,
    modules,    \* _NumModules, the length of the list of modules
    todo,       \* per context, the steps left
    now,        \* the time that GET_TIMESTAMP reads
    seen,       \* history: what the host makes of the packets stored so far
    gap,        \* history: since the last packet stored, events were lost
                \* ("open"), and the start event then was masked ("muted")
    asked,      \* history: the last of Start and Stop to begin; a Start that
                \* a Stop still in progress will undo is "undone"
    inbox       \* history: bytes sent by the host and not yet consumed

globals == <<EnableState, RecursionCnt, LastTxTimeStamp, DisabledEvents>>
hist == <<seen, gap, asked, inbox>>
vars == <<used, down, globals, modules, todo, now, hist>>

Kind == {"rec", "send", "overflow", "packet", "poll", "claim", "look", "take", "release",
         "off", "enable", "sync", "stop", "unlock"}
Byte == Command \cup ModuleId
Item == [k : Kind, es : Seq(Event), for : {"command", "module", "skip"},
         byte : Byte \cup {0}, at : DownOffset]

Do(k) == [k |-> k, es |-> <<>>, for |-> "command", byte |-> 0, at |-> 0]
About(k, e) == [Do(k) EXCEPT !.es = <<e>>]

TypeOK ==
    /\ used \in 0..UpSize
    /\ down \in [buf : [DownOffset -> Byte \cup {0}],
                 wr : DownOffset, rd : DownOffset]
    /\ EnableState \in {OFF, ON, DROPPING} /\ RecursionCnt \in {0, 1}
    /\ LastTxTimeStamp \in 0..(TimeMod - 1) /\ now \in 0..(TimeMod - 1)
    /\ DisabledEvents \subseteq Maskable
    /\ modules \in 0..MaxModules
    /\ todo \in [Ctx -> Seq(Item)]
    /\ seen \in [clock : 0..(TimeMod - 1), last : 0..(TimeMod - 1)]
    /\ gap \in {"no", "open", "muted"} /\ asked \in {"start", "stop", "undone"} /\ inbox \in Seq(Byte)

-----------------------------------------------------------------------------
(* Contexts *)

Items(s) == {s[i] : i \in 1..Len(s)}
Locked(c) == \E x \in Items(todo[c]) : x.k = "unlock"
Running(c) == c = "main" => todo["isr"] = <<>>
At(c, k) == todo[c] # <<>> /\ todo[c][1].k = k /\ Running(c)
Becomes(c, steps) == todo' = [todo EXCEPT ![c] = steps \o Tail(todo[c])]
Arg(c) == todo[c][1].es

(* SEGGER_SYSVIEW_Record* and On*, Print and Name*: lock, encode into the  *)
(* static buffer, _SendPacket, unlock.  SendTaskInfo sends two packets.    *)
Rec(es) == [Do("rec") EXCEPT !.es = es]

(* _SendPacket up to its test for a command, by EnableState.               *)
Dispatch(e) ==
    CASE EnableState = ON -> <<About("packet", e), Do("poll")>>
      [] EnableState = OFF -> <<Do("poll")>>
      [] EnableState = DROPPING -> <<About("overflow", e), Do("poll")>>

SystemInfo == <<Rec(<<"info">>), Rec(<<"info">>)>>    \* Init packet, description
SysTime == <<Rec(<<"info">>)>>
TaskList == <<Rec(<<"info", "info">>)>>
NumModules == <<Rec(<<"info">>)>>
ModuleDescriptions == [i \in 1..modules |-> Rec(<<"info">>)]
Start == <<Do("enable"), Do("sync"), Rec(<<"start">>)>>
             \o (SystemInfo \o SysTime \o TaskList \o NumModules)

(* The module's own description, then what its callback sends.             *)
SendModule(id) == IF id < modules THEN <<Rec(<<"info">>), Rec(<<"info">>)>> ELSE <<>>

(* _HandleIncomingPacket.  Ids from 128 on carry a parameter byte.         *)
Handle(cmd) ==
    CASE cmd = START -> Start
      [] cmd = STOP -> <<Do("stop")>>
      [] cmd = GET_SYSTIME -> SysTime
      [] cmd = GET_TASKLIST -> TaskList
      [] cmd = GET_SYSDESC -> SystemInfo
      [] cmd = GET_NUMMODULES -> NumModules
      [] cmd = GET_MODULEDESC -> ModuleDescriptions
      [] cmd = GET_MODULE -> <<[Do("look") EXCEPT !.for = "module"]>>
      [] cmd > GET_MODULE -> <<[Do("look") EXCEPT !.for = "skip"]>>
      [] OTHER -> <<>>

-----------------------------------------------------------------------------
(* Recording *)

Fits(b) == used + b <= UpSize

Record(c) ==
    /\ At(c, "rec")
    /\ Becomes(c, Dispatch(Head(Arg(c)))
                    \o ([i \in 1..(Len(Arg(c)) - 1) |-> About("send", Arg(c)[i + 1])]
                           \o <<Do("unlock")>>))
    /\ UNCHANGED <<used, down, globals, modules, now, hist>>

SendAgain(c) ==
    /\ At(c, "send")
    /\ Becomes(c, Dispatch(Head(Arg(c))))
    /\ UNCHANGED <<used, down, globals, modules, now, hist>>

Unlock(c) ==
    /\ At(c, "unlock")
    /\ Becomes(c, <<>>)
    /\ UNCHANGED <<used, down, globals, modules, now, hist>>

(* A packet with its time delta reaches the buffer: the host will add the  *)
(* delta to its clock.                                                     *)
Store(b) ==
    /\ used' = used + b
    /\ LastTxTimeStamp' = now
    /\ seen' = [clock |-> (seen.clock + (now - LastTxTimeStamp)) % TimeMod, last |-> now]
    /\ gap' = "no"

(* _TrySendOverflowPacket, and _SendPacket's look at what it has left.     *)
(* DropCount, which only goes into that packet, is left out.               *)
TrySendOverflowAnyway(c) ==    \* mutant: EnableState is not looked at again
    /\ At(c, "overflow")
    /\ \E b \in PacketBytes :
          \/ Fits(b) /\ Store(b) /\ EnableState' = EnableState - 1
          \/ ~Fits(b) /\ UNCHANGED <<used, LastTxTimeStamp, seen, gap, EnableState>>
    /\ Becomes(c, <<About("packet", Arg(c)[1])>>)
    /\ UNCHANGED <<down, RecursionCnt, DisabledEvents, modules, now, asked, inbox>>

TrySendOverflow(c) ==
    /\ At(c, "overflow")
    /\ \E b \in PacketBytes :
          \/ /\ Fits(b)
             /\ Store(b)
             /\ EnableState' = EnableState - 1
             /\ Becomes(c, IF EnableState' = ON THEN <<About("packet", Arg(c)[1])>> ELSE <<>>)
          \/ /\ ~Fits(b)
             /\ gap' = IF Arg(c)[1] \in DisabledEvents THEN gap ELSE "open"
             /\ Becomes(c, <<>>)
             /\ UNCHANGED <<used, LastTxTimeStamp, seen, EnableState>>
    /\ UNCHANGED <<down, RecursionCnt, DisabledEvents, modules, now, asked, inbox>>

(* An event that is disabled.  When recording starts, the start event      *)
(* shows the host a gap.                                                   *)
Skipped(e) ==
    /\ e \in DisabledEvents
    /\ gap' = IF e = "start" /\ gap = "open" THEN "muted" ELSE gap
    /\ UNCHANGED <<used, LastTxTimeStamp, seen, EnableState>>

StorePacketLate(c) ==    \* mutant: the time of a lost packet counts as sent
    /\ At(c, "packet")
    /\ Becomes(c, <<>>)
    /\ \/ Skipped(Arg(c)[1])
       \/ Arg(c)[1] \notin DisabledEvents /\ \E b \in PacketBytes :
             \/ Fits(b) /\ Store(b) /\ UNCHANGED EnableState
             \/ /\ ~Fits(b)
                /\ EnableState' = EnableState + 1
                /\ LastTxTimeStamp' = now
                /\ gap' = "open"
                /\ UNCHANGED <<used, seen>>
    /\ UNCHANGED <<down, RecursionCnt, DisabledEvents, modules, now, asked, inbox>>

StorePacketForget(c) ==    \* mutant: a lost packet does not change the state
    /\ At(c, "packet")
    /\ Becomes(c, <<>>)
    /\ \/ Skipped(Arg(c)[1])
       \/ Arg(c)[1] \notin DisabledEvents /\ \E b \in PacketBytes :
             \/ Fits(b) /\ Store(b) /\ UNCHANGED EnableState
             \/ /\ ~Fits(b)
                /\ gap' = "open"
                /\ UNCHANGED <<used, LastTxTimeStamp, seen, EnableState>>
    /\ UNCHANGED <<down, RecursionCnt, DisabledEvents, modules, now, asked, inbox>>

(* The rest of _SendPacket: the packet itself.                             *)
StorePacket(c) ==
    /\ At(c, "packet")
    /\ Becomes(c, <<>>)
    /\ \/ Skipped(Arg(c)[1])
       \/ Arg(c)[1] \notin DisabledEvents /\ \E b \in PacketBytes :
             \/ Fits(b) /\ Store(b) /\ UNCHANGED EnableState
             \/ /\ ~Fits(b)
                /\ EnableState' = EnableState + 1
                /\ gap' = "open"
                /\ UNCHANGED <<used, LastTxTimeStamp, seen>>
    /\ UNCHANGED <<down, RecursionCnt, DisabledEvents, modules, now, asked, inbox>>

-----------------------------------------------------------------------------
(* Start and Stop *)

(* A START of the host that is handled inside a Stop, by the stop event's  *)
(* _SendPacket, is undone by what follows.                                 *)
Enable(c) ==
    /\ At(c, "enable")
    /\ Becomes(c, <<>>)
    /\ EnableState' = ON
    /\ asked' = IF \E x \in Items(todo[c]) : x.k = "off" THEN "undone" ELSE "start"
    /\ gap' = IF gap = "muted" THEN "open" ELSE gap
    /\ UNCHANGED <<used, down, RecursionCnt, LastTxTimeStamp, DisabledEvents,
                   modules, now, seen, inbox>>

Sync(c) ==
    /\ At(c, "sync")
    /\ Becomes(c, <<>>)
    /\ IF Fits(SyncBytes) THEN used' = used + SyncBytes /\ gap' = "no"
       ELSE UNCHANGED <<used, gap>>
    /\ UNCHANGED <<down, globals, modules, now, seen, asked, inbox>>

StopLoudly(c) ==    \* mutant: the state is left on
    /\ At(c, "stop")
    /\ asked' = "stop"
    /\ Becomes(c, IF EnableState = OFF THEN <<>> ELSE Dispatch("stop") \o <<Do("unlock")>>)
    /\ UNCHANGED <<used, down, globals, modules, now, seen, gap, inbox>>

Stop(c) ==
    /\ At(c, "stop")
    /\ asked' = "stop"
    /\ Becomes(c, IF EnableState = OFF THEN <<>>
                  ELSE Dispatch("stop") \o <<Do("off"), Do("unlock")>>)
    /\ UNCHANGED <<used, down, globals, modules, now, seen, gap, inbox>>

SwitchOff(c) ==
    /\ At(c, "off")
    /\ Becomes(c, <<>>)
    /\ EnableState' = OFF
    /\ UNCHANGED <<used, down, RecursionCnt, LastTxTimeStamp, DisabledEvents,
                   modules, now, hist>>

-----------------------------------------------------------------------------
(* Commands *)

(* After every packet, and in IsStarted (there without the lock): is there *)
(* a command, and is nobody handling one?                                  *)
PollAnyway(c) ==    \* mutant: the recursion counter is not looked at
    /\ At(c, "poll")
    /\ Becomes(c, IF down.wr # down.rd THEN <<Do("claim"), Do("look"), Do("release")>> ELSE <<>>)
    /\ UNCHANGED <<used, down, globals, modules, now, hist>>

Poll(c) ==
    /\ At(c, "poll")
    /\ Becomes(c, IF down.wr # down.rd /\ RecursionCnt = 0
                  THEN <<Do("claim"), Do("look"), Do("release")>> ELSE <<>>)
    /\ UNCHANGED <<used, down, globals, modules, now, hist>>

ClaimNothing(c) ==    \* mutant: the counter is not set
    /\ At(c, "claim")
    /\ Becomes(c, <<>>)
    /\ UNCHANGED <<used, down, globals, modules, now, hist>>

Claim(c) ==
    /\ At(c, "claim")
    /\ Becomes(c, <<>>)
    /\ RecursionCnt' = 1
    /\ UNCHANGED <<used, down, EnableState, LastTxTimeStamp, DisabledEvents,
                   modules, now, hist>>

(* SEGGER_RTT_ReadNoLock of one byte: a look at the offsets, the byte, and *)
(* the new RdOff computed from the old one.                                *)
Look(c) ==
    /\ At(c, "look")
    /\ Becomes(c, IF down.wr = down.rd THEN <<>>
                  ELSE <<[todo[c][1] EXCEPT !.k = "take", !.byte = down.buf[down.rd],
                                            !.at = down.rd]>>)
    /\ UNCHANGED <<used, down, globals, modules, now, hist>>

Take(c) ==
    /\ At(c, "take")
    /\ LET x == todo[c][1] IN
          /\ down' = [down EXCEPT !.rd = Wrap(x.at + 1)]
          /\ Becomes(c, CASE x.for = "command" -> Handle(x.byte)
                          [] x.for = "module" -> SendModule(x.byte)
                          [] x.for = "skip" -> <<>>)
    /\ inbox' = SubSeq(inbox, 2, Len(inbox))
    /\ UNCHANGED <<used, globals, modules, now, seen, gap, asked>>

Release(c) ==
    /\ At(c, "release")
    /\ Becomes(c, <<>>)
    /\ RecursionCnt' = 0
    /\ UNCHANGED <<used, down, EnableState, LastTxTimeStamp, DisabledEvents,
                   modules, now, hist>>

-----------------------------------------------------------------------------
(* Callers *)

Begin(c, steps) == todo' = [todo EXCEPT ![c] = steps]

Interrupt ==
    /\ todo["isr"] = <<>> /\ ~Locked("main")
    /\ \E e \in {"std", "user"} : Begin("isr", <<Rec(<<e>>)>>)
    /\ UNCHANGED <<used, down, globals, modules, now, hist>>

MainCall ==
    /\ todo["main"] = <<>> /\ todo["isr"] = <<>>
    /\ \/ \E e \in {"std", "user"} : Begin("main", <<Rec(<<e>>)>>)
       \/ Begin("main", Start)
       \/ Begin("main", <<Do("stop")>>)
       \/ Begin("main", <<Do("poll")>>)    \* SEGGER_SYSVIEW_IsStarted
    /\ UNCHANGED <<used, down, globals, modules, now, hist>>

(* SEGGER_SYSVIEW_EnableEvents, DisableEvents: any mask can be reached.    *)
MaskEvents ==
    /\ todo["main"] = <<>> /\ todo["isr"] = <<>>
    /\ DisabledEvents' \in Mask \ {DisabledEvents}
    /\ UNCHANGED <<used, down, EnableState, RecursionCnt, LastTxTimeStamp,
                   modules, todo, now, hist>>

(* Prepends a module to the list and sends it, under the lock.  The number *)
(* of its first event is data and left out.                                *)
RegisterModule ==
    /\ todo["main"] = <<>> /\ todo["isr"] = <<>>
    /\ modules < MaxModules
    /\ modules' = modules + 1
    /\ Begin("main", <<Rec(<<"info">>), Rec(<<"info">>), Do("unlock")>>)
    /\ UNCHANGED <<used, down, globals, now, hist>>

Tick ==
    /\ now' = (now + 1) % TimeMod
    /\ UNCHANGED <<used, down, globals, modules, todo, hist>>

-----------------------------------------------------------------------------
(* The host *)

HostRead ==
    /\ \E n \in 1..used : used' = used - n
    /\ UNCHANGED <<down, globals, modules, todo, now, hist>>

Message ==
    {<<i>> : i \in {j \in Command : j < GET_MODULE}}
        \cup ({j \in Command : j >= GET_MODULE} \X ModuleId)

HostSend ==
    /\ \E msg \in Message :
          /\ Distance(down.rd, down.wr) + Len(msg) < DownSize
          /\ down' = [down EXCEPT
                        !.buf = [i \in DownOffset |->
                                   LET j == Distance(down.wr, i) + 1
                                   IN  IF j <= Len(msg) THEN msg[j] ELSE down.buf[i]],
                        !.wr = Wrap(down.wr + Len(msg))]
          /\ inbox' = inbox \o msg
    /\ UNCHANGED <<used, globals, modules, todo, now, seen, gap, asked>>

-----------------------------------------------------------------------------
(* The state SEGGER_SYSVIEW_Init leaves.                                   *)
Init ==
    /\ used = 0
    /\ down = [buf |-> [i \in DownOffset |-> 0], wr |-> 0, rd |-> 0]
    /\ EnableState = OFF /\ RecursionCnt = 0
    /\ LastTxTimeStamp = 0 /\ DisabledEvents = {}
    /\ modules = 0
    /\ todo = [c \in Ctx |-> <<>>]
    /\ now = 0
    /\ seen = [clock |-> 0, last |-> 0]
    /\ gap = "no" /\ asked = "stop" /\ inbox = <<>>

Step(c) ==
    \/ Record(c) \/ SendAgain(c) \/ TrySendOverflow(c) \/ StorePacket(c) \/ Unlock(c)
    \/ Enable(c) \/ Sync(c) \/ Stop(c) \/ SwitchOff(c)
    \/ Poll(c) \/ Claim(c) \/ Look(c) \/ Take(c) \/ Release(c)
Caller == Interrupt \/ MainCall \/ MaskEvents \/ RegisterModule
Host == HostRead \/ HostSend

Next == Caller \/ Host \/ Tick \/ \E c \in Ctx : Step(c)

Spec == Init /\ [][Next]_vars

-----------------------------------------------------------------------------
(* Properties *)

(* Adding up the deltas of the packets it gets, the host knows the time of *)
(* each, whichever packets were lost, and over stops, restarts and the     *)
(* wrap of the timestamp.                                                  *)
HostClockRight == seen.clock = seen.last

Restarting ==
    \E c \in Ctx : \E x \in Items(todo[c]) :
        x.k = "sync" \/ (x.k \in {"rec", "packet", "overflow"} /\ x.es = <<"start">>)

Stored(c) == At(c, "packet") /\ used' > used

(* Events never disappear silently ("takes care of maintaining the packet  *)
(* drop count and sending overflow packets when necessary"), whatever      *)
(* events are disabled: what is stored after a loss is an overflow packet, *)
(* a sync or a start event, unless recording is just being restarted, or   *)
(* was restarted with its start event disabled.  Without the last clause   *)
(* it is false: that restart ends the dropping and leaves no mark.         *)
GapsMarkedUnlessMuted ==
    [][\A c \in Ctx : Stored(c) /\ gap = "open" /\ Arg(c) # <<"start">> => Restarting]_vars

Unread == [i \in 1..Distance(down.rd, down.wr) |-> down.buf[Wrap(down.rd + i - 1)]]

(* The state without the cells of the down-buffer that nobody reads, its   *)
(* times as distances from now: only differences of them are ever used.    *)
Ago(t) == (now - t) % TimeMod
Memory == <<used, Unread, down.wr, down.rd, EnableState, RecursionCnt, DisabledEvents,
            modules, todo, gap, asked, inbox,
            Ago(LastTxTimeStamp), Ago(seen.clock), Ago(seen.last)>>

(* Every byte the host sends is consumed once and in order, although both  *)
(* contexts read commands and IsStarted does so without the lock.          *)
CommandsOnce ==
    /\ inbox = Unread
    /\ \A c \in Ctx : \A x \in Items(todo[c]) :
          x.k = "take" => inbox # <<>> /\ x.byte = inbox[1]

(* The commands being handled: their counter is set and not yet reset.     *)
Handling ==
    UNION {{<<c, i>> : i \in {j \in DOMAIN todo[c] :
                                 todo[c][j].k = "release" /\ todo[c][1].k # "claim"}} : c \in Ctx}

(* "This routine can call itself once, but no more often than that": at    *)
(* most one command is being handled, in whichever context.                *)
RecursesOnce == \A p, q \in Handling : p = q

Idle == \A c \in Ctx : todo[c] = <<>>

(* Between calls the recorder is on exactly if the last of Start and Stop  *)
(* to begin was a Start, but for a Start that the host asks for while a    *)
(* Stop sends its event: that Stop undoes it, and the recorder is off.     *)
LastRequestWinsUnlessUndone == Idle => (EnableState # OFF <=> asked = "start")
=============================================================================
