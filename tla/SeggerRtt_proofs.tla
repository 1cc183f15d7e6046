-------------------------- MODULE SeggerRtt_proofs --------------------------
(***************************************************************************)
(* For a ring of any size, strings of any length and any number of         *)
(* terminals: the types, and, if the main program makes the first call,    *)
(* that the ring is a queue between the writers and the probe, that a call *)
(* outside blocking mode never waits, and that every byte of text is shown *)
(* on the terminal it was written for.                                     *)
(***************************************************************************)
EXTENDS SeggerRtt, FiniteSetTheorems, SequenceTheorems, WellFoundedInduction, TLAPS

-----------------------------------------------------------------------------
(* The ring *)

(* Room and contents add up to all bytes but one.                         *)
LEMMA AvailIsRest ==
    ASSUME NEW r \in Offset, NEW w \in Offset
    PROVE  /\ Distance(r, w) \in 0..(Size - 1)
           /\ Avail(r, w) \in 0..(Size - 1)
           /\ Avail(r, w) = Size - 1 - Distance(r, w)
    BY RttSizeAssumption DEF Offset, Avail, Distance

LEMMA WrapIsOffset ==
    ASSUME NEW o \in Offset, NEW n \in 0..Size
    PROVE  Wrap(o + n) \in Offset
    BY RttSizeAssumption DEF Offset, Wrap

(* What a round of the blocking write copies fits.                        *)
LEMMA ChunkFits ==
    ASSUME NEW r \in Offset, NEW w \in Offset, NEW k \in Nat
    PROVE  /\ Chunk(r, w, k) \in 0..k
           /\ Chunk(r, w, k) <= Avail(r, w)
    BY RttSizeAssumption DEF Offset, Chunk, Avail, Lesser

(* WriteSkip finds room exactly if there is room.                         *)
LEMMA SkipFitsIfRoom ==
    ASSUME NEW r \in Offset, NEW w \in Offset, NEW k \in Nat
    PROVE  SkipFits(r, w, k) <=> k <= Avail(r, w)
    BY RttSizeAssumption DEF Offset, SkipFits, Avail

(* The bytes a writer fills lie outside those that wait.                  *)
LEMMA FreeApart ==
    ASSUME NEW r \in Offset, NEW w \in Offset,
           NEW i \in 1..Distance(r, w), NEW j \in 1..Avail(r, w)
    PROVE  Wrap(r + i - 1) # Wrap(w + j - 1)
    BY RttSizeAssumption DEF Offset, Avail, Distance, Wrap

LEMMA WaitingApart ==
    ASSUME NEW r \in Offset, NEW w \in Offset,
           NEW i \in 1..Distance(r, w), NEW j \in 1..Distance(r, w), i # j
    PROVE  Wrap(r + i - 1) # Wrap(r + j - 1)
    BY RttSizeAssumption DEF Offset, Distance, Wrap

(* Moving WrOff on, and RdOff.                                            *)
LEMMA WriterMoves ==
    ASSUME NEW r \in Offset, NEW w \in Offset, NEW n \in 0..Avail(r, w)
    PROVE  /\ Distance(r, Wrap(w + n)) = Distance(r, w) + n
           /\ \A k \in 1..n : Wrap(r + Distance(r, w) + k - 1) = Wrap(w + k - 1)
    BY RttSizeAssumption DEF Offset, Avail, Distance, Wrap

LEMMA ReaderMoves ==
    ASSUME NEW r \in Offset, NEW w \in Offset, NEW n \in 0..Distance(r, w)
    PROVE  /\ Distance(Wrap(r + n), w) = Distance(r, w) - n
           /\ \A k \in 1..(Distance(r, w) - n) : Wrap(Wrap(r + n) + k - 1) = Wrap(r + n + k - 1)
    BY RttSizeAssumption DEF Offset, Avail, Distance, Wrap

(* Bytes stored from offset w on, and the others.                         *)
LEMMA StoredBytes ==
    ASSUME NEW b \in [Offset -> Byte], NEW w \in Offset,
           NEW data \in Seq(Byte), Len(data) \in 0..(Size - 1)
    PROVE  /\ Stored(b, w, data) \in [Offset -> Byte]
           /\ \A j \in 1..Len(data) : Stored(b, w, data)[Wrap(w + j - 1)] = data[j]
           /\ \A x \in Offset : (\A j \in 1..Len(data) : x # Wrap(w + j - 1))
                                   => Stored(b, w, data)[x] = b[x]
<1> DEFINE At_(x) == IF x >= w THEN x - w + 1 ELSE x + Size - w + 1
<1>1. \A x \in Offset : At_(x) \in 1..Size /\ x = Wrap(w + At_(x) - 1)
    BY RttSizeAssumption DEF Offset, Wrap
<1>2. \A j \in 1..Len(data) : Wrap(w + j - 1) \in Offset /\ At_(Wrap(w + j - 1)) = j
    BY RttSizeAssumption DEF Offset, Wrap
<1>3. Stored(b, w, data) = [x \in Offset |-> IF At_(x) <= Len(data) THEN data[At_(x)] ELSE b[x]]
    BY DEF Stored
<1>4. \A x \in Offset : At_(x) <= Len(data) => data[At_(x)] \in Byte
    BY <1>1, ElementOfSeq
<1> HIDE DEF At_
<1>5. Stored(b, w, data) \in [Offset -> Byte]
    BY <1>3, <1>4
<1>6. \A j \in 1..Len(data) : Stored(b, w, data)[Wrap(w + j - 1)] = data[j]
    BY <1>2, <1>3
<1>7. ASSUME NEW x \in Offset, \A j \in 1..Len(data) : x # Wrap(w + j - 1)
      PROVE  Stored(b, w, data)[x] = b[x]
    <2>1. ~(At_(x) <= Len(data))
        BY <1>1, <1>7
    <2> QED BY <2>1, <1>3
<1> QED BY <1>5, <1>6, <1>7

(* Bytes fetched.                                                         *)
LEMMA FetchedBytes ==
    ASSUME NEW b \in [Offset -> Byte], NEW r \in Offset, NEW w \in Offset, NEW m \in Nat
    PROVE  /\ Fetch(b, r, w, m) \in Seq(Byte)
           /\ Len(Fetch(b, r, w, m)) = Lesser(Distance(r, w), m)
           /\ Lesser(Distance(r, w), m) \in 0..Distance(r, w)
           /\ \A i \in 1..Lesser(Distance(r, w), m) : Fetch(b, r, w, m)[i] = b[Wrap(r + i - 1)]
<1>1. Distance(r, w) \in 0..(Size - 1)
    BY AvailIsRest
<1>2. Lesser(Distance(r, w), m) \in 0..Distance(r, w)
    BY <1>1, RttSizeAssumption DEF Lesser
<1>3. \A i \in 1..Lesser(Distance(r, w), m) : Wrap(r + i - 1) \in Offset
    BY <1>1, <1>2, RttSizeAssumption DEF Offset, Wrap
<1> HIDE DEF Lesser
<1>4. Fetch(b, r, w, m) \in [1..Lesser(Distance(r, w), m) -> Byte]
    BY <1>3 DEF Fetch
<1>5. Fetch(b, r, w, m) \in Seq(Byte) /\ Len(Fetch(b, r, w, m)) = Lesser(Distance(r, w), m)
    BY <1>4, <1>2, <1>1, RttSizeAssumption
<1> QED BY <1>2, <1>5 DEF Fetch
-----------------------------------------------------------------------------
(* Types *)

(* A call has something to copy whenever it is about to.                  *)
Filled(f) ==
    /\ f.pc \in {"chunk", "copy", "publish"} => f.segs # <<>>
    /\ f.pc \in {"copy", "publish"} => f.n <= Len(Head(f.segs))

TInv == TypeOK /\ \A c \in Ctx : Filled(call[c])

LEMMA ConstantTypes ==
    /\ Size \in Nat /\ Size >= 2 /\ 0 \in Offset
    /\ Stale \in Byte
    /\ Idle \in Call /\ Filled(Idle)
    /\ \A t \in Terminal : Switch(t) \in Seq(Byte) /\ Len(Switch(t)) = 2
<1>1. 0 \in 0..(Serials - 1) /\ 0 \in Terminal /\ 0 \in 0..MaxLen /\ 0 \in 0..(Size - 1)
    BY RttSizeAssumption
<1>2. Idle \in Call /\ Filled(Idle)
    BY <1>1 DEF Idle, Call, Op, Pc, Filled
<1>3. \A t \in Terminal : Switch(t) \in Seq(Byte) /\ Len(Switch(t)) = 2
    BY <1>1 DEF Switch, Byte
<1> QED BY <1>1, <1>2, <1>3, RttSizeAssumption DEF Stale, Byte, Offset

LEMMA TextType ==
    ASSUME TypeOK, NEW t \in Terminal, NEW len \in Nat
    PROVE  Text(t, len) \in Seq(Byte) /\ Len(Text(t, len)) = len
<1>1. \A i \in 1..len : (serial + i) % Serials \in 0..(Serials - 1)
    BY RttSizeAssumption DEF TypeOK
<1>2. Text(t, len) \in [1..len -> Byte]
    BY <1>1 DEF Text, Byte
<1> QED BY <1>2

(* What a call is once it has nothing left to copy.                       *)
LEMMA AfterType ==
    ASSUME TypeOK, NEW c \in Ctx, NEW done \in Nat
    PROVE  After(c, done) \in Call /\ Filled(After(c, done))
<1>1. call[c].left \in 0..MaxLen /\ MaxLen \in Nat
    BY RttSizeAssumption DEF TypeOK, Call
<1>2. done < call[c].left => call[c].left - done \in 0..MaxLen
    BY <1>1
<1> QED BY <1>1, <1>2, ConstantTypes DEF After, Idle, Call, Filled, Op, Pc

LEMMA PortionType ==
    ASSUME TypeOK, NEW c \in Ctx
    PROVE  Portion(c) \in 0..MaxLen
    BY RttSizeAssumption DEF TypeOK, Call, Portion, Lesser

(* A step that replaces the frame of one context by a good one and leaves *)
(* the rest of the state well typed.                                       *)
LEMMA BecomeType ==
    ASSUME TInv, NEW c \in Ctx, NEW f \in Call, Filled(f), Become(c, f)
    PROVE  call' \in [Ctx -> Call] /\ \A d \in Ctx : Filled(call'[d])
    BY DEF TInv, TypeOK, Become

LEMMA GotoType ==
    ASSUME TInv, NEW c \in Ctx, NEW pc \in {"idle", "reset", "ident", "enter", "spin"},
           Goto(c, pc)
    PROVE  call' \in [Ctx -> Call] /\ \A d \in Ctx : Filled(call'[d])
<1>1. [call[c] EXCEPT !.pc = pc] \in Call /\ Filled([call[c] EXCEPT !.pc = pc])
    BY DEF TInv, TypeOK, Call, Pc, Filled
<1> QED BY <1>1, BecomeType DEF Goto

LEMMA SingleSegment ==
    ASSUME NEW data \in Seq(Byte)
    PROVE  <<data>> \in Seq(Seq(Byte)) /\ <<data>> # <<>> /\ Head(<<data>>) = data
<1> DEFINE S == Seq(Byte)
<1>1. data \in S
    OBVIOUS
<1> HIDE DEF S
<1>2. <<data>> \in Seq(S) /\ Len(<<data>>) = 1 /\ <<data>> # <<>>
    BY <1>1
<1>3. Head(<<data>>) = data
    BY <1>1, <1>2
<1> QED BY <1>2, <1>3 DEF S

LEMMA CallUpdate ==
    ASSUME NEW f \in Call, NEW pc \in Pc, NEW segs \in Seq(Seq(Byte)), NEW n \in 0..(Size - 1),
           NEW b \in BOOLEAN
    PROVE  [f EXCEPT !.pc = pc, !.segs = segs, !.n = n, !.blk = b] \in Call
<1> DEFINE S == Seq(Seq(Byte))
           N == 0..(Size - 1)
<1>1. segs \in S /\ n \in N
    OBVIOUS
<1>2. Call = [op : Op, pc : Pc, t : Terminal, left : 0..MaxLen, segs : S, n : N, blk : BOOLEAN]
    BY DEF Call
<1> HIDE DEF S, N
<1> QED BY <1>1, <1>2

LEMMA NoCheckType ==
    ASSUME TInv, NEW c \in Ctx, NEW data \in Seq(Byte), Len(data) <= Avail(rd, wr),
           NoCheck(c, data)
    PROVE  call' \in [Ctx -> Call] /\ \A d \in Ctx : Filled(call'[d])
<1> DEFINE f == [call[c] EXCEPT !.pc = "copy", !.segs = <<data>>, !.n = Len(data), !.blk = FALSE]
<1>1. Len(data) \in 0..(Size - 1)
    <2>1. rd \in Offset /\ wr \in Offset
        BY DEF TInv, TypeOK
    <2>2. Len(data) \in Nat /\ Avail(rd, wr) \in 0..(Size - 1)
        BY <2>1, AvailIsRest
    <2> QED BY <2>2, RttSizeAssumption
<1>2. <<data>> \in Seq(Seq(Byte)) /\ <<data>> # <<>> /\ Head(<<data>>) = data
    BY SingleSegment
<1>3. f \in Call
    <2>1. call[c] \in Call /\ "copy" \in Pc
        BY DEF TInv, TypeOK, Pc
    <2> QED BY <1>1, <1>2, <2>1, CallUpdate
<1>4. f.pc = "copy" /\ f.segs = <<data>> /\ f.n = Len(data)
    BY DEF TInv, TypeOK, Call
<1> HIDE DEF f
<1>5. Filled(f)
    BY <1>1, <1>2, <1>4 DEF Filled
<1>6. Become(c, f)
    BY DEF NoCheck, f
<1> QED BY <1>3, <1>5, <1>6, BecomeType

LEMMA BlockingType ==
    ASSUME TInv, NEW c \in Ctx, NEW segs \in Seq(Seq(Byte)), segs # <<>>, Blocking(c, segs)
    PROVE  call' \in [Ctx -> Call] /\ \A d \in Ctx : Filled(call'[d])
<1> DEFINE f == [call[c] EXCEPT !.pc = "chunk", !.segs = segs, !.blk = TRUE]
<1>1. f \in Call /\ f.pc = "chunk" /\ f.segs = segs
    BY DEF TInv, TypeOK, Call, Pc
<1> HIDE DEF f
<1>2. Filled(f)
    BY <1>1 DEF Filled
<1>3. Become(c, f)
    BY DEF Blocking, f
<1> QED BY <1>1, <1>2, <1>3, BecomeType

LEMMA GiveUpType ==
    ASSUME TInv, NEW c \in Ctx, GiveUp(c)
    PROVE  call' \in [Ctx -> Call] /\ \A d \in Ctx : Filled(call'[d])
    BY AfterType, BecomeType DEF GiveUp, TInv

(* How many bytes a call has still to store, in at most three segments.    *)
LenAt(s, i) == IF i <= Len(s) THEN Len(s[i]) ELSE 0
Todo(s) == LenAt(s, 1) + LenAt(s, 2) + LenAt(s, 3)
Granted(segs) == Len(segs) <= 3 /\ (flags # "block" => Todo(segs) <= Avail(rd, wr))

LEMMA SingleTodo ==
    ASSUME NEW data \in Seq(Byte)
    PROVE  Len(<<data>>) = 1 /\ Todo(<<data>>) = Len(data)
<1> DEFINE s == <<data>>
<1>1. Len(s) = 1 /\ s[1] = data /\ Len(data) \in Nat
    OBVIOUS
<1> HIDE DEF s
<1>2. LenAt(s, 1) = Len(data) /\ LenAt(s, 2) = 0 /\ LenAt(s, 3) = 0
    BY <1>1 DEF LenAt
<1>3. Todo(s) = Len(data)
    BY <1>1, <1>2 DEF Todo
<1> QED BY <1>1, <1>3 DEF s

(* What all the decisions under the lock have in common.                  *)
Deciding(c) ==
    /\ call[c].pc \in {"enter", "spin"} /\ Running(c)
    /\ active' \in Terminal /\ UNCHANGED <<ring, flags, ready, host, hist>>
    /\ \/ GiveUp(c)
       \/ Goto(c, "spin")
       \/ \E segs \in Seq(Seq(Byte)) : segs # <<>> /\ Granted(segs) /\ Blocking(c, segs)
       \/ \E data \in Seq(Byte) : Len(data) <= Avail(rd, wr) /\ NoCheck(c, data)

LEMMA FrameType ==
    ASSUME TInv, call' \in [Ctx -> Call], \A d \in Ctx : Filled(call'[d]), active' \in Terminal,
           UNCHANGED <<ring, flags, ready, host, hist>>
    PROVE  TInv'
    BY DEF TInv, TypeOK, ring, hist

LEMMA DecidingType ==
    ASSUME TInv, NEW c \in Ctx, Deciding(c)
    PROVE  TInv'
<1>1. call' \in [Ctx -> Call] /\ \A d \in Ctx : Filled(call'[d])
    BY GiveUpType, GotoType, BlockingType, NoCheckType DEF Deciding
<1> QED BY <1>1, FrameType DEF Deciding

LEMMA SetFlagsType == TInv /\ SetFlags => TInv'
    BY DEF SetFlags, TInv, TypeOK, ring, hist, Mode

LEMMA StartType ==
    ASSUME TInv, NEW c \in Ctx, Start(c)
    PROVE  TInv'
<1>1. PICK op \in Op, t \in Terminal, len \in 1..MaxLen :
          Become(c, [Idle EXCEPT !.op = op, !.t = t, !.left = len,
                                 !.pc = IF ready THEN "enter" ELSE "reset"])
    BY DEF Start
<1> DEFINE pc == IF ready THEN "enter" ELSE "reset"
           f  == [Idle EXCEPT !.op = op, !.t = t, !.left = len, !.pc = pc]
<1>2. f \in Call /\ f.pc \in {"enter", "reset"}
    <2>1. len \in 0..MaxLen
        BY RttSizeAssumption
    <2>2. pc \in Pc /\ pc \in {"enter", "reset"}
        BY DEF Pc
    <2>3. Idle \in Call
        BY ConstantTypes
    <2> HIDE DEF pc
    <2> QED BY <2>1, <2>2, <2>3 DEF Call
<1>3. Filled(f)
    BY <1>2 DEF Filled
<1> HIDE DEF f
<1>4. Become(c, f)
    BY <1>1 DEF f
<1>5. active' \in Terminal /\ UNCHANGED <<ring, flags, ready, host, hist>>
    BY DEF Start, TInv, TypeOK
<1> QED BY <1>2, <1>3, <1>4, <1>5, BecomeType, FrameType

LEMMA DoInitType ==
    ASSUME TInv, NEW c \in Ctx, DoInit(c) \/ DoInitIdent(c)
    PROVE  TInv'
<1>1. call' \in [Ctx -> Call] /\ \A d \in Ctx : Filled(call'[d])
    BY GotoType DEF DoInit, DoInitIdent
<1> QED BY <1>1, ConstantTypes DEF DoInit, DoInitIdent, TInv, TypeOK, Mode, ring, hist

LEMMA EnterWriteDecides ==
    ASSUME TInv, NEW c \in Ctx, EnterWrite(c)
    PROVE  Deciding(c)
<1> DEFINE data == Text(active, Portion(c))
           cut  == SubSeq(data, 1, Lesser(Avail(rd, wr), Len(data)))
<1>1. data \in Seq(Byte) /\ Len(data) \in Nat
    BY TextType, PortionType, RttSizeAssumption DEF TInv, TypeOK
<1>2. Avail(rd, wr) \in Nat
    BY AvailIsRest DEF TInv, TypeOK
<1>3. cut \in Seq(Byte) /\ Len(cut) <= Avail(rd, wr)
    <2>1. Lesser(Avail(rd, wr), Len(data)) \in Nat
          /\ Lesser(Avail(rd, wr), Len(data)) <= Len(data)
          /\ Lesser(Avail(rd, wr), Len(data)) <= Avail(rd, wr)
        BY <1>1, <1>2 DEF Lesser
    <2> HIDE DEF data
    <2> QED BY <2>1, <1>1
<1>4. call[c].pc \in {"enter", "spin"} /\ Running(c)
      /\ active' \in Terminal /\ UNCHANGED <<ring, flags, ready, host, hist>>
    BY DEF EnterWrite, At, TInv, TypeOK
<1>5. \/ GiveUp(c)
      \/ ~(Avail(rd, wr) < Len(data)) /\ NoCheck(c, data)
      \/ NoCheck(c, cut)
      \/ flags = "block" /\ Blocking(c, <<data>>)
    BY DEF EnterWrite, TInv, TypeOK, Mode
<1> HIDE DEF data, cut
<1>6. CASE GiveUp(c)
    BY <1>4, <1>6 DEF Deciding
<1>7. CASE ~(Avail(rd, wr) < Len(data)) /\ NoCheck(c, data)
    BY <1>1, <1>2, <1>4, <1>7 DEF Deciding
<1>8. CASE NoCheck(c, cut)
    BY <1>3, <1>4, <1>8 DEF Deciding
<1>9. CASE flags = "block" /\ Blocking(c, <<data>>)
    <2>1. Granted(<<data>>)
        BY <1>1, <1>9, SingleTodo DEF Granted
    <2>2. <<data>> \in Seq(Seq(Byte)) /\ <<data>> # <<>>
        BY <1>1, SingleSegment
    <2> QED BY <1>4, <1>9, <2>1, <2>2 DEF Deciding
<1> QED BY <1>5, <1>6, <1>7, <1>8, <1>9

LEMMA EnterSkipDecides ==
    ASSUME TInv, NEW c \in Ctx, EnterSkip(c)
    PROVE  Deciding(c)
<1>1. call[c].left \in Nat /\ active \in Terminal /\ rd \in Offset /\ wr \in Offset
    BY RttSizeAssumption DEF TInv, TypeOK, Call
<1>2. Text(active, call[c].left) \in Seq(Byte) /\ Len(Text(active, call[c].left)) = call[c].left
    BY <1>1, TextType DEF TInv
<1>3. call[c].pc \in {"enter", "spin"} /\ Running(c)
      /\ active' \in Terminal /\ UNCHANGED <<ring, flags, ready, host, hist>>
    BY <1>1 DEF EnterSkip, At
<1>4. \/ SkipFits(rd, wr, call[c].left) /\ NoCheck(c, Text(active, call[c].left))
      \/ GiveUp(c)
    BY DEF EnterSkip
<1>5. CASE SkipFits(rd, wr, call[c].left) /\ NoCheck(c, Text(active, call[c].left))
    BY <1>1, <1>2, <1>3, <1>5, SkipFitsIfRoom DEF Deciding
<1>6. CASE GiveUp(c)
    BY <1>3, <1>6 DEF Deciding
<1> QED BY <1>4, <1>5, <1>6

(* One byte of room, tested as PutChar does.                              *)
LEMMA OneFits ==
    ASSUME NEW r \in Offset, NEW w \in Offset, Wrap(w + 1) # r
    PROVE  1 <= Avail(r, w)
    BY RttSizeAssumption DEF Offset, Wrap, Avail

LEMMA PutCharDecides ==
    ASSUME TInv, NEW c \in Ctx, EnterPutChar(c) \/ SpinPutChar(c)
    PROVE  Deciding(c)
<1>1. active \in Terminal /\ rd \in Offset /\ wr \in Offset /\ 1 \in Nat
    BY DEF TInv, TypeOK
<1>2. Text(active, 1) \in Seq(Byte) /\ Len(Text(active, 1)) = 1
    BY <1>1, TextType DEF TInv
<1>3. call[c].pc \in {"enter", "spin"} /\ Running(c)
      /\ active' \in Terminal /\ UNCHANGED <<ring, flags, ready, host, hist>>
    BY <1>1 DEF EnterPutChar, SpinPutChar, At
<1>4. \/ Wrap(wr + 1) # rd /\ NoCheck(c, Text(active, 1))
      \/ GiveUp(c)
      \/ Goto(c, "spin")
    BY DEF EnterPutChar, SpinPutChar
<1>5. CASE Wrap(wr + 1) # rd /\ NoCheck(c, Text(active, 1))
    BY <1>1, <1>2, <1>3, <1>5, OneFits DEF Deciding
<1>6. CASE GiveUp(c)
    BY <1>3, <1>6 DEF Deciding
<1>7. CASE Goto(c, "spin")
    BY <1>3, <1>7 DEF Deciding
<1> QED BY <1>4, <1>5, <1>6, <1>7

LEMMA SetTerminalDecides ==
    ASSUME TInv, NEW c \in Ctx, EnterSetTerminal(c)
    PROVE  Deciding(c)
<1> DEFINE t == call[c].t
<1>1. t \in Terminal /\ Switch(t) \in Seq(Byte) /\ Len(Switch(t)) = 2
    BY ConstantTypes DEF TInv, TypeOK, Call
<1>2. call[c].pc \in {"enter", "spin"} /\ Running(c)
      /\ active' \in Terminal /\ UNCHANGED <<ring, flags, ready, host, hist>>
    BY <1>1 DEF EnterSetTerminal, At, TInv, TypeOK
<1>3. Avail(rd, wr) \in Nat
    BY AvailIsRest DEF TInv, TypeOK
<1>4. \/ flags = "block" /\ Blocking(c, <<Switch(t)>>)
      \/ Avail(rd, wr) >= 2 /\ NoCheck(c, Switch(t))
      \/ GiveUp(c)
    BY DEF EnterSetTerminal
<1> HIDE DEF t
<1>5. CASE flags = "block" /\ Blocking(c, <<Switch(t)>>)
    <2>1. Granted(<<Switch(t)>>)
        BY <1>1, <1>5, SingleTodo DEF Granted
    <2>2. <<Switch(t)>> \in Seq(Seq(Byte)) /\ <<Switch(t)>> # <<>>
        BY <1>1, SingleSegment
    <2> QED BY <1>2, <1>5, <2>1, <2>2 DEF Deciding
<1>6. CASE Avail(rd, wr) >= 2 /\ NoCheck(c, Switch(t))
    BY <1>1, <1>2, <1>3, <1>6 DEF Deciding
<1>7. CASE GiveUp(c)
    BY <1>2, <1>7 DEF Deciding
<1> QED BY <1>4, <1>5, <1>6, <1>7

LEMMA TaggedType ==
    ASSUME TInv, NEW c \in Ctx, NEW len \in Nat
    PROVE  /\ Tagged(c, len) \in Seq(Seq(Byte)) /\ Tagged(c, len) # <<>>
           /\ Len(Tagged(c, len)) = 3 /\ Todo(Tagged(c, len)) = len + 4
<1>1. call[c].t \in Terminal /\ active \in Terminal
    BY DEF TInv, TypeOK, Call
<1> DEFINE S == Seq(Byte)
<1>2. Switch(call[c].t) \in S /\ Text(call[c].t, len) \in S /\ Switch(active) \in S
    BY <1>1, ConstantTypes, TextType DEF TInv
<1>3. /\ Len(Switch(call[c].t)) = 2 /\ Len(Switch(active)) = 2
      /\ Len(Text(call[c].t, len)) = len
    BY <1>1, ConstantTypes, TextType DEF TInv
<1> HIDE DEF S
<1>4. /\ Tagged(c, len) \in Seq(S) /\ Tagged(c, len) # <<>> /\ Len(Tagged(c, len)) = 3
      /\ Tagged(c, len)[1] = Switch(call[c].t) /\ Tagged(c, len)[2] = Text(call[c].t, len)
      /\ Tagged(c, len)[3] = Switch(active)
    BY <1>2 DEF Tagged
<1>5. Todo(Tagged(c, len)) = len + 4
    <2> DEFINE s == Tagged(c, len)
    <2>1. Len(s) = 3 /\ Len(s[1]) = 2 /\ Len(s[2]) = len /\ Len(s[3]) = 2
        BY <1>3, <1>4
    <2> HIDE DEF s
    <2>2. LenAt(s, 1) = 2 /\ LenAt(s, 2) = len /\ LenAt(s, 3) = 2
        BY <2>1 DEF LenAt
    <2>3. Todo(s) = len + 4
        BY <2>2 DEF Todo
    <2> QED BY <2>3 DEF s
<1> QED BY <1>4, <1>5 DEF S

LEMMA TerminalOutDecides ==
    ASSUME TInv, NEW c \in Ctx, EnterTerminalOut(c)
    PROVE  Deciding(c)
<1>1. Avail(rd, wr) \in Nat /\ call[c].left \in Nat /\ active \in Terminal
    BY AvailIsRest, RttSizeAssumption DEF TInv, TypeOK, Call
<1>2. call[c].pc \in {"enter", "spin"} /\ Running(c)
      /\ active' \in Terminal /\ UNCHANGED <<ring, flags, ready, host, hist>>
    BY <1>1 DEF EnterTerminalOut, At
<1>3. \/ GiveUp(c)
      \/ \E len \in Nat : /\ flags # "block" => len + 4 <= Avail(rd, wr)
                          /\ Blocking(c, Tagged(c, len))
    <2>1. ~(Avail(rd, wr) < 4) =>
             /\ Lesser(call[c].left, Avail(rd, wr) - 4) \in Nat
             /\ Lesser(call[c].left, Avail(rd, wr) - 4) + 4 <= Avail(rd, wr)
        BY <1>1 DEF Lesser
    <2>2. flags \in {"skip", "trim", "block"}
        BY DEF TInv, TypeOK, Mode
    <2>3. CASE flags = "skip"
        <3>1. \/ GiveUp(c)
              \/ ~(Avail(rd, wr) < call[c].left + 4) /\ Blocking(c, Tagged(c, call[c].left))
            BY <2>3 DEF EnterTerminalOut
        <3> QED BY <1>1, <3>1
    <2>4. CASE flags = "trim"
        <3>1. \/ GiveUp(c)
              \/ /\ ~(Avail(rd, wr) < 4)
                 /\ Blocking(c, Tagged(c, Lesser(call[c].left, Avail(rd, wr) - 4)))
            BY <2>4 DEF EnterTerminalOut
        <3> QED BY <2>1, <3>1
    <2>5. CASE flags = "block"
        <3>1. Blocking(c, Tagged(c, call[c].left))
            BY <2>5 DEF EnterTerminalOut
        <3> QED BY <1>1, <2>5, <3>1
    <2> QED BY <2>2, <2>3, <2>4, <2>5
<1>4. CASE GiveUp(c)
    BY <1>2, <1>4 DEF Deciding
<1>5. ASSUME NEW len \in Nat, flags # "block" => len + 4 <= Avail(rd, wr),
             Blocking(c, Tagged(c, len))
      PROVE  Deciding(c)
    <2>1. /\ Tagged(c, len) \in Seq(Seq(Byte)) /\ Tagged(c, len) # <<>>
          /\ Len(Tagged(c, len)) = 3 /\ Todo(Tagged(c, len)) = len + 4
        BY TaggedType
    <2>2. Granted(Tagged(c, len))
        BY <1>5, <2>1 DEF Granted
    <2> QED BY <1>2, <1>5, <2>1, <2>2 DEF Deciding
<1> QED BY <1>3, <1>4, <1>5

LEMMA BlockingChunkType ==
    ASSUME TInv, NEW c \in Ctx, BlockingChunk(c)
    PROVE  TInv'
<1> DEFINE seg == Head(call[c].segs)
           n   == Chunk(rd, wr, Len(seg))
           f   == [call[c] EXCEPT !.pc = "copy", !.n = n]
<1>1. call[c].segs \in Seq(Seq(Byte)) /\ call[c].segs # <<>>
    BY DEF BlockingChunk, At, TInv, TypeOK, Call, Filled
<1>2. seg \in Seq(Byte) /\ Len(seg) \in Nat
    BY <1>1, HeadTailProperties
<1>3. n \in 0..Len(seg) /\ n \in 0..(Size - 1)
    <2>1. rd \in Offset /\ wr \in Offset
        BY DEF TInv, TypeOK
    <2>2. n \in 0..Len(seg) /\ n <= Avail(rd, wr) /\ Avail(rd, wr) \in 0..(Size - 1)
        BY <2>1, <1>2, ChunkFits, AvailIsRest
    <2> QED BY <2>2, <1>2, RttSizeAssumption
<1>4. f \in Call /\ Filled(f)
    <2> HIDE DEF n, seg
    <2>1. f \in Call
        <3>1. call[c] \in Call /\ n \in 0..(Size - 1) /\ "copy" \in Pc
            BY <1>3 DEF TInv, TypeOK, Pc
        <3> QED BY <3>1 DEF Call
    <2>2. f.segs = call[c].segs /\ f.n = n
        BY DEF TInv, TypeOK, Call
    <2> HIDE DEF f
    <2>3. Filled(f)
        BY <1>1, <1>3, <2>2 DEF Filled, seg
    <2> QED BY <2>1, <2>3
<1>5. Become(c, f) /\ active' \in Terminal /\ UNCHANGED <<ring, flags, ready, host, hist>>
    BY DEF BlockingChunk, TInv, TypeOK
<1> HIDE DEF f
<1> QED BY <1>4, <1>5, BecomeType, FrameType

(* The part of its current segment that a call copies.                    *)
Part(f) == SubSeq(Head(f.segs), 1, f.n)

LEMMA PartType ==
    ASSUME TInv, NEW c \in Ctx, call[c].pc \in {"copy", "publish"}
    PROVE  /\ call[c].n \in 0..(Size - 1)
           /\ Head(call[c].segs) \in Seq(Byte)
           /\ call[c].n <= Len(Head(call[c].segs))
           /\ Part(call[c]) \in Seq(Byte) /\ Len(Part(call[c])) = call[c].n
           /\ \A i \in 1..call[c].n : Part(call[c])[i] = Head(call[c].segs)[i]
<1>1. call[c].segs \in Seq(Seq(Byte)) /\ call[c].segs # <<>> /\ call[c].n \in 0..(Size - 1)
      /\ call[c].n <= Len(Head(call[c].segs))
    BY DEF TInv, TypeOK, Call, Filled
<1>2. Head(call[c].segs) \in Seq(Byte)
    BY <1>1, HeadTailProperties
<1> DEFINE seg == Head(call[c].segs)
           n   == call[c].n
<1>3. seg \in Seq(Byte) /\ n \in Nat /\ n <= Len(seg) /\ Len(seg) \in Nat
    BY <1>1, <1>2, RttSizeAssumption
<1> HIDE DEF seg, n
<1>4. \A i \in 1..n : seg[i] \in Byte
    BY <1>3, ElementOfSeq
<1>5. /\ SubSeq(seg, 1, n) \in Seq(Byte) /\ Len(SubSeq(seg, 1, n)) = n
      /\ \A i \in 1..n : SubSeq(seg, 1, n)[i] = seg[i]
    BY <1>3, <1>4, SubSeqProperties
<1> QED BY <1>1, <1>2, <1>5 DEF seg, n, Part

LEMMA CopyType ==
    ASSUME TInv, NEW c \in Ctx, Copy(c)
    PROVE  TInv'
<1>1. call[c].pc = "copy"
    BY DEF Copy, At
<1>2. /\ Part(call[c]) \in Seq(Byte) /\ Len(Part(call[c])) \in 0..(Size - 1)
    BY <1>1, PartType
<1>3. buf' \in [Offset -> Byte]
    <2>1. buf' = Stored(buf, wr, Part(call[c]))
        BY DEF Copy, Part
    <2> QED BY <2>1, <1>2, StoredBytes DEF TInv, TypeOK
<1>4. call' \in [Ctx -> Call] /\ \A d \in Ctx : Filled(call'[d])
    <2> DEFINE f == [call[c] EXCEPT !.pc = "publish"]
    <2>1. f \in Call /\ Filled(f)
        BY <1>1 DEF TInv, TypeOK, Call, Pc, Filled
    <2>2. Become(c, f)
        BY DEF Copy, Goto
    <2> HIDE DEF f
    <2> QED BY <2>1, <2>2, BecomeType
<1> QED BY <1>3, <1>4 DEF Copy, TInv, TypeOK, hist

LEMMA PublishType ==
    ASSUME TInv, NEW c \in Ctx, Publish(c)
    PROVE  TInv'
<1> DEFINE f    == call[c]
           seg  == Head(f.segs)
           rest == SubSeq(seg, f.n + 1, Len(seg))
           segs == IF rest = <<>> THEN Tail(f.segs) ELSE <<rest>> \o Tail(f.segs)
           next == IF segs = <<>> THEN After(c, IF f.blk THEN Portion(c) ELSE f.n)
                   ELSE [f EXCEPT !.pc = "chunk", !.segs = segs]
<1>1. f.pc = "publish" /\ f \in Call /\ f.segs \in Seq(Seq(Byte)) /\ f.segs # <<>>
    BY DEF Publish, At, TInv, TypeOK, Call, Filled
<1>2. /\ f.n \in 0..(Size - 1) /\ seg \in Seq(Byte) /\ f.n <= Len(seg)
      /\ Part(f) \in Seq(Byte)
    BY <1>1, PartType
<1>3. rest \in Seq(Byte)
    <2>1. \A i \in (f.n + 1)..Len(seg) : seg[i] \in Byte
        BY <1>2, ElementOfSeq, RttSizeAssumption
    <2>2. f.n + 1 \in Int /\ Len(seg) \in Int
        BY <1>2, RttSizeAssumption
    <2> HIDE DEF seg, f
    <2> QED BY <2>1, <2>2, SubSeqProperties
<1>4. segs \in Seq(Seq(Byte))
    <2>1. Tail(f.segs) \in Seq(Seq(Byte))
        BY <1>1, HeadTailProperties
    <2>2. <<rest>> \in Seq(Seq(Byte))
        BY <1>3, SingleSegment
    <2>3. <<rest>> \o Tail(f.segs) \in Seq(Seq(Byte))
        BY <2>1, <2>2, ConcatProperties
    <2> QED BY <2>1, <2>3
<1>5. next \in Call /\ Filled(next)
    <2>1. CASE segs = <<>>
        <3>1. (IF f.blk THEN Portion(c) ELSE f.n) \in Nat
            BY <1>2, PortionType, RttSizeAssumption DEF TInv
        <3> QED BY <2>1, <3>1, AfterType DEF TInv
    <2>2. CASE segs # <<>>
        <3> HIDE DEF segs, f
        <3>1. next \in Call /\ next.pc = "chunk" /\ next.segs = segs
            BY <1>1, <1>4, <2>2 DEF Call, Pc
        <3> QED BY <2>2, <3>1 DEF Filled
    <2> QED BY <2>1, <2>2
<1>6. Become(c, next)
    BY DEF Publish
<1>7. call' \in [Ctx -> Call] /\ \A d \in Ctx : Filled(call'[d])
    <2> HIDE DEF next
    <2> QED BY <1>5, <1>6, BecomeType
<1>8. wr' \in Offset
    <2>1. wr' = Wrap(wr + f.n) /\ wr \in Offset
        BY DEF Publish, TInv, TypeOK
    <2>2. f.n \in 0..Size
        BY <1>2, RttSizeAssumption
    <2> QED BY <2>1, <2>2, WrapIsOffset
<1>9. pending' \in Seq(Byte)
    BY <1>2, ConcatProperties DEF Publish, Part, TInv, TypeOK
<1>10. serial' \in 0..(Serials - 1)
    <2> DEFINE T == {i \in 1..f.n : seg[i].k = "text"}
    <2>1. IsFiniteSet(1..f.n)
        <3>1. f.n \in Int
            BY <1>2, RttSizeAssumption
        <3> HIDE DEF f
        <3> QED BY <3>1, FS_Interval
    <2>2. IsFiniteSet(T) /\ T \in SUBSET (1..f.n)
        BY <2>1, FS_Subset
    <2>3. Cardinality(T) \in Nat
        BY <2>2, FS_CardinalityType
    <2>4. serial' = (serial + Cardinality(T)) % Serials
        BY DEF Publish
    <2> HIDE DEF T
    <2> QED BY <2>3, <2>4, RttSizeAssumption DEF TInv, TypeOK
<1> QED BY <1>7, <1>8, <1>9, <1>10 DEF Publish, TInv, TypeOK

(* A nonempty set of indices has a last one.                              *)
LEMMA LastIndex ==
    ASSUME NEW n \in Nat, NEW I \in SUBSET (1..n), I # {}
    PROVE  \E i \in I : \A j \in I : j <= i
<1> DEFINE D == {n - i : i \in I}
<1>1. D \subseteq Nat /\ D # {}
    <2>1. PICK i \in I : TRUE
        OBVIOUS
    <2>2. n - i \in D
        BY <2>1
    <2>3. \A d \in D : d \in Nat
        OBVIOUS
    <2> HIDE DEF D
    <2> QED BY <2>2, <2>3
<1> DEFINE R == {p \in Nat \X Nat : p[1] < p[2]}
<1>2. PICK d \in D : \A e \in D : ~(<<e, d>> \in R)
    <2>1. IsWellFoundedOn(R, Nat)
        BY NatLessThanWellFounded DEF OpToRel
    <2> HIDE DEF R, D
    <2>2. \E d \in D : \A e \in D : ~(<<e, d>> \in R)
        BY <1>1, <2>1, WFMin, Zenon
    <2> QED BY <2>2
<1>3. PICK i \in I : d = n - i
    OBVIOUS
<1>4. \A j \in I : ~(n - j < n - i)
    BY <1>1, <1>2, <1>3
<1> QED BY <1>3, <1>4

LEMMA ShownType ==
    ASSUME NEW t \in Terminal, NEW bytes \in Seq(Byte)
    PROVE  ShownAfter(t, bytes) \in Terminal
<1> DEFINE ids  == {j \in 1..Len(bytes) : bytes[j].k = "id"}
           last == CHOOSE j \in ids : \A x \in ids : x <= j
<1>1. CASE ids = {}
    BY <1>1 DEF ShownAfter
<1>2. CASE ids # {}
    <2>1. Len(bytes) \in Nat /\ ids \in SUBSET (1..Len(bytes))
        OBVIOUS
    <2>2. last \in ids
        <3> HIDE DEF ids
        <3>1. \E i \in ids : \A j \in ids : j <= i
            BY <1>2, <2>1, LastIndex
        <3> QED BY <3>1
    <2>3. bytes[last] \in Byte
        <3> HIDE DEF last
        <3> QED BY <2>2, ElementOfSeq
    <2>4. ShownAfter(t, bytes) = bytes[last].t
        BY <1>2 DEF ShownAfter
    <2> HIDE DEF last
    <2> QED BY <2>3, <2>4 DEF Byte
<1> QED BY <1>1, <1>2

LEMMA HostType ==
    ASSUME TInv, Host
    PROVE  TInv'
<1>1. CASE HostLook
    <2>1. host' \in [pc : {"idle", "take"}, rd : Offset, wr : Offset, max : 0..MaxLen]
        <3>1. PICK m \in 1..MaxLen :
                 host' = [Resting EXCEPT !.pc = "take", !.rd = rd, !.wr = wr, !.max = m]
            BY <1>1 DEF HostLook
        <3>2. m \in 0..MaxLen
            BY RttSizeAssumption
        <3> QED BY <3>1, <3>2 DEF Resting, TInv, TypeOK
    <2> QED BY <1>1, <2>1 DEF HostLook, TInv, TypeOK, ring, hist
<1>2. CASE HostTake
    <2> DEFINE data == Fetch(buf, host.rd, host.wr, host.max)
    <2>1. host.rd \in Offset /\ host.wr \in Offset /\ host.max \in Nat
        BY RttSizeAssumption DEF TInv, TypeOK
    <2>2. data \in Seq(Byte) /\ Len(data) \in 0..(Size - 1)
        <3>1. buf \in [Offset -> Byte]
            BY DEF TInv, TypeOK
        <3>2. Distance(host.rd, host.wr) \in 0..(Size - 1)
            BY <2>1, AvailIsRest
        <3>3. /\ data \in Seq(Byte)
              /\ Len(data) = Lesser(Distance(host.rd, host.wr), host.max)
              /\ Lesser(Distance(host.rd, host.wr), host.max) \in 0..Distance(host.rd, host.wr)
            BY <2>1, <3>1, FetchedBytes
        <3> HIDE DEF data
        <3> QED BY <3>2, <3>3, RttSizeAssumption
    <2>3. rd' \in Offset
        <3>1. rd' = Wrap(host.rd + Len(data))
            BY <1>2 DEF HostTake
        <3> HIDE DEF data
        <3> QED BY <2>1, <2>2, <3>1, WrapIsOffset, RttSizeAssumption
    <2>4. buf' \in [Offset -> Byte]
        BY <1>2, ConstantTypes DEF HostTake, TInv, TypeOK
    <2>5. pending' \in Seq(Byte)
        <3>1. pending' = SubSeq(pending, Len(data) + 1, Len(pending))
            BY <1>2 DEF HostTake
        <3>2. pending \in Seq(Byte) /\ Len(data) + 1 \in Int /\ Len(data) + 1 >= 1
              /\ Len(pending) \in Int
            BY <2>2, RttSizeAssumption DEF TInv, TypeOK
        <3> HIDE DEF data
        <3>3. \A i \in (Len(data) + 1)..Len(pending) : pending[i] \in Byte
            BY <3>2, ElementOfSeq
        <3> QED BY <3>1, <3>2, <3>3, SubSeqProperties
    <2>6. shown' \in Terminal
        BY <1>2, <2>2, ShownType DEF HostTake, TInv, TypeOK
    <2>7. host' = Resting /\ Resting \in [pc : {"idle", "take"}, rd : Offset, wr : Offset, max : 0..MaxLen]
        BY <1>2, ConstantTypes, RttSizeAssumption DEF HostTake, Resting, Offset
    <2> QED BY <1>2, <2>3, <2>4, <2>5, <2>6, <2>7 DEF HostTake, TInv, TypeOK
<1> QED BY <1>1, <1>2 DEF Host

LEMMA StutterType == TInv /\ UNCHANGED vars => TInv'
    BY DEF TInv, TypeOK, vars

LEMMA InitType == Init => TInv
<1> SUFFICES ASSUME Init PROVE TInv
    OBVIOUS
<1>1. call \in [Ctx -> Call] /\ \A c \in Ctx : Filled(call[c])
    BY ConstantTypes DEF Init
<1>2. buf \in [Offset -> Byte] /\ wr \in Offset /\ rd \in Offset
    BY ConstantTypes DEF Init
<1>3. host \in [pc : {"idle", "take"}, rd : Offset, wr : Offset, max : 0..MaxLen]
    BY ConstantTypes, RttSizeAssumption DEF Init, Resting
<1>4. active \in Terminal /\ serial \in 0..(Serials - 1) /\ shown \in Terminal /\ pending \in Seq(Byte)
    BY RttSizeAssumption DEF Init
<1> QED BY <1>1, <1>2, <1>3, <1>4 DEF Init, TInv, TypeOK, Mode

LEMMA StepType ==
    ASSUME TInv, NEW c \in Ctx, Step(c)
    PROVE  TInv'
    BY DoInitType, DecidingType, EnterWriteDecides, EnterSkipDecides, PutCharDecides,
       SetTerminalDecides, TerminalOutDecides, BlockingChunkType, CopyType, PublishType DEF Step

(* All offsets, counts, frames and histories stay in range, in every       *)
(* interleaving of main program, interrupts and probe.                     *)
THEOREM TypeCorrect == Spec => []TypeOK
<1>1. TInv /\ [Next]_vars => TInv'
    BY SetFlagsType, HostType, StartType, StepType, StutterType DEF Next
<1>2. TInv => TypeOK
    BY DEF TInv
<1> QED BY <1>1, <1>2, InitType, PTL DEF Spec

-----------------------------------------------------------------------------
(* The queue.  With EarlyIsr an interrupt may come between the INIT test   *)
(* and _DoInit, which then discards what it wrote;                         *)
(* without it the ring is a queue from the start.                          *)

(* A writer under the lock is alone.                                      *)
Alone == Locked("main") => call["isr"].pc = "idle"

(* Initialisation is over before anything else happens.                   *)
Booted ==
    /\ ready => \A c \in Ctx : call[c].pc \notin {"reset", "ident"}
    /\ ~ready => /\ host.pc = "idle" /\ call["isr"].pc = "idle"
                 /\ call["main"].pc \in {"idle", "reset", "ident"}
                 /\ wr = 0 /\ rd = 0 /\ pending = <<>>

(* What the probe has seen is still there when it takes it.               *)
Reader == host.pc = "take" => /\ host.rd = rd
                              /\ Distance(host.rd, host.wr) <= Distance(rd, wr)

(* A copy is complete before it is published.                             *)
Copied ==
    \A c \in Ctx : call[c].pc = "publish" =>
       \A i \in 1..call[c].n : buf[Wrap(wr + i - 1)] = Part(call[c])[i]

(* What waits in the ring is what has been accepted.                      *)
Fifo ==
    /\ Len(pending) = Distance(rd, wr)
    /\ \A i \in 1..Distance(rd, wr) : pending[i] = buf[Wrap(rd + i - 1)]

Queue == Alone /\ Booted /\ Reader /\ CopyFits /\ Copied /\ Fifo

(* A step of a context is one of the only writer: the other is not under   *)
(* the lock.                                                               *)
LEMMA OnlyWriter ==
    ASSUME Alone, NEW c \in Ctx, Running(c), call[c].pc # "idle"
    PROVE  \A d \in Ctx \ {c} : ~Locked(d)
    BY DEF Alone, Running, Locked, Ctx

(* A step that changes the frame of one context and neither the ring nor   *)
(* what the probe holds.                                                   *)
LEMMA OwnFrame ==
    ASSUME TInv, Queue, NEW c \in Ctx, NEW f \in Call, Become(c, f), Running(c),
           \A d \in Ctx \ {c} : ~Locked(d), UNCHANGED <<ring, host, pending>>,
           f.pc # "publish", f.pc = "copy" => f.n <= Avail(rd, wr)
    PROVE  Alone' /\ Reader' /\ CopyFits' /\ Copied' /\ Fifo'
<1>1. call'[c] = f /\ \A d \in Ctx \ {c} : call'[d] = call[d]
    BY DEF Become, TInv, TypeOK
<1>2. wr' = wr /\ rd' = rd /\ buf' = buf /\ host' = host /\ pending' = pending
    BY DEF ring
<1>3. Alone'
    BY <1>1 DEF Alone, Locked, Running, Ctx, Queue
<1>4. Reader'
    BY <1>2 DEF Reader, Queue
<1>5. \A d \in Ctx \ {c} : call'[d].pc \notin {"copy", "publish"}
    BY <1>1 DEF Locked
<1>6. CopyFits'
    BY <1>1, <1>2, <1>5 DEF CopyFits
<1>7. Copied'
    BY <1>1, <1>5 DEF Copied
<1>8. Fifo'
    BY <1>2 DEF Fifo, Queue
<1> QED BY <1>3, <1>4, <1>6, <1>7, <1>8

(* Once a call has passed INIT, initialisation is over.                   *)
LEMMA Entered ==
    ASSUME Booted, NEW c \in Ctx, call[c].pc \notin {"idle", "reset", "ident"}
    PROVE  ready
    BY DEF Booted, Ctx

LEMMA BootedKept ==
    ASSUME TInv, Booted, ready, NEW c \in Ctx, NEW f \in Call, Become(c, f),
           f.pc \notin {"reset", "ident"}, UNCHANGED ready
    PROVE  Booted'
    BY DEF Booted, Become, TInv, TypeOK

LEMMA AfterPc ==
    ASSUME NEW c \in Ctx, NEW done
    PROVE  After(c, done).pc \in {"idle", "enter"}
    BY DEF After, Idle

LEMMA DecidingQueue ==
    ASSUME TInv, Queue, NEW c \in Ctx, Deciding(c)
    PROVE  Queue'
<1>1. call[c].pc \in {"enter", "spin"} /\ Running(c) /\ call[c] \in Call
      /\ UNCHANGED <<ring, host, pending>> /\ UNCHANGED ready
    BY DEF Deciding, hist, TInv, TypeOK
<1>2. ready /\ \A d \in Ctx \ {c} : ~Locked(d)
    BY <1>1, Entered, OnlyWriter DEF Queue
<1>3. SUFFICES \E f \in Call : /\ Become(c, f)
                               /\ f.pc \notin {"publish", "reset", "ident"}
                               /\ f.pc = "copy" => f.n <= Avail(rd, wr)
    BY <1>1, <1>2, OwnFrame, BootedKept DEF Queue
<1>4. CASE GiveUp(c)
    BY <1>4, AfterType, AfterPc DEF GiveUp, TInv
<1>5. CASE Goto(c, "spin")
    <2> DEFINE f == [call[c] EXCEPT !.pc = "spin"]
    <2>1. f \in Call /\ f.pc = "spin" /\ Become(c, f)
        BY <1>1, <1>5 DEF Call, Pc, Goto
    <2> HIDE DEF f
    <2> QED BY <2>1
<1>6. ASSUME NEW segs \in Seq(Seq(Byte)), Blocking(c, segs)
      PROVE  \E f \in Call : /\ Become(c, f)
                             /\ f.pc \notin {"publish", "reset", "ident"}
                             /\ f.pc = "copy" => f.n <= Avail(rd, wr)
    <2> DEFINE f == [call[c] EXCEPT !.pc = "chunk", !.segs = segs, !.blk = TRUE]
    <2>1. f \in Call /\ f.pc = "chunk"
        BY <1>1 DEF Call, Pc
    <2>2. Become(c, f)
        BY <1>6 DEF Blocking
    <2> HIDE DEF f
    <2> QED BY <2>1, <2>2
<1>7. ASSUME NEW data \in Seq(Byte), Len(data) <= Avail(rd, wr), NoCheck(c, data)
      PROVE  \E f \in Call : /\ Become(c, f)
                             /\ f.pc \notin {"publish", "reset", "ident"}
                             /\ f.pc = "copy" => f.n <= Avail(rd, wr)
    <2> DEFINE f == [call[c] EXCEPT !.pc = "copy", !.segs = <<data>>, !.n = Len(data), !.blk = FALSE]
    <2>1. Become(c, f)
        BY <1>7 DEF NoCheck
    <2>2. f.pc = "copy" /\ f.n = Len(data)
        BY <1>1 DEF Call
    <2>3. f \in Call
        <3>1. call' \in [Ctx -> Call]
            BY <1>7, NoCheckType
        <3>2. call'[c] = f
            BY <2>1 DEF Become, TInv, TypeOK
        <3> HIDE DEF f
        <3> QED BY <3>1, <3>2
    <2> HIDE DEF f
    <2> QED BY <1>7, <2>1, <2>2, <2>3
<1> QED BY <1>4, <1>5, <1>6, <1>7 DEF Deciding

LEMMA BlockingChunkQueue ==
    ASSUME TInv, Queue, NEW c \in Ctx, BlockingChunk(c)
    PROVE  Queue'
<1> DEFINE n == Chunk(rd, wr, Len(Head(call[c].segs)))
           f == [call[c] EXCEPT !.pc = "copy", !.n = n]
<1>1. call[c].pc = "chunk" /\ Running(c) /\ call[c] \in Call
      /\ UNCHANGED <<ring, host, pending>> /\ UNCHANGED ready
    BY DEF BlockingChunk, At, hist, TInv, TypeOK
<1>2. ready /\ \A d \in Ctx \ {c} : ~Locked(d)
    BY <1>1, Entered, OnlyWriter DEF Queue
<1>3. Become(c, f)
    BY DEF BlockingChunk
<1>4. f \in Call
    <2>1. call' \in [Ctx -> Call]
        BY BlockingChunkType DEF TInv, TypeOK
    <2>2. call'[c] = f
        BY <1>3 DEF Become, TInv, TypeOK
    <2> HIDE DEF f
    <2> QED BY <2>1, <2>2
<1>5. n <= Avail(rd, wr)
    <2>1. Head(call[c].segs) \in Seq(Byte)
        <3>1. call[c].segs \in Seq(Seq(Byte)) /\ call[c].segs # <<>>
            BY <1>1 DEF TInv, Call, Filled
        <3> QED BY <3>1, HeadTailProperties
    <2>2. Len(Head(call[c].segs)) \in Nat /\ rd \in Offset /\ wr \in Offset
        BY <2>1 DEF TInv, TypeOK
    <2> QED BY <2>2, ChunkFits
<1>6. f.pc = "copy" /\ f.n = n
    <2> HIDE DEF n
    <2> QED BY <1>1 DEF Call
<1> HIDE DEF f, n
<1> QED BY <1>1, <1>2, <1>3, <1>4, <1>5, <1>6, OwnFrame, BootedKept DEF Queue

LEMMA StartQueue ==
    ASSUME TInv, Queue, ~EarlyIsr, NEW c \in Ctx, Start(c)
    PROVE  Queue'
<1>1. PICK op \in Op, t \in Terminal, len \in 1..MaxLen :
          Become(c, [Idle EXCEPT !.op = op, !.t = t, !.left = len,
                                 !.pc = IF ready THEN "enter" ELSE "reset"])
    BY DEF Start
<1> DEFINE pc == IF ready THEN "enter" ELSE "reset"
           f  == [Idle EXCEPT !.op = op, !.t = t, !.left = len, !.pc = pc]
<1>2. Become(c, f)
    BY <1>1
<1>3. f \in Call /\ f.pc = pc
    <2>1. call' \in [Ctx -> Call]
        BY StartType DEF TInv, TypeOK
    <2>2. call'[c] = f
        BY <1>2 DEF Become, TInv, TypeOK
    <2>3. f.pc = pc
        BY DEF Idle
    <2> HIDE DEF f
    <2> QED BY <2>1, <2>2, <2>3
<1>4. Running(c) /\ (c = "isr" => ~Locked("main") /\ ready)
      /\ UNCHANGED <<ring, host, pending>> /\ UNCHANGED ready
    BY DEF Start, hist
<1>5. \A d \in Ctx \ {c} : ~Locked(d)
    BY <1>4 DEF Running, Locked, Ctx
<1> HIDE DEF f
<1>6. Booted'
    <2>1. CASE ready
        BY <1>2, <1>3, <1>4, <2>1, BootedKept DEF Queue
    <2>2. CASE ~ready
        <3>1. c = "main" /\ call'["main"] = f /\ call'["isr"] = call["isr"]
            BY <1>2, <1>4, <2>2 DEF Become, TInv, TypeOK, Ctx
        <3> QED BY <1>3, <1>4, <2>2, <3>1 DEF Booted, Queue, ring
    <2> QED BY <2>1, <2>2
<1> QED BY <1>2, <1>3, <1>4, <1>5, <1>6, OwnFrame DEF Queue

LEMMA DoInitQueue ==
    ASSUME TInv, Queue, NEW c \in Ctx, DoInit(c) \/ DoInitIdent(c)
    PROVE  Queue'
<1>1. call[c].pc \in {"reset", "ident"} /\ Running(c) /\ call[c] \in Call
    BY DEF DoInit, DoInitIdent, At, TInv, TypeOK
<1>2. ~ready /\ c = "main" /\ \A d \in Ctx \ {c} : ~Locked(d)
    BY <1>1, OnlyWriter DEF Queue, Booted, Ctx
<1>3. UNCHANGED <<ring, host, pending>>
    BY <1>2 DEF DoInit, DoInitIdent, Queue, Booted, ring, hist
<1>4. PICK pc \in {"ident", "enter"} : Goto(c, pc) /\ (ready' <=> pc = "enter")
    BY DEF DoInit, DoInitIdent
<1> DEFINE f == [call[c] EXCEPT !.pc = pc]
<1>5. Become(c, f) /\ f \in Call /\ f.pc = pc
    BY <1>1, <1>4 DEF Goto, Call, Pc
<1> HIDE DEF f
<1>6. Booted'
    <2>1. call'["main"] = f /\ call'["isr"] = call["isr"]
        BY <1>2, <1>5 DEF Become, TInv, TypeOK, Ctx
    <2> QED BY <1>2, <1>3, <1>4, <1>5, <2>1 DEF Booted, Queue, ring, Ctx
<1> QED BY <1>1, <1>2, <1>3, <1>5, <1>6, OwnFrame DEF Queue

LEMMA CopyQueue ==
    ASSUME TInv, Queue, NEW c \in Ctx, Copy(c)
    PROVE  Queue'
<1> DEFINE n == call[c].n
           data == Part(call[c])
           f == [call[c] EXCEPT !.pc = "publish"]
<1>1. /\ call[c].pc = "copy" /\ Running(c) /\ call[c] \in Call
      /\ wr' = wr /\ rd' = rd /\ host' = host /\ pending' = pending /\ UNCHANGED ready
      /\ Become(c, f) /\ buf' = Stored(buf, wr, data)
    BY DEF Copy, At, Goto, Part, hist, TInv, TypeOK
<1>2. ready /\ \A d \in Ctx \ {c} : ~Locked(d)
    BY <1>1, Entered, OnlyWriter DEF Queue
<1>3. /\ f \in Call /\ f.pc = "publish" /\ f.n = n /\ Part(f) = data
    BY <1>1 DEF Call, Pc, Part
<1>4. /\ rd \in Offset /\ wr \in Offset /\ buf \in [Offset -> Byte]
      /\ n \in Nat /\ n <= Avail(rd, wr) /\ Avail(rd, wr) \in 0..(Size - 1)
      /\ data \in Seq(Byte) /\ Len(data) = n
    <2>1. /\ rd \in Offset /\ wr \in Offset /\ buf \in [Offset -> Byte]
          /\ call[c] \in Call /\ Filled(call[c])
        BY DEF TInv, TypeOK
    <2>2. n \in Nat
        BY <2>1 DEF Call
    <2>3. data \in Seq(Byte) /\ Len(data) = n
        BY <1>1, PartType
    <2>4. n <= Avail(rd, wr)
        BY <1>1 DEF Queue, CopyFits
    <2>5. Avail(rd, wr) \in 0..(Size - 1)
        BY <2>1, AvailIsRest
    <2> QED BY <2>1, <2>2, <2>3, <2>4, <2>5
<1>5. call'[c] = f /\ \A d \in Ctx \ {c} : call'[d] = call[d]
    BY <1>1 DEF Become, TInv, TypeOK
<1> HIDE DEF f, data, n
<1>6. Alone'
    BY <1>1, <1>2, <1>3, <1>5 DEF Alone, Locked, Running, Ctx
<1>7. Booted'
    BY <1>1, <1>2, <1>3, BootedKept DEF Queue
<1>8. Reader'
    BY <1>1 DEF Reader, Queue
<1>9. \A d \in Ctx \ {c} : call'[d].pc \notin {"copy", "publish"}
    BY <1>2, <1>5 DEF Locked
<1>10. CopyFits'
    BY <1>1, <1>3, <1>4, <1>5, <1>9 DEF CopyFits
<1>11. Len(data) \in 0..(Size - 1)
    BY <1>4, RttSizeAssumption
<1>12. /\ \A j \in 1..n : buf'[Wrap(wr + j - 1)] = data[j]
       /\ \A x \in Offset : (\A j \in 1..n : x # Wrap(wr + j - 1)) => buf'[x] = buf[x]
    BY <1>1, <1>4, <1>11, StoredBytes
<1>13. Copied'
    BY <1>1, <1>3, <1>5, <1>9, <1>12 DEF Copied
<1>14. ASSUME NEW i \in 1..Distance(rd, wr)
       PROVE  buf'[Wrap(rd + i - 1)] = buf[Wrap(rd + i - 1)]
    <2>1. Wrap(rd + i - 1) \in Offset
        BY <1>4, RttSizeAssumption DEF Wrap, Offset, Distance
    <2>2. ASSUME NEW j \in 1..n PROVE Wrap(rd + i - 1) # Wrap(wr + j - 1)
        <3>1. j \in 1..Avail(rd, wr)
            BY <1>4
        <3> QED BY <1>4, <3>1, FreeApart
    <2> QED BY <1>12, <2>1, <2>2
<1>15. Fifo'
    BY <1>1, <1>14 DEF Fifo, Queue
<1> QED BY <1>6, <1>7, <1>8, <1>10, <1>13, <1>15 DEF Queue

LEMMA PublishQueue ==
    ASSUME TInv, Queue, NEW c \in Ctx, Publish(c)
    PROVE  Queue'
<1> DEFINE n == call[c].n
           data == Part(call[c])
           D == Distance(rd, wr)
           f == call'[c]
<1>1. /\ call[c].pc = "publish" /\ Running(c)
      /\ wr' = Wrap(wr + n) /\ rd' = rd /\ buf' = buf /\ host' = host /\ UNCHANGED ready
      /\ pending' = pending \o data
    BY DEF Publish, At, Part
<1>2. ready /\ \A d \in Ctx \ {c} : ~Locked(d)
    BY <1>1, Entered, OnlyWriter DEF Queue
<1>3. f.pc \in {"idle", "enter", "chunk"} /\ f \in Call /\ Become(c, f)
    <2>1. call' \in [Ctx -> Call]
        BY PublishType DEF TInv, TypeOK
    <2> DEFINE seg  == Head(call[c].segs)
               rest == SubSeq(seg, call[c].n + 1, Len(seg))
               segs == IF rest = <<>> THEN Tail(call[c].segs) ELSE <<rest>> \o Tail(call[c].segs)
               more == [call[c] EXCEPT !.pc = "chunk", !.segs = segs]
               done == IF call[c].blk THEN Portion(c) ELSE call[c].n
               next == IF segs = <<>> THEN After(c, done) ELSE more
    <2>2. Become(c, next)
        BY DEF Publish
    <2>3. more.pc = "chunk"
        <3> HIDE DEF segs
        <3> QED BY DEF TInv, TypeOK, Call
    <2> HIDE DEF more, done, segs
    <2>4. next.pc \in {"idle", "enter", "chunk"}
        BY <2>3, AfterPc
    <2> HIDE DEF next
    <2>5. f = next
        BY <2>2 DEF Become, TInv, TypeOK
    <2>6. f \in Call
        BY <2>1
    <2> HIDE DEF f
    <2> QED BY <2>2, <2>4, <2>5, <2>6
<1>4. /\ rd \in Offset /\ wr \in Offset /\ n \in 0..Avail(rd, wr) /\ D \in Nat
      /\ data \in Seq(Byte) /\ Len(data) = n
    <2>1. /\ rd \in Offset /\ wr \in Offset /\ n <= Avail(rd, wr) /\ n \in 0..(Size - 1)
          /\ data \in Seq(Byte) /\ Len(data) = n
        BY <1>1, PartType DEF Queue, CopyFits, TInv, TypeOK
    <2>2. D \in 0..(Size - 1) /\ Avail(rd, wr) \in 0..(Size - 1)
        BY <2>1, AvailIsRest
    <2> HIDE DEF n, data, D
    <2> QED BY <2>1, <2>2, RttSizeAssumption
<1>5. \A d \in Ctx \ {c} : call'[d] = call[d]
    BY <1>3 DEF Become, TInv, TypeOK
<1>6. \A i \in 1..n : data[i] = buf[Wrap(wr + i - 1)]
    BY <1>1 DEF Queue, Copied
<1> HIDE DEF f, data, n
<1>7. /\ Distance(rd, wr') = D + n
      /\ \A k \in 1..n : Wrap(rd + D + k - 1) = Wrap(wr + k - 1)
    BY <1>1, <1>4, WriterMoves
<1>8. Alone'
    BY <1>2, <1>3, <1>5 DEF f, Alone, Queue, Locked, Running, Ctx, Publish, At
<1>9. Booted'
    BY <1>1, <1>2, <1>3, BootedKept DEF Queue
<1>10. Reader'
    <2>1. SUFFICES ASSUME host.pc = "take"
                   PROVE  host.rd = rd /\ Distance(host.rd, host.wr) <= D + n
        BY <1>1, <1>7 DEF Reader
    <2>2. host.rd = rd /\ Distance(host.rd, host.wr) <= D /\ Distance(host.rd, host.wr) \in Int
        BY <2>1, AvailIsRest, RttSizeAssumption DEF Reader, Queue, TInv, TypeOK
    <2> HIDE DEF D
    <2> QED BY <1>4, <2>2
<1>11. \A d \in Ctx : call'[d].pc \notin {"copy", "publish"}
    BY <1>2, <1>3, <1>5 DEF Locked, f
<1>12. CopyFits' /\ Copied'
    BY <1>11 DEF CopyFits, Copied
<1>13. /\ pending \in Seq(Byte) /\ Len(pending) = D
       /\ \A i \in 1..D : pending[i] = buf[Wrap(rd + i - 1)]
    BY DEF Fifo, Queue, TInv, TypeOK
<1> HIDE DEF D
<1>14. /\ Len(pending') = D + n
       /\ \A i \in 1..(D + n) : pending'[i] = IF i <= D THEN pending[i] ELSE data[i - D]
    BY <1>1, <1>4, <1>13, ConcatProperties
<1>15. ASSUME NEW i \in 1..(D + n)
       PROVE  pending'[i] = buf[Wrap(rd + i - 1)]
    <2>1. CASE i <= D
        BY <1>4, <1>13, <1>14, <2>1
    <2>2. CASE ~(i <= D)
        <3>1. i - D \in 1..n /\ rd + D + (i - D) - 1 = rd + i - 1
            BY <1>4, <2>2 DEF Offset
        <3>2. Wrap(rd + D + (i - D) - 1) = Wrap(wr + (i - D) - 1)
            BY <1>7, <3>1
        <3> QED BY <1>6, <1>14, <2>2, <3>1, <3>2
    <2> QED BY <2>1, <2>2
<1>16. Fifo'
    BY <1>1, <1>7, <1>14, <1>15 DEF Fifo
<1> QED BY <1>8, <1>9, <1>10, <1>12, <1>16 DEF Queue

LEMMA HostLookQueue == TInv /\ Queue /\ HostLook => Queue'
<1> SUFFICES ASSUME TInv, Queue, HostLook PROVE Queue'
    OBVIOUS
<1>1. /\ buf' = buf /\ wr' = wr /\ rd' = rd /\ call' = call /\ pending' = pending
      /\ ready /\ ready' = ready
    BY DEF HostLook, ring, hist
<1>2. host'.rd = rd /\ host'.wr = wr
    BY DEF HostLook, Resting
<1>3. Reader'
    <2>1. Distance(rd, wr) <= Distance(rd, wr)
        BY AvailIsRest, RttSizeAssumption DEF TInv, TypeOK
    <2> QED BY <1>1, <1>2, <2>1 DEF Reader
<1>4. Alone' /\ Booted' /\ CopyFits' /\ Copied' /\ Fifo'
    BY <1>1 DEF Queue, Alone, Locked, Booted, CopyFits, Copied, Fifo
<1> QED BY <1>3, <1>4 DEF Queue

(* What a probe that looked a while ago takes is the front of what waits.  *)
LEMMA TakenIsFront ==
    ASSUME TInv, Queue, host.pc = "take"
    PROVE  LET data == Fetch(buf, host.rd, host.wr, host.max)
           IN  /\ Len(data) \in 0..Distance(rd, wr)
               /\ \A i \in 1..Len(data) : data[i] = pending[i]
<1> DEFINE data == Fetch(buf, host.rd, host.wr, host.max)
           m == Lesser(Distance(host.rd, host.wr), host.max)
<1>1. /\ host.rd = rd /\ Distance(host.rd, host.wr) <= Distance(rd, wr)
      /\ rd \in Offset /\ wr \in Offset /\ host.rd \in Offset /\ host.wr \in Offset
      /\ host.max \in Nat /\ buf \in [Offset -> Byte]
    BY RttSizeAssumption DEF Queue, Reader, TInv, TypeOK
<1>2. /\ Len(data) = m /\ m \in 0..Distance(host.rd, host.wr)
      /\ \A i \in 1..m : data[i] = buf[Wrap(host.rd + i - 1)]
    <2> HIDE DEF m
    <2>1. ASSUME NEW r \in Offset, NEW w \in Offset, NEW x \in Nat
          PROVE  /\ Len(Fetch(buf, r, w, x)) = Lesser(Distance(r, w), x)
                 /\ Lesser(Distance(r, w), x) \in 0..Distance(r, w)
                 /\ \A i \in 1..Lesser(Distance(r, w), x) :
                       Fetch(buf, r, w, x)[i] = buf[Wrap(r + i - 1)]
        <3>1. buf \in [Offset -> Byte]
            BY <1>1
        <3> QED BY <3>1, FetchedBytes
    <2>2. host.rd \in Offset /\ host.wr \in Offset /\ host.max \in Nat
        BY <1>1
    <2> QED BY <2>1, <2>2 DEF m
<1>3. Distance(host.rd, host.wr) \in Nat /\ Distance(rd, wr) \in Nat
    BY <1>1, AvailIsRest, RttSizeAssumption
<1> HIDE DEF data, m
<1>4. m \in 0..Distance(rd, wr)
    BY <1>1, <1>2, <1>3
<1>5. ASSUME NEW i \in 1..m PROVE data[i] = pending[i]
    <2>1. i \in 1..Distance(rd, wr)
        BY <1>3, <1>4
    <2> QED BY <1>1, <1>2, <2>1 DEF Fifo, Queue
<1> QED BY <1>2, <1>4, <1>5 DEF data

LEMMA HostTakeQueue == TInv /\ Queue /\ HostTake => Queue'
<1> SUFFICES ASSUME TInv, Queue, HostTake PROVE Queue'
    OBVIOUS
<1> DEFINE data == Fetch(buf, host.rd, host.wr, host.max)
           l == Len(data)
           D == Distance(rd, wr)
           gone == {Wrap(host.rd + i - 1) : i \in 1..l}
<1>1. /\ host.pc = "take" /\ host.rd = rd /\ wr' = wr /\ ready' = ready /\ call' = call
      /\ rd' = Wrap(rd + l) /\ pending' = SubSeq(pending, l + 1, Len(pending))
      /\ buf' = [x \in Offset |-> IF x \in gone THEN Stale ELSE buf[x]]
      /\ host'.pc = "idle"
    BY DEF HostTake, Queue, Reader, Resting
<1>2. l \in 0..D /\ D \in 0..(Size - 1) /\ rd \in Offset /\ wr \in Offset
    <2>1. l \in 0..D
        BY <1>1, TakenIsFront
    <2> HIDE DEF l
    <2> QED BY <2>1, AvailIsRest DEF TInv, TypeOK
<1>3. gone = {Wrap(rd + i - 1) : i \in 1..l}
    BY <1>1
<1> HIDE DEF l, gone, data
<1>4. /\ Distance(rd', wr) = D - l
      /\ \A k \in 1..(D - l) : Wrap(rd' + k - 1) = Wrap(rd + l + k - 1)
    BY <1>1, <1>2, ReaderMoves
<1>5. ready
    BY <1>1 DEF Queue, Booted
<1>6. Alone' /\ Booted' /\ Reader'
    BY <1>1, <1>5 DEF Queue, Alone, Locked, Booted, Reader
<1>7. rd' \in Offset /\ Avail(rd', wr) = Avail(rd, wr) + l
    <2>1. rd' \in Offset
        BY <1>1, <1>2, WrapIsOffset, RttSizeAssumption
    <2>2. Avail(rd', wr) = Size - 1 - (D - l) /\ Avail(rd, wr) = Size - 1 - D
        BY <1>2, <1>4, <2>1, AvailIsRest
    <2> HIDE DEF D
    <2> QED BY <1>2, <2>1, <2>2, RttSizeAssumption
<1>8. CopyFits'
    <2>1. SUFFICES ASSUME NEW c \in Ctx, call[c].pc \in {"copy", "publish"}
                   PROVE  call[c].n <= Avail(rd', wr)
        BY <1>1 DEF CopyFits
    <2>2. call[c].n <= Avail(rd, wr) /\ call[c].n \in Int /\ Avail(rd, wr) \in Int /\ l \in Nat
        <3>1. call[c].n \in 0..(Size - 1) /\ Avail(rd, wr) \in 0..(Size - 1)
            BY <1>2, <2>1, PartType, AvailIsRest
        <3> QED BY <1>2, <2>1, <3>1, RttSizeAssumption DEF Queue, CopyFits
    <2> QED BY <1>7, <2>2
<1>9. Copied'
    <2>1. SUFFICES ASSUME NEW c \in Ctx, call[c].pc = "publish", NEW i \in 1..call[c].n
                   PROVE  buf'[Wrap(wr + i - 1)] = buf[Wrap(wr + i - 1)]
        BY <1>1 DEF Copied, Queue
    <2>2. i \in 1..Avail(rd, wr) /\ Avail(rd, wr) \in 0..(Size - 1)
        <3>1. call[c].n \in 0..(Size - 1) /\ Avail(rd, wr) \in 0..(Size - 1)
              /\ call[c].n <= Avail(rd, wr)
            BY <1>2, <2>1, PartType, AvailIsRest DEF Queue, CopyFits
        <3> QED BY <3>1, RttSizeAssumption
    <2>3. Wrap(wr + i - 1) \in Offset
        <3>1. i - 1 \in 0..Size /\ wr + (i - 1) = wr + i - 1
            BY <1>2, <2>2, RttSizeAssumption DEF Offset
        <3>2. Wrap(wr + (i - 1)) \in Offset
            BY <1>2, <3>1, WrapIsOffset
        <3> QED BY <3>1, <3>2
    <2>4. Wrap(wr + i - 1) \notin gone
        <3>1. ASSUME NEW j \in 1..l PROVE Wrap(rd + j - 1) # Wrap(wr + i - 1)
            <4>1. j \in 1..Distance(rd, wr)
                BY <1>2, RttSizeAssumption
            <4> QED BY <1>2, <2>2, <4>1, FreeApart
        <3> QED BY <1>3, <3>1
    <2> QED BY <1>1, <2>3, <2>4
<1>10. /\ pending \in Seq(Byte) /\ Len(pending) = D
       /\ \A i \in 1..D : pending[i] = buf[Wrap(rd + i - 1)]
    BY DEF Fifo, Queue, TInv, TypeOK
<1>11. /\ Len(pending') = D - l
       /\ \A k \in 1..(D - l) : pending'[k] = pending[l + k]
    <2>1. l + 1 \in Int /\ D \in Nat /\ l + 1 >= 1 /\ l \in Nat /\ l <= D
        BY <1>2, RttSizeAssumption
    <2> HIDE DEF D
    <2>2. \A i \in (l + 1)..Len(pending) : pending[i] \in Byte
        BY <1>10, <2>1, ElementOfSeq
    <2>3. pending' = SubSeq(pending, l + 1, D)
        BY <1>1, <1>10
    <2>4. CASE l < D
        BY <1>10, <2>1, <2>2, <2>3, <2>4, SubSeqProperties
    <2>5. CASE l = D
        BY <1>10, <2>1, <2>2, <2>3, <2>5, SubSeqProperties
    <2> QED BY <2>1, <2>4, <2>5
<1>12. ASSUME NEW k \in 1..(D - l)
       PROVE  pending'[k] = buf'[Wrap(rd' + k - 1)]
    <2>1. l + k \in 1..D /\ rd + (l + k) - 1 = rd + l + k - 1
        BY <1>2, RttSizeAssumption DEF Offset
    <2>2. Wrap(rd + (l + k) - 1) \in Offset
        <3>1. l + k - 1 \in 0..Size /\ rd + (l + k - 1) = rd + (l + k) - 1
            BY <1>2, <2>1, RttSizeAssumption DEF Offset
        <3>2. Wrap(rd + (l + k - 1)) \in Offset
            BY <1>2, <3>1, WrapIsOffset
        <3> QED BY <3>1, <3>2
    <2>3. Wrap(rd + (l + k) - 1) \notin gone
        <3>1. ASSUME NEW j \in 1..l PROVE Wrap(rd + j - 1) # Wrap(rd + (l + k) - 1)
            <4>1. j \in 1..Distance(rd, wr) /\ l + k \in 1..Distance(rd, wr) /\ j # l + k
                BY <1>2, <2>1, RttSizeAssumption
            <4> QED BY <1>2, <4>1, WaitingApart
        <3> QED BY <1>3, <3>1
    <2>4. buf'[Wrap(rd + (l + k) - 1)] = buf[Wrap(rd + (l + k) - 1)]
        BY <1>1, <2>2, <2>3
    <2>5. pending'[k] = buf[Wrap(rd + (l + k) - 1)]
        BY <1>10, <1>11, <2>1
    <2> QED BY <1>4, <2>1, <2>4, <2>5
<1>13. Fifo'
    BY <1>1, <1>4, <1>11, <1>12 DEF Fifo
<1> QED BY <1>6, <1>8, <1>9, <1>13 DEF Queue

-----------------------------------------------------------------------------
QueueInv == TInv /\ (~EarlyIsr => Queue)

LEMMA InitQueue == Init => Queue
<1> SUFFICES ASSUME Init PROVE Queue
    OBVIOUS
<1>1. \A c \in Ctx : call[c].pc = "idle"
    BY DEF Init, Idle
<1>2. Alone /\ Booted /\ Reader /\ CopyFits /\ Copied
    BY <1>1 DEF Init, Alone, Locked, Booted, Reader, Resting, CopyFits, Copied, Ctx
<1>3. Distance(rd, wr) = 0
    BY DEF Init, Distance
<1>4. Fifo
    BY <1>3 DEF Init, Fifo
<1> QED BY <1>2, <1>4 DEF Queue

LEMMA StepQueue ==
    ASSUME TInv, Queue, NEW c \in Ctx, Step(c)
    PROVE  Queue'
    BY DoInitQueue, DecidingQueue, EnterWriteDecides, EnterSkipDecides, PutCharDecides,
       SetTerminalDecides, TerminalOutDecides, BlockingChunkQueue, CopyQueue, PublishQueue DEF Step

LEMMA SetFlagsQueue == Queue /\ (SetFlags \/ UNCHANGED vars) => Queue'
<1> SUFFICES ASSUME Queue, SetFlags \/ UNCHANGED vars PROVE Queue'
    OBVIOUS
<1>1. /\ buf' = buf /\ wr' = wr /\ rd' = rd /\ call' = call /\ pending' = pending
      /\ host' = host /\ ready' = ready
    BY DEF SetFlags, vars, ring, hist
<1> QED BY <1>1 DEF Queue, Alone, Locked, Booted, Reader, CopyFits, Copied, Fifo

LEMMA NextQueue == QueueInv /\ [Next]_vars => QueueInv'
<1> SUFFICES ASSUME QueueInv, [Next]_vars PROVE QueueInv'
    OBVIOUS
<1>1. TInv'
    BY SetFlagsType, HostType, StartType, StepType, StutterType DEF Next, QueueInv
<1>2. ASSUME ~EarlyIsr PROVE Queue'
    <2>1. TInv /\ Queue
        BY <1>2 DEF QueueInv
    <2>2. CASE SetFlags \/ UNCHANGED vars
        BY <2>1, <2>2, SetFlagsQueue
    <2>3. CASE Host
        BY <2>1, <2>3, HostLookQueue, HostTakeQueue DEF Host
    <2>4. ASSUME NEW c \in Ctx, Start(c) \/ Step(c) PROVE Queue'
        BY <1>2, <2>1, <2>4, StartQueue, StepQueue
    <2> QED BY <2>2, <2>3, <2>4 DEF Next
<1> QED BY <1>1, <1>2 DEF QueueInv

LEMMA QueueIsStream == TInv /\ Queue => HostSeesStream
<1> SUFFICES ASSUME TInv, Queue PROVE HostSeesStream
    OBVIOUS
<1> DEFINE all == Fetch(buf, rd, wr, Size)
           D == Distance(rd, wr)
<1>1. /\ rd \in Offset /\ wr \in Offset /\ buf \in [Offset -> Byte] /\ Size \in Nat
      /\ pending \in Seq(Byte)
    BY RttSizeAssumption DEF TInv, TypeOK
<1>2. D \in 0..(Size - 1) /\ Lesser(D, Size) = D
    BY <1>1, AvailIsRest DEF Lesser
<1>3. /\ all \in Seq(Byte) /\ Len(all) = D
      /\ \A i \in 1..D : all[i] = buf[Wrap(rd + i - 1)]
    <2>1. /\ Fetch(buf, rd, wr, Size) \in Seq(Byte)
          /\ Len(Fetch(buf, rd, wr, Size)) = Lesser(D, Size)
          /\ \A i \in 1..Lesser(D, Size) :
                Fetch(buf, rd, wr, Size)[i] = buf[Wrap(rd + i - 1)]
        BY <1>1, FetchedBytes
    <2> QED BY <1>2, <2>1
<1> HIDE DEF all, D
<1>4. Len(pending) = D /\ \A i \in 1..D : pending[i] = buf[Wrap(rd + i - 1)]
    BY DEF Queue, Fifo, D
<1>5. pending = all
    BY <1>1, <1>3, <1>4, SeqEqual
<1>6. ASSUME host.pc = "take"
      PROVE  LET data == Fetch(buf, host.rd, host.wr, host.max)
             IN  data = SubSeq(pending, 1, Len(data))
    <2> DEFINE data == Fetch(buf, host.rd, host.wr, host.max)
    <2>1. /\ Len(data) \in 0..D /\ \A i \in 1..Len(data) : data[i] = pending[i]
        BY <1>6, TakenIsFront DEF D
    <2>2. data \in Seq(Byte)
        BY <1>1, FetchedBytes, RttSizeAssumption DEF TInv, TypeOK
    <2> HIDE DEF data
    <2>3. \A i \in 1..Len(data) : pending[i] \in Byte
        BY <1>1, <1>2, <1>4, <2>1, ElementOfSeq
    <2>4. /\ SubSeq(pending, 1, Len(data)) \in Seq(Byte)
          /\ Len(SubSeq(pending, 1, Len(data))) = Len(data)
          /\ \A i \in 1..Len(data) : SubSeq(pending, 1, Len(data))[i] = pending[i]
        <3>1. Len(data) \in Nat
            BY <2>2
        <3> QED BY <3>1, <2>3, SubSeqProperties
    <2>5. data = SubSeq(pending, 1, Len(data))
        BY <2>1, <2>2, <2>4, SeqEqual
    <2> QED BY <2>5 DEF data
<1> QED BY <1>5, <1>6 DEF HostSeesStream, all

(* The probe receives exactly the accepted bytes, in order, for a buffer   *)
(* of any size and calls of any length and kind in both contexts: the ring *)
(* is a queue as soon as no interrupt comes before initialisation.         *)
THEOREM StreamIsSeen == Spec => [](~EarlyIsr => HostSeesStream)
<1>1. Init => QueueInv
    BY InitType, InitQueue DEF QueueInv
<1>2. QueueInv => (~EarlyIsr => HostSeesStream)
    BY QueueIsStream DEF QueueInv
<1> QED BY <1>1, <1>2, NextQueue, PTL DEF Spec

(* No writer ever copies over a byte that the probe has not acknowledged,  *)
(* if no interrupt comes before initialisation.                            *)
THEOREM WritersFit == Spec => [](~EarlyIsr => CopyFits)
<1>1. Init => QueueInv
    BY InitType, InitQueue DEF QueueInv
<1>2. QueueInv => (~EarlyIsr => CopyFits)
    BY DEF QueueInv, Queue
<1> QED BY <1>1, <1>2, NextQueue, PTL DEF Spec

-----------------------------------------------------------------------------
(* Without blocking.  Whoever copies outside blocking mode has room for    *)
(* all that it still has to store, whatever the probe does meanwhile.      *)
Served == \A c \in Ctx : call[c].pc \in {"chunk", "copy", "publish"} => Granted(call[c].segs)

(* What remains of the segments once n bytes of the first are published.   *)
Remaining(s, n) ==
    LET rest == SubSeq(Head(s), n + 1, Len(Head(s)))
    IN  IF rest = <<>> THEN Tail(s) ELSE <<rest>> \o Tail(s)

LEMMA SegmentLengths ==
    ASSUME NEW s \in Seq(Seq(Byte))
    PROVE  /\ LenAt(s, 1) \in Nat /\ LenAt(s, 2) \in Nat /\ LenAt(s, 3) \in Nat
           /\ Todo(s) \in Nat
           /\ s # <<>> => LenAt(s, 1) = Len(Head(s)) /\ Len(Head(s)) <= Todo(s)
<1>1. \A i \in 1..Len(s) : Len(s[i]) \in Nat
    <2>1. \A i \in 1..Len(s) : s[i] \in Seq(Byte)
        BY ElementOfSeq
    <2> QED BY <2>1
<1>2. LenAt(s, 1) \in Nat /\ LenAt(s, 2) \in Nat /\ LenAt(s, 3) \in Nat
    BY <1>1 DEF LenAt
<1>3. s # <<>> => Len(s) >= 1 /\ Head(s) = s[1]
    <2> DEFINE S == Seq(Byte)
    <2>1. s \in Seq(S)
        OBVIOUS
    <2> HIDE DEF S
    <2> QED BY <2>1
<1>4. s # <<>> => LenAt(s, 1) = Len(Head(s))
    BY <1>3 DEF LenAt
<1> QED BY <1>2, <1>4 DEF Todo

LEMMA RemainingTodo ==
    ASSUME NEW s \in Seq(Seq(Byte)), s # <<>>, Len(s) <= 3, NEW n \in 0..Len(Head(s))
    PROVE  Len(Remaining(s, n)) <= 3 /\ Todo(Remaining(s, n)) = Todo(s) - n
<1> DEFINE seg  == Head(s)
           rest == SubSeq(seg, n + 1, Len(seg))
           tail == Tail(s)
<1>1. /\ seg \in Seq(Byte) /\ tail \in Seq(Seq(Byte)) /\ Len(tail) = Len(s) - 1
      /\ \A i \in 1..Len(tail) : tail[i] = s[i + 1]
    BY HeadTailProperties
<1>2. rest \in Seq(Byte) /\ Len(rest) = Len(seg) - n
    <2>1. \A i \in (n + 1)..Len(seg) : seg[i] \in Byte
        BY <1>1, ElementOfSeq
    <2>2. n + 1 \in Int /\ Len(seg) \in Int /\ n <= Len(seg)
        BY <1>1
    <2> HIDE DEF seg
    <2> QED BY <2>1, <2>2, SubSeqProperties
<1>3. /\ LenAt(s, 1) = Len(seg) /\ LenAt(s, 1) \in Nat /\ LenAt(s, 2) \in Nat
      /\ LenAt(s, 3) \in Nat
    BY SegmentLengths
<1>4. Len(s) \in Nat /\ Len(tail) \in Nat /\ Len(seg) \in Nat
    BY <1>1
<1> HIDE DEF seg, rest, tail
<1>5. LenAt(tail, 1) = LenAt(s, 2) /\ LenAt(tail, 2) = LenAt(s, 3) /\ LenAt(tail, 3) = 0
    <2>1. Len(tail) = Len(s) - 1 /\ Len(s) <= 3
        BY <1>1
    <2>2. /\ 1 <= Len(tail) => tail[1] = s[2]
          /\ 2 <= Len(tail) => tail[2] = s[3]
        <3>1. \A i \in 1..Len(tail) : tail[i] = s[i + 1]
            BY <1>1
        <3> QED BY <1>4, <3>1
    <2> QED BY <1>4, <2>1, <2>2 DEF LenAt
<1>6. CASE rest = <<>>
    <2>1. Remaining(s, n) = tail
        BY <1>6 DEF Remaining, rest, tail, seg
    <2>2. Len(rest) = 0
        BY <1>6
    <2> QED BY <1>1, <1>2, <1>3, <1>4, <1>5, <2>1, <2>2 DEF Todo
<1>7. CASE rest # <<>>
    <2> DEFINE all == <<rest>> \o tail
    <2>1. Remaining(s, n) = all
        BY <1>7 DEF Remaining, rest, tail, seg
    <2>2. <<rest>> \in Seq(Seq(Byte)) /\ Len(<<rest>>) = 1 /\ <<rest>>[1] = rest
        BY <1>2, SingleSegment, SingleTodo
    <2>3. /\ Len(all) = 1 + Len(tail)
          /\ \A i \in 1..(1 + Len(tail)) : all[i] = IF i <= 1 THEN <<rest>>[i] ELSE tail[i - 1]
        BY <1>1, <2>2, ConcatProperties
    <2> HIDE DEF all
    <2>4. LenAt(all, 1) = Len(rest)
        BY <1>4, <2>2, <2>3 DEF LenAt
    <2>5. LenAt(all, 2) = LenAt(tail, 1) /\ LenAt(all, 3) = LenAt(tail, 2)
        <3>1. /\ 1 <= Len(tail) => all[2] = tail[1]
              /\ 2 <= Len(tail) => all[3] = tail[2]
            BY <1>4, <2>3
        <3>2. Len(all) = 1 + Len(tail)
            BY <2>3
        <3> QED BY <1>4, <3>1, <3>2 DEF LenAt
    <2>6. Todo(all) = Todo(s) - n
        <3>1. /\ LenAt(all, 1) = Len(seg) - n /\ LenAt(all, 2) = LenAt(s, 2)
              /\ LenAt(all, 3) = LenAt(s, 3) /\ LenAt(s, 1) = Len(seg)
            BY <1>2, <1>3, <1>5, <2>4, <2>5
        <3>2. n \in Int /\ Len(seg) \in Int
            BY <1>4
        <3> HIDE DEF all
        <3>3. Todo(all) = LenAt(all, 1) + LenAt(all, 2) + LenAt(all, 3)
            BY DEF Todo
        <3>4. Todo(s) = LenAt(s, 1) + LenAt(s, 2) + LenAt(s, 3)
            BY DEF Todo
        <3> DEFINE k == Len(seg)
                   x == LenAt(s, 2)
                   y == LenAt(s, 3)
        <3>5. k \in Int /\ x \in Int /\ y \in Int
            BY <1>3, <3>2
        <3>6. Todo(all) = (k - n) + x + y /\ Todo(s) = k + x + y
            BY <3>1, <3>3, <3>4
        <3> HIDE DEF k, x, y
        <3> QED BY <3>2, <3>5, <3>6
    <2>7. Len(all) <= 3
        <3>1. Len(all) = 1 + Len(tail) /\ Len(tail) = Len(s) - 1
            BY <1>1, <2>3
        <3> QED BY <1>4, <3>1
    <2> QED BY <2>1, <2>6, <2>7
<1> QED BY <1>6, <1>7

(* A step of one context that leaves the ring's room and the mode alone.   *)
LEMMA OwnServed ==
    ASSUME TInv, NEW c \in Ctx, NEW f, Become(c, f), \A d \in Ctx \ {c} : ~Locked(d),
           f.pc \in {"chunk", "copy", "publish"} =>
              /\ Len(f.segs) <= 3
              /\ flags' # "block" => Todo(f.segs) <= Avail(rd', wr')
    PROVE  Served'
<1>1. call'[c] = f /\ \A d \in Ctx \ {c} : call'[d] = call[d]
    BY DEF Become, TInv, TypeOK
<1>2. \A d \in Ctx \ {c} : call'[d].pc \notin {"chunk", "copy", "publish"}
    BY <1>1 DEF Locked
<1> QED BY <1>1, <1>2 DEF Served, Granted

LEMMA DecidingServed ==
    ASSUME TInv, Queue, NEW c \in Ctx, Deciding(c)
    PROVE  Served'
<1>1. /\ call[c].pc \in {"enter", "spin"} /\ Running(c) /\ call[c] \in Call
      /\ wr' = wr /\ rd' = rd /\ flags' = flags
    BY DEF Deciding, ring, TInv, TypeOK
<1>2. \A d \in Ctx \ {c} : ~Locked(d)
    BY <1>1, OnlyWriter DEF Queue
<1>3. SUFFICES \E f : /\ Become(c, f)
                      /\ f.pc \in {"chunk", "copy", "publish"} =>
                            /\ Len(f.segs) <= 3
                            /\ flags # "block" => Todo(f.segs) <= Avail(rd, wr)
    BY <1>1, <1>2, OwnServed
<1>4. CASE GiveUp(c)
    BY <1>4, AfterPc DEF GiveUp
<1>5. CASE Goto(c, "spin")
    <2> DEFINE f == [call[c] EXCEPT !.pc = "spin"]
    <2>1. f.pc = "spin" /\ Become(c, f)
        BY <1>1, <1>5 DEF Call, Goto
    <2> HIDE DEF f
    <2> QED BY <2>1
<1>6. ASSUME NEW segs \in Seq(Seq(Byte)), Granted(segs), Blocking(c, segs)
      PROVE  \E f : /\ Become(c, f)
                    /\ f.pc \in {"chunk", "copy", "publish"} =>
                          /\ Len(f.segs) <= 3
                          /\ flags # "block" => Todo(f.segs) <= Avail(rd, wr)
    <2> DEFINE f == [call[c] EXCEPT !.pc = "chunk", !.segs = segs, !.blk = TRUE]
    <2>1. f.segs = segs /\ Become(c, f)
        BY <1>1, <1>6 DEF Call, Blocking
    <2> HIDE DEF f
    <2> QED BY <1>6, <2>1 DEF Granted
<1>7. ASSUME NEW data \in Seq(Byte), Len(data) <= Avail(rd, wr), NoCheck(c, data)
      PROVE  \E f : /\ Become(c, f)
                    /\ f.pc \in {"chunk", "copy", "publish"} =>
                          /\ Len(f.segs) <= 3
                          /\ flags # "block" => Todo(f.segs) <= Avail(rd, wr)
    <2> DEFINE f == [call[c] EXCEPT !.pc = "copy", !.segs = <<data>>, !.n = Len(data), !.blk = FALSE]
    <2>1. f.segs = <<data>>
        BY <1>1 DEF Call
    <2>2. Become(c, f)
        BY <1>7 DEF NoCheck
    <2> HIDE DEF f
    <2>3. Len(<<data>>) = 1 /\ Todo(<<data>>) = Len(data)
        BY SingleTodo
    <2>4. Len(f.segs) <= 3 /\ Todo(f.segs) <= Avail(rd, wr)
        BY <1>7, <2>1, <2>3
    <2> QED BY <2>2, <2>4
<1> QED BY <1>4, <1>5, <1>6, <1>7 DEF Deciding

(* Taking up a chunk and copying it change neither segments nor room.      *)
LEMMA CopyingServed ==
    ASSUME TInv, Queue, Served, NEW c \in Ctx, BlockingChunk(c) \/ Copy(c)
    PROVE  Served'
<1>1. /\ call[c].pc \in {"chunk", "copy"} /\ Running(c) /\ call[c] \in Call
      /\ wr' = wr /\ rd' = rd /\ flags' = flags
    BY DEF BlockingChunk, Copy, At, ring, TInv, TypeOK
<1>2. \A d \in Ctx \ {c} : ~Locked(d)
    BY <1>1, OnlyWriter DEF Queue
<1>3. PICK f : Become(c, f) /\ f.segs = call[c].segs
    <2>1. CASE BlockingChunk(c)
        <3> DEFINE n == Chunk(rd, wr, Len(Head(call[c].segs)))
                   f == [call[c] EXCEPT !.pc = "copy", !.n = n]
        <3>1. Become(c, f)
            BY <2>1 DEF BlockingChunk
        <3> HIDE DEF n
        <3>2. f.segs = call[c].segs
            BY <1>1 DEF Call
        <3> HIDE DEF f
        <3> QED BY <3>1, <3>2
    <2>2. CASE Copy(c)
        <3> DEFINE f == [call[c] EXCEPT !.pc = "publish"]
        <3>1. Become(c, f) /\ f.segs = call[c].segs
            BY <1>1, <2>2 DEF Copy, Goto, Call
        <3> HIDE DEF f
        <3> QED BY <3>1
    <2> QED BY <2>1, <2>2
<1>4. Granted(call[c].segs)
    BY <1>1 DEF Served
<1> QED BY <1>1, <1>2, <1>3, <1>4, OwnServed DEF Granted

LEMMA PublishServed ==
    ASSUME TInv, Queue, Served, NEW c \in Ctx, Publish(c)
    PROVE  Served'
<1> DEFINE n    == call[c].n
           s    == call[c].segs
           left == Remaining(s, n)
           done == IF call[c].blk THEN Portion(c) ELSE n
           more == [call[c] EXCEPT !.pc = "chunk", !.segs = left]
           next == IF left = <<>> THEN After(c, done) ELSE more
<1>1. /\ call[c].pc = "publish" /\ Running(c) /\ call[c] \in Call /\ Filled(call[c])
      /\ wr' = Wrap(wr + n) /\ rd' = rd /\ flags' = flags
    BY DEF Publish, At, TInv, TypeOK
<1>2. Become(c, next)
    BY DEF Publish, Remaining
<1>3. \A d \in Ctx \ {c} : ~Locked(d)
    BY <1>1, OnlyWriter DEF Queue
<1>4. Len(s) <= 3 /\ (flags # "block" => Todo(s) <= Avail(rd, wr))
    BY <1>1 DEF Served, Granted
<1>5. /\ s \in Seq(Seq(Byte)) /\ s # <<>> /\ n \in Nat /\ n <= Len(Head(s))
      /\ Head(s) \in Seq(Byte) /\ n <= Avail(rd, wr) /\ rd \in Offset /\ wr \in Offset
    <2>1. s \in Seq(Seq(Byte)) /\ s # <<>> /\ n \in 0..(Size - 1)
        BY <1>1 DEF Call, Filled
    <2>2. Head(s) \in Seq(Byte) /\ n <= Len(Head(s))
        BY <1>1, PartType
    <2>3. n <= Avail(rd, wr) /\ rd \in Offset /\ wr \in Offset
        BY <1>1 DEF Queue, CopyFits, TInv, TypeOK
    <2>4. n \in Nat
        BY <2>1, RttSizeAssumption
    <2> QED BY <2>1, <2>2, <2>3, <2>4
<1>6. Avail(rd, wr) \in Nat /\ Avail(rd', wr') = Avail(rd, wr) - n
    <2>1. n \in 0..Avail(rd, wr) /\ n \in 0..Size /\ Wrap(wr + n) \in Offset
        <3>1. Avail(rd, wr) \in 0..(Size - 1)
            BY <1>5, AvailIsRest
        <3>2. n \in 0..Avail(rd, wr) /\ n \in 0..Size
            BY <1>5, <3>1, RttSizeAssumption
        <3> QED BY <1>5, <3>2, WrapIsOffset
    <2>2. Distance(rd, Wrap(wr + n)) = Distance(rd, wr) + n
        BY <1>5, <2>1, WriterMoves
    <2>3. /\ Avail(rd, wr) = Size - 1 - Distance(rd, wr) /\ Avail(rd, wr) \in 0..(Size - 1)
          /\ Avail(rd, Wrap(wr + n)) = Size - 1 - Distance(rd, Wrap(wr + n))
          /\ Distance(rd, wr) \in 0..(Size - 1)
        BY <1>5, <2>1, AvailIsRest
    <2> HIDE DEF n
    <2> QED BY <1>1, <1>5, <2>2, <2>3, RttSizeAssumption
<1>7. Len(left) <= 3 /\ Todo(left) = Todo(s) - n /\ Todo(s) \in Nat
    <2>1. n \in 0..Len(Head(s))
        BY <1>5
    <2> QED BY <1>4, <1>5, <2>1, RemainingTodo, SegmentLengths
<1>8. more.segs = left
    <2> HIDE DEF left
    <2> QED BY <1>1 DEF Call
<1> HIDE DEF n, s, left, more, done
<1>9. next.pc \in {"chunk", "copy", "publish"} =>
         /\ Len(next.segs) <= 3
         /\ flags' # "block" => Todo(next.segs) <= Avail(rd', wr')
    <2>1. CASE left = <<>>
        BY <2>1, AfterPc
    <2>2. CASE left # <<>>
        BY <1>1, <1>4, <1>5, <1>6, <1>7, <1>8, <2>2
    <2> QED BY <2>1, <2>2
<1> HIDE DEF next
<1> QED BY <1>2, <1>3, <1>9, OwnServed

LEMMA BeginServed ==
    ASSUME TInv, Queue, NEW c \in Ctx, Start(c) \/ DoInit(c) \/ DoInitIdent(c)
    PROVE  Served'
<1>1. call[c].pc \in {"idle", "reset", "ident"} /\ Running(c) /\ call[c] \in Call
      /\ (c = "isr" => ~Locked("main"))
    BY DEF Start, DoInit, DoInitIdent, At, TInv, TypeOK, Queue, Alone
<1>2. \A d \in Ctx \ {c} : ~Locked(d)
    BY <1>1 DEF Running, Locked, Ctx
<1>3. \E f : Become(c, f) /\ f.pc \notin {"chunk", "copy", "publish"}
    <2>1. CASE Start(c)
        <3>1. PICK op \in Op, t \in Terminal, len \in 1..MaxLen :
                 Become(c, [Idle EXCEPT !.op = op, !.t = t, !.left = len,
                                        !.pc = IF ready THEN "enter" ELSE "reset"])
            BY <2>1 DEF Start
        <3> DEFINE pc == IF ready THEN "enter" ELSE "reset"
                   f  == [Idle EXCEPT !.op = op, !.t = t, !.left = len, !.pc = pc]
        <3>2. Become(c, f) /\ f.pc = pc
            BY <3>1 DEF Idle
        <3> HIDE DEF f
        <3> QED BY <3>2
    <2>2. CASE DoInit(c) \/ DoInitIdent(c)
        <3>1. PICK pc \in {"ident", "enter"} : Goto(c, pc)
            BY <2>2 DEF DoInit, DoInitIdent
        <3> DEFINE f == [call[c] EXCEPT !.pc = pc]
        <3>2. Become(c, f) /\ f.pc = pc
            BY <1>1, <3>1 DEF Goto, Call
        <3> HIDE DEF f
        <3> QED BY <3>2
    <2> QED BY <2>1, <2>2
<1> QED BY <1>2, <1>3, OwnServed

(* The mode changes only while no call is under way, and the probe only    *)
(* makes room.                                                             *)
LEMMA OtherServed ==
    ASSUME TInv, Queue, Served, SetFlags \/ Host \/ UNCHANGED vars
    PROVE  Served'
<1>1. CASE SetFlags
    <2>1. \A c \in Ctx : call'[c].pc = "idle"
        BY <1>1 DEF SetFlags, At, Running, Ctx
    <2> QED BY <2>1 DEF Served
<1>2. CASE HostLook \/ UNCHANGED vars
    <2>1. call' = call /\ flags' = flags /\ rd' = rd /\ wr' = wr
        BY <1>2 DEF HostLook, vars, ring
    <2> QED BY <2>1 DEF Served, Granted
<1>3. CASE HostTake
    <2> DEFINE n == Len(Fetch(buf, host.rd, host.wr, host.max))
    <2>1. /\ call' = call /\ flags' = flags /\ wr' = wr /\ rd' = Wrap(rd + n)
          /\ n \in 0..Distance(rd, wr) /\ rd \in Offset /\ wr \in Offset
        BY <1>3, TakenIsFront DEF HostTake, Reader, Queue, TInv, TypeOK
    <2> HIDE DEF n
    <2>2. Avail(rd, wr) <= Avail(rd', wr')
        <3>1. Distance(Wrap(rd + n), wr) = Distance(rd, wr) - n
            BY <2>1, ReaderMoves
        <3>2. /\ Avail(rd, wr) = Size - 1 - Distance(rd, wr)
              /\ Distance(rd, wr) \in 0..(Size - 1)
            BY <2>1, AvailIsRest
        <3>3. Wrap(rd + n) \in Offset
            <4>1. n \in 0..Size
                BY <2>1, <3>2, RttSizeAssumption
            <4> QED BY <2>1, <4>1, WrapIsOffset
        <3>4. Avail(Wrap(rd + n), wr) = Size - 1 - Distance(Wrap(rd + n), wr)
            BY <2>1, <3>3, AvailIsRest
        <3> QED BY <2>1, <3>1, <3>2, <3>4, RttSizeAssumption
    <2>3. /\ Avail(rd, wr) \in Int /\ Avail(rd', wr') \in Int
        <3>1. rd' \in Offset
            BY <1>3, HostType DEF Host, TInv, TypeOK
        <3> QED BY <2>1, <3>1, AvailIsRest, RttSizeAssumption
    <2>4. \A c \in Ctx : Todo(call[c].segs) \in Nat
        BY SegmentLengths DEF TInv, TypeOK, Call
    <2> QED BY <2>1, <2>2, <2>3, <2>4 DEF Served, Granted
<1> QED BY <1>1, <1>2, <1>3 DEF Host

ServedInv == QueueInv /\ (~EarlyIsr => Served)

LEMMA InitServed == Init => ServedInv
<1>1. Init => Served
    BY DEF Init, Served, Idle
<1> QED BY <1>1, InitType, InitQueue DEF ServedInv, QueueInv

LEMMA NextServed == ServedInv /\ [Next]_vars => ServedInv'
<1> SUFFICES ASSUME ServedInv, [Next]_vars PROVE ServedInv'
    OBVIOUS
<1>1. QueueInv'
    BY NextQueue DEF ServedInv
<1>2. ASSUME ~EarlyIsr PROVE Served'
    <2>1. TInv /\ Queue /\ Served
        BY <1>2 DEF ServedInv, QueueInv
    <2>2. CASE SetFlags \/ Host \/ UNCHANGED vars
        BY <2>1, <2>2, OtherServed
    <2>3. ASSUME NEW c \in Ctx, Start(c) \/ Step(c) PROVE Served'
        BY <2>1, <2>3, BeginServed, DecidingServed, EnterWriteDecides, EnterSkipDecides,
           PutCharDecides, SetTerminalDecides, TerminalOutDecides, CopyingServed,
           PublishServed DEF Step
    <2> QED BY <2>2, <2>3 DEF Next
<1> QED BY <1>1, <1>2 DEF ServedInv

(* No call waits for the probe outside blocking mode, in particular not    *)
(* TerminalOut, which copies with the blocking write, if no interrupt      *)
(* comes before initialisation.                                            *)
THEOREM NeverWaits == Spec => [](~EarlyIsr => NonBlocking)
<1>1. ServedInv => (~EarlyIsr => NonBlocking)
    <2> SUFFICES ASSUME ServedInv, ~EarlyIsr, NEW c \in Ctx, call[c].pc = "chunk",
                        flags # "block"
                 PROVE  Len(Head(call[c].segs)) <= Avail(rd, wr)
        BY DEF NonBlocking, At
    <2>1. /\ call[c].segs \in Seq(Seq(Byte)) /\ call[c].segs # <<>>
          /\ rd \in Offset /\ wr \in Offset
        BY DEF ServedInv, QueueInv, TInv, TypeOK, Call, Filled
    <2>2. Todo(call[c].segs) <= Avail(rd, wr)
        BY DEF ServedInv, Served, Granted
    <2>3. Len(Head(call[c].segs)) <= Todo(call[c].segs) /\ Todo(call[c].segs) \in Nat
        BY <2>1, SegmentLengths
    <2>5. Avail(rd, wr) \in Int
        BY <2>1, AvailIsRest, RttSizeAssumption
    <2>4. Head(call[c].segs) \in Seq(Byte) /\ Len(Head(call[c].segs)) \in Nat
        BY <2>1, HeadTailProperties
    <2> QED BY <2>2, <2>3, <2>4, <2>5
<1> QED BY <1>1, InitServed, NextServed, PTL DEF Spec

-----------------------------------------------------------------------------
(* Terminals.  What has been accepted and what the call in progress has    *)
(* still to store are together shown where they belong, and leave the host *)
(* on the active terminal.                                                 *)

(* The bytes s shown to a host that is on terminal t.                     *)
Right(t, s) ==
    \A i \in 1..Len(s) :
        /\ s[i].k = "text" => s[i].t = ShownAfter(t, SubSeq(s, 1, i))
        /\ s[i].k = "id" /\ i > 1 => s[i - 1].k = "esc"

(* They are right, and take the host to terminal u.                       *)
Path(t, s, u) == Right(t, s) /\ ShownAfter(t, s) = u

(* Nor do they begin with the second half of a pair.                      *)
Leads(t, s, u) == s \in Seq(Byte) /\ Path(t, s, u) /\ (s # <<>> => s[1].k # "id")

IsLastId(s, j) == /\ j \in 1..Len(s) /\ s[j].k = "id"
                  /\ \A x \in 1..Len(s) : s[x].k = "id" => x <= j

LEMMA LastId ==
    ASSUME NEW t, NEW s \in Seq(Byte)
    PROVE  \/ (\A x \in 1..Len(s) : s[x].k # "id") /\ ShownAfter(t, s) = t
           \/ \E j \in 1..Len(s) : IsLastId(s, j) /\ ShownAfter(t, s) = s[j].t
<1> DEFINE ids  == {j \in 1..Len(s) : s[j].k = "id"}
           last == CHOOSE j \in ids : \A x \in ids : x <= j
<1>1. CASE ids = {}
    BY <1>1 DEF ShownAfter
<1>2. CASE ids # {}
    <2>1. Len(s) \in Nat /\ ids \in SUBSET (1..Len(s))
        OBVIOUS
    <2>2. last \in ids /\ \A x \in ids : x <= last
        <3> HIDE DEF ids
        <3>1. \E i \in ids : \A j \in ids : j <= i
            BY <1>2, <2>1, LastIndex
        <3> QED BY <3>1
    <2>3. ShownAfter(t, s) = s[last].t
        BY <1>2 DEF ShownAfter
    <2> HIDE DEF last
    <2> QED BY <2>2, <2>3 DEF IsLastId
<1> QED BY <1>1, <1>2

LEMMA ShownOfLast ==
    ASSUME NEW t, NEW s \in Seq(Byte), NEW j, IsLastId(s, j)
    PROVE  ShownAfter(t, s) = s[j].t
<1>1. Len(s) \in Nat /\ j \in 1..Len(s)
    BY DEF IsLastId
<1>2. PICK i \in 1..Len(s) : IsLastId(s, i) /\ ShownAfter(t, s) = s[i].t
    BY LastId DEF IsLastId
<1>3. i <= j /\ j <= i
    BY <1>1, <1>2 DEF IsLastId
<1>4. i = j
    BY <1>1, <1>3
<1> QED BY <1>2, <1>4

LEMMA ShownOfNone ==
    ASSUME NEW t, NEW s \in Seq(Byte), \A x \in 1..Len(s) : s[x].k # "id"
    PROVE  ShownAfter(t, s) = t
    BY LastId DEF IsLastId

LEMMA ShownConcat ==
    ASSUME NEW t, NEW a \in Seq(Byte), NEW b \in Seq(Byte)
    PROVE  ShownAfter(t, a \o b) = ShownAfter(ShownAfter(t, a), b)
<1> DEFINE c == a \o b
<1>1. /\ c \in Seq(Byte) /\ Len(c) = Len(a) + Len(b) /\ Len(a) \in Nat /\ Len(b) \in Nat
      /\ \A i \in 1..(Len(a) + Len(b)) : c[i] = IF i <= Len(a) THEN a[i] ELSE b[i - Len(a)]
    BY ConcatProperties
<1> HIDE DEF c
<1>2. \A i \in 1..Len(a) : i \in 1..Len(c) /\ c[i] = a[i]
    BY <1>1
<1>3. \A i \in 1..Len(b) : Len(a) + i \in 1..Len(c) /\ c[Len(a) + i] = b[i]
    <2> TAKE i \in 1..Len(b)
    <2>1. /\ Len(a) + i \in 1..(Len(a) + Len(b)) /\ ~(Len(a) + i <= Len(a))
          /\ Len(a) + i - Len(a) = i
        BY <1>1
    <2> QED BY <1>1, <2>1
<1>4. \A x \in 1..Len(c) : x \in 1..Len(a) \/ \E i \in 1..Len(b) : x = Len(a) + i
    <2> TAKE x \in 1..Len(c)
    <2>1. CASE x <= Len(a)
        BY <1>1, <2>1
    <2>2. CASE ~(x <= Len(a))
        <3>1. x - Len(a) \in 1..Len(b) /\ x = Len(a) + (x - Len(a))
            BY <1>1, <2>2
        <3> QED BY <3>1
    <2> QED BY <2>1, <2>2
<1>5. CASE \A x \in 1..Len(b) : b[x].k # "id"
    <2>1. ShownAfter(ShownAfter(t, a), b) = ShownAfter(t, a)
        BY <1>5, ShownOfNone
    <2>2. CASE \A x \in 1..Len(a) : a[x].k # "id"
        <3>1. ASSUME NEW x \in 1..Len(c) PROVE c[x].k # "id"
            <4>1. CASE x \in 1..Len(a)
                BY <1>2, <2>2, <4>1
            <4>2. ASSUME NEW i \in 1..Len(b), x = Len(a) + i PROVE c[x].k # "id"
                BY <1>3, <1>5, <4>2
            <4> QED BY <1>4, <4>1, <4>2
        <3>2. ShownAfter(t, c) = t /\ ShownAfter(t, a) = t
            BY <1>1, <2>2, <3>1, ShownOfNone
        <3> QED BY <2>1, <3>2 DEF c
    <2>3. ASSUME NEW j \in 1..Len(a), IsLastId(a, j) PROVE ShownAfter(t, c) = a[j].t
        <3>1. ASSUME NEW x \in 1..Len(c), c[x].k = "id" PROVE x <= j
            <4>1. CASE x \in 1..Len(a)
                BY <1>2, <2>3, <3>1, <4>1 DEF IsLastId
            <4>2. ASSUME NEW i \in 1..Len(b), x = Len(a) + i PROVE FALSE
                BY <1>3, <1>5, <3>1, <4>2
            <4> QED BY <1>4, <4>1, <4>2
        <3>2. IsLastId(c, j) /\ c[j] = a[j]
            BY <1>2, <2>3, <3>1 DEF IsLastId
        <3> QED BY <1>1, <3>2, ShownOfLast
    <2>4. \/ \A x \in 1..Len(a) : a[x].k # "id"
          \/ \E j \in 1..Len(a) : IsLastId(a, j) /\ ShownAfter(t, a) = a[j].t
        BY LastId
    <2> QED BY <2>1, <2>2, <2>3, <2>4 DEF c
<1>6. ASSUME NEW j \in 1..Len(b), IsLastId(b, j)
      PROVE  ShownAfter(t, c) = b[j].t
    <2>1. \A x \in 1..Len(c) : c[x].k = "id" => x <= Len(a) + j
        <3> SUFFICES ASSUME NEW x \in 1..Len(c), c[x].k = "id" PROVE x <= Len(a) + j
            OBVIOUS
        <3>1. CASE x \in 1..Len(a)
            BY <1>1, <3>1
        <3>2. ASSUME NEW i \in 1..Len(b), x = Len(a) + i PROVE x <= Len(a) + j
            <4>1. i <= j
                BY <1>3, <1>6, <3>2 DEF IsLastId
            <4> QED BY <1>1, <3>2, <4>1
        <3> QED BY <1>4, <3>1, <3>2
    <2>2. IsLastId(c, Len(a) + j) /\ c[Len(a) + j] = b[j]
        BY <1>3, <1>6, <2>1 DEF IsLastId
    <2> QED BY <1>1, <2>2, ShownOfLast
<1>7. \/ \A x \in 1..Len(b) : b[x].k # "id"
      \/ \E j \in 1..Len(b) : IsLastId(b, j) /\ ShownAfter(ShownAfter(t, a), b) = b[j].t
    BY LastId
<1> QED BY <1>5, <1>6, <1>7 DEF c

(* The beginnings of a concatenation.                                     *)
LEMMA Beginnings ==
    ASSUME NEW a \in Seq(Byte), NEW b \in Seq(Byte)
    PROVE  /\ \A i \in 1..Len(a) : SubSeq(a \o b, 1, i) = SubSeq(a, 1, i)
           /\ \A i \in 1..Len(b) : SubSeq(a \o b, 1, Len(a) + i) = a \o SubSeq(b, 1, i)
<1>1. ASSUME NEW i \in 1..Len(a) PROVE SubSeq(a \o b, 1, i) = SubSeq(a, 1, i)
    <2>1. 1 \in 1..Len(a)
        OBVIOUS
    <2> QED BY <2>1, SubSeqOfConcat1
<1>2. ASSUME NEW i \in 1..Len(b) PROVE SubSeq(a \o b, 1, Len(a) + i) = a \o SubSeq(b, 1, i)
    <2> DEFINE c == a \o b
               d == SubSeq(b, 1, i)
               e == SubSeq(c, 1, Len(a) + i)
    <2>1. /\ c \in Seq(Byte) /\ Len(c) = Len(a) + Len(b) /\ Len(a) \in Nat /\ Len(b) \in Nat
          /\ \A x \in 1..(Len(a) + Len(b)) :
                c[x] = IF x <= Len(a) THEN a[x] ELSE b[x - Len(a)]
        BY ConcatProperties
    <2>2. i \in Int /\ 1 \in Int /\ \A x \in 1..i : b[x] \in Byte
        BY ElementOfSeq
    <2>3. d \in Seq(Byte) /\ Len(d) = i /\ \A x \in 1..i : d[x] = b[x]
        BY <2>2, SubSeqProperties
    <2> HIDE DEF c, d
    <2>4. Len(a) + i \in Int /\ \A x \in 1..(Len(a) + i) : c[x] \in Byte
        <3>1. \A x \in 1..(Len(a) + i) : x \in 1..Len(c)
            BY <2>1
        <3> QED BY <2>1, <3>1, ElementOfSeq
    <2>5. e \in Seq(Byte) /\ Len(e) = Len(a) + i /\ \A x \in 1..(Len(a) + i) : e[x] = c[x]
        BY <2>1, <2>4, SubSeqProperties
    <2>6. /\ a \o d \in Seq(Byte) /\ Len(a \o d) = Len(a) + i
          /\ \A x \in 1..(Len(a) + i) :
                (a \o d)[x] = IF x <= Len(a) THEN a[x] ELSE d[x - Len(a)]
        BY <2>3, ConcatProperties
    <2> HIDE DEF e
    <2>7. ASSUME NEW x \in 1..(Len(a) + i) PROVE e[x] = (a \o d)[x]
        <3>1. CASE x <= Len(a)
            BY <2>1, <2>5, <2>6, <3>1
        <3>2. CASE ~(x <= Len(a))
            <4>1. x - Len(a) \in 1..i /\ x \in 1..(Len(a) + Len(b))
                BY <2>1, <3>2
            <4> QED BY <2>1, <2>3, <2>5, <2>6, <3>2, <4>1
        <3> QED BY <3>1, <3>2
    <2>8. e = a \o d
        BY <2>5, <2>6, <2>7, SeqEqual
    <2> QED BY <2>8 DEF c, d, e
<1> QED BY <1>1, <1>2

(* Bytes are right if both parts are and no pair is torn apart, and the   *)
(* other way round.                                                       *)
LEMMA RightConcat ==
    ASSUME NEW t, NEW a \in Seq(Byte), NEW b \in Seq(Byte)
    PROVE  Right(t, a \o b) <=>
              /\ Right(t, a) /\ Right(ShownAfter(t, a), b)
              /\ a # <<>> /\ b # <<>> /\ b[1].k = "id" => a[Len(a)].k = "esc"
<1> DEFINE c == a \o b
           u == ShownAfter(t, a)
           R(x, s, i) == /\ s[i].k = "text" => s[i].t = ShownAfter(x, SubSeq(s, 1, i))
                         /\ s[i].k = "id" /\ i > 1 => s[i - 1].k = "esc"
<1>1. /\ c \in Seq(Byte) /\ Len(c) = Len(a) + Len(b) /\ Len(a) \in Nat /\ Len(b) \in Nat
      /\ \A i \in 1..(Len(a) + Len(b)) : c[i] = IF i <= Len(a) THEN a[i] ELSE b[i - Len(a)]
    BY ConcatProperties
<1>2. \A i \in 1..Len(a) : SubSeq(c, 1, i) = SubSeq(a, 1, i)
    BY Beginnings
<1>3. ASSUME NEW i \in 1..Len(b)
      PROVE  ShownAfter(t, SubSeq(c, 1, Len(a) + i)) = ShownAfter(u, SubSeq(b, 1, i))
    <2>1. SubSeq(c, 1, Len(a) + i) = a \o SubSeq(b, 1, i)
        BY Beginnings
    <2>2. SubSeq(b, 1, i) \in Seq(Byte)
        OBVIOUS
    <2> DEFINE d == SubSeq(b, 1, i)
    <2> HIDE DEF d
    <2>3. ShownAfter(t, a \o d) = ShownAfter(u, d)
        BY <2>2, ShownConcat DEF d
    <2> HIDE DEF u
    <2> QED BY <2>1, <2>3 DEF d
<1> HIDE DEF c, u
<1>4. ASSUME NEW i \in 1..Len(a) PROVE R(t, c, i) <=> R(t, a, i)
    <2>1. \A x \in 1..Len(a) : c[x] = a[x]
        BY <1>1
    <2>2. c[i] = a[i] /\ (i > 1 => c[i - 1] = a[i - 1])
        <3>1. i > 1 => i - 1 \in 1..Len(a)
            BY <1>1
        <3> QED BY <2>1, <3>1
    <2> QED BY <1>2, <2>2
<1>5. ASSUME NEW i \in 1..Len(b), i > 1 PROVE R(t, c, Len(a) + i) <=> R(u, b, i)
    <2>1. /\ Len(a) + i \in 1..(Len(a) + Len(b)) /\ ~(Len(a) + i <= Len(a)) /\ Len(a) + i > 1
          /\ Len(a) + i - 1 \in 1..(Len(a) + Len(b)) /\ ~(Len(a) + i - 1 <= Len(a))
          /\ Len(a) + i - Len(a) = i /\ Len(a) + i - 1 - Len(a) = i - 1
        BY <1>1, <1>5
    <2>2. c[Len(a) + i] = b[i]
        BY <1>1, <2>1
    <2>3. c[Len(a) + i - 1] = b[i - 1]
        BY <1>1, <2>1
    <2> DEFINE x == Len(a) + i
    <2>4. x > 1 /\ c[x] = b[i] /\ c[x - 1] = b[i - 1]
        BY <2>1, <2>2, <2>3
    <2>5. ShownAfter(t, SubSeq(c, 1, x)) = ShownAfter(u, SubSeq(b, 1, i))
        BY <1>3
    <2> HIDE DEF x
    <2>6. R(t, c, x) <=> R(u, b, i)
        BY <1>5, <2>4, <2>5
    <2> QED BY <2>6 DEF x
<1>6. ASSUME b # <<>>
      PROVE  R(t, c, Len(a) + 1) <=> /\ R(u, b, 1)
                                     /\ a # <<>> /\ b[1].k = "id" => a[Len(a)].k = "esc"
    <2>1. 1 \in 1..Len(b) /\ ~(1 > 1)
        BY <1>1, <1>6
    <2>2. c[Len(a) + 1] = b[1]
        <3>1. Len(a) + 1 \in 1..(Len(a) + Len(b)) /\ ~(Len(a) + 1 <= Len(a))
              /\ Len(a) + 1 - Len(a) = 1
            BY <1>1, <2>1
        <3> QED BY <1>1, <3>1
    <2>3. CASE a = <<>>
        <3>1. Len(a) = 0 /\ ~(Len(a) + 1 > 1)
            BY <2>3
        <3> QED BY <1>3, <2>1, <2>2, <2>3, <3>1
    <2>4. CASE a # <<>>
        <3>1. Len(a) + 1 > 1 /\ Len(a) + 1 - 1 = Len(a) /\ Len(a) \in 1..(Len(a) + Len(b))
            BY <1>1, <2>4
        <3>2. c[Len(a)] = a[Len(a)]
            BY <1>1, <3>1
        <3> QED BY <1>3, <2>1, <2>2, <2>4, <3>1, <3>2
    <2> QED BY <2>3, <2>4
<1>7. Right(t, c) <=> /\ \A i \in 1..Len(a) : R(t, c, i)
                      /\ \A i \in 1..Len(b) : R(t, c, Len(a) + i)
    <2>1. \A x \in 1..Len(c) : x \in 1..Len(a) \/ \E i \in 1..Len(b) : x = Len(a) + i
        <3> TAKE x \in 1..Len(c)
        <3>1. CASE x <= Len(a)
            BY <1>1, <3>1
        <3>2. CASE ~(x <= Len(a))
            <4>1. x - Len(a) \in 1..Len(b) /\ x = Len(a) + (x - Len(a))
                BY <1>1, <3>2
            <4> QED BY <4>1
        <3> QED BY <3>1, <3>2
    <2>2. /\ \A i \in 1..Len(a) : i \in 1..Len(c)
          /\ \A i \in 1..Len(b) : Len(a) + i \in 1..Len(c)
        BY <1>1
    <2>3. Right(t, c) <=> \A i \in 1..Len(c) : R(t, c, i)
        BY DEF Right
    <2> HIDE DEF R
    <2> QED BY <2>1, <2>2, <2>3
<1>8. (\A i \in 1..Len(a) : R(t, c, i)) <=> Right(t, a)
    BY <1>4 DEF Right
<1>9. (\A i \in 1..Len(b) : R(t, c, Len(a) + i)) <=>
         Right(u, b) /\ (a # <<>> /\ b # <<>> /\ b[1].k = "id" => a[Len(a)].k = "esc")
    <2>1. Right(u, b) <=> \A i \in 1..Len(b) : R(u, b, i)
        BY DEF Right
    <2> HIDE DEF R
    <2>2. CASE b = <<>>
        <3>1. 1..Len(b) = {}
            BY <2>2
        <3> QED BY <2>1, <2>2, <3>1
    <2>3. CASE b # <<>>
        <3>1. 1 \in 1..Len(b) /\ \A i \in 1..Len(b) : i = 1 \/ i > 1
            BY <1>1, <2>3
        <3> QED BY <1>5, <1>6, <2>1, <2>3, <3>1
    <2> QED BY <2>2, <2>3
<1> QED BY <1>7, <1>8, <1>9 DEF c, u

LEMMA PathConcat ==
    ASSUME NEW t, NEW a \in Seq(Byte), NEW u, NEW b, NEW v, Path(t, a, u), Leads(u, b, v)
    PROVE  Path(t, a \o b, v) /\ (Leads(t, a, u) => Leads(t, a \o b, v))
<1>1. b \in Seq(Byte) /\ Right(u, b) /\ ShownAfter(u, b) = v /\ (b # <<>> => b[1].k # "id")
      /\ Right(t, a) /\ ShownAfter(t, a) = u
    BY DEF Path, Leads
<1>2. Path(t, a \o b, v)
    BY <1>1, RightConcat, ShownConcat DEF Path
<1>3. ASSUME Leads(t, a, u) PROVE Leads(t, a \o b, v)
    <2>1. CASE a = <<>>
        <3>1. a \o b = b
            BY <1>1, <2>1, ConcatEmptySeq
        <3> QED BY <1>1, <1>2, <3>1 DEF Leads
    <2>2. CASE a # <<>>
        <3>1. /\ a \o b \in Seq(Byte)
              /\ \A i \in 1..(Len(a) + Len(b)) :
                    (a \o b)[i] = IF i <= Len(a) THEN a[i] ELSE b[i - Len(a)]
            BY <1>1, ConcatProperties
        <3>2. 1 \in 1..(Len(a) + Len(b)) /\ 1 <= Len(a)
            BY <1>1, <2>2
        <3>3. (a \o b)[1] = a[1]
            BY <3>1, <3>2
        <3>4. a[1].k # "id"
            BY <1>3, <2>2 DEF Leads
        <3> QED BY <1>2, <3>1, <3>3, <3>4 DEF Leads
    <2> QED BY <2>1, <2>2
<1> QED BY <1>2, <1>3

LEMMA NothingLeads == \A t : Leads(t, <<>>, t)
<1> TAKE t
<1> DEFINE e == <<>>
<1>1. e \in Seq(Byte) /\ Len(e) = 0 /\ e = <<>>
    OBVIOUS
<1> HIDE DEF e
<1>2. Right(t, e)
    BY <1>1 DEF Right
<1>3. ShownAfter(t, e) = t
    <2>1. \A x \in 1..Len(e) : e[x].k # "id"
        BY <1>1
    <2> QED BY <1>1, <2>1, ShownOfNone
<1> QED BY <1>1, <1>2, <1>3 DEF Leads, Path, e

(* Text for terminal t changes nothing.                                   *)
LEMMA TextLeads ==
    ASSUME NEW t, NEW s \in Seq(Byte), \A i \in 1..Len(s) : s[i].k = "text" /\ s[i].t = t
    PROVE  Leads(t, s, t)
<1>1. ASSUME NEW i \in 1..Len(s) PROVE ShownAfter(t, SubSeq(s, 1, i)) = t
    <2> DEFINE d == SubSeq(s, 1, i)
    <2>1. d \in Seq(Byte) /\ Len(d) = i /\ \A x \in 1..i : d[x] = s[x]
        <3>1. i \in Int /\ 1 \in Int /\ \A x \in 1..i : s[x] \in Byte
            BY ElementOfSeq
        <3> QED BY <3>1, SubSeqProperties
    <2> HIDE DEF d
    <2>2. \A x \in 1..Len(d) : d[x].k # "id"
        <3>1. \A x \in 1..i : x \in 1..Len(s)
            OBVIOUS
        <3> QED BY <2>1, <3>1
    <2>3. ShownAfter(t, d) = t
        BY <2>1, <2>2, ShownOfNone
    <2> QED BY <2>3 DEF d
<1>2. Right(t, s)
    BY <1>1 DEF Right
<1>3. ShownAfter(t, s) = t
    BY ShownOfNone
<1>4. s # <<>> => 1 \in 1..Len(s)
    OBVIOUS
<1> QED BY <1>2, <1>3, <1>4 DEF Leads, Path

(* A pair takes the host to its terminal from wherever it is.             *)
LEMMA SwitchLeads ==
    ASSUME NEW t \in Terminal
    PROVE  \A u : Leads(u, Switch(t), t)
<1> TAKE u
<1> DEFINE s == Switch(t)
<1>1. /\ s \in Seq(Byte) /\ Len(s) = 2 /\ s[1].k = "esc" /\ s[2].k = "id" /\ s[2].t = t
    BY ConstantTypes DEF Switch
<1> HIDE DEF s
<1>2. \A x \in 1..Len(s) : x = 1 \/ x = 2
    BY <1>1
<1>3. IsLastId(s, 2)
    BY <1>1, <1>2 DEF IsLastId
<1>4. ShownAfter(u, s) = t
    BY <1>1, <1>3, ShownOfLast
<1>5. Right(u, s)
    BY <1>1, <1>2 DEF Right
<1> QED BY <1>1, <1>4, <1>5 DEF Leads, Path, s

(* What the host has taken is no longer to come.                          *)
LEMMA PathRest ==
    ASSUME NEW t, NEW a \in Seq(Byte), NEW b \in Seq(Byte), NEW v, Path(t, a \o b, v)
    PROVE  Path(ShownAfter(t, a), b, v)
    BY RightConcat, ShownConcat DEF Path

-----------------------------------------------------------------------------
(* All that a call has still to store.                                    *)
SegAt(s, i) == IF i <= Len(s) THEN s[i] ELSE <<>>
Flat(s) == SegAt(s, 1) \o SegAt(s, 2) \o SegAt(s, 3)

LEMMA SegType ==
    ASSUME NEW s \in Seq(Seq(Byte)), NEW i \in Nat \ {0}
    PROVE  SegAt(s, i) \in Seq(Byte)
<1>1. \A x \in 1..Len(s) : s[x] \in Seq(Byte)
    BY ElementOfSeq
<1> QED BY <1>1 DEF SegAt

LEMMA FlatType ==
    ASSUME NEW s \in Seq(Seq(Byte))
    PROVE  Flat(s) \in Seq(Byte)
<1>1. SegAt(s, 1) \in Seq(Byte) /\ SegAt(s, 2) \in Seq(Byte) /\ SegAt(s, 3) \in Seq(Byte)
    BY SegType
<1> QED BY <1>1, ConcatProperties DEF Flat

LEMMA FlatNone == Flat(<<>>) = <<>>
<1> DEFINE s == <<>>
<1>1. Len(s) = 0 /\ s = <<>> /\ s \in Seq(Byte)
    OBVIOUS
<1> HIDE DEF s
<1>2. Flat(s) = s \o s \o s
    BY <1>1 DEF Flat, SegAt
<1>3. s \o s = s
    BY <1>1, ConcatEmptySeq
<1> QED BY <1>1, <1>2, <1>3 DEF s

LEMMA FlatOne ==
    ASSUME NEW data \in Seq(Byte)
    PROVE  Flat(<<data>>) = data
<1> DEFINE s == <<data>>
<1>1. Len(s) = 1 /\ s[1] = data
    OBVIOUS
<1> HIDE DEF s
<1>2. SegAt(s, 1) = data /\ SegAt(s, 2) = <<>> /\ SegAt(s, 3) = <<>>
    BY <1>1 DEF SegAt
<1> QED BY <1>2, ConcatEmptySeq DEF Flat, s

LEMMA FlatThree ==
    ASSUME NEW a \in Seq(Byte), NEW b \in Seq(Byte), NEW d \in Seq(Byte)
    PROVE  Flat(<<a, b, d>>) = a \o b \o d
<1> DEFINE s == <<a, b, d>>
<1>1. Len(s) = 3 /\ s[1] = a /\ s[2] = b /\ s[3] = d
    OBVIOUS
<1> HIDE DEF s
<1>2. SegAt(s, 1) = a /\ SegAt(s, 2) = b /\ SegAt(s, 3) = d
    BY <1>1 DEF SegAt
<1> QED BY <1>2 DEF Flat, s

LEMMA Associative ==
    ASSUME NEW a \in Seq(Byte), NEW b \in Seq(Byte), NEW d \in Seq(Byte)
    PROVE  (a \o b) \o d = a \o (b \o d)
    BY ConcatAssociative, SMTT(30)

(* Publishing the front of the first segment leaves the rest.             *)
LEMMA FlatRemaining ==
    ASSUME NEW s \in Seq(Seq(Byte)), s # <<>>, Len(s) <= 3, NEW n \in 0..Len(Head(s))
    PROVE  /\ Remaining(s, n) \in Seq(Seq(Byte))
           /\ Flat(s) = SubSeq(Head(s), 1, n) \o Flat(Remaining(s, n))
<1> DEFINE seg   == Head(s)
           front == SubSeq(seg, 1, n)
           rest  == SubSeq(seg, n + 1, Len(seg))
           tail  == Tail(s)
<1>1. /\ seg \in Seq(Byte) /\ tail \in Seq(Seq(Byte)) /\ Len(tail) = Len(s) - 1
      /\ \A i \in 1..Len(tail) : tail[i] = s[i + 1]
      /\ Len(s) \in Nat /\ Len(s) >= 1 /\ Len(tail) \in Nat
    BY HeadTailProperties
<1>2. front \in Seq(Byte) /\ rest \in Seq(Byte) /\ seg = front \o rest
    <2>1. n + 1 \in 1..(Len(seg) + 1) /\ n \in 0..Len(seg) /\ Len(seg) \in n..Len(seg)
          /\ 1 \in 1..(Len(seg) + 1) /\ n \in (1 - 1)..Len(seg)
        BY <1>1
    <2>2. SubSeq(seg, 1, n) \o SubSeq(seg, n + 1, Len(seg)) = SubSeq(seg, 1, Len(seg))
        BY <1>1, <2>1, ConcatAdjacentSubSeq
    <2>3. SubSeq(seg, 1, Len(seg)) = seg
        BY <1>1, SubSeqFull
    <2>4. front \in Seq(Byte) /\ rest \in Seq(Byte)
        <3>1. \A i \in 1..Len(seg) : seg[i] \in Byte
            BY <1>1, ElementOfSeq
        <3>2. Len(seg) \in Nat /\ n \in Int /\ n <= Len(seg) /\ n >= 0
            BY <1>1
        <3> HIDE DEF seg
        <3>3. \A i \in 1..n : seg[i] \in Byte
            BY <3>1, <3>2
        <3>4. \A i \in (n + 1)..Len(seg) : seg[i] \in Byte
            BY <3>1, <3>2
        <3> QED BY <3>2, <3>3, <3>4, SubSeqProperties
    <2> QED BY <2>2, <2>3, <2>4
<1>3. s[1] = seg
    <2> DEFINE S == Seq(Byte)
    <2>1. s \in Seq(S)
        OBVIOUS
    <2> HIDE DEF S
    <2> QED BY <2>1
<1> HIDE DEF seg, front, rest, tail
<1> DEFINE x == SegAt(s, 2)
           y == SegAt(s, 3)
<1>4. SegAt(s, 1) = seg /\ x \in Seq(Byte) /\ y \in Seq(Byte)
    BY <1>1, <1>3, SegType DEF SegAt
<1>5. SegAt(tail, 1) = x /\ SegAt(tail, 2) = y /\ SegAt(tail, 3) = <<>>
    <2>1. /\ 1 <= Len(tail) => tail[1] = s[2]
          /\ 2 <= Len(tail) => tail[2] = s[3]
        <3>1. \A i \in 1..Len(tail) : tail[i] = s[i + 1]
            BY <1>1
        <3>2. /\ 1 <= Len(tail) => 1 \in 1..Len(tail)
              /\ 2 <= Len(tail) => 2 \in 1..Len(tail)
            BY <1>1
        <3>3. 1 + 1 = 2 /\ 2 + 1 = 3
            OBVIOUS
        <3> QED BY <3>1, <3>2, <3>3
    <2> QED BY <1>1, <2>1 DEF SegAt
<1> HIDE DEF x, y
<1>6. Flat(s) = front \o (rest \o (x \o y))
    <2>1. Flat(s) = seg \o x \o y
        BY <1>4 DEF Flat, x, y
    <2>2. x \o y \in Seq(Byte) /\ rest \o (x \o y) \in Seq(Byte)
        BY <1>2, <1>4, ConcatProperties
    <2>3. seg \o x \o y = seg \o (x \o y)
        BY <1>1, <1>4, Associative
    <2>4. (front \o rest) \o (x \o y) = front \o (rest \o (x \o y))
        BY <1>2, <2>2, Associative
    <2> QED BY <1>2, <2>1, <2>3, <2>4
<1>7. CASE rest = <<>>
    <2>1. Remaining(s, n) = tail
        BY <1>7 DEF Remaining, rest, tail, seg
    <2>2. Flat(tail) = x \o y
        <3>1. x \o y \in Seq(Byte) /\ (x \o y) \o <<>> = x \o y
            BY <1>4, ConcatProperties, ConcatEmptySeq
        <3> QED BY <1>5, <3>1 DEF Flat
    <2>3. rest \o (x \o y) = x \o y
        BY <1>4, <1>7, ConcatProperties, ConcatEmptySeq
    <2> QED BY <1>1, <1>6, <2>1, <2>2, <2>3 DEF front, seg
<1>8. CASE rest # <<>>
    <2> DEFINE all == <<rest>> \o tail
    <2>1. Remaining(s, n) = all
        BY <1>8 DEF Remaining, rest, tail, seg
    <2>2. <<rest>> \in Seq(Seq(Byte)) /\ Len(<<rest>>) = 1 /\ <<rest>>[1] = rest
        BY <1>2, SingleSegment, SingleTodo
    <2>3. /\ all \in Seq(Seq(Byte)) /\ Len(all) = 1 + Len(tail)
          /\ \A i \in 1..(1 + Len(tail)) : all[i] = IF i <= 1 THEN <<rest>>[i] ELSE tail[i - 1]
        BY <1>1, <2>2, ConcatProperties
    <2> HIDE DEF all
    <2>4. SegAt(all, 1) = rest
        BY <1>1, <2>2, <2>3 DEF SegAt
    <2>5. SegAt(all, 2) = SegAt(tail, 1) /\ SegAt(all, 3) = SegAt(tail, 2)
        <3>1. /\ 1 <= Len(tail) => all[2] = tail[1]
              /\ 2 <= Len(tail) => all[3] = tail[2]
            BY <1>1, <2>3
        <3>2. Len(all) = 1 + Len(tail)
            BY <2>3
        <3> QED BY <1>1, <3>1, <3>2 DEF SegAt
    <2>6. Flat(all) = rest \o x \o y
        BY <1>5, <2>4, <2>5 DEF Flat
    <2>7. rest \o x \o y = rest \o (x \o y)
        BY <1>2, <1>4, Associative
    <2> QED BY <1>6, <2>1, <2>3, <2>6, <2>7 DEF front, seg
<1> QED BY <1>7, <1>8

-----------------------------------------------------------------------------
(* A call at one of these has accepted bytes that it has still to store.  *)
Writing == {"chunk", "copy", "publish"}

(* What was accepted and not yet shown, followed by what the call under   *)
(* the lock has still to store, leads from the terminal the host is on to *)
(* _ActiveTerminal.                                                       *)
Guided ==
    /\ \A c \in Ctx : call[c].pc \in Writing
                         => Path(shown, pending \o Flat(call[c].segs), active)
    /\ (\A c \in Ctx : call[c].pc \notin Writing) => Path(shown, pending, active)

LEMMA OwnGuided ==
    ASSUME TInv, NEW c \in Ctx, NEW f, Become(c, f), \A d \in Ctx \ {c} : ~Locked(d),
           f.pc \in Writing => Path(shown', pending' \o Flat(f.segs), active'),
           f.pc \notin Writing => Path(shown', pending', active')
    PROVE  Guided'
<1>1. call'[c] = f /\ \A d \in Ctx \ {c} : call'[d] = call[d]
    BY DEF Become, TInv, TypeOK
<1>2. \A d \in Ctx \ {c} : call'[d].pc \notin Writing
    BY <1>1 DEF Locked, Writing
<1> QED BY <1>1, <1>2 DEF Guided

(* Nobody is writing: what has been accepted is all there is.             *)
LEMMA AllAccepted ==
    ASSUME Guided, NEW c \in Ctx, call[c].pc \notin Writing, \A d \in Ctx \ {c} : ~Locked(d)
    PROVE  Path(shown, pending, active)
    BY DEF Guided, Locked, Writing

(* What a decision under the lock gives a call to store.                  *)
Offers(c) ==
    \/ (GiveUp(c) \/ Goto(c, "spin")) /\ UNCHANGED active
    \/ \E segs \in Seq(Seq(Byte)) : Blocking(c, segs) /\ Leads(active, Flat(segs), active')
    \/ \E data \in Seq(Byte) : NoCheck(c, data) /\ Leads(active, data, active')

LEMMA DecidingGuided ==
    ASSUME TInv, Queue, Guided, NEW c \in Ctx, Deciding(c), Offers(c)
    PROVE  Guided'
<1>1. /\ call[c].pc \in {"enter", "spin"} /\ Running(c) /\ call[c] \in Call
      /\ shown' = shown /\ pending' = pending /\ pending \in Seq(Byte)
    BY DEF Deciding, hist, TInv, TypeOK
<1>2. \A d \in Ctx \ {c} : ~Locked(d)
    BY <1>1, OnlyWriter DEF Queue
<1>3. Path(shown, pending, active)
    BY <1>1, <1>2, AllAccepted DEF Writing
<1>4. SUFFICES \E f : /\ Become(c, f)
                      /\ f.pc \in Writing => Path(shown, pending \o Flat(f.segs), active')
                      /\ f.pc \notin Writing => active' = active
    BY <1>1, <1>2, <1>3, OwnGuided
<1>5. CASE (GiveUp(c) \/ Goto(c, "spin")) /\ UNCHANGED active
    <2>1. CASE GiveUp(c)
        BY <1>5, <2>1, AfterPc DEF GiveUp, Writing
    <2>2. CASE Goto(c, "spin")
        <3> DEFINE f == [call[c] EXCEPT !.pc = "spin"]
        <3>1. f.pc = "spin" /\ Become(c, f)
            BY <1>1, <2>2 DEF Call, Goto
        <3> HIDE DEF f
        <3> QED BY <1>5, <3>1 DEF Writing
    <2> QED BY <1>5, <2>1, <2>2
<1>6. ASSUME NEW segs \in Seq(Seq(Byte)), Blocking(c, segs), Leads(active, Flat(segs), active')
      PROVE  \E f : /\ Become(c, f)
                    /\ f.pc \in Writing => Path(shown, pending \o Flat(f.segs), active')
                    /\ f.pc \notin Writing => active' = active
    <2> DEFINE f == [call[c] EXCEPT !.pc = "chunk", !.segs = segs, !.blk = TRUE]
    <2>1. f.segs = segs /\ f.pc = "chunk" /\ Become(c, f)
        BY <1>1, <1>6 DEF Call, Blocking
    <2> HIDE DEF f
    <2>2. Path(shown, pending \o Flat(segs), active')
        BY <1>1, <1>3, <1>6, PathConcat
    <2> QED BY <2>1, <2>2 DEF Writing
<1>7. ASSUME NEW data \in Seq(Byte), NoCheck(c, data), Leads(active, data, active')
      PROVE  \E f : /\ Become(c, f)
                    /\ f.pc \in Writing => Path(shown, pending \o Flat(f.segs), active')
                    /\ f.pc \notin Writing => active' = active
    <2> DEFINE f == [call[c] EXCEPT !.pc = "copy", !.segs = <<data>>, !.n = Len(data), !.blk = FALSE]
    <2>1. f.segs = <<data>> /\ f.pc = "copy"
        BY <1>1 DEF Call
    <2>2. Become(c, f)
        BY <1>7 DEF NoCheck
    <2> HIDE DEF f
    <2>3. Path(shown, pending \o data, active')
        BY <1>1, <1>3, <1>7, PathConcat
    <2>4. Flat(f.segs) = data
        BY <2>1, FlatOne
    <2> QED BY <2>1, <2>2, <2>3, <2>4 DEF Writing
<1> QED BY <1>5, <1>6, <1>7 DEF Offers

LEMMA TextGuides ==
    ASSUME TypeOK, NEW t \in Terminal, NEW len \in Nat
    PROVE  /\ Leads(t, Text(t, len), t)
           /\ \A m \in 0..len : Leads(t, SubSeq(Text(t, len), 1, m), t)
<1> DEFINE s == Text(t, len)
<1>1. s \in Seq(Byte) /\ Len(s) = len /\ \A i \in 1..len : s[i].k = "text" /\ s[i].t = t
    BY TextType DEF Text
<1> HIDE DEF s
<1>2. Leads(t, s, t)
    BY <1>1, TextLeads
<1>3. ASSUME NEW m \in 0..len PROVE Leads(t, SubSeq(s, 1, m), t)
    <2> DEFINE d == SubSeq(s, 1, m)
    <2>1. d \in Seq(Byte) /\ Len(d) = m /\ \A i \in 1..m : d[i] = s[i]
        <3>1. m \in Int /\ 1 \in Int /\ \A x \in 1..m : x \in 1..len
            OBVIOUS
        <3>2. \A x \in 1..m : s[x] \in Byte
            BY <1>1, <3>1, ElementOfSeq
        <3> QED BY <3>1, <3>2, SubSeqProperties
    <2> HIDE DEF d
    <2>2. \A i \in 1..Len(d) : d[i].k = "text" /\ d[i].t = t
        <3>1. \A x \in 1..m : x \in 1..len
            OBVIOUS
        <3> QED BY <1>1, <2>1, <3>1
    <2>3. Leads(t, d, t)
        BY <2>1, <2>2, TextLeads
    <2> QED BY <2>3 DEF d
<1> QED BY <1>2, <1>3 DEF s

LEMMA EnterWriteOffers ==
    ASSUME TInv, NEW c \in Ctx, EnterWrite(c)
    PROVE  Offers(c)
<1> DEFINE data == Text(active, Portion(c))
           m    == Lesser(Avail(rd, wr), Len(data))
<1>1. Portion(c) \in Nat /\ active \in Terminal /\ TypeOK
    BY PortionType, RttSizeAssumption DEF TInv, TypeOK
<1>2. data \in Seq(Byte) /\ Len(data) = Portion(c)
    BY <1>1, TextType
<1>3. m \in 0..Portion(c)
    <2>1. Avail(rd, wr) \in Nat
        BY AvailIsRest DEF TInv, TypeOK
    <2> HIDE DEF data
    <2> QED BY <1>1, <1>2, <2>1 DEF Lesser
<1>4. active' = active
    BY DEF EnterWrite
<1>5. \/ GiveUp(c)
      \/ NoCheck(c, data)
      \/ NoCheck(c, SubSeq(data, 1, m))
      \/ Blocking(c, <<data>>)
    BY DEF EnterWrite, TInv, TypeOK, Mode
<1> HIDE DEF m
<1>6. Leads(active, data, active) /\ Leads(active, SubSeq(data, 1, m), active)
    BY <1>1, <1>3, TextGuides
<1> HIDE DEF data
<1>7. CASE NoCheck(c, data) \/ NoCheck(c, SubSeq(data, 1, m))
    BY <1>4, <1>6, <1>7 DEF Offers, Leads
<1>8. CASE Blocking(c, <<data>>)
    <2>1. <<data>> \in Seq(Seq(Byte)) /\ Flat(<<data>>) = data
        BY <1>2, SingleSegment, FlatOne
    <2> QED BY <1>4, <1>6, <1>8, <2>1 DEF Offers
<1> QED BY <1>4, <1>5, <1>7, <1>8 DEF Offers

LEMMA TextOffers ==
    ASSUME TInv, NEW c \in Ctx, EnterSkip(c) \/ EnterPutChar(c) \/ SpinPutChar(c)
    PROVE  Offers(c)
<1>1. call[c].left \in Nat /\ active \in Terminal /\ TypeOK /\ active' = active
    BY RttSizeAssumption DEF TInv, TypeOK, Call, EnterSkip, EnterPutChar, SpinPutChar
<1>2. \/ GiveUp(c) \/ Goto(c, "spin")
      \/ \E len \in {1, call[c].left} : NoCheck(c, Text(active, len))
    BY DEF EnterSkip, EnterPutChar, SpinPutChar
<1>3. ASSUME NEW len \in Nat, NoCheck(c, Text(active, len)) PROVE Offers(c)
    <2>1. Leads(active, Text(active, len), active)
        BY <1>1, TextGuides
    <2> QED BY <1>1, <1>3, <2>1 DEF Offers, Leads
<1> QED BY <1>1, <1>2, <1>3 DEF Offers

LEMMA SetTerminalOffers ==
    ASSUME TInv, NEW c \in Ctx, EnterSetTerminal(c)
    PROVE  Offers(c)
<1> DEFINE t == call[c].t
<1>1. t \in Terminal /\ Switch(t) \in Seq(Byte) /\ Leads(active, Switch(t), t)
    BY ConstantTypes, SwitchLeads DEF TInv, TypeOK, Call
<1>2. <<Switch(t)>> \in Seq(Seq(Byte)) /\ Flat(<<Switch(t)>>) = Switch(t)
    BY <1>1, SingleSegment, FlatOne
<1>3. \/ active' = t /\ (Blocking(c, <<Switch(t)>>) \/ NoCheck(c, Switch(t)))
      \/ GiveUp(c) /\ UNCHANGED active
    BY DEF EnterSetTerminal
<1> HIDE DEF t
<1> QED BY <1>1, <1>2, <1>3 DEF Offers

LEMMA TerminalOutOffers ==
    ASSUME TInv, NEW c \in Ctx, EnterTerminalOut(c)
    PROVE  Offers(c)
<1> DEFINE t == call[c].t
<1>1. /\ Avail(rd, wr) \in Nat /\ call[c].left \in Nat /\ active \in Terminal /\ t \in Terminal
      /\ TypeOK /\ active' = active
    <2>1. rd \in Offset /\ wr \in Offset /\ call[c] \in Call /\ active \in Terminal /\ TypeOK
        BY DEF TInv, TypeOK
    <2>2. Avail(rd, wr) \in Nat
        BY <2>1, AvailIsRest
    <2> QED BY <2>1, <2>2, RttSizeAssumption DEF Call, EnterTerminalOut
<1>2. GiveUp(c) \/ \E len \in Nat : Blocking(c, Tagged(c, len))
    <2>1. ~(Avail(rd, wr) < 4) => Lesser(call[c].left, Avail(rd, wr) - 4) \in Nat
        BY <1>1 DEF Lesser
    <2>2. \/ GiveUp(c)
          \/ Blocking(c, Tagged(c, call[c].left))
          \/ /\ ~(Avail(rd, wr) < 4)
             /\ Blocking(c, Tagged(c, Lesser(call[c].left, Avail(rd, wr) - 4)))
        BY DEF EnterTerminalOut, TInv, TypeOK, Mode
    <2> QED BY <1>1, <2>1, <2>2
<1>3. ASSUME NEW len \in Nat, Blocking(c, Tagged(c, len)) PROVE Offers(c)
    <2> DEFINE x == Text(t, len)
    <2>1. /\ Leads(active, Switch(t), t) /\ Leads(t, x, t) /\ Leads(t, Switch(active), active)
        BY <1>1, SwitchLeads, TextGuides
    <2>2. Tagged(c, len) = <<Switch(t), x, Switch(active)>>
        BY DEF Tagged
    <2> HIDE DEF t, x
    <2>3. Leads(active, Switch(t) \o x \o Switch(active), active)
        <3>1. Leads(active, Switch(t) \o x, t)
            BY <2>1, PathConcat DEF Leads
        <3> QED BY <2>1, <3>1, PathConcat DEF Leads
    <2>4. Flat(Tagged(c, len)) = Switch(t) \o x \o Switch(active)
        <3>1. Switch(t) \in Seq(Byte) /\ x \in Seq(Byte) /\ Switch(active) \in Seq(Byte)
            BY <2>1 DEF Leads
        <3>2. Flat(<<Switch(t), x, Switch(active)>>) = Switch(t) \o x \o Switch(active)
            BY <3>1, FlatThree, Zenon
        <3> QED BY <2>2, <3>2
    <2>5. Tagged(c, len) \in Seq(Seq(Byte))
        BY TaggedType
    <2> QED BY <1>1, <1>3, <2>3, <2>4, <2>5 DEF Offers
<1> QED BY <1>1, <1>2, <1>3 DEF Offers

LEMMA CopyingGuided ==
    ASSUME TInv, Queue, Guided, NEW c \in Ctx, BlockingChunk(c) \/ Copy(c)
    PROVE  Guided'
<1>1. /\ call[c].pc \in {"chunk", "copy"} /\ Running(c) /\ call[c] \in Call
      /\ shown' = shown /\ pending' = pending /\ active' = active
    BY DEF BlockingChunk, Copy, At, hist, TInv, TypeOK
<1>2. \A d \in Ctx \ {c} : ~Locked(d)
    BY <1>1, OnlyWriter DEF Queue
<1>3. PICK f : Become(c, f) /\ f.segs = call[c].segs /\ f.pc \in Writing
    <2>1. CASE BlockingChunk(c)
        <3> DEFINE n == Chunk(rd, wr, Len(Head(call[c].segs)))
                   f == [call[c] EXCEPT !.pc = "copy", !.n = n]
        <3>1. Become(c, f)
            BY <2>1 DEF BlockingChunk
        <3> HIDE DEF n
        <3>2. f.segs = call[c].segs /\ f.pc = "copy"
            BY <1>1 DEF Call
        <3> HIDE DEF f
        <3> QED BY <3>1, <3>2 DEF Writing
    <2>2. CASE Copy(c)
        <3> DEFINE f == [call[c] EXCEPT !.pc = "publish"]
        <3>1. Become(c, f) /\ f.segs = call[c].segs /\ f.pc = "publish"
            BY <1>1, <2>2 DEF Copy, Goto, Call
        <3> HIDE DEF f
        <3> QED BY <3>1 DEF Writing
    <2> QED BY <2>1, <2>2
<1>4. Path(shown, pending \o Flat(call[c].segs), active)
    BY <1>1 DEF Guided, Writing
<1> QED BY <1>1, <1>2, <1>3, <1>4, OwnGuided

LEMMA PublishGuided ==
    ASSUME TInv, Queue, Served, Guided, NEW c \in Ctx, Publish(c)
    PROVE  Guided'
<1> DEFINE n    == call[c].n
           s    == call[c].segs
           left == Remaining(s, n)
           done == IF call[c].blk THEN Portion(c) ELSE n
           more == [call[c] EXCEPT !.pc = "chunk", !.segs = left]
           next == IF left = <<>> THEN After(c, done) ELSE more
           part == SubSeq(Head(s), 1, n)
<1>1. /\ call[c].pc = "publish" /\ Running(c) /\ call[c] \in Call /\ Filled(call[c])
      /\ shown' = shown /\ active' = active /\ pending' = pending \o part
      /\ pending \in Seq(Byte)
    BY DEF Publish, At, TInv, TypeOK
<1>2. Become(c, next)
    BY DEF Publish, Remaining
<1>3. \A d \in Ctx \ {c} : ~Locked(d)
    BY <1>1, OnlyWriter DEF Queue
<1>4. Len(s) <= 3 /\ Path(shown, pending \o Flat(s), active)
    BY <1>1 DEF Served, Granted, Guided, Writing
<1>5. s \in Seq(Seq(Byte)) /\ s # <<>> /\ n \in 0..Len(Head(s)) /\ part \in Seq(Byte)
    <2>1. s \in Seq(Seq(Byte)) /\ s # <<>> /\ n \in 0..(Size - 1)
        BY <1>1 DEF Call, Filled
    <2>2. Head(s) \in Seq(Byte) /\ n <= Len(Head(s)) /\ part \in Seq(Byte)
        BY <1>1, PartType DEF Part
    <2> QED BY <2>1, <2>2, RttSizeAssumption
<1>6. left \in Seq(Seq(Byte)) /\ Flat(s) = part \o Flat(left)
    BY <1>4, <1>5, FlatRemaining
<1>7. more.segs = left /\ more.pc = "chunk"
    <2> HIDE DEF left
    <2> QED BY <1>1 DEF Call
<1> HIDE DEF n, s, left, more, done, part
<1>8. Path(shown', pending' \o Flat(left), active')
    <2>1. Flat(left) \in Seq(Byte)
        BY <1>6, FlatType
    <2>2. pending \o (part \o Flat(left)) = (pending \o part) \o Flat(left)
        BY <1>1, <1>5, <2>1, Associative
    <2> QED BY <1>1, <1>4, <1>6, <2>2
<1>9. CASE left = <<>>
    <2>1. pending' \o Flat(left) = pending'
        <3>1. pending' \in Seq(Byte)
            BY <1>1, <1>5, ConcatProperties
        <3> QED BY <1>9, <3>1, FlatNone, ConcatEmptySeq
    <2>2. next.pc \notin Writing
        BY <1>9, AfterPc DEF Writing
    <2> HIDE DEF next
    <2> QED BY <1>2, <1>3, <1>8, <2>1, <2>2, OwnGuided
<1>10. CASE left # <<>>
    <2>1. next.pc \in Writing /\ next.segs = left
        BY <1>7, <1>10 DEF Writing
    <2> HIDE DEF next
    <2> QED BY <1>2, <1>3, <1>8, <2>1, OwnGuided
<1> QED BY <1>9, <1>10

LEMMA BeginGuided ==
    ASSUME TInv, Queue, Guided, NEW c \in Ctx, Start(c) \/ DoInit(c) \/ DoInitIdent(c)
    PROVE  Guided'
<1>1. call[c].pc \in {"idle", "reset", "ident"} /\ Running(c) /\ call[c] \in Call
      /\ (c = "isr" => ~Locked("main"))
      /\ shown' = shown /\ pending' = pending /\ active' = active
    BY DEF Start, DoInit, DoInitIdent, At, TInv, TypeOK, Queue, Alone, hist
<1>2. \A d \in Ctx \ {c} : ~Locked(d)
    BY <1>1 DEF Running, Locked, Ctx
<1>3. \E f : Become(c, f) /\ f.pc \notin Writing
    <2>1. CASE Start(c)
        <3>1. PICK op \in Op, t \in Terminal, len \in 1..MaxLen :
                 Become(c, [Idle EXCEPT !.op = op, !.t = t, !.left = len,
                                        !.pc = IF ready THEN "enter" ELSE "reset"])
            BY <2>1 DEF Start
        <3> DEFINE pc == IF ready THEN "enter" ELSE "reset"
                   f  == [Idle EXCEPT !.op = op, !.t = t, !.left = len, !.pc = pc]
        <3>2. Become(c, f) /\ f.pc = pc
            BY <3>1 DEF Idle
        <3> HIDE DEF f
        <3> QED BY <3>2 DEF Writing
    <2>2. CASE DoInit(c) \/ DoInitIdent(c)
        <3>1. PICK pc \in {"ident", "enter"} : Goto(c, pc)
            BY <2>2 DEF DoInit, DoInitIdent
        <3> DEFINE f == [call[c] EXCEPT !.pc = pc]
        <3>2. Become(c, f) /\ f.pc = pc
            BY <1>1, <3>1 DEF Goto, Call
        <3> HIDE DEF f
        <3> QED BY <3>2 DEF Writing
    <2> QED BY <2>1, <2>2
<1>4. Path(shown, pending, active)
    BY <1>1, <1>2, AllAccepted DEF Writing
<1> QED BY <1>1, <1>2, <1>3, <1>4, OwnGuided

(* The probe takes a beginning of what is to come, and follows it.        *)
LEMMA HostTakeGuided ==
    ASSUME TInv, Queue, Guided, HostTake
    PROVE  Guided'
<1> DEFINE data == Fetch(buf, host.rd, host.wr, host.max)
           l    == Len(data)
<1>1. /\ host.pc = "take" /\ call' = call /\ active' = active
      /\ pending' = SubSeq(pending, l + 1, Len(pending))
      /\ shown' = ShownAfter(shown, data)
      /\ pending \in Seq(Byte)
    BY DEF HostTake, TInv, TypeOK
<1>2. /\ data \in Seq(Byte) /\ l \in 0..Len(pending) /\ \A i \in 1..l : data[i] = pending[i]
    <2>1. data \in Seq(Byte)
        <3>1. buf \in [Offset -> Byte] /\ host.rd \in Offset /\ host.wr \in Offset
              /\ host.max \in Nat
            BY RttSizeAssumption DEF TInv, TypeOK
        <3> QED BY <3>1, FetchedBytes
    <2> QED BY <1>1, <2>1, TakenIsFront DEF Queue, Fifo
<1> HIDE DEF data, l
<1>3. data = SubSeq(pending, 1, l)
    <2>1. l \in Nat /\ Len(data) = l /\ \A i \in 1..l : i \in 1..Len(pending)
        BY <1>1, <1>2 DEF l
    <2>2. \A i \in 1..l : pending[i] \in Byte
        BY <1>1, <2>1, ElementOfSeq
    <2>3. /\ SubSeq(pending, 1, l) \in Seq(Byte) /\ Len(SubSeq(pending, 1, l)) = l
          /\ \A i \in 1..l : SubSeq(pending, 1, l)[i] = pending[i]
        BY <2>1, <2>2, SubSeqProperties
    <2> QED BY <1>2, <2>1, <2>3, SeqEqual
<1>4. pending = data \o pending'
    <2>1. /\ 1 \in 1..(Len(pending) + 1) /\ l \in (1 - 1)..Len(pending)
          /\ Len(pending) \in l..Len(pending)
        BY <1>1, <1>2
    <2>2. SubSeq(pending, 1, l) \o SubSeq(pending, l + 1, Len(pending))
             = SubSeq(pending, 1, Len(pending))
        BY <1>1, <2>1, ConcatAdjacentSubSeq
    <2>3. SubSeq(pending, 1, Len(pending)) = pending
        BY <1>1, SubSeqFull
    <2> QED BY <1>1, <1>3, <2>2, <2>3
<1>5. pending' \in Seq(Byte)
    BY HostType DEF Host, TInv, TypeOK
<1>6. ASSUME NEW c \in Ctx, call[c].pc \in Writing
      PROVE  Path(shown', pending' \o Flat(call[c].segs), active)
    <2>1. Path(shown, pending \o Flat(call[c].segs), active)
        BY <1>6 DEF Guided
    <2>2. Flat(call[c].segs) \in Seq(Byte)
        <3>1. call[c].segs \in Seq(Seq(Byte))
            BY DEF TInv, TypeOK, Call
        <3> QED BY <3>1, FlatType
    <2> DEFINE p == pending'
               r == Flat(call[c].segs)
    <2>3. p \in Seq(Byte) /\ r \in Seq(Byte) /\ pending = data \o p
        BY <1>4, <1>5, <2>2
    <2>4. Path(shown, pending \o r, active)
        BY <2>1
    <2> HIDE DEF p, r
    <2>5. (data \o p) \o r = data \o (p \o r) /\ p \o r \in Seq(Byte)
        BY <1>2, <2>3, Associative, ConcatProperties
    <2>6. Path(ShownAfter(shown, data), p \o r, active)
        BY <1>2, <2>3, <2>4, <2>5, PathRest
    <2> QED BY <1>1, <2>6 DEF p, r
<1>7. ASSUME \A c \in Ctx : call[c].pc \notin Writing PROVE Path(shown', pending', active)
    <2>1. Path(shown, pending, active)
        BY <1>7 DEF Guided
    <2> DEFINE p == pending'
    <2>2. p \in Seq(Byte) /\ pending = data \o p
        BY <1>4, <1>5
    <2> HIDE DEF p
    <2>3. Path(ShownAfter(shown, data), p, active)
        BY <1>2, <2>1, <2>2, PathRest
    <2> QED BY <1>1, <2>3 DEF p
<1> QED BY <1>1, <1>6, <1>7 DEF Guided

GuidedInv == ServedInv /\ (~EarlyIsr => Guided)

LEMMA InitGuided == Init => GuidedInv
<1> SUFFICES ASSUME Init PROVE Guided
    BY InitServed DEF GuidedInv
<1>1. \A c \in Ctx : call[c].pc \notin Writing
    BY DEF Init, Idle, Writing
<1>2. Path(shown, pending, active)
    BY NothingLeads DEF Init, Leads
<1> QED BY <1>1, <1>2 DEF Guided

LEMMA NextGuided == GuidedInv /\ [Next]_vars => GuidedInv'
<1> SUFFICES ASSUME GuidedInv, [Next]_vars PROVE GuidedInv'
    OBVIOUS
<1>1. ServedInv'
    BY NextServed DEF GuidedInv
<1>2. ASSUME ~EarlyIsr PROVE Guided'
    <2>1. TInv /\ Queue /\ Served /\ Guided
        BY <1>2 DEF GuidedInv, ServedInv, QueueInv
    <2>2. CASE SetFlags \/ HostLook \/ UNCHANGED vars
        <3>1. call' = call /\ shown' = shown /\ pending' = pending /\ active' = active
            BY <2>2 DEF SetFlags, HostLook, vars, hist
        <3> QED BY <2>1, <3>1 DEF Guided
    <2>3. CASE HostTake
        BY <2>1, <2>3, HostTakeGuided
    <2>4. ASSUME NEW c \in Ctx, Start(c) \/ Step(c) PROVE Guided'
        BY <2>1, <2>4, BeginGuided, DecidingGuided, EnterWriteDecides, EnterSkipDecides,
           PutCharDecides, SetTerminalDecides, TerminalOutDecides, EnterWriteOffers,
           TextOffers, SetTerminalOffers, TerminalOutOffers, CopyingGuided,
           PublishGuided DEF Step
    <2> QED BY <2>2, <2>3, <2>4 DEF Next, Host
<1> QED BY <1>1, <1>2 DEF GuidedInv

(* Every byte of text is shown on the terminal it was written for, though  *)
(* main program and interrupts switch terminals, writes are cut by modes   *)
(* and the probe takes any number of bytes at any time, if no interrupt    *)
(* comes before initialisation.                                            *)
THEOREM TerminalsRight == Spec => [](~EarlyIsr => RightTerminal)
<1>1. GuidedInv => (~EarlyIsr => RightTerminal)
    <2> SUFFICES ASSUME GuidedInv, ~EarlyIsr PROVE Right(shown, pending)
        BY DEF Right, RightTerminal
    <2>1. TInv /\ Guided /\ pending \in Seq(Byte)
        BY DEF GuidedInv, ServedInv, QueueInv, TInv, TypeOK
    <2>2. CASE \A c \in Ctx : call[c].pc \notin Writing
        BY <2>1, <2>2 DEF Guided, Path
    <2>3. ASSUME NEW c \in Ctx, call[c].pc \in Writing PROVE Right(shown, pending)
        <3>1. Flat(call[c].segs) \in Seq(Byte)
            <4>1. call[c].segs \in Seq(Seq(Byte))
                BY <2>1 DEF TInv, TypeOK, Call
            <4> QED BY <4>1, FlatType
        <3>2. Right(shown, pending \o Flat(call[c].segs))
            BY <2>1, <2>3 DEF Guided, Path
        <3> QED BY <2>1, <3>1, <3>2, RightConcat
    <2> QED BY <2>2, <2>3
<1> QED BY <1>1, InitGuided, NextGuided, PTL DEF Spec

=============================================================================
