--------------------- MODULE EmbeddedFlash_index_proofs ---------------------
(***************************************************************************)
(* What no power cut can take from the engine, for every number of         *)
(* sectors, slots, keys, values and power cuts.                            *)
(*                                                                         *)
(* Scans never read the last slot of a sector, so everything is said of    *)
(* the slots they do read: Seen.  Records fill a sector in order and the   *)
(* write position is behind the last of them, however torn they are; every *)
(* address of the RAM index is that of a live record of its key, except    *)
(* while that very record is being replaced.                               *)
(***************************************************************************)
EXTENDS EmbeddedFlash_proofs

Waits == Head(Tail(todo))     \* the caller of the running function

(* Frames by the part they have in a call: those of a migration, those of  *)
(* a record write, those that wait for a record to be written, those that  *)
(* erase a sector once it has been migrated.                               *)
MigPc     == {"mig_enter", "migrate", "mig_predelete", "mig_commit", "mig_deleted"}
Writer    == {"put", "append", "append_status"}
Awaiting  == {"defaults_commit", "set_written", "mig_predelete"}
Eraser    == {"reb_erase", "gc_erase"}
Suspended == {"init_done", "load", "rebuild", "defaults", "gc_find", "put"}
               \cup Awaiting \cup Eraser
Starting  == {"init", "load", "format", "format_role", "format_magic"}
Setters   == {"set_written", "set_commit", "set_deleted"}
Movers    == {"mig_commit", "mig_deleted", "set_commit", "set_deleted"}
Victim(f) == IF f.pc = "gc_erase" THEN f.t ELSE f.s

-----------------------------------------------------------------------------
(* The call stack *)

(* Frame g runs directly above frame f, which called it.                   *)
Link(g, f) ==
    /\ f.pc \in Suspended
    /\ f.pc \in Eraser <=> g.pc \in MigPc
    /\ f.pc \in Eraser => g.s = Victim(f)
    /\ f.pc \in Awaiting <=> g.pc \in Writer
    /\ f.pc \in Awaiting => g.key = f.key
    /\ f.pc = "mig_predelete" => g.pc # "put"
    /\ f.pc \in {"defaults_commit", "set_written"} => g.val = f.val
    /\ f.pc = "rebuild" => g.pc = "load"
    /\ f.pc = "load" => f.s = 0
    /\ g.pc \notin Setters

(* What needs a caller has one.                                            *)
Rooted(f) == f.pc \notin MigPc \cup Writer

Chain(q) == \A n \in 1..Len(q) : IF n = Len(q) THEN Rooted(q[n]) ELSE Link(q[n], q[n + 1])

(* Frames f and g have the same caller.                                    *)
Alike(f, g) ==
    /\ f.pc \in MigPc <=> g.pc \in MigPc
    /\ f.pc \in Writer <=> g.pc \in Writer
    /\ f.pc \in MigPc => f.s = g.s
    /\ f.pc \in Writer => f.key = g.key /\ f.val = g.val
    /\ f.pc = "put" => g.pc = "put"
    /\ g.pc = "load" => f.pc = "load"
    /\ f.pc \in Setters => g.pc \in Setters

LEMMA Stack ==
    ASSUME StackOK, todo # <<>>
    PROVE  /\ Top \in Frame
           /\ Tail(todo) \in Seq(QuietFrame) /\ Tail(todo) \in Seq(Frame)
           /\ todo = <<Top>> \o Tail(todo)
           /\ Tail(todo) # <<>> => Waits \in Frame
<1>1. Top \in Frame /\ Tail(todo) \in Seq(QuietFrame)
  BY TopOK
<1>2. Tail(todo) \in Seq(Frame)
  BY <1>1, QuietIsFrame
<1>3. todo = <<Top>> \o Tail(todo)
  BY DEF StackOK, Top
<1>4. Tail(todo) # <<>> => Head(Tail(todo)) \in Frame
  BY <1>2
<1> QED
  BY <1>1, <1>2, <1>3, <1>4 DEF Waits

LEMMA ChainEmpty == Chain(<<>>)
BY DEF Chain

LEMMA ChainPush ==
    ASSUME NEW q \in Seq(Frame), Chain(q), NEW f \in Frame,
           q = <<>> => Rooted(f), q # <<>> => Link(f, Head(q))
    PROVE  Chain(<<f>> \o q) /\ <<f>> \o q \in Seq(Frame)
<1> DEFINE p == <<f>> \o q
<1>1. /\ p \in Seq(Frame) /\ Len(p) = Len(q) + 1 /\ p[1] = f
      /\ \A n \in 1..Len(q) : p[n + 1] = q[n]
  OBVIOUS
<1>2. q # <<>> => Head(q) = q[1] /\ Len(q) >= 1
  OBVIOUS
<1>3. q = <<>> <=> Len(q) = 0
  OBVIOUS
<1> HIDE DEF p
<1>4. ASSUME NEW n \in 1..Len(p)
      PROVE  IF n = Len(p) THEN Rooted(p[n]) ELSE Link(p[n], p[n + 1])
  <2>1. CASE n = 1
    <3>1. CASE q = <<>>
      BY <1>1, <1>3, <2>1, <3>1
    <3>2. CASE q # <<>>
      <4>1. n # Len(p) /\ p[n + 1] = q[1]
        BY <1>1, <1>2, <1>3, <2>1, <3>2
      <4> QED
        BY <1>1, <1>2, <2>1, <3>2, <4>1
    <3> QED
      BY <3>1, <3>2
  <2>2. CASE n # 1
    <3> DEFINE m == n - 1
    <3>1. m \in 1..Len(q) /\ p[n] = q[m] /\ (n = Len(p) <=> m = Len(q))
      BY <1>1, <2>2
    <3>2. n # Len(p) => p[n + 1] = q[m + 1]
      BY <1>1, <2>2, <3>1
    <3> QED
      BY <3>1, <3>2 DEF Chain
  <2> QED
    BY <2>1, <2>2
<1> QED
  BY <1>1, <1>4 DEF Chain, p

LEMMA ChainPop ==
    ASSUME StackOK, Chain(todo), todo # <<>>
    PROVE  /\ Chain(Tail(todo))
           /\ Tail(todo) = <<>> => Rooted(Top)
           /\ Tail(todo) # <<>> => Link(Top, Waits)
<1> DEFINE q == Tail(todo)
<1>1. todo \in Seq(Frame)
  BY DEF StackOK
<1>2. /\ q \in Seq(Frame) /\ Len(todo) = Len(q) + 1 /\ Top = todo[1]
      /\ \A n \in 1..Len(q) : q[n] = todo[n + 1]
  BY <1>1, HeadTailProperties DEF Top
<1>3. q = <<>> <=> Len(q) = 0
  BY <1>2
<1>4. q # <<>> => Waits = todo[2]
  <2>1. q # <<>> => Waits = q[1] /\ 1 \in 1..Len(q)
    BY <1>2, <1>3 DEF Waits
  <2> QED
    BY <1>2, <2>1
<1> HIDE DEF q
<1>5. Chain(q)
  <2> SUFFICES ASSUME NEW n \in 1..Len(q)
               PROVE  IF n = Len(q) THEN Rooted(q[n]) ELSE Link(q[n], q[n + 1])
    BY DEF Chain
  <2>1. n + 1 \in 1..Len(todo) /\ (n = Len(q) <=> n + 1 = Len(todo))
    BY <1>2
  <2>2. n # Len(q) => q[n + 1] = todo[(n + 1) + 1]
    BY <1>2
  <2> QED
    BY <1>2, <2>1, <2>2 DEF Chain
<1>6. IF 1 = Len(todo) THEN Rooted(todo[1]) ELSE Link(todo[1], todo[1 + 1])
  <2>1. 1 \in 1..Len(todo)
    BY <1>2
  <2> QED
    BY <2>1 DEF Chain
<1>7. (q = <<>> <=> 1 = Len(todo)) /\ 1 + 1 = 2
  BY <1>2, <1>3
<1>8. (q = <<>> => Rooted(Top)) /\ (q # <<>> => Link(Top, Waits))
  BY <1>2, <1>4, <1>6, <1>7
<1> QED
  BY <1>5, <1>8 DEF q

LEMMA ChainStay ==
    ASSUME StackOK, Chain(todo), todo # <<>>, NEW f \in Frame, Alike(f, Top)
    PROVE  Chain(<<f>> \o Tail(todo))
<1>1. Tail(todo) = <<>> => Rooted(f)
  BY ChainPop DEF Rooted, Alike
<1>2. Tail(todo) # <<>> => Link(f, Waits)
  BY ChainPop DEF Link, Alike, Awaiting
<1> QED
  BY <1>1, <1>2, ChainPop, ChainPush, Stack DEF Waits

LEMMA TwoFrames ==
    ASSUME NEW q \in Seq(Frame), NEW f \in Frame, NEW g \in Frame
    PROVE  /\ <<f>> \o q \in Seq(Frame) /\ <<f>> \o q # <<>> /\ Head(<<f>> \o q) = f
           /\ <<g>> \o (<<f>> \o q) = <<g, f>> \o q
<1>1. <<f>> \o q \in Seq(Frame) /\ <<f>> \o q # <<>> /\ Head(<<f>> \o q) = f
  OBVIOUS
<1>2. <<g>> \o (<<f>> \o q) = <<g, f>> \o q
  <2> DEFINE a == <<g>>
             b == <<f>>
             c == <<g, f>>
  <2>1. c = a \o b
    OBVIOUS
  <2>2. a \in Seq(Frame) /\ b \in Seq(Frame)
    OBVIOUS
  <2> HIDE DEF a, b, c
  <2>3. (a \o b) \o q = a \o (b \o q)
    BY <2>2, ConcatAssociative
  <2>4. a \o (b \o q) = c \o q
    BY <2>1, <2>3
  <2> QED
    BY <2>4 DEF a, b, c
<1> QED
  BY <1>1, <1>2

(* A call: the caller's frame becomes f, and g runs.                       *)
LEMMA ChainCall ==
    ASSUME StackOK, Chain(todo), todo # <<>>,
           NEW f \in Frame, Alike(f, Top), NEW g \in Frame, Link(g, f)
    PROVE  Chain(<<g, f>> \o Tail(todo))
<1> DEFINE q == <<f>> \o Tail(todo)
<1>1. Chain(q) /\ q \in Seq(Frame)
  BY ChainStay, Stack
<1>2. q # <<>> /\ Head(q) = f /\ <<g>> \o q = <<g, f>> \o Tail(todo)
  BY Stack, TwoFrames
<1> HIDE DEF q
<1>3. Chain(<<g>> \o q)
  BY <1>1, <1>2, ChainPush
<1> QED
  BY <1>2, <1>3

LEMMA ChainOne == ASSUME NEW f \in Frame, Rooted(f) PROVE Chain(<<f>>)
<1> DEFINE q == <<>>
<1>1. q \in Seq(Frame) /\ Chain(q) /\ q = <<>>
  BY ChainEmpty
<1>2. <<f>> \o q = <<f>>
  OBVIOUS
<1> HIDE DEF q
<1>3. Chain(<<f>> \o q)
  BY <1>1, ChainPush
<1> QED
  BY <1>2, <1>3

LEMMA ChainTwo ==
    ASSUME NEW f \in Frame, NEW g \in Frame, Rooted(f), Link(g, f)
    PROVE  Chain(<<g, f>>)
<1> DEFINE p == <<g, f>>
           q == <<f>>
<1>1. p = <<g>> \o q
  OBVIOUS
<1>2. q \in Seq(Frame) /\ q # <<>> /\ Head(q) = f
  OBVIOUS
<1>3. Chain(q)
  BY ChainOne
<1> HIDE DEF p, q
<1>4. Chain(<<g>> \o q)
  BY <1>2, <1>3, ChainPush
<1>5. Chain(p)
  BY <1>1, <1>4
<1> QED
  BY <1>5 DEF p

LEMMA ChainSuffix ==
    ASSUME NEW q \in Seq(Frame), Chain(q), NEW j \in 1..Len(q)
    PROVE  Chain(SubSeq(q, j, Len(q)))
<1> DEFINE p == SubSeq(q, j, Len(q))
<1>1. Len(p) = Len(q) - j + 1 /\ \A n \in 1..Len(p) : p[n] = q[j + n - 1]
  BY SubSeqProperties
<1> HIDE DEF p
<1> SUFFICES ASSUME NEW n \in 1..Len(p)
             PROVE  IF n = Len(p) THEN Rooted(p[n]) ELSE Link(p[n], p[n + 1])
  BY DEF Chain, p
<1> DEFINE m == j + n - 1
<1>2. m \in 1..Len(q) /\ (n = Len(p) <=> m = Len(q)) /\ p[n] = q[m]
  BY <1>1
<1>3. n # Len(p) => p[n + 1] = q[m + 1]
  BY <1>1
<1> HIDE DEF m
<1> QED
  BY <1>2, <1>3 DEF Chain

-----------------------------------------------------------------------------
(* The invariant *)

Unbroken(s) == \A i, j \in Visible : i < j /\ slot[s][i] = Erased => slot[s][j] = Erased
Filled(s)   == \A j \in Visible : slot[s][j] # Erased <=> j <= used[s]

(* The sectors whose descriptor agrees with flash: all of them, except     *)
(* that a start-up begins with none and scans or formats one by one.       *)
Known(s) ==
    todo # <<>> => /\ Top.pc # "init"
                   /\ Top.pc \in {"load", "format"} => s < Top.s
                   /\ Top.pc \in {"format_role", "format_magic"} => s <= Top.s

(* The write position is behind the last record that is not erased.        *)
Order == \A s \in Sector : Unbroken(s) /\ (Known(s) => Filled(s))

(* The key whose record is being replaced.                                 *)
Moving(k) ==
    /\ todo # <<>>
    /\ Top.pc \in Movers
    /\ Top.key = k

(* The index: every address is that of a live record of its key.           *)
Index == \A k \in Key : kv[k].addr \in Seen =>
    /\ SlotAt(kv[k].addr).key = k
    /\ Moving(k) \/ IsLive(SlotAt(kv[k].addr))

Fresh(a, k)     == a \in Seen => SlotAt(a).key = k /\ SlotAt(a).st = PRE_WRITE
Committed(a, k) == a \in Seen => SlotAt(a).key = k /\ SlotAt(a).st = WRITE
Beyond(f, a)    == a[1] = f.s => a[2] > f.i

(* Migration frame f has moved every live record before slot i, and is at  *)
(* a record of its key there: it has begun or ended to move it.            *)
Cleared(f) == \A j \in Visible : j < f.i => ~IsLive(slot[f.s][j])
Source(f)  == f.i \in Visible /\ slot[f.s][f.i].key = f.key
Begun(f)   == Source(f) /\ IsLive(slot[f.s][f.i]) /\ Cleared(f)
Ended(f)   == Source(f) /\ ~IsLive(slot[f.s][f.i]) /\ Cleared(f)
LiveSeen(s) == \E j \in Visible : IsLive(slot[s][j])

(* The functions that rely on nothing when they resume.                    *)
Plain == {"init_done", "init_failed", "load", "defaults", "put", "rebuild", "reb_round",
          "reb_magic", "reb_role", "gc", "gc_find", "gc_gcing", "hung"}

(* What the running function relies on when it resumes.                    *)
Relies ==
    /\ Top.pc = "append" => (Waits.pc = "mig_predelete" => Begun(Waits))
    /\ Top.pc = "append_status" =>
          /\ Fresh(ret, Top.key)
          /\ Waits.pc = "mig_predelete" => Begun(Waits) /\ Beyond(Waits, ret)
    /\ Top.pc \in Awaiting => Fresh(ret, Top.key)
    /\ Top.pc = "mig_enter" => Top.i = 0
    /\ Top.pc = "migrate" =>
          Cleared(Top) /\ (Top.i \in Visible => ~IsLive(slot[Top.s][Top.i]))
    /\ Top.pc = "mig_predelete" => Begun(Top) /\ Beyond(Top, ret)
    /\ Top.pc = "mig_commit" => Ended(Top) /\ Fresh(Top.new, Top.key) /\ Beyond(Top, Top.new)
    /\ Top.pc = "mig_deleted" => Ended(Top) /\ Committed(Top.new, Top.key)
    /\ Top.pc \in Eraser => ~LiveSeen(Victim(Top))
    /\ Top.pc = "set_commit" => Fresh(Top.new, Top.key)
    /\ Top.pc = "set_deleted" => Committed(Top.new, Top.key)
    /\ Top.pc \in {"gc_role", "gc_magic", "gc_data"} => used[Top.t] = 0
    /\ Top.pc \in Starting \ {"load"} => \A k \in Key : kv[k].addr = NoAddr
Stage == todo # <<>> => Relies

SInv == Chain(todo) /\ Order /\ Index /\ Stage
IInv == TInv /\ SInv

-----------------------------------------------------------------------------
(* Flash reads and writes *)

LEMMA SeenIs ==
    /\ Seen \subseteq Addr /\ NoAddr \notin Addr
    /\ \A a \in Seen : a[1] \in Sector /\ a[2] \in Visible /\ a = <<a[1], a[2]>>
    /\ \A a \in Addr : a[1] \in Sector /\ a[2] \in Slot /\ a = <<a[1], a[2]>>
    /\ \A s \in Sector : \A j \in Visible : <<s, j>> \in Seen
    /\ Visible \subseteq Slot /\ Visible \subseteq Nat
<1>1. NoAddr \notin Addr
  <2>1. 0 \notin Slot /\ NoAddr[2] = 0
    BY DEF Slot, NoAddr
  <2> QED
    BY <2>1 DEF Addr
<1>2. Seen \subseteq Addr
  BY Ranges DEF Seen, Addr
<1> QED
  BY <1>1, <1>2, Ranges DEF Seen, Addr

LEMMA SlotIs ==
    ASSUME FlashOK
    PROVE  /\ \A a \in Addr : SlotAt(a) \in Record
           /\ \A s \in Sector : \A j \in Slot : slot[s][j] \in Record
BY SeenIs DEF FlashOK, SlotAt

LEMMA Statuses ==
    /\ UNUSED = 0 /\ PRE_WRITE = 1 /\ WRITE = 2 /\ PRE_DELETE = 3 /\ DELETED = 4
    /\ ~IsLive(Erased)
BY DEF UNUSED, PRE_WRITE, WRITE, PRE_DELETE, DELETED, IsLive, Erased

(* A status write changes one record, and nothing of it but its status.    *)
LEMMA StatusWrite ==
    ASSUME FlashOK, NEW a \in Addr \cup {NoAddr}, NEW st, slot' = SetKvStatus(slot, a, st),
           NEW s \in Sector, NEW j \in Slot
    PROVE  slot'[s][j] =
             IF <<s, j>> = a THEN [slot[s][j] EXCEPT !.st = IF st > @ THEN st ELSE @]
                             ELSE slot[s][j]
<1>1. slot \in [Sector -> [Slot -> Record]]
  BY DEF FlashOK
<1>2. CASE a = NoAddr
  <2>1. a[2] = 0 /\ 0 \notin Slot /\ a # <<s, j>>
    BY <1>2 DEF NoAddr, Slot
  <2> QED
    BY <1>1, <2>1 DEF SetKvStatus
<1>3. CASE a \in Addr
  <2> DEFINE s0 == a[1]
             j0 == a[2]
  <2>1. s0 \in Sector /\ j0 \in Slot /\ a = <<s0, j0>>
    BY <1>3, SeenIs
  <2>2. slot' = [slot EXCEPT ![s0][j0].st = IF st > @ THEN st ELSE @]
    BY DEF SetKvStatus
  <2> HIDE DEF s0, j0
  <2> QED
    BY <1>1, <2>1, <2>2
<1> QED
  BY <1>2, <1>3

(* What a pre-delete or delete does to the records that a scan can see.   *)
LEMMA Kills ==
    ASSUME FlashOK, NEW a \in Addr \cup {NoAddr}, NEW st \in {PRE_DELETE, DELETED},
           slot' = SetKvStatus(slot, a, st), NEW s \in Sector, NEW j \in Slot
    PROVE  /\ slot'[s][j].key = slot[s][j].key
           /\ slot'[s][j].val = slot[s][j].val
           /\ <<s, j>> # a => slot'[s][j] = slot[s][j]
           /\ IsLive(slot'[s][j]) <=> IsLive(slot[s][j]) /\ <<s, j>> # a
           /\ slot[s][j].key # 0 => slot[s][j] # Erased /\ slot'[s][j] # Erased
<1>1. slot[s][j] \in Record
  BY SlotIs
<1> DEFINE r == slot[s][j]
           x == slot'[s][j]
<1>2. x = IF <<s, j>> = a THEN [r EXCEPT !.st = IF st > @ THEN st ELSE @] ELSE r
  BY StatusWrite
<1> HIDE DEF r, x
<1>3. /\ x.key = r.key /\ x.val = r.val
      /\ x.st = IF <<s, j>> = a /\ st > r.st THEN st ELSE r.st
      /\ <<s, j>> # a => x = r
  BY <1>1, <1>2 DEF Record, r
<1>4. r.st \in 0..4
  BY <1>1, Statuses DEF Record, r
<1>5. r.key # 0 => r # Erased /\ x # Erased
  BY <1>3 DEF Erased
<1> QED
  BY <1>3, <1>4, <1>5, Statuses DEF IsLive, r, x

(* What a commit does to them, when the record is freshly written.         *)
LEMMA Commits ==
    ASSUME FlashOK, NEW a \in Addr \cup {NoAddr}, slot' = SetKvStatus(slot, a, WRITE),
           NEW s \in Sector, NEW j \in Slot
    PROVE  /\ slot'[s][j].key = slot[s][j].key
           /\ slot'[s][j].val = slot[s][j].val
           /\ <<s, j>> # a => slot'[s][j] = slot[s][j]
           /\ IsLive(slot[s][j]) => IsLive(slot'[s][j])
           /\ slot[s][j].st = PRE_WRITE /\ <<s, j>> = a => slot'[s][j].st = WRITE
           /\ slot[s][j].key # 0 => slot[s][j] # Erased /\ slot'[s][j] # Erased
<1>1. slot[s][j] \in Record
  BY SlotIs
<1> DEFINE r == slot[s][j]
           x == slot'[s][j]
<1>2. x = IF <<s, j>> = a THEN [r EXCEPT !.st = IF WRITE > @ THEN WRITE ELSE @] ELSE r
  BY StatusWrite
<1> HIDE DEF r, x
<1>3. /\ x.key = r.key /\ x.val = r.val
      /\ x.st = IF <<s, j>> = a /\ WRITE > r.st THEN WRITE ELSE r.st
      /\ <<s, j>> # a => x = r
  BY <1>1, <1>2 DEF Record, r
<1>4. r.st \in 0..4
  BY <1>1, Statuses DEF Record, r
<1>5. r.key # 0 => r # Erased /\ x # Erased
  BY <1>3 DEF Erased
<1> QED
  BY <1>3, <1>4, <1>5, Statuses DEF IsLive, r, x

(* A record write stores something only in a slot that is erased.          *)
LEMMA RecordWrite ==
    ASSUME FlashOK, NEW a \in Addr, NEW r \in Record, slot' = PutRecord(slot, a, r),
           NEW s \in Sector, NEW j \in Slot
    PROVE  slot'[s][j] = IF <<s, j>> = a /\ slot[s][j] = Erased THEN r ELSE slot[s][j]
<1>1. slot \in [Sector -> [Slot -> Record]]
  BY DEF FlashOK
<1> DEFINE s0 == a[1]
           j0 == a[2]
<1>2. s0 \in Sector /\ j0 \in Slot /\ a = <<s0, j0>>
  BY SeenIs
<1>3. slot' = [slot EXCEPT ![s0][j0] = IF @ = Erased THEN r ELSE @]
  BY DEF PutRecord
<1> HIDE DEF s0, j0
<1> QED
  BY <1>1, <1>2, <1>3

LEMMA EraseIs ==
    ASSUME FlashOK, DescOK, NEW s \in Sector, EraseSector(s), NEW x \in Sector
    PROVE  /\ \A j \in Slot : slot'[x][j] = IF x = s THEN Erased ELSE slot[x][j]
           /\ used'[x] = IF x = s THEN 0 ELSE used[x]
BY DEF EraseSector, FlashOK, DescOK

LEMMA RealKeys == \A k \in Key : k # 0
BY DEF Key

-----------------------------------------------------------------------------
(* Steps that leave the records, the write positions and the addresses     *)

LEMMA AllKnown ==
    ASSUME NEW s, todo # <<>> => Top.pc \notin Starting
    PROVE  Known(s)
BY DEF Known, Starting

LEMMA NotMoving ==
    ASSUME NEW k, todo # <<>> => Top.pc \notin Movers
    PROVE  ~Moving(k)
BY DEF Moving, Movers

LEMMA OrderSame ==
    ASSUME Order, used' = used,
           \A s \in Sector : \A j \in Visible : slot'[s][j] = Erased <=> slot[s][j] = Erased,
           \A s \in Sector : Known(s)' => Known(s)
    PROVE  Order'
BY DEF Order, Unbroken, Filled

LEMMA IndexSame ==
    ASSUME Index, slot' = slot, \A k \in Key : kv'[k].addr = kv[k].addr,
           todo # <<>> => Top.pc \notin Movers
    PROVE  Index'
<1> SUFFICES ASSUME NEW k \in Key, kv'[k].addr \in Seen
             PROVE  SlotAt(kv[k].addr)'.key = k /\ IsLive(SlotAt(kv[k].addr)')
  BY DEF Index
<1>1. ~Moving(k)
  BY NotMoving
<1> QED
  BY <1>1 DEF Index, SlotAt

LEMMA SameData ==
    ASSUME Order, Index, slot' = slot, used' = used,
           \A k \in Key : kv'[k].addr = kv[k].addr,
           todo # <<>> => Top.pc \notin Movers \cup Starting
    PROVE  Order' /\ Index'
<1>1. \A s \in Sector : Known(s)
  BY AllKnown
<1> QED
  BY <1>1, OrderSame, IndexSame

LEMMA NewTop ==
    ASSUME NEW f \in Frame, NEW q \in Seq(Frame), todo' = <<f>> \o q
    PROVE  todo' # <<>> /\ Top' = f /\ (q # <<>> => Waits' = Head(q))
<1>1. <<f>> \o q # <<>> /\ Head(<<f>> \o q) = f /\ Tail(<<f>> \o q) = q
  OBVIOUS
<1> QED
  BY <1>1 DEF Top, Waits

LEMMA StagePlain == ASSUME todo' # <<>> => Top'.pc \in Plain PROVE Stage'
BY DEF Stage, Relies, Plain, Awaiting, Eraser, Starting

(* A plain function returns to one that relies on nothing.                *)
LEMMA PopPlain ==
    ASSUME StackOK, Chain(todo), todo # <<>>, Rooted(Top), todo' = Tail(todo)
    PROVE  /\ Chain(todo')
           /\ todo' # <<>> => Top' = Waits /\ Top'.pc \in Plain \cap Suspended
           /\ Stage'
<1>1. Chain(todo')
  BY ChainPop
<1>2. todo' # <<>> => Top' = Waits /\ Link(Top, Waits)
  BY ChainPop DEF Top, Waits
<1>3. todo' # <<>> => Top'.pc \in Plain \cap Suspended
  BY <1>2 DEF Link, Rooted, Plain, Suspended, Awaiting, Eraser
<1> QED
  BY <1>1, <1>2, <1>3, StagePlain

LEMMA StayPlain ==
    ASSUME StackOK, Chain(todo), todo # <<>>, NEW f \in Frame, Rooted(Top),
           f.pc \in Plain, Rooted(f), Top.pc = "load" => f.pc = "load",
           todo' = <<f>> \o Tail(todo)
    PROVE  Chain(todo') /\ todo' # <<>> /\ Top' = f /\ Stage'
<1>1. Chain(todo')
  BY ChainStay DEF Alike, Rooted, MigPc, Writer, Plain, Setters
<1>2. todo' # <<>> /\ Top' = f
  BY Stack, NewTop
<1> QED
  BY <1>1, <1>2, StagePlain

LEMMA GotoFrame ==
    ASSUME StackOK, todo # <<>>, NEW l \in Pc
    PROVE  [Top EXCEPT !.pc = l] \in Frame
BY Stack DEF Frame

LEMMA InitDoneKeeps == IInv /\ InitDone => SInv'
<1> SUFFICES ASSUME IInv, InitDone PROVE SInv'
  OBVIOUS
<1> USE DEF IInv, SInv, TInv
<1>1. todo # <<>> /\ Top.pc = "init_done" /\ todo' = Tail(todo)
  BY DEF InitDone, At, Return
<1>2. Chain(todo') /\ Stage'
  BY <1>1, PopPlain DEF Rooted, MigPc, Writer
<1>3. Order' /\ Index'
  BY <1>1, SameData DEF InitDone, desc, flash, Movers, Starting
<1> QED
  BY <1>2, <1>3

(* Functions that rely on nothing can wait for each other.                *)
Waitable == {"init_done", "load", "defaults", "rebuild", "gc_find"}

LEMMA ChainPlain ==
    ASSUME NEW q \in Seq(Frame), q[1].pc \in Waitable \cup {"format"},
           \A n \in 2..Len(q) : q[n].pc \in Waitable /\ (q[n].pc = "load" => q[n].s = 0),
           \A n \in 1..Len(q) :
              n # Len(q) /\ q[n + 1].pc = "rebuild" => q[n].pc = "load"
    PROVE  Chain(q)
<1> SUFFICES ASSUME NEW n \in 1..Len(q)
             PROVE  IF n = Len(q) THEN Rooted(q[n]) ELSE Link(q[n], q[n + 1])
  BY DEF Chain
<1>1. \A f : f.pc \in Waitable \cup {"format"} => Rooted(f)
  BY DEF Rooted, Waitable, MigPc, Writer
<1>2. \A f, g : /\ f.pc \in Waitable /\ g.pc \in Waitable \cup {"format"}
                /\ f.pc = "load" => f.s = 0
                /\ f.pc = "rebuild" => g.pc = "load"
                => Link(g, f)
  BY <1>1 DEF Link, Rooted, Waitable, Setters, Suspended, Eraser, MigPc, Awaiting, Writer
<1>3. Rooted(q[n]) /\ q[n].pc \in Waitable \cup {"format"}
  BY <1>1
<1>4. n # Len(q) => /\ q[n + 1].pc \in Waitable
                    /\ q[n + 1].pc = "load" => q[n + 1].s = 0
                    /\ q[n + 1].pc = "rebuild" => q[n].pc = "load"
  <2>1. n # Len(q) => n + 1 \in 2..Len(q)
    OBVIOUS
  <2> QED
    BY <2>1
<1>5. n # Len(q) => Link(q[n], q[n + 1])
  BY <1>2, <1>3, <1>4, Zenon
<1> QED
  BY <1>3, <1>5, Zenon

LEMMA InitClassifyKeeps == IInv /\ InitClassify => SInv'
<1> SUFFICES ASSUME IInv, InitClassify PROVE SInv'
  OBVIOUS
<1> USE DEF IInv, SInv, TInv
<1>1. todo # <<>> /\ Top.pc = "init" /\ UNCHANGED <<slot, used, kv>>
  BY DEF InitClassify, At, flash
<1>2. \A l \in Waitable \cup {"format"} : Call0(l) \in Frame /\ Call0(l).pc = l
  BY Frames DEF Waitable, Pc
<1>3. PICK q \in Seq(Frame) :
        /\ todo' = q \o <<Call0("init_done")>> /\ Len(q) \in 2..4
        /\ q[1] \in {Call0("load"), Call0("format")}
        /\ \A n \in 2..Len(q) : q[n] \in {Call0("rebuild"), Call0("load"), Call0("defaults")}
        /\ \A n \in 2..Len(q) : q[n].pc = "rebuild" => q[n - 1].pc = "load"
  <2> DEFINE P(q) == /\ q \in Seq(Frame) /\ Len(q) \in 2..4
                     /\ q[1] \in {Call0("load"), Call0("format")}
                     /\ \A n \in 2..Len(q) :
                          q[n] \in {Call0("rebuild"), Call0("load"), Call0("defaults")}
                     /\ \A n \in 2..Len(q) : q[n].pc = "rebuild" => q[n - 1].pc = "load"
  <2>1. P(<<Call0("load"), Call0("defaults")>>)
    BY <1>2 DEF Waitable
  <2>2. P(<<Call0("format"), Call0("defaults"), Call0("load")>>)
    BY <1>2 DEF Waitable
  <2>3. P(RecoverFrames)
    BY <1>2 DEF Waitable, RecoverFrames
  <2> DEFINE x == CASE IsNormal -> <<Call0("load"), Call0("defaults")>>
                    [] IsFirstPowerOn -> <<Call0("format"), Call0("defaults"), Call0("load")>>
                    [] OTHER -> RecoverFrames
  <2>4. x \in {<<Call0("load"), Call0("defaults")>>,
               <<Call0("format"), Call0("defaults"), Call0("load")>>, RecoverFrames}
    BY Zenon
  <2>5. todo' = x \o <<Call0("init_done")>>
    BY DEF InitClassify
  <2> HIDE DEF x, P
  <2>6. P(x)
    BY <2>1, <2>2, <2>3, <2>4
  <2> QED
    BY <2>5, <2>6 DEF P
<1>4. Call0("init_done") \in Frame
  BY <1>2 DEF Waitable
<1>5. /\ todo' \in Seq(Frame) /\ Len(todo') = Len(q) + 1 /\ todo'[1] = q[1]
      /\ todo'[Len(todo')] = Call0("init_done")
      /\ \A n \in 2..Len(q) : todo'[n] = q[n]
  BY <1>3, <1>4
<1> DEFINE c == todo'
<1>6. \A n \in 2..Len(c) : /\ c[n].pc \in Waitable /\ (c[n].pc = "load" => c[n].s = 0)
                           /\ c[n].pc = "rebuild" => c[n - 1].pc = "load"
  <2> SUFFICES ASSUME NEW n \in 2..Len(c)
               PROVE  /\ c[n].pc \in Waitable /\ (c[n].pc = "load" => c[n].s = 0)
                      /\ c[n].pc = "rebuild" => c[n - 1].pc = "load"
    OBVIOUS
  <2>0. \A l \in Waitable : Call0(l).s = 0
    BY DEF Call0
  <2>1. CASE n = Len(c)
    BY <1>2, <1>5, <2>0, <2>1 DEF Waitable
  <2>2. CASE n \in 2..Len(q)
    <3>1. c[n] = q[n] /\ c[n - 1] = q[n - 1]
      BY <1>3, <1>5, <2>2
    <3> QED
      BY <1>2, <1>3, <2>0, <2>2, <3>1 DEF Waitable
  <2> QED
    BY <1>3, <1>5, <2>1, <2>2
<1>7. todo' # <<>> /\ Top' \in {Call0("load"), Call0("format")}
  BY <1>3, <1>5 DEF Top
<1>8. Top'.pc \in {"load", "format"} /\ Top'.s = 0
  BY <1>2, <1>7 DEF Call0, Waitable
<1>9. Chain(todo')
  <2>1. c[1].pc \in Waitable \cup {"format"}
    BY <1>2, <1>3, <1>5 DEF Waitable
  <2>2. ASSUME NEW n \in 1..Len(c), n # Len(c), c[n + 1].pc = "rebuild"
        PROVE  c[n].pc = "load"
    <3> DEFINE m == n + 1
    <3>1. m \in 2..Len(c) /\ m - 1 = n /\ c[m].pc = "rebuild"
      BY <1>5, <2>2
    <3> HIDE DEF m
    <3>2. c[m - 1].pc = "load"
      BY <1>6, <3>1
    <3> QED
      BY <3>1, <3>2
  <2>3. c \in Seq(Frame)
    BY <1>5
  <2> HIDE DEF c
  <2>4. Chain(c)
    BY <1>6, <2>1, <2>2, <2>3, ChainPlain
  <2> QED
    BY <2>4 DEF c
<1>10. Order'
  <2>1. \A s \in Sector : ~Known(s)'
    BY <1>7, <1>8, Ranges DEF Known
  <2> QED
    BY <1>1, <2>1 DEF Order, Unbroken
<1>11. Index'
  BY <1>1, IndexSame DEF Movers
<1>12. Stage'
  <2>1. \A k \in Key : kv[k].addr = NoAddr
    BY <1>1 DEF Stage, Relies, Starting
  <2> QED
    BY <1>1, <1>8, <2>1 DEF Stage, Relies, Awaiting, Eraser
<1> QED
  BY <1>9, <1>10, <1>11, <1>12

LEMMA FormatEraseKeeps == IInv /\ FormatErase => SInv'
<1> SUFFICES ASSUME IInv, FormatErase PROVE SInv'
  OBVIOUS
<1> USE DEF IInv, SInv, TInv
<1> DEFINE f == [Top EXCEPT !.pc = "format_role"]
<1>1. /\ todo # <<>> /\ Top.pc = "format" /\ UNCHANGED kv
      /\ EraseSector(Top.s) /\ todo' = <<f>> \o Tail(todo)
  BY DEF FormatErase, At, Goto, Stay
<1>2. f \in Frame /\ f.pc = "format_role" /\ f.s = Top.s /\ Top.s \in Sector
  <2>1. "format_role" \in Pc
    BY DEF Pc
  <2>2. Top \in Frame
    BY <1>1, Stack
  <2> QED
    BY <1>1, <2>1, <2>2, GotoFrame DEF Frame
<1> HIDE DEF f
<1>3. Chain(todo')
  BY <1>1, <1>2, ChainStay DEF Alike, MigPc, Writer, Setters
<1>4. todo' # <<>> /\ Top' = f
  BY <1>1, <1>2, Stack, NewTop
<1>5. Order'
  <2> SUFFICES ASSUME NEW s \in Sector PROVE Unbroken(s)' /\ (Known(s)' => Filled(s)')
    BY DEF Order
  <2>1. CASE s = Top.s
    <3>1. used'[s] = 0 /\ \A j \in Visible : slot'[s][j] = Erased
      BY <1>1, <1>2, <2>1, EraseIs, SeenIs
    <3>2. \A j \in Visible : ~(j <= 0)
      BY DEF Visible
    <3> QED
      BY <3>1, <3>2 DEF Unbroken, Filled
  <2>2. CASE s # Top.s
    <3>1. used'[s] = used[s] /\ \A j \in Visible : slot'[s][j] = slot[s][j]
      BY <1>1, <1>2, <2>2, EraseIs, SeenIs
    <3>2. Known(s)' => Known(s)
      <4>1. s \in Nat /\ Top.s \in Nat
        BY <1>2, Ranges
      <4> QED
        BY <1>1, <1>2, <1>4, <2>2, <4>1 DEF Known
    <3> QED
      BY <3>1, <3>2 DEF Order, Unbroken, Filled
  <2> QED
    BY <2>1, <2>2
<1>6. \A k \in Key : kv'[k].addr = NoAddr
  BY <1>1 DEF Stage, Relies, Starting
<1>7. Index'
  BY <1>6, SeenIs DEF Index
<1>8. Stage'
  BY <1>2, <1>4, <1>6 DEF Stage, Relies, Awaiting, Eraser
<1> QED
  BY <1>3, <1>5, <1>7, <1>8

LEMMA FormatRoleKeeps == IInv /\ FormatRole => SInv'
<1> SUFFICES ASSUME IInv, FormatRole PROVE SInv'
  OBVIOUS
<1> USE DEF IInv, SInv, TInv
<1> DEFINE f == [Top EXCEPT !.pc = "format_magic"]
<1>1. /\ todo # <<>> /\ Top.pc = "format_role" /\ UNCHANGED <<slot, used, kv>>
      /\ todo' = <<f>> \o Tail(todo)
  BY DEF FormatRole, At, Goto, Stay
<1>2. f \in Frame /\ f.pc = "format_magic" /\ f.s = Top.s
  <2>1. "format_magic" \in Pc
    BY DEF Pc
  <2>2. Top \in Frame
    BY <1>1, Stack
  <2> QED
    BY <1>1, <2>1, <2>2, GotoFrame DEF Frame
<1> HIDE DEF f
<1>3. Chain(todo')
  BY <1>1, <1>2, ChainStay DEF Alike, MigPc, Writer, Setters
<1>4. todo' # <<>> /\ Top' = f
  BY <1>1, <1>2, Stack, NewTop
<1>5. Order'
  BY <1>1, <1>2, <1>4, OrderSame DEF Known
<1>6. Index'
  BY <1>1, IndexSame DEF Movers
<1>7. Stage'
  BY <1>1, <1>2, <1>4 DEF Stage, Relies, Awaiting, Eraser, Starting
<1> QED
  BY <1>3, <1>5, <1>6, <1>7

LEMMA FormatMagicKeeps == IInv /\ FormatMagic => SInv'
<1> SUFFICES ASSUME IInv, FormatMagic PROVE SInv'
  OBVIOUS
<1> USE DEF IInv, SInv, TInv
<1>1. todo # <<>> /\ Top.pc = "format_magic" /\ UNCHANGED <<slot, used, kv>>
  BY DEF FormatMagic, At, desc
<1>2. Index'
  BY <1>1, IndexSame DEF Movers
<1>3. CASE Top.s + 1 \in Sector
  <2> DEFINE f == [Top EXCEPT !.s = @ + 1, !.pc = "format"]
  <2>1. todo' = <<f>> \o Tail(todo)
    BY <1>3 DEF FormatMagic, Stay
  <2>2. f \in Frame /\ f.pc = "format" /\ f.s = Top.s + 1 /\ Top.s \in Nat
    <3>1. "format" \in Pc
      BY DEF Pc
    <3>2. Top \in Frame
      BY <1>1, Stack
    <3> QED
      BY <1>3, <3>1, <3>2, Ranges DEF Frame
  <2> HIDE DEF f
  <2>3. Chain(todo')
    BY <1>1, <2>1, <2>2, ChainStay DEF Alike, MigPc, Writer, Setters
  <2>4. todo' # <<>> /\ Top' = f
    BY <1>1, <2>1, <2>2, Stack, NewTop
  <2>5. Order'
    <3>1. ASSUME NEW s \in Sector, Known(s)' PROVE Known(s)
      <4>1. s \in Nat
        BY Ranges
      <4> QED
        BY <1>1, <2>2, <2>4, <3>1, <4>1 DEF Known
    <3> QED
      BY <1>1, <3>1, OrderSame
  <2>6. Stage'
    BY <1>1, <2>2, <2>4 DEF Stage, Relies, Awaiting, Eraser, Starting
  <2> QED
    BY <1>2, <2>3, <2>5, <2>6
<1>4. CASE Top.s + 1 \notin Sector
  <2>1. todo' = Tail(todo)
    BY <1>4 DEF FormatMagic, Return
  <2>2. Chain(todo') /\ Stage'
    BY <1>1, <2>1, PopPlain DEF Rooted, MigPc, Writer
  <2>3. ASSUME NEW s \in Sector PROVE Known(s)
    <3>1. Top.s \in Sector
      BY <1>1, Stack DEF Frame
    <3>2. s <= Top.s
      BY <1>4, <3>1, Sizes DEF Sector
    <3> QED
      BY <1>1, <3>2 DEF Known
  <2>4. Order'
    BY <1>1, <2>3, OrderSame
  <2> QED
    BY <1>2, <2>2, <2>4
<1> QED
  BY <1>3, <1>4

-----------------------------------------------------------------------------
(* Defaults and record writes *)

(* A plain function runs on, or returns, and changes no data.             *)
LEMMA PlainStep ==
    ASSUME IInv, todo # <<>>, Top.pc \in Plain \ {"load", "put"},
           UNCHANGED <<slot, used>>, \A k \in Key : kv'[k].addr = kv[k].addr,
           \/ todo' = Tail(todo)
           \/ \E f \in Frame : f.pc \in Plain \ {"put"} /\ todo' = <<f>> \o Tail(todo)
    PROVE  SInv'
<1> USE DEF IInv, SInv, TInv
<1>1. Rooted(Top)
  BY DEF Rooted, Plain, MigPc, Writer
<1>2. Order' /\ Index'
  BY SameData DEF Plain, Movers, Starting
<1>3. CASE todo' = Tail(todo)
  BY <1>1, <1>2, <1>3, PopPlain
<1>4. ASSUME NEW f \in Frame, f.pc \in Plain \ {"put"}, todo' = <<f>> \o Tail(todo)
      PROVE  SInv'
  <2>1. Rooted(f)
    BY <1>4 DEF Rooted, Plain, MigPc, Writer
  <2> QED
    BY <1>1, <1>2, <1>4, <2>1, StayPlain
<1> QED
  BY <1>3, <1>4

(* A function calls g, and waits for it as f.                             *)
LEMMA CallStep ==
    ASSUME IInv, todo # <<>>, UNCHANGED <<slot, used, kv>>,
           Top.pc \notin Movers \cup Starting,
           NEW f \in Frame, NEW g \in Frame, Alike(f, Top), Link(g, f),
           todo' = <<g, f>> \o Tail(todo)
    PROVE  /\ Chain(todo') /\ Order' /\ Index'
           /\ todo' # <<>> /\ Top' = g /\ Waits' = f
<1> USE DEF IInv, SInv, TInv
<1>1. Order' /\ Index'
  BY SameData
<1>2. Chain(todo')
  BY ChainCall
<1> DEFINE q == <<f>> \o Tail(todo)
<1>3. q \in Seq(Frame) /\ q # <<>> /\ Head(q) = f /\ <<g>> \o q = <<g, f>> \o Tail(todo)
  BY Stack, TwoFrames
<1> HIDE DEF q
<1>4. todo' # <<>> /\ Top' = g /\ Waits' = f
  BY <1>3, NewTop
<1> QED
  BY <1>1, <1>2, <1>4

LEMMA DefaultsKeeps == IInv /\ Defaults => SInv'
<1> SUFFICES ASSUME IInv, Defaults PROVE SInv'
  OBVIOUS
<1> DEFINE K == {k \in Key : k > Top.i /\ ~kv[k].stored}
<1>1. todo # <<>> /\ Top.pc = "defaults" /\ UNCHANGED <<slot, used, kv>> /\ StackOK
  BY DEF Defaults, At, flash, desc, IInv, TInv
<1>2. CASE K = {}
  <2>1. todo' = Tail(todo)
    BY <1>2 DEF Defaults, Return
  <2> QED
    BY <1>1, <2>1, PlainStep DEF Plain
<1>3. CASE K # {}
  <2> DEFINE k == Min(K)
             e == [Top EXCEPT !.i = k, !.key = k, !.val = kv[k].val]
             f == [e EXCEPT !.pc = "defaults_commit"]
             g == [e EXCEPT !.pc = "put"]
  <2>1. k \in Key /\ k \in Nat
    <3>1. K \subseteq Key /\ K \subseteq Nat
      BY Ranges
    <3> QED
      BY <1>3, <3>1, MinNat
  <2>2. todo' = <<g, f>> \o Tail(todo)
    BY <1>3 DEF Defaults, Call
  <2> HIDE DEF k
  <2>3. e \in Frame
    <3>1. kv[k].val \in Value
      BY <2>1 DEF IInv, TInv, RestOK, Entry
    <3>2. Top \in Frame
      BY <1>1, Stack
    <3> QED
      BY <2>1, <3>1, <3>2 DEF Frame
  <2> HIDE DEF e
  <2>4. /\ f \in Frame /\ g \in Frame /\ f.pc = "defaults_commit" /\ g.pc = "put"
        /\ g.key = f.key /\ g.val = f.val
    BY <2>3 DEF Frame, Pc
  <2> HIDE DEF f, g
  <2>5. Alike(f, Top) /\ Link(g, f)
    BY <1>1, <2>4 DEF Alike, Link, MigPc, Writer, Setters, Suspended, Awaiting, Eraser
  <2>6. /\ Chain(todo') /\ Order' /\ Index' /\ todo' # <<>> /\ Top' = g
    BY <1>1, <2>2, <2>4, <2>5, CallStep DEF Movers, Starting
  <2>7. Stage'
    BY <2>4, <2>6, StagePlain DEF Plain
  <2> QED
    BY <2>6, <2>7 DEF SInv
<1> QED
  BY <1>2, <1>3

LEMMA SameFail ==
    ASSUME IInv, todo # <<>>, Fail, UNCHANGED <<slot, used, kv>>,
           Top.pc \notin Movers \cup Starting
    PROVE  SInv'
<1> USE DEF IInv, SInv, TInv
<1>1. Order' /\ Index'
  BY SameData
<1>2. todo' \in {<<>>, <<Call0("init_failed")>>}
        \/ \E j \in 2..Len(todo) :
              todo[j].pc = "gc_find" /\ todo' = SubSeq(todo, j, Len(todo))
  <2>1. CASE Handlers = {}
    BY <2>1, Zenon DEF Fail
  <2>2. CASE Handlers # {}
    <3> DEFINE j == Min(Handlers)
    <3>1. j \in Handlers
      <4>1. Handlers \subseteq Nat
        BY DEF Handlers, StackOK
      <4> QED
        BY <2>2, <4>1, MinNat
    <3>2. j \in 2..Len(todo) /\ todo[j].pc \in {"gc_find", "set_written", "init_done"}
      BY <3>1 DEF Handlers
    <3>3. CASE todo[j].pc = "gc_find"
      <4>1. todo' = SubSeq(todo, j, Len(todo))
        BY <2>2, <3>3, Zenon DEF Fail
      <4> QED
        BY <3>2, <3>3, <4>1
    <3>4. CASE todo[j].pc # "gc_find"
      <4>1. todo' \in {<<>>, <<Call0("init_failed")>>}
        BY <2>2, <3>4, Zenon DEF Fail
      <4> QED
        BY <4>1
    <3> HIDE DEF j
    <3> QED
      BY <3>3, <3>4
  <2> QED
    BY <2>1, <2>2
<1>3. CASE todo' = <<>>
  BY <1>1, <1>3, ChainEmpty DEF Stage
<1>4. CASE todo' = <<Call0("init_failed")>>
  <2>1. Call0("init_failed") \in Frame /\ Call0("init_failed").pc = "init_failed"
    BY Frames DEF Pc
  <2>2. Top' = Call0("init_failed")
    BY <1>4 DEF Top
  <2>3. Chain(todo')
    BY <1>4, <2>1, ChainOne DEF Rooted, MigPc, Writer
  <2> QED
    BY <1>1, <2>1, <2>2, <2>3, StagePlain DEF Plain
<1>5. ASSUME NEW j \in 2..Len(todo), todo[j].pc = "gc_find",
             todo' = SubSeq(todo, j, Len(todo))
      PROVE  SInv'
  <2>1. todo \in Seq(Frame) /\ j \in 1..Len(todo)
    BY DEF StackOK
  <2>2. Chain(todo')
    BY <1>5, <2>1, ChainSuffix
  <2>3. Top'.pc = "gc_find"
    <3>1. todo' \in Seq(Frame) /\ Len(todo') >= 1 /\ todo'[1] = todo[j]
      BY <1>5, <2>1, SubSeqProperties
    <3> QED
      BY <1>5, <3>1 DEF Top
  <2> QED
    BY <1>1, <2>2, <2>3, StagePlain DEF Plain
<1> QED
  BY <1>2, <1>3, <1>4, <1>5

LEMMA PutKeeps == IInv /\ Put => SInv'
<1> SUFFICES ASSUME IInv, Put PROVE SInv'
  OBVIOUS
<1>1. todo # <<>> /\ Top.pc = "put" /\ UNCHANGED <<slot, used, kv>> /\ StackOK /\ Chain(todo)
  BY DEF Put, At, flash, desc, IInv, TInv, SInv
<1>2. Top \in Frame /\ Tail(todo) \in Seq(Frame)
  BY <1>1, Stack
<1>3. Order' /\ Index'
  BY <1>1, SameData DEF IInv, SInv, Movers, Starting
<1>4. CASE FindWritableDataSector >= 0
  <2> DEFINE f == [Top EXCEPT !.pc = "append", !.s = FindWritableDataSector]
  <2>1. todo' = <<f>> \o Tail(todo)
    BY <1>4 DEF Put, Stay
  <2>2. f \in Frame /\ f.pc = "append" /\ f.key = Top.key /\ f.val = Top.val
    <3>1. FindWritableDataSector \in Sector
      BY <1>4, FindWritable DEF IInv, TInv
    <3> QED
      BY <1>2, <3>1 DEF Frame, Pc
  <2> HIDE DEF f
  <2>3. Chain(todo')
    BY <1>1, <2>1, <2>2, ChainStay DEF Alike, MigPc, Writer, Setters
  <2>4. /\ Tail(todo) # <<>> /\ Link(Top, Waits)
    BY <1>1, ChainPop DEF Rooted, Writer
  <2>5. todo' # <<>> /\ Top' = f /\ Waits' = Waits
    BY <1>2, <2>1, <2>2, <2>4, NewTop DEF Waits
  <2>6. Waits'.pc # "mig_predelete"
    BY <1>1, <2>4, <2>5 DEF Link
  <2>7. Stage'
    BY <2>2, <2>5, <2>6 DEF Stage, Relies, Awaiting, Eraser, Starting
  <2> QED
    BY <1>3, <2>3, <2>7 DEF SInv
<1>5. CASE ~(FindWritableDataSector >= 0)
  <2> DEFINE g == Call0("gc")
  <2>1. g \in Frame /\ g.pc = "gc"
    BY Frames DEF Pc
  <2>2. todo' = <<g, Top>> \o Tail(todo)
    BY <1>5 DEF Put, Call
  <2> HIDE DEF g
  <2>3. Alike(Top, Top) /\ Link(g, Top)
    BY <1>1, <2>1 DEF Alike, Link, MigPc, Writer, Setters, Suspended, Awaiting, Eraser
  <2>4. Chain(todo') /\ todo' # <<>> /\ Top' = g
    BY <1>1, <1>2, <2>1, <2>2, <2>3, CallStep DEF Movers, Starting
  <2>5. Stage'
    BY <2>1, <2>4, StagePlain DEF Plain
  <2> QED
    BY <1>3, <2>4, <2>5 DEF SInv
<1> QED
  BY <1>4, <1>5

(* A record has been written, and the function that waits for it resumes. *)
LEMMA PopAwaiting ==
    ASSUME StackOK, Chain(todo), todo # <<>>, Top.pc \in {"append", "append_status"},
           todo' = Tail(todo), NEW w, w = Waits, Fresh(ret, w.key)',
           w.pc = "mig_predelete" => Begun(w)' /\ Beyond(w, ret)'
    PROVE  Chain(todo') /\ Stage'
<1>1. Chain(todo') /\ Tail(todo) # <<>> /\ Link(Top, w)
  BY ChainPop DEF Rooted, Writer
<1>2. todo' # <<>> /\ Top' = w
  BY <1>1 DEF Top, Waits
<1>3. w.pc \in Awaiting
  BY <1>1 DEF Link, Writer
<1>4. Stage'
  BY <1>2, <1>3 DEF Stage, Relies, Awaiting, Eraser, Starting
<1> QED
  BY <1>1, <1>4

LEMMA WriteSectorStatusKeeps == IInv /\ WriteSectorStatus => SInv'
<1> SUFFICES ASSUME IInv, WriteSectorStatus PROVE SInv'
  OBVIOUS
<1>1. /\ todo # <<>> /\ Top.pc = "append_status" /\ UNCHANGED <<slot, used, kv, ret>>
      /\ StackOK /\ Chain(todo) /\ todo' = Tail(todo)
  BY DEF WriteSectorStatus, At, Return, desc, IInv, TInv, SInv
<1>2. Order' /\ Index'
  BY <1>1, SameData DEF IInv, SInv, Movers, Starting
<1> PICK w : w = Waits
  OBVIOUS
<1>3. w.key = Top.key
  BY <1>1, ChainPop DEF Link, Rooted, Writer
<1>4. Fresh(ret, w.key) /\ (w.pc = "mig_predelete" => Begun(w) /\ Beyond(w, ret))
  BY <1>1, <1>3 DEF IInv, SInv, Stage, Relies
<1>5. Fresh(ret, w.key)' /\ (w.pc = "mig_predelete" => Begun(w)' /\ Beyond(w, ret)')
  BY <1>1, <1>4 DEF Fresh, SlotAt, Begun, Source, Cleared, Beyond
<1> QED
  BY <1>1, <1>2, <1>5, PopAwaiting DEF SInv

LEMMA FilledUnbroken == ASSUME DescOK, NEW s \in Sector, Filled(s) PROVE Unbroken(s)
BY SeenIs, Sizes DEF Filled, Unbroken, DescOK

(* The record goes behind the last one: into an erased slot, unless that   *)
(* is the one no scan reads.                                               *)
LEMMA WriteRecordKeeps == IInv /\ WriteRecord => SInv'
<1> SUFFICES ASSUME IInv, WriteRecord PROVE SInv'
  OBVIOUS
<1> PICK s, n, k, v : s = Top.s /\ n = used[s] + 1 /\ k = Top.key /\ v = Top.val
  OBVIOUS
<1> DEFINE a == <<s, n>>
           r == NewRecord(k, v)
<1>1. /\ todo # <<>> /\ Top.pc = "append" /\ UNCHANGED kv /\ StackOK /\ Chain(todo)
      /\ FlashOK /\ DescOK
  BY DEF WriteRecord, At, IInv, TInv, SInv
<1>2. slot' = PutRecord(slot, a, r) /\ ret' = a /\ used' = [used EXCEPT ![s] = n]
  BY DEF WriteRecord
<1>3. Top \in Frame /\ s \in Sector /\ k \in Key /\ v \in Value
  BY <1>1, Stack DEF Frame
<1>4. used[s] \in Nat /\ n \in Slot /\ used'[s] = n /\ \A x \in Sector : x # s => used'[x] = used[x]
  <2>1. used[s] < Slots /\ used[s] \in 0..Slots
    BY <1>1, <1>3 DEF IInv, TInv, Room, At, DescOK
  <2> QED
    BY <1>1, <1>2, <1>3, <2>1, Sizes DEF Slot, DescOK
<1>5. a \in Addr /\ r \in Record
  BY <1>3, <1>4, Records DEF Addr
<1> HIDE DEF r
<1>6. \A x \in Sector : Filled(x) /\ Unbroken(x)
  BY <1>1, AllKnown DEF IInv, SInv, Order, Starting
<1>7. \A x \in Sector : \A j \in Visible :
        slot'[x][j] = IF <<x, j>> = a /\ slot[x][j] = Erased THEN r ELSE slot[x][j]
  BY <1>1, <1>2, <1>5, RecordWrite, SeenIs
<1>8. r.key = k /\ r.st = PRE_WRITE /\ r # Erased /\ ~IsLive(r)
  BY <1>3, RealKeys, Statuses DEF r, NewRecord, Erased, IsLive
<1>9. n \in Visible => slot[s][n] = Erased
  BY <1>3, <1>4, <1>6 DEF Filled
<1>10. Order'
  <2> SUFFICES ASSUME NEW x \in Sector PROVE Unbroken(x)' /\ Filled(x)'
    BY DEF Order
  <2>1. Filled(x)'
    <3> SUFFICES ASSUME NEW j \in Visible PROVE slot'[x][j] # Erased <=> j <= used'[x]
      BY DEF Filled
    <3>1. j \in Nat
      BY SeenIs
    <3>2. CASE <<x, j>> = a
      BY <1>4, <1>7, <1>8, <1>9, <3>1, <3>2
    <3>3. CASE x = s /\ j # n
      <4>1. j <= used[s] <=> j <= n
        BY <1>4, <3>1, <3>3
      <4> QED
        BY <1>4, <1>6, <1>7, <3>3, <4>1 DEF Filled
    <3>4. CASE x # s
      BY <1>4, <1>6, <1>7, <3>4 DEF Filled
    <3> QED
      BY <3>2, <3>3, <3>4
  <2>2. DescOK'
    BY WriteRecordType DEF IInv, TInv
  <2>3. ASSUME DescOK', Filled(x)' PROVE Unbroken(x)'
    <3>1. used'[x] \in Nat
      BY <2>3, Sizes DEF DescOK
    <3> QED
      BY <2>3, <3>1, SeenIs DEF Filled, Unbroken
  <2> QED
    BY <2>1, <2>2, <2>3
<1>11. Index'
  <2> SUFFICES ASSUME NEW q \in Key, kv[q].addr \in Seen
               PROVE  SlotAt(kv[q].addr)'.key = q /\ IsLive(SlotAt(kv[q].addr)')
    BY <1>1 DEF Index
  <2> DEFINE b == kv[q].addr
  <2>1. SlotAt(b).key = q /\ IsLive(SlotAt(b))
    BY <1>1, NotMoving DEF IInv, SInv, Index, Movers
  <2>2. b[1] \in Sector /\ b[2] \in Visible
    BY SeenIs
  <2>3. slot[b[1]][b[2]] # Erased
    BY <2>1, Statuses DEF SlotAt
  <2>4. slot'[b[1]][b[2]] = slot[b[1]][b[2]] /\ kv' = kv
    BY <1>1, <1>7, <2>2, <2>3
  <2> HIDE DEF b
  <2> QED
    BY <2>1, <2>4 DEF SlotAt, b
<1> PICK w : w = Waits
  OBVIOUS
<1>12. Tail(todo) # <<>> /\ Link(Top, w) /\ w.key = k /\ w \in Frame
  BY <1>1, ChainPop, Stack DEF Link, Rooted, Writer
<1>13. Fresh(ret, k)'
  <2>1. a \in Seen => n \in Visible
    BY DEF Seen
  <2> QED
    BY <1>2, <1>3, <1>7, <1>8, <1>9, <2>1 DEF Fresh, SlotAt
<1>14. ASSUME w.pc = "mig_predelete" PROVE Begun(w)' /\ Beyond(w, ret)'
  <2>1. Begun(w)
    BY <1>1, <1>14 DEF IInv, SInv, Stage, Relies
  <2>2. w.s \in Sector /\ w.i \in Visible
    BY <1>12, <2>1 DEF Begun, Source, Frame
  <2>3. slot[w.s][w.i] # Erased
    BY <2>1, Statuses DEF Begun
  <2>4. slot'[w.s][w.i] = slot[w.s][w.i]
    BY <1>7, <2>2, <2>3
  <2>5. \A j \in Visible : IsLive(slot'[w.s][j]) => IsLive(slot[w.s][j])
    BY <1>7, <1>8, <2>2
  <2>6. Begun(w)'
    BY <2>1, <2>4, <2>5 DEF Begun, Source, Cleared
  <2>7. Beyond(w, ret)'
    <3>1. w.s = s => w.i <= used[s]
      BY <1>6, <2>2, <2>3 DEF Filled
    <3>2. w.i \in Nat
      BY <2>2, SeenIs
    <3>3. ret'[1] = s /\ ret'[2] = n
      BY <1>2
    <3> QED
      BY <1>4, <3>1, <3>2, <3>3 DEF Beyond
  <2> QED
    BY <2>6, <2>7
<1>15. CASE todo' = Tail(todo)
  <2>1. Chain(todo') /\ Stage'
    BY <1>1, <1>12, <1>13, <1>14, <1>15, PopAwaiting
  <2> QED
    BY <1>10, <1>11, <2>1 DEF SInv
<1>16. CASE Goto("append_status")
  <2> DEFINE f == [Top EXCEPT !.pc = "append_status"]
  <2>1. todo' = <<f>> \o Tail(todo)
    BY <1>16 DEF Goto, Stay
  <2>2. f \in Frame /\ f.pc = "append_status" /\ f.key = k /\ f.val = v
    BY <1>3 DEF Frame, Pc
  <2> HIDE DEF f
  <2>3. Chain(todo')
    BY <1>1, <2>1, <2>2, ChainStay DEF Alike, MigPc, Writer, Setters
  <2>4. todo' # <<>> /\ Top' = f /\ Waits' = w
    BY <1>1, <1>12, <2>1, <2>2, NewTop, Stack DEF Waits
  <2>5. Stage'
    BY <1>13, <1>14, <2>2, <2>4 DEF Stage, Relies, Awaiting, Eraser, Starting
  <2> QED
    BY <1>10, <1>11, <2>3, <2>5 DEF SInv
<1> QED
  BY <1>15, <1>16 DEF WriteRecord, Return

-----------------------------------------------------------------------------
(* Status writes *)

(* A status is never written to an erased slot, so it moves no write       *)
(* position.                                                               *)
LEMMA StatusOrder ==
    ASSUME FlashOK, Order, used' = used,
           NEW a \in Addr \cup {NoAddr}, NEW st \in {WRITE, PRE_DELETE, DELETED},
           slot' = SetKvStatus(slot, a, st), a \in Seen => SlotAt(a).key # 0,
           \A s \in Sector : Known(s)
    PROVE  Order'
<1> SUFFICES ASSUME NEW s \in Sector, NEW j \in Visible
             PROVE  slot'[s][j] = Erased <=> slot[s][j] = Erased
  BY OrderSame
<1>1. j \in Slot /\ <<s, j>> \in Seen
  BY SeenIs
<1>2. <<s, j>> # a => slot'[s][j] = slot[s][j]
  BY <1>1, Kills, Commits
<1>3. <<s, j>> = a => slot[s][j] # Erased /\ slot'[s][j] # Erased
  <2>1. <<s, j>> = a => slot[s][j].key # 0
    BY <1>1 DEF SlotAt
  <2> QED
    BY <1>1, <2>1, Kills, Commits
<1> QED
  BY <1>2, <1>3

LEMMA Indexed ==
    ASSUME Index, NEW q \in Key, kv[q].addr \in Seen
    PROVE  /\ kv[q].addr[1] \in Sector /\ kv[q].addr[2] \in Visible /\ kv[q].addr[2] \in Slot
           /\ kv[q].addr = <<kv[q].addr[1], kv[q].addr[2]>>
           /\ slot[kv[q].addr[1]][kv[q].addr[2]].key = q
           /\ ~Moving(q) => IsLive(slot[kv[q].addr[1]][kv[q].addr[2]])
BY SeenIs DEF Index, SlotAt

(* Deleting a record of key k leaves every other entry of the index alone. *)
LEMMA IndexKill ==
    ASSUME FlashOK, Index, kv' = kv,
           NEW a \in Addr \cup {NoAddr}, NEW st \in {PRE_DELETE, DELETED},
           slot' = SetKvStatus(slot, a, st),
           NEW k, a \in Seen => SlotAt(a).key = k,
           Moving(k)', \A q : Moving(q) => q = k
    PROVE  Index'
<1> SUFFICES ASSUME NEW q \in Key, kv[q].addr \in Seen
             PROVE  /\ SlotAt(kv[q].addr)'.key = q
                    /\ q = k \/ IsLive(SlotAt(kv[q].addr)')
  BY DEF Index
<1> PICK x, j : x = kv[q].addr[1] /\ j = kv[q].addr[2]
  OBVIOUS
<1>1. /\ x \in Sector /\ j \in Slot /\ kv[q].addr = <<x, j>> /\ slot[x][j].key = q
      /\ q # k => IsLive(slot[x][j])
  BY Indexed
<1>2. q # k => <<x, j>> # a
  BY <1>1 DEF SlotAt
<1>3. slot'[x][j].key = q /\ (q # k => IsLive(slot'[x][j]))
  BY <1>1, <1>2, Kills
<1> QED
  BY <1>3 DEF SlotAt

LEMMA IndexCommit ==
    ASSUME FlashOK, Index, kv' = kv, NEW a \in Addr \cup {NoAddr},
           slot' = SetKvStatus(slot, a, WRITE), \A q : Moving(q) => Moving(q)'
    PROVE  Index'
<1> SUFFICES ASSUME NEW q \in Key, kv[q].addr \in Seen
             PROVE  /\ SlotAt(kv[q].addr)'.key = q
                    /\ ~Moving(q) => IsLive(SlotAt(kv[q].addr)')
  BY DEF Index
<1> PICK x, j : x = kv[q].addr[1] /\ j = kv[q].addr[2]
  OBVIOUS
<1>1. /\ x \in Sector /\ j \in Slot /\ slot[x][j].key = q
      /\ ~Moving(q) => IsLive(slot[x][j])
  BY Indexed
<1>2. slot'[x][j].key = q /\ (~Moving(q) => IsLive(slot'[x][j]))
  BY <1>1, Commits
<1> QED
  BY <1>2 DEF SlotAt

LEMMA DefaultsCommitKeeps == IInv /\ DefaultsCommit => SInv'
<1> SUFFICES ASSUME IInv, DefaultsCommit PROVE SInv'
  OBVIOUS
<1> PICK k, a : k = Top.key /\ a = ret
  OBVIOUS
<1>1. /\ todo # <<>> /\ Top.pc = "defaults_commit" /\ StackOK /\ Chain(todo) /\ FlashOK
      /\ used' = used /\ a \in Addr \cup {NoAddr} /\ slot' = SetKvStatus(slot, a, WRITE)
  BY DEF DefaultsCommit, At, desc, IInv, TInv, SInv, RestOK
<1>2. Top \in Frame /\ k \in Key /\ k # 0
  BY <1>1, Stack, RealKeys DEF Frame
<1>3. kv'[k].addr = a /\ \A q \in Key : q # k => kv'[q].addr = kv[q].addr
  BY <1>1, <1>2 DEF DefaultsCommit, IInv, TInv, RestOK
<1>4. Fresh(a, k)
  BY <1>1 DEF IInv, SInv, Stage, Relies, Awaiting
<1>5. Order'
  <2>1. a \in Seen => SlotAt(a).key # 0
    BY <1>2, <1>4 DEF Fresh
  <2> QED
    BY <1>1, <2>1, StatusOrder, AllKnown DEF IInv, SInv, Starting
<1>6. Index'
  <2> SUFFICES ASSUME NEW q \in Key, kv'[q].addr \in Seen
               PROVE  SlotAt(kv[q].addr)'.key = q /\ IsLive(SlotAt(kv[q].addr)')
    BY DEF Index
  <2> PICK x, j : x = kv'[q].addr[1] /\ j = kv'[q].addr[2]
    OBVIOUS
  <2>1. x \in Sector /\ j \in Slot /\ kv'[q].addr = <<x, j>>
    BY SeenIs
  <2>2. CASE q = k
    <3>1. a = <<x, j>> /\ slot[x][j].key = k /\ slot[x][j].st = PRE_WRITE
      BY <1>3, <1>4, <2>1, <2>2 DEF Fresh, SlotAt
    <3>2. slot'[x][j].key = k /\ slot'[x][j].st = WRITE
      BY <1>1, <2>1, <3>1, Commits
    <3> QED
      BY <1>2, <2>2, <3>2 DEF SlotAt, IsLive
  <2>3. CASE q # k
    <3>1. kv[q].addr = kv'[q].addr
      BY <1>3, <2>3
    <3>2. slot[x][j].key = q /\ IsLive(slot[x][j])
      BY <1>1, <3>1, Indexed, NotMoving DEF IInv, SInv, Movers
    <3>3. slot'[x][j].key = q /\ IsLive(slot'[x][j])
      BY <1>1, <2>1, <3>2, Commits
    <3> QED
      BY <3>3 DEF SlotAt
  <2> QED
    BY <2>2, <2>3
<1> DEFINE f == [Top EXCEPT !.pc = "defaults"]
<1>7. f \in Frame /\ f.pc = "defaults" /\ todo' = <<f>> \o Tail(todo)
  BY <1>2 DEF DefaultsCommit, Goto, Stay, Frame, Pc
<1> HIDE DEF f
<1>8. Chain(todo') /\ Stage'
  <2>1. Rooted(Top) /\ Rooted(f) /\ f.pc \in Plain
    BY <1>1, <1>7 DEF Rooted, MigPc, Writer, Plain
  <2> QED
    BY <1>1, <1>7, <2>1, StayPlain
<1> QED
  BY <1>5, <1>6, <1>8 DEF SInv

-----------------------------------------------------------------------------
(* Migration *)

(* A function goes on, in the same call, and changes no data.             *)
LEMMA StayStep ==
    ASSUME IInv, todo # <<>>, UNCHANGED <<slot, used, kv>>,
           Top.pc \notin Movers \cup Starting,
           NEW f \in Frame, Alike(f, Top), todo' = <<f>> \o Tail(todo)
    PROVE  Chain(todo') /\ Order' /\ Index' /\ todo' # <<>> /\ Top' = f
<1> USE DEF IInv, SInv, TInv
<1>1. Order' /\ Index'
  BY SameData
<1>2. Chain(todo')
  BY ChainStay
<1>3. todo' # <<>> /\ Top' = f
  BY Stack, NewTop
<1> QED
  BY <1>1, <1>2, <1>3

LEMMA MigrateEnterKeeps == IInv /\ MigrateEnter => SInv'
<1> SUFFICES ASSUME IInv, MigrateEnter PROVE SInv'
  OBVIOUS
<1>1. todo # <<>> /\ Top.pc = "mig_enter" /\ UNCHANGED <<slot, used, kv>> /\ StackOK
  BY DEF MigrateEnter, At, flash, desc, IInv, TInv
<1>2. CASE Fail
  BY <1>1, <1>2, SameFail DEF Movers, Starting
<1>3. CASE Goto("migrate")
  <2> DEFINE f == [Top EXCEPT !.pc = "migrate"]
  <2>1. todo' = <<f>> \o Tail(todo)
    BY <1>3 DEF Goto, Stay
  <2>2. f \in Frame /\ f.pc = "migrate" /\ f.i = 0 /\ f.s = Top.s
    <3>1. Top \in Frame /\ Top.i = 0
      BY <1>1, Stack DEF IInv, SInv, Stage, Relies
    <3> QED
      BY <3>1 DEF Frame, Pc
  <2> HIDE DEF f
  <2>3. Alike(f, Top)
    BY <1>1, <2>2 DEF Alike, MigPc, Writer, Setters
  <2>4. Chain(todo') /\ Order' /\ Index' /\ todo' # <<>> /\ Top' = f
    BY <1>1, <2>1, <2>2, <2>3, StayStep DEF Movers, Starting
  <2>5. \A j \in Visible : ~(j < 0) /\ j # 0
    BY DEF Visible
  <2>6. Stage'
    BY <2>2, <2>4, <2>5 DEF Stage, Relies, Cleared, Awaiting, Eraser, Starting
  <2> QED
    BY <2>4, <2>6 DEF SInv
<1> QED
  BY <1>2, <1>3 DEF MigrateEnter

(* In a sector without a gap a scan meets every record it can reach.      *)
LEMMA ScannedAll ==
    ASSUME NEW s \in Sector, Unbroken(s)
    PROVE  /\ Scanned(s) = {j \in Visible : slot[s][j] # Erased}
           /\ LiveIn(s) = {j \in Visible : IsLive(slot[s][j])}
<1>1. Scanned(s) = {j \in Visible : slot[s][j] # Erased}
  <2>1. ASSUME NEW j \in Visible
        PROVE  j \in Scanned(s) <=> slot[s][j] # Erased
    <3>1. ASSUME slot[s][j] # Erased, NEW e \in Visible, slot[s][e] = Erased PROVE j < e
      <4>1. j \in Nat /\ e \in Nat /\ j # e
        BY <3>1, SeenIs
      <4>2. ~(e < j)
        BY <3>1 DEF Unbroken
      <4> QED
        BY <4>1, <4>2
    <3>2. ~(j < j)
      BY SeenIs
    <3> QED
      BY <3>1, <3>2 DEF Scanned
  <2> QED
    BY <2>1 DEF Scanned
<1> QED
  BY <1>1, Statuses DEF LiveIn

(* Migration ends when no live record is left, or goes on to the next.    *)
LEMMA MigrateKeeps == IInv /\ Migrate => SInv'
<1> SUFFICES ASSUME IInv, Migrate PROVE SInv'
  OBVIOUS
<1> DEFINE J == {j \in LiveIn(Top.s) : j > Top.i}
           j == Min(J)
           r == slot[Top.s][j]
           f == [Top EXCEPT !.pc = "mig_predelete", !.i = j, !.key = r.key]
           g == [Call0("append") EXCEPT !.s = Top.t, !.key = r.key, !.val = r.val]
<1>1. /\ todo # <<>> /\ Top.pc = "migrate" /\ UNCHANGED <<slot, used, kv>>
      /\ StackOK /\ FlashOK /\ Chain(todo)
  BY DEF Migrate, At, flash, desc, IInv, TInv, SInv
<1>2. Top \in Frame /\ Top.s \in Sector /\ Top.t \in Sector /\ Top.i \in Nat
  BY <1>1, Stack DEF Frame
<1>3. Cleared(Top) /\ (Top.i \in Visible => ~IsLive(slot[Top.s][Top.i]))
  BY <1>1 DEF IInv, SInv, Stage, Relies
<1>4. LiveIn(Top.s) = {x \in Visible : IsLive(slot[Top.s][x])}
  BY <1>2, ScannedAll DEF IInv, SInv, Order
<1>5. \A x \in Visible : x \in Nat /\ (IsLive(slot[Top.s][x]) => x \in J)
  <2> SUFFICES ASSUME NEW x \in Visible, IsLive(slot[Top.s][x]) PROVE x > Top.i
    BY <1>4, SeenIs
  <2>1. x \in Nat /\ ~(x < Top.i) /\ x # Top.i
    BY <1>3, SeenIs DEF Cleared
  <2> QED
    BY <1>2, <2>1
<1>6. CASE J = {}
  <2>1. todo' = Tail(todo)
    BY <1>6 DEF Migrate, Return
  <2>2. Order' /\ Index'
    BY <1>1, SameData DEF IInv, SInv, Movers, Starting
  <2>3. Chain(todo') /\ Tail(todo) # <<>> /\ Link(Top, Waits)
    BY <1>1, <2>1, ChainPop DEF Rooted, MigPc
  <2>4. todo' # <<>> /\ Top' = Waits
    BY <2>1, <2>3 DEF Top, Waits
  <2>5. Waits.pc \in Eraser /\ Top.s = Victim(Waits)
    BY <1>1, <2>3 DEF Link, MigPc
  <2>6. ~LiveSeen(Top.s)
    BY <1>5, <1>6 DEF LiveSeen
  <2>7. ~LiveSeen(Victim(Top))'
    BY <1>1, <2>4, <2>5, <2>6 DEF LiveSeen
  <2>8. Top'.pc \in Eraser
    BY <2>4, <2>5
  <2>9. Stage'
    BY <2>7, <2>8 DEF Stage, Relies, Awaiting, Eraser, Starting
  <2> QED
    BY <2>2, <2>3, <2>9 DEF SInv
<1>7. CASE Fail
  BY <1>1, <1>7, SameFail DEF Movers, Starting
<1>8. CASE J # {} /\ Call(f, g)
  <2>1. j \in J /\ \A x \in J : j <= x
    <3>1. J \subseteq Nat
      BY <1>4, SeenIs
    <3> QED
      BY <1>8, <3>1, MinNat
  <2>2. j \in Visible /\ j \in Slot /\ j \in Nat /\ IsLive(r)
    BY <1>4, <2>1, SeenIs
  <2>3. r.key \in Key /\ r.val \in Value
    <3>1. r \in Record
      BY <1>1, <1>2, <2>2, SlotIs
    <3> QED
      BY <2>2, <3>1, Sizes DEF Record, IsLive, Key
  <2>4. \A x \in Visible : x < j => ~IsLive(slot[Top.s][x])
    BY <1>5, <2>1, <2>2
  <2>5. r = slot[Top.s][j]
    OBVIOUS
  <2>6. todo' = <<g, f>> \o Tail(todo)
    BY <1>8 DEF Call
  <2> HIDE DEF j, r
  <2>7. f \in Frame /\ f.pc = "mig_predelete" /\ f.i = j /\ f.key = r.key /\ f.s = Top.s
    BY <1>2, <2>2, <2>3 DEF Frame, Pc
  <2>8. g \in Frame /\ g.pc = "append" /\ g.key = r.key
    <3>1. Call0("append") \in Frame /\ Call0("append").pc = "append"
      BY Frames DEF Pc
    <3> QED
      BY <1>2, <2>3, <3>1 DEF Frame
  <2> HIDE DEF f, g
  <2> PICK c, d : c = f /\ d = g
    OBVIOUS
  <2>9. Alike(c, Top) /\ Link(d, c)
    BY <1>1, <2>7, <2>8 DEF Alike, Link, MigPc, Writer, Setters, Suspended, Awaiting, Eraser
  <2>10. /\ Chain(todo') /\ Order' /\ Index' /\ todo' # <<>> /\ Top' = d /\ Waits' = c
    BY <1>1, <2>6, <2>7, <2>8, <2>9, CallStep DEF Movers, Starting
  <2>11. Begun(c)'
    BY <1>1, <2>2, <2>4, <2>5, <2>7 DEF Begun, Source, Cleared
  <2>12. Stage'
    BY <2>8, <2>10, <2>11 DEF Stage, Relies, Awaiting, Eraser, Starting
  <2> QED
    BY <2>10, <2>12 DEF SInv
<1> HIDE DEF f, g
<1> QED
  BY <1>6, <1>7, <1>8 DEF Migrate, f, g

(* The record being moved and the one written for it are not the same.    *)
LEMMA MigratePreDeleteKeeps == IInv /\ MigratePreDelete => SInv'
<1> SUFFICES ASSUME IInv, MigratePreDelete PROVE SInv'
  OBVIOUS
<1> PICK s, i, k, b : s = Top.s /\ i = Top.i /\ k = Top.key /\ b = ret
  OBVIOUS
<1> DEFINE a == <<s, i>>
<1>1. /\ todo # <<>> /\ Top.pc = "mig_predelete" /\ UNCHANGED <<used, kv, ret>>
      /\ StackOK /\ FlashOK /\ Chain(todo) /\ slot' = SetKvStatus(slot, a, PRE_DELETE)
      /\ b \in Addr \cup {NoAddr}
  BY DEF MigratePreDelete, At, desc, IInv, TInv, SInv, RestOK
<1>2. Top \in Frame /\ s \in Sector /\ k \in Key /\ k # 0
  BY <1>1, Stack, RealKeys DEF Frame
<1>3. Begun(Top) /\ Beyond(Top, b) /\ Fresh(b, k)
  BY <1>1 DEF IInv, SInv, Stage, Relies, Awaiting
<1>4. /\ i \in Visible /\ i \in Slot /\ a \in Seen /\ a \in Addr
      /\ slot[s][i].key = k /\ IsLive(slot[s][i])
  BY <1>2, <1>3, SeenIs DEF Begun, Source
<1>5. SlotAt(a).key = k
  BY <1>4 DEF SlotAt
<1> HIDE DEF a
<1>6. Order'
  BY <1>1, <1>2, <1>4, <1>5, StatusOrder, AllKnown DEF IInv, SInv, Starting
<1> DEFINE g == [Top EXCEPT !.pc = "mig_commit", !.new = ret]
<1>7. todo' = <<g>> \o Tail(todo)
  BY DEF MigratePreDelete, Stay
<1>8. g \in Frame /\ g.pc = "mig_commit" /\ g.key = k /\ g.s = s /\ g.i = i /\ g.new = b
  BY <1>1, <1>2 DEF Frame, Pc
<1> HIDE DEF g
<1> PICK f : f = g
  OBVIOUS
<1>9. Chain(todo')
  BY <1>1, <1>7, <1>8, ChainStay DEF Alike, MigPc, Writer, Setters
<1>10. todo' # <<>> /\ Top' = f
  BY <1>1, <1>7, <1>8, Stack, NewTop
<1>11. Index'
  <2>1. Moving(k)' /\ \A q : ~Moving(q)
    BY <1>1, <1>8, <1>10 DEF Moving, Movers
  <2> QED
    BY <1>1, <1>4, <1>5, <2>1, IndexKill DEF IInv, SInv
<1>12. \A j \in Slot : slot'[s][j].key = slot[s][j].key
                       /\ (IsLive(slot'[s][j]) <=> IsLive(slot[s][j]) /\ <<s, j>> # a)
  BY <1>1, <1>2, <1>4, Kills
<1>13. Ended(f)'
  <2>1. ~IsLive(slot'[s][i]) /\ slot'[s][i].key = k
    BY <1>4, <1>12 DEF a
  <2>2. \A j \in Visible : j < i => ~IsLive(slot'[s][j])
    BY <1>3, <1>12, SeenIs DEF Begun, Cleared
  <2> QED
    BY <1>4, <1>8, <2>1, <2>2 DEF Ended, Source, Cleared
<1>14. Fresh(b, k)'
  <2> SUFFICES ASSUME b \in Seen PROVE SlotAt(b)' = SlotAt(b)
    BY <1>3 DEF Fresh
  <2> PICK x, j : x = b[1] /\ j = b[2]
    OBVIOUS
  <2>1. x \in Sector /\ j \in Slot /\ b = <<x, j>> /\ slot[x][j].st = PRE_WRITE
    BY <1>3, SeenIs DEF Fresh, SlotAt
  <2>2. b # a
    BY <1>4, <2>1, Statuses DEF a, IsLive
  <2>3. slot'[x][j] = slot[x][j]
    BY <1>1, <1>4, <2>1, <2>2, Kills
  <2> QED
    BY <2>3 DEF SlotAt
<1>15. Stage'
  BY <1>3, <1>8, <1>10, <1>13, <1>14
     DEF Stage, Relies, Beyond, Awaiting, Eraser, Starting
<1> QED
  BY <1>6, <1>9, <1>11, <1>15 DEF SInv

LEMMA FreshCommitted ==
    ASSUME FlashOK, NEW b \in Addr \cup {NoAddr}, slot' = SetKvStatus(slot, b, WRITE),
           NEW k, Fresh(b, k)
    PROVE  Committed(b, k)'
<1> SUFFICES ASSUME b \in Seen PROVE SlotAt(b)'.key = k /\ SlotAt(b)'.st = WRITE
  BY DEF Committed
<1> PICK x, j : x = b[1] /\ j = b[2]
  OBVIOUS
<1>1. /\ x \in Sector /\ j \in Slot /\ b = <<x, j>>
      /\ slot[x][j].key = k /\ slot[x][j].st = PRE_WRITE
  BY SeenIs DEF Fresh, SlotAt
<1>2. /\ slot'[x][j].key = slot[x][j].key
      /\ slot[x][j].st = PRE_WRITE /\ <<x, j>> = b => slot'[x][j].st = WRITE
  BY <1>1, Commits
<1> QED
  BY <1>1, <1>2 DEF SlotAt

LEMMA MigrateCommitKeeps == IInv /\ MigrateCommit => SInv'
<1> SUFFICES ASSUME IInv, MigrateCommit PROVE SInv'
  OBVIOUS
<1> PICK s, i, k, b : s = Top.s /\ i = Top.i /\ k = Top.key /\ b = Top.new
  OBVIOUS
<1>1. /\ todo # <<>> /\ Top.pc = "mig_commit" /\ UNCHANGED <<used, kv>>
      /\ StackOK /\ FlashOK /\ Chain(todo) /\ slot' = SetKvStatus(slot, b, WRITE)
  BY DEF MigrateCommit, At, desc, IInv, TInv, SInv
<1>2. Top \in Frame /\ s \in Sector /\ k \in Key /\ k # 0 /\ b \in Addr \cup {NoAddr}
  BY <1>1, Stack, RealKeys DEF Frame
<1>3. Ended(Top) /\ Beyond(Top, b) /\ Fresh(b, k)
  BY <1>1 DEF IInv, SInv, Stage, Relies
<1>4. /\ i \in Visible /\ i \in Slot /\ slot[s][i].key = k /\ ~IsLive(slot[s][i])
      /\ \A j \in Visible : j < i => ~IsLive(slot[s][j])
  BY <1>3, SeenIs DEF Ended, Source, Cleared
<1>5. Order'
  <2>1. b \in Seen => SlotAt(b).key # 0
    BY <1>2, <1>3 DEF Fresh
  <2> QED
    BY <1>1, <1>2, <2>1, StatusOrder, AllKnown DEF IInv, SInv, Starting
<1> DEFINE g == [Top EXCEPT !.pc = "mig_deleted"]
<1>6. todo' = <<g>> \o Tail(todo)
  BY DEF MigrateCommit, Goto, Stay
<1>7. g \in Frame /\ g.pc = "mig_deleted" /\ g.key = k /\ g.s = s /\ g.i = i /\ g.new = b
  BY <1>2 DEF Frame, Pc
<1> HIDE DEF g
<1> PICK f : f = g
  OBVIOUS
<1>8. Chain(todo')
  BY <1>1, <1>6, <1>7, ChainStay DEF Alike, MigPc, Writer, Setters
<1>9. todo' # <<>> /\ Top' = f
  BY <1>1, <1>6, <1>7, Stack, NewTop
<1>10. Index'
  <2>1. \A q : Moving(q) => Moving(q)'
    BY <1>7, <1>9 DEF Moving, Movers
  <2> QED
    BY <1>1, <1>2, <2>1, IndexCommit DEF IInv, SInv
<1>11. Ended(f)'
  <2>1. \A j \in Visible : j <= i => slot'[s][j] = slot[s][j]
    <3> SUFFICES ASSUME NEW j \in Visible, j <= i PROVE <<s, j>> # b
      BY <1>1, <1>2, Commits, SeenIs
    <3>1. b[1] = s => b[2] > i
      BY <1>3 DEF Beyond
    <3>2. i \in Nat /\ j \in Nat
      BY <1>4, SeenIs
    <3> QED
      BY <3>1, <3>2
  <2>2. i <= i /\ \A j \in Visible : j < i => j <= i
    BY <1>4, SeenIs
  <2> QED
    BY <1>4, <1>7, <2>1, <2>2 DEF Ended, Source, Cleared
<1>12. Committed(b, k)'
  BY <1>1, <1>2, <1>3, FreshCommitted
<1>13. Stage'
  BY <1>7, <1>9, <1>11, <1>12 DEF Stage, Relies, Awaiting, Eraser, Starting
<1> QED
  BY <1>5, <1>8, <1>10, <1>13 DEF SInv

(* An entry of the index that does not point to a killed record of another *)
(* key keeps its record; entry k is moved to a record that is live.        *)
LEMMA IndexMove ==
    ASSUME FlashOK, Index, kv \in [Key -> Entry],
           NEW a, \A x \in Sector : \A j \in Slot : <<x, j>> # a =>
                     /\ slot'[x][j].key = slot[x][j].key
                     /\ IsLive(slot[x][j]) => IsLive(slot'[x][j]),
           NEW k \in Key, a \in Seen => SlotAt(a).key = k,
           \A q \in Key : q # k => kv'[q].addr = kv[q].addr,
           NEW b, kv'[k].addr = b, Committed(b, k), b = a => b \notin Seen,
           \A q : Moving(q) => q = k
    PROVE  Index'
<1> SUFFICES ASSUME NEW q \in Key, kv'[q].addr \in Seen
             PROVE  SlotAt(kv[q].addr)'.key = q /\ IsLive(SlotAt(kv[q].addr)')
  BY DEF Index
<1> PICK x, j : x = kv'[q].addr[1] /\ j = kv'[q].addr[2]
  OBVIOUS
<1>1. x \in Sector /\ j \in Slot /\ kv'[q].addr = <<x, j>>
  BY SeenIs
<1>2. slot[x][j].key = q /\ IsLive(slot[x][j]) /\ <<x, j>> # a
  <2>1. CASE q = k
    BY <1>1, <2>1, RealKeys DEF Committed, SlotAt, IsLive
  <2>2. CASE q # k
    <3>1. kv[q].addr = kv'[q].addr /\ ~Moving(q)
      BY <2>2
    <3>2. slot[x][j].key = q /\ IsLive(slot[x][j])
      BY <3>1, Indexed
    <3>3. <<x, j>> \in Seen
      BY <1>1
    <3>4. ASSUME <<x, j>> = a PROVE FALSE
      <4>1. SlotAt(a) = slot[x][j]
        BY <3>4 DEF SlotAt
      <4>2. SlotAt(a).key = k
        BY <3>3, <3>4
      <4> QED
        BY <2>2, <3>2, <4>1, <4>2
    <3> QED
      BY <3>2, <3>4
  <2> QED
    BY <2>1, <2>2
<1>3. slot'[x][j].key = q /\ IsLive(slot'[x][j])
  BY <1>1, <1>2
<1> QED
  BY <1>3 DEF SlotAt

LEMMA MigrateDeletedKeeps == IInv /\ MigrateDeleted => SInv'
<1> SUFFICES ASSUME IInv, MigrateDeleted PROVE SInv'
  OBVIOUS
<1> PICK s, i, k, b : s = Top.s /\ i = Top.i /\ k = Top.key /\ b = Top.new
  OBVIOUS
<1> DEFINE a == <<s, i>>
<1>1. /\ todo # <<>> /\ Top.pc = "mig_deleted" /\ UNCHANGED used
      /\ StackOK /\ FlashOK /\ Chain(todo) /\ slot' = SetKvStatus(slot, a, DELETED)
      /\ kv \in [Key -> Entry] /\ kv' = [kv EXCEPT ![k].addr = b, ![k].stored = TRUE]
  BY DEF MigrateDeleted, At, desc, IInv, TInv, SInv, RestOK
<1>2. Top \in Frame /\ s \in Sector /\ k \in Key /\ k # 0
  BY <1>1, Stack, RealKeys DEF Frame
<1>3. Ended(Top) /\ Committed(b, k)
  BY <1>1 DEF IInv, SInv, Stage, Relies
<1>4. /\ i \in Visible /\ i \in Slot /\ a \in Seen /\ a \in Addr
      /\ slot[s][i].key = k /\ ~IsLive(slot[s][i])
      /\ \A j \in Visible : j < i => ~IsLive(slot[s][j])
  BY <1>2, <1>3, SeenIs DEF Ended, Source, Cleared
<1>5. SlotAt(a) = slot[s][i]
  BY DEF SlotAt
<1> HIDE DEF a
<1>6. Order'
  BY <1>1, <1>2, <1>4, <1>5, StatusOrder, AllKnown DEF IInv, SInv, Starting
<1>7. kv'[k].addr = b /\ \A q \in Key : q # k => kv'[q].addr = kv[q].addr
  BY <1>1, <1>2 DEF Entry
<1>8. Index'
  <2>1. b = a => b \notin Seen
    BY <1>2, <1>3, <1>4, <1>5 DEF Committed, IsLive
  <2>2. \A q : Moving(q) => q = k
    BY DEF Moving
  <2>3. \A x \in Sector : \A j \in Slot : <<x, j>> # a =>
          slot'[x][j].key = slot[x][j].key /\ (IsLive(slot[x][j]) => IsLive(slot'[x][j]))
    BY <1>1, <1>4, Kills
  <2> QED
    BY <1>1, <1>2, <1>3, <1>4, <1>5, <1>7, <2>1, <2>2, <2>3, IndexMove DEF IInv, SInv
<1> DEFINE g == [Top EXCEPT !.pc = "migrate"]
<1>9. todo' = <<g>> \o Tail(todo)
  BY DEF MigrateDeleted, Goto, Stay
<1>10. g \in Frame /\ g.pc = "migrate" /\ g.s = s /\ g.i = i
  BY <1>2 DEF Frame, Pc
<1> HIDE DEF g
<1> PICK f : f = g
  OBVIOUS
<1>11. Chain(todo')
  BY <1>1, <1>9, <1>10, ChainStay DEF Alike, MigPc, Writer, Setters
<1>12. todo' # <<>> /\ Top' = f
  BY <1>1, <1>9, <1>10, Stack, NewTop
<1>13. \A j \in Slot : IsLive(slot'[s][j]) => IsLive(slot[s][j])
  BY <1>1, <1>2, <1>4, Kills
<1>14. Stage'
  BY <1>4, <1>10, <1>12, <1>13, SeenIs DEF Stage, Relies, Cleared, Awaiting, Eraser, Starting
<1> QED
  BY <1>6, <1>8, <1>11, <1>14 DEF SInv

-----------------------------------------------------------------------------
(* Rebuilding and garbage collection *)

(* The last two steps of MigrateFrame's caller: it erases a sector that a  *)
(* migration has left without live records.                                *)
LEMMA EraseMigrated ==
    ASSUME IInv, todo # <<>>, Top.pc \in Eraser, Victim(Top) \in Sector,
           EraseSector(Victim(Top)), UNCHANGED kv
    PROVE  Order' /\ Index'
<1> PICK v : v = Victim(Top)
  OBVIOUS
<1> USE DEF IInv, SInv, TInv
<1>1. \A s \in Sector : Known(s)
  BY AllKnown DEF Eraser, Starting
<1>2. /\ \A x \in Sector : \A j \in Visible : slot'[x][j] = IF x = v THEN Erased ELSE slot[x][j]
      /\ \A x \in Sector : used'[x] = IF x = v THEN 0 ELSE used[x]
  BY EraseIs, SeenIs
<1>3. ~LiveSeen(v)
  BY DEF Stage, Relies
<1>4. Order'
  <2> SUFFICES ASSUME NEW s \in Sector PROVE Unbroken(s)' /\ Filled(s)'
    BY DEF Order
  <2>1. CASE s = v
    <3>1. \A j \in Visible : ~(j <= 0)
      BY DEF Visible
    <3> QED
      BY <1>2, <2>1, <3>1 DEF Unbroken, Filled
  <2>2. CASE s # v
    BY <1>1, <1>2, <2>2 DEF Order, Unbroken, Filled
  <2> QED
    BY <2>1, <2>2
<1>5. Index'
  <2> SUFFICES ASSUME NEW q \in Key, kv[q].addr \in Seen
               PROVE  SlotAt(kv[q].addr)'.key = q /\ IsLive(SlotAt(kv[q].addr)')
    BY DEF Index
  <2> PICK x, j : x = kv[q].addr[1] /\ j = kv[q].addr[2]
    OBVIOUS
  <2>1. x \in Sector /\ j \in Visible /\ slot[x][j].key = q /\ IsLive(slot[x][j])
    BY Indexed, NotMoving DEF Eraser, Movers
  <2>2. slot'[x][j] = slot[x][j]
    BY <1>2, <1>3, <2>1 DEF LiveSeen
  <2> QED
    BY <2>1, <2>2 DEF SlotAt
<1> QED
  BY <1>4, <1>5

LEMMA RebuildStartKeeps == IInv /\ RebuildStart => SInv'
<1> SUFFICES ASSUME IInv, RebuildStart PROVE SInv'
  OBVIOUS
<1>1. todo # <<>> /\ Top.pc = "rebuild" /\ UNCHANGED <<slot, used, kv>> /\ StackOK
  BY DEF RebuildStart, At, flash, IInv, TInv
<1>2. PICK s \in Sector : Stay([Top EXCEPT !.pc = "reb_round", !.s = s])
  <2> DEFINE V == {s \in Sector : hdr[s].magic}
             E == {s \in V : used[s] < Slots /\ \A x \in V : used[s] <= used[x]}
  <2>1. E # {} => Min(E) \in Sector
    BY Ranges, MinNat
  <2> QED
    BY <2>1, Ranges DEF RebuildStart
<1> DEFINE f == [Top EXCEPT !.pc = "reb_round", !.s = s]
<1>3. f \in Frame /\ f.pc = "reb_round"
  BY <1>1, Stack DEF Frame, Pc
<1>4. todo' = <<f>> \o Tail(todo)
  BY <1>2 DEF Stay
<1> HIDE DEF f
<1> QED
  BY <1>1, <1>3, <1>4, PlainStep DEF Plain

(* Migration starts with a frame that has moved nothing yet.              *)
LEMMA CallMigrate ==
    ASSUME IInv, todo # <<>>, UNCHANGED <<slot, used, kv>>,
           Top.pc \in {"reb_round", "gc_gcing"},
           NEW f \in Frame, f.pc \in Eraser, NEW t \in Sector,
           todo' = <<MigrateFrame(Victim(f), t), f>> \o Tail(todo)
    PROVE  SInv'
<1> DEFINE g == MigrateFrame(Victim(f), t)
<1>1. Victim(f) \in Sector
  BY DEF Victim, Frame
<1>2. g \in Frame /\ g.pc = "mig_enter" /\ g.s = Victim(f) /\ g.i = 0
  <2>1. g \in Frame
    BY <1>1, MigrateFrameType DEF QuietFrame
  <2> QED
    BY <2>1 DEF MigrateFrame, Call0
<1>3. todo' = <<g, f>> \o Tail(todo)
  OBVIOUS
<1> HIDE DEF g
<1>4. Alike(f, Top)
  BY DEF Alike, Eraser, MigPc, Writer, Setters
<1>5. Link(g, f)
  BY <1>2 DEF Link, Eraser, MigPc, Writer, Setters, Suspended, Awaiting
<1>6. Chain(todo') /\ Order' /\ Index' /\ todo' # <<>> /\ Top' = g
  BY <1>2, <1>3, <1>4, <1>5, CallStep DEF Movers, Starting
<1>7. Stage'
  BY <1>2, <1>6 DEF Stage, Relies, Awaiting, Eraser, Starting
<1> QED
  BY <1>6, <1>7 DEF SInv

LEMMA RebuildRoundKeeps == IInv /\ RebuildRound => SInv'
<1> SUFFICES ASSUME IInv, RebuildRound PROVE SInv'
  OBVIOUS
<1> DEFINE n == (Top.s + Top.i + 1) % NumSectors
           f == [Top EXCEPT !.pc = "reb_erase", !.s = n]
<1>1. todo # <<>> /\ Top.pc = "reb_round" /\ UNCHANGED <<slot, used, kv>> /\ StackOK
  BY DEF RebuildRound, At, flash, desc, IInv, TInv
<1>2. Top \in Frame /\ Top.s \in Sector
  BY <1>1, Stack DEF Frame
<1>3. n \in Sector
  <2>1. Top.s \in Nat /\ Top.i \in Nat
    BY <1>2, Ranges DEF Frame
  <2>2. Top.s + Top.i + 1 \in Nat
    BY <2>1
  <2> QED
    BY <2>2, Ranges
<1>4. todo' = <<MigrateFrame(n, Top.s), f>> \o Tail(todo)
  BY DEF RebuildRound, Call
<1> HIDE DEF n
<1>5. f \in Frame /\ f.pc = "reb_erase" /\ f.s = n
  BY <1>2, <1>3 DEF Frame, Pc
<1> HIDE DEF f
<1>6. f.pc \in Eraser /\ Victim(f) = n
  BY <1>5 DEF Eraser, Victim
<1> QED
  BY <1>1, <1>2, <1>4, <1>5, <1>6, CallMigrate

LEMMA RebuildEraseKeeps == IInv /\ RebuildErase => SInv'
<1> SUFFICES ASSUME IInv, RebuildErase PROVE SInv'
  OBVIOUS
<1> DEFINE f == [Top EXCEPT !.pc = "reb_magic"]
<1>1. /\ todo # <<>> /\ Top.pc = "reb_erase" /\ UNCHANGED kv /\ EraseSector(Top.s)
      /\ StackOK /\ Chain(todo) /\ todo' = <<f>> \o Tail(todo)
  BY DEF RebuildErase, At, Goto, Stay, IInv, TInv, SInv
<1>2. Top \in Frame /\ Top.s \in Sector
  BY <1>1, Stack DEF Frame
<1>3. f \in Frame /\ f.pc = "reb_magic"
  BY <1>2 DEF Frame, Pc
<1> HIDE DEF f
<1>4. Order' /\ Index'
  <2>1. Victim(Top) = Top.s /\ Top.pc \in Eraser
    BY <1>1 DEF Victim, Eraser
  <2> QED
    BY <1>1, <1>2, <2>1, EraseMigrated
<1>5. Chain(todo') /\ Stage'
  <2>1. Rooted(Top) /\ Rooted(f) /\ f.pc \in Plain
    BY <1>1, <1>3 DEF Rooted, MigPc, Writer, Plain
  <2> QED
    BY <1>1, <1>3, <2>1, StayPlain
<1> QED
  BY <1>4, <1>5 DEF SInv

LEMMA RebuildMagicKeeps == IInv /\ RebuildMagic => SInv'
<1> SUFFICES ASSUME IInv, RebuildMagic PROVE SInv'
  OBVIOUS
<1> DEFINE f == [Top EXCEPT !.pc = "reb_role"]
<1>1. todo # <<>> /\ Top.pc = "reb_magic" /\ UNCHANGED <<slot, used, kv>> /\ StackOK
      /\ todo' = <<f>> \o Tail(todo)
  BY DEF RebuildMagic, At, Goto, Stay, desc, IInv, TInv
<1>2. f \in Frame /\ f.pc = "reb_role"
  BY <1>1, Stack DEF Frame, Pc
<1> HIDE DEF f
<1> QED
  BY <1>1, <1>2, PlainStep DEF Plain

LEMMA RebuildRoleKeeps == IInv /\ RebuildRole => SInv'
<1> SUFFICES ASSUME IInv, RebuildRole PROVE SInv'
  OBVIOUS
<1> DEFINE f == [Top EXCEPT !.pc = "reb_round", !.i = @ + 1]
<1>1. todo # <<>> /\ Top.pc = "reb_role" /\ UNCHANGED <<slot, used, kv>> /\ StackOK
      /\ (todo' = Tail(todo) \/ todo' = <<f>> \o Tail(todo))
  BY DEF RebuildRole, At, Stay, Return, IInv, TInv
<1>2. f \in Frame /\ f.pc = "reb_round"
  <2>1. Top \in Frame /\ "reb_round" \in Pc
    BY <1>1, Stack DEF Pc
  <2>2. Top.i + 1 \in Nat
    BY <2>1 DEF Frame
  <2> QED
    BY <2>1, <2>2 DEF Frame
<1> HIDE DEF f
<1> QED
  BY <1>1, <1>2, PlainStep DEF Plain

LEMMA Joined ==
    ASSUME NEW a \in Seq(Frame), NEW b \in Seq(Frame), NEW c, c = a \o b
    PROVE  /\ c \in Seq(Frame) /\ Len(c) = Len(a) + Len(b)
           /\ \A i \in 1..Len(a) : c[i] = a[i]
           /\ \A i \in 1..Len(b) : c[Len(a) + i] = b[i]
OBVIOUS

LEMMA NextIndex ==
    ASSUME NEW k \in Nat, NEW m \in Nat, NEW i \in 1..m, i # m
    PROVE  i + 1 \in 1..m /\ k + (i + 1) = (k + i) + 1
OBVIOUS

LEMMA ChainJoin ==
    ASSUME NEW a \in Seq(Frame), a # <<>>,
           \A n \in 1..Len(a) : a[n].pc \in Waitable /\ (a[n].pc = "load" => a[n].s = 0),
           \A n \in 1..Len(a) :
              n # Len(a) /\ a[n + 1].pc = "rebuild" => a[n].pc = "load",
           NEW b \in Seq(Frame), b # <<>>, b[1].pc = "gc_find", Chain(b)
    PROVE  Chain(a \o b) /\ a \o b # <<>> /\ Head(a \o b) = a[1]
<1> DEFINE c == a \o b
<1> PICK k, m : k = Len(a) /\ m = Len(b)
  OBVIOUS
<1>1. k \in Nat /\ k # 0 /\ m \in Nat /\ m # 0 /\ Len(a) = k /\ Len(b) = m
  OBVIOUS
<1>2. /\ c \in Seq(Frame) /\ Len(c) = k + m
      /\ \A i \in 1..k : c[i] = a[i]
      /\ \A i \in 1..m : c[k + i] = b[i]
  BY Joined
<1> HIDE DEF c
<1>3. \A g : g.pc \in Waitable => Rooted(g)
  BY DEF Rooted, Waitable, MigPc, Writer
<1>4. \A g, h : /\ h.pc \in Waitable /\ g.pc \in Waitable
                /\ h.pc = "load" => h.s = 0
                /\ h.pc = "rebuild" => g.pc = "load"
                => Link(g, h)
  BY <1>3 DEF Link, Rooted, Waitable, Setters, Suspended, Eraser, MigPc, Awaiting, Writer
<1>5. Chain(c)
  <2> SUFFICES ASSUME NEW n \in 1..(k + m)
               PROVE  IF n = k + m THEN Rooted(c[n]) ELSE Link(c[n], c[n + 1])
    BY <1>2 DEF Chain
  <2>1. CASE n \in 1..k
    <3>1. c[n].pc \in Waitable /\ n # k + m
      BY <1>1, <1>2, <2>1
    <3>2. CASE n = k
      <4>1. c[k + 1] = b[1]
        BY <1>1, <1>2
      <4>2. c[n].pc \in Waitable /\ c[n + 1].pc = "gc_find"
        BY <3>1, <3>2, <4>1
      <4>3. Link(c[n], c[n + 1])
        <5>1. "gc_find" \in Waitable
          BY DEF Waitable
        <5> QED
          BY <1>4, <4>2, <5>1
      <4> QED
        BY <3>1, <4>3, Zenon
    <3>3. CASE n # k
      <4>1. n + 1 \in 1..k
        BY <1>1, <2>1, <3>3
      <4>2. /\ c[n + 1].pc \in Waitable /\ (c[n + 1].pc = "load" => c[n + 1].s = 0)
            /\ c[n + 1].pc = "rebuild" => c[n].pc = "load"
        <5>1. c[n] = a[n] /\ c[n + 1] = a[n + 1]
          BY <1>2, <2>1, <4>1
        <5> QED
          BY <1>1, <2>1, <3>3, <4>1, <5>1
      <4>3. Link(c[n], c[n + 1])
        BY <1>4, <3>1, <4>2, Zenon
      <4> QED
        BY <3>1, <4>3, Zenon
    <3> QED
      BY <3>2, <3>3
  <2>2. CASE n \notin 1..k
    <3> DEFINE i == n - k
    <3>1. i \in 1..m /\ k + i = n /\ (n = k + m <=> i = m)
      BY <1>1, <2>2
    <3>2. c[n] = b[i]
      BY <1>2, <3>1
    <3>3. n # k + m => c[n + 1] = b[i + 1]
      <4>1. n # k + m => i + 1 \in 1..m /\ k + (i + 1) = n + 1
        <5> HIDE DEF i
        <5> QED
          BY <1>1, <3>1, NextIndex
      <4> QED
        BY <1>2, <4>1
    <3>4. IF i = m THEN Rooted(b[i]) ELSE Link(b[i], b[i + 1])
      BY <1>1, <3>1 DEF Chain
    <3> QED
      BY <3>1, <3>2, <3>3, <3>4
  <2> QED
    BY <2>1, <2>2
<1>6. c # <<>> /\ Head(c) = a[1]
  <2>1. Len(c) > 0 /\ 1 \in 1..k
    BY <1>1, <1>2
  <2>2. c # <<>> /\ Head(c) = c[1]
    BY <1>2, <2>1
  <2> QED
    BY <1>2, <2>1, <2>2
<1> QED
  BY <1>5, <1>6 DEF c

(* Recovery is called: four functions, each of which relies on nothing.   *)
LEMMA ChainRecover ==
    ASSUME NEW f \in Frame, NEW q \in Seq(Frame), Chain(<<f>> \o q), f.pc = "gc_find"
    PROVE  /\ Chain(RecoverFrames \o <<f>> \o q)
           /\ RecoverFrames \o <<f>> \o q # <<>>
           /\ Head(RecoverFrames \o <<f>> \o q) = Call0("load")
<1> DEFINE r == RecoverFrames
           b == <<f>>
           p == b \o q
<1>1. \A l \in {"load", "rebuild", "defaults"} : Call0(l) \in Frame /\ Call0(l).pc = l
  BY Frames DEF Pc
<1>2. /\ r \in Seq(Frame) /\ r # <<>> /\ r[1] = Call0("load")
      /\ \A n \in 1..Len(r) : r[n].pc \in Waitable /\ (r[n].pc = "load" => r[n].s = 0)
      /\ \A n \in 1..Len(r) : n # Len(r) /\ r[n + 1].pc = "rebuild" => r[n].pc = "load"
  <2>1. Call0("load").s = 0
    BY DEF Call0
  <2> QED
    BY <1>1, <2>1 DEF RecoverFrames, Waitable
<1>3. b \in Seq(Frame) /\ p \in Seq(Frame) /\ p # <<>> /\ p[1] = f
  OBVIOUS
<1> HIDE DEF r, b
<1>4. (r \o b) \o q = r \o p
  BY <1>2, <1>3, ConcatAssociative
<1> HIDE DEF p
<1>5. Chain(r \o p) /\ r \o p # <<>> /\ Head(r \o p) = r[1]
  <2>1. Chain(p) /\ p[1].pc = "gc_find"
    BY <1>3 DEF p, b
  <2> QED
    BY <1>2, <1>3, <2>1, ChainJoin
<1> QED
  BY <1>2, <1>4, <1>5 DEF r, b

LEMMA GcStartKeeps == IInv /\ GcStart => SInv'
<1> SUFFICES ASSUME IInv, GcStart PROVE SInv'
  OBVIOUS
<1> DEFINE f == [Top EXCEPT !.pc = "gc_find"]
<1>1. todo # <<>> /\ Top.pc = "gc" /\ UNCHANGED <<slot, used, kv>> /\ StackOK /\ Chain(todo)
  BY DEF GcStart, At, flash, IInv, TInv, SInv
<1>2. f \in Frame /\ f.pc = "gc_find"
  BY <1>1, Stack DEF Frame, Pc
<1>3. CASE IsNormal
  <2>1. todo' = <<f>> \o Tail(todo)
    BY <1>3 DEF GcStart, Goto, Stay
  <2> HIDE DEF f
  <2> QED
    BY <1>1, <1>2, <2>1, PlainStep DEF Plain
<1>4. CASE ~IsNormal
  <2>1. todo' = RecoverFrames \o <<f>> \o Tail(todo)
    BY <1>4 DEF GcStart
  <2> HIDE DEF f
  <2>2. Chain(<<f>> \o Tail(todo)) /\ Tail(todo) \in Seq(Frame)
    BY <1>1, <1>2, ChainStay, Stack DEF Alike, MigPc, Writer, Setters
  <2>3. Chain(todo') /\ todo' # <<>> /\ Top' = Call0("load")
    BY <1>2, <2>1, <2>2, ChainRecover DEF Waitable, Top
  <2>4. Order' /\ Index'
    BY <1>1, SameData DEF IInv, SInv, Movers, Starting
  <2>5. Call0("load").pc = "load"
    BY Frames DEF Pc
  <2>6. Stage'
    BY <2>3, <2>5, StagePlain DEF Plain
  <2> QED
    BY <2>3, <2>4, <2>6 DEF SInv
<1> QED
  BY <1>3, <1>4

LEMMA GcFindKeeps == IInv /\ GcFind => SInv'
<1> SUFFICES ASSUME IInv, GcFind PROVE SInv'
  OBVIOUS
<1> DEFINE g == FindSectorRole(GC)
<1>1. todo # <<>> /\ Top.pc = "gc_find" /\ UNCHANGED <<slot, used, kv>> /\ StackOK
  BY DEF GcFind, At, IInv, TInv
<1>2. CASE g < 0
  <2>1. Fail
    BY <1>2 DEF GcFind
  <2> QED
    BY <1>1, <2>1, SameFail DEF Movers, Starting
<1>3. CASE ~(g < 0)
  <2> DEFINE f == [Top EXCEPT !.pc = "gc_gcing", !.s = g, !.t = (g + 1) % NumSectors]
  <2>1. todo' = <<f>> \o Tail(todo)
    BY <1>3 DEF GcFind, Stay
  <2>2. g \in Sector
    BY <1>3, FindRole
  <2> HIDE DEF g
  <2>3. (g + 1) % NumSectors \in Sector
    <3>1. g + 1 \in Nat
      BY <2>2, Ranges
    <3> QED
      BY <3>1, Ranges
  <2>4. f \in Frame /\ f.pc = "gc_gcing"
    BY <1>1, <2>2, <2>3, Stack DEF Frame, Pc
  <2> HIDE DEF f
  <2> QED
    BY <1>1, <2>1, <2>4, PlainStep DEF Plain
<1> QED
  BY <1>2, <1>3

LEMMA GcMigrateKeeps == IInv /\ GcMigrate => SInv'
<1> SUFFICES ASSUME IInv, GcMigrate PROVE SInv'
  OBVIOUS
<1> DEFINE f == [Top EXCEPT !.pc = "gc_erase"]
<1>1. todo # <<>> /\ Top.pc = "gc_gcing" /\ UNCHANGED <<slot, used, kv>> /\ StackOK
  BY DEF GcMigrate, At, IInv, TInv
<1>2. Top \in Frame /\ Top.s \in Sector
  BY <1>1, Stack DEF Frame
<1>3. todo' = <<MigrateFrame(Top.t, Top.s), f>> \o Tail(todo)
  BY DEF GcMigrate, Call
<1>4. f \in Frame /\ f.pc = "gc_erase" /\ f.t = Top.t
  BY <1>2 DEF Frame, Pc
<1> HIDE DEF f
<1>5. f.pc \in Eraser /\ Victim(f) = Top.t
  BY <1>4 DEF Eraser, Victim
<1> QED
  BY <1>1, <1>2, <1>3, <1>4, <1>5, CallMigrate

LEMMA GcEraseKeeps == IInv /\ GcErase => SInv'
<1> SUFFICES ASSUME IInv, GcErase PROVE SInv'
  OBVIOUS
<1> DEFINE g == [Top EXCEPT !.pc = "gc_role"]
<1>1. /\ todo # <<>> /\ Top.pc = "gc_erase" /\ UNCHANGED kv /\ EraseSector(Top.t)
      /\ StackOK /\ FlashOK /\ DescOK /\ Chain(todo) /\ todo' = <<g>> \o Tail(todo)
  BY DEF GcErase, At, Goto, Stay, IInv, TInv, SInv
<1>2. Top \in Frame /\ Top.t \in Sector
  BY <1>1, Stack DEF Frame
<1>3. g \in Frame /\ g.pc = "gc_role" /\ g.t = Top.t
  BY <1>2 DEF Frame, Pc
<1> HIDE DEF g
<1> PICK f : f = g
  OBVIOUS
<1>4. Order' /\ Index'
  <2>1. Victim(Top) = Top.t /\ Top.pc \in Eraser
    BY <1>1 DEF Victim, Eraser
  <2> QED
    BY <1>1, <1>2, <2>1, EraseMigrated
<1>5. Chain(todo')
  BY <1>1, <1>3, ChainStay DEF Alike, MigPc, Writer, Setters
<1>6. todo' # <<>> /\ Top' = f
  BY <1>1, <1>3, Stack, NewTop
<1>7. used'[f.t] = 0
  BY <1>1, <1>2, <1>3, EraseIs
<1>8. Stage'
  BY <1>3, <1>6, <1>7 DEF Stage, Relies, Awaiting, Eraser, Starting
<1> QED
  BY <1>4, <1>5, <1>8 DEF SInv

(* The headers of the new GC sector: its records stay erased.             *)
LEMMA GcHeader ==
    ASSUME IInv, todo # <<>>, UNCHANGED <<slot, used, kv>>,
           Top.pc \in {"gc_role", "gc_magic"}, NEW l \in {"gc_magic", "gc_data"}, Goto(l)
    PROVE  SInv'
<1> DEFINE g == [Top EXCEPT !.pc = l]
<1>1. todo' = <<g>> \o Tail(todo) /\ used[Top.t] = 0 /\ StackOK
  BY DEF Goto, Stay, IInv, TInv, SInv, Stage, Relies
<1>2. g \in Frame /\ g.pc = l /\ g.t = Top.t
  BY <1>1, Stack DEF Frame, Pc
<1> HIDE DEF g
<1> PICK f : f = g
  OBVIOUS
<1>3. Alike(f, Top)
  BY <1>2 DEF Alike, MigPc, Writer, Setters
<1>4. Chain(todo') /\ Order' /\ Index' /\ todo' # <<>> /\ Top' = f
  BY <1>1, <1>2, <1>3, StayStep DEF Movers, Starting
<1>5. Stage'
  BY <1>1, <1>2, <1>4 DEF Stage, Relies, Awaiting, Eraser, Starting
<1> QED
  BY <1>4, <1>5 DEF SInv

LEMMA GcRoleKeeps == IInv /\ GcRole => SInv'
BY GcHeader DEF GcRole, At

LEMMA GcMagicKeeps == IInv /\ GcMagic => SInv'
BY GcHeader DEF GcMagic, At, desc

LEMMA GcDataKeeps == IInv /\ GcData => SInv'
<1> SUFFICES ASSUME IInv, GcData PROVE SInv'
  OBVIOUS
<1>1. /\ todo # <<>> /\ Top.pc = "gc_data" /\ UNCHANGED <<slot, kv>> /\ todo' = Tail(todo)
      /\ StackOK /\ Chain(todo) /\ DescOK /\ used[Top.t] = 0
  BY DEF GcData, At, Return, IInv, TInv, SInv, Stage, Relies
<1>2. used' = used
  <2>1. Top.t \in Sector
    BY <1>1, Stack DEF Frame
  <2> QED
    BY <1>1, <2>1 DEF GcData, DescOK
<1>3. Order' /\ Index'
  BY <1>1, <1>2, SameData DEF IInv, SInv, Movers, Starting
<1>4. Chain(todo') /\ Stage'
  BY <1>1, PopPlain DEF Rooted, MigPc, Writer
<1> QED
  BY <1>3, <1>4 DEF SInv

-----------------------------------------------------------------------------
(* Scans *)

(* A scan finds where the records of a sector end.                        *)
LEMMA ScanEnd ==
    ASSUME NEW s \in Sector, Unbroken(s)
    PROVE  \A j \in Visible : slot[s][j] # Erased <=> j <= Cardinality(Scanned(s))
<1> DEFINE E == {j \in Visible : slot[s][j] = Erased}
           m == IF E = {} THEN Slots - 1 ELSE Min(E) - 1
<1>1. m \in Nat /\ m <= Slots - 1 /\ \A j \in Visible : slot[s][j] # Erased <=> j <= m
  <2>1. CASE E = {}
    BY <2>1, Sizes DEF Visible
  <2>2. CASE E # {}
    <3> DEFINE e == Min(E)
    <3>1. e \in E /\ \A j \in E : e <= j
      <4>1. E \subseteq Nat
        BY SeenIs
      <4> QED
        BY <2>2, <4>1, MinNat
    <3>2. e \in Visible /\ slot[s][e] = Erased
      BY <3>1
    <3>3. m = e - 1
      BY <2>2
    <3>4. ASSUME NEW j \in Visible PROVE slot[s][j] = Erased <=> e <= j
      <4>1. j \in Nat /\ e \in Nat
        BY <3>2, SeenIs
      <4>2. e < j => slot[s][j] = Erased
        BY <3>2 DEF Unbroken
      <4>3. slot[s][j] = Erased => e <= j
        BY <3>1
      <4> QED
        BY <3>2, <4>1, <4>2, <4>3
    <3> HIDE DEF e, m
    <3>5. e \in 1..(Slots - 1)
      BY <3>2 DEF Visible
    <3>6. m \in Nat /\ m <= Slots - 1 /\ \A j \in Nat : e <= j <=> ~(j <= m)
      BY <3>3, <3>5, Sizes
    <3> QED
      BY <3>4, <3>6, SeenIs
  <2> QED
    BY <2>1, <2>2
<1> HIDE DEF m
<1>2. Scanned(s) = 1..m
  <2>1. Scanned(s) = {j \in Visible : j <= m}
    BY <1>1, ScannedAll
  <2> QED
    BY <1>1, <2>1, Sizes DEF Visible
<1>3. Cardinality(1..m) = m
  BY <1>1, FS_Interval
<1> QED
  BY <1>1, <1>2, <1>3

LEMMA LoadSectorKeeps == IInv /\ LoadSector => SInv'
<1> SUFFICES ASSUME IInv, LoadSector PROVE SInv'
  OBVIOUS
<1> PICK s : s = Top.s
  OBVIOUS
<1>1. /\ todo # <<>> /\ Top.pc = "load" /\ UNCHANGED slot /\ StackOK /\ Chain(todo) /\ DescOK
      /\ used' = [used EXCEPT ![s] = Cardinality(Scanned(s))]
  BY DEF LoadSector, At, IInv, TInv, SInv
<1>2. Top \in Frame /\ s \in Sector /\ s \in Nat
  BY <1>1, Stack, Ranges DEF Frame
<1>3. \A x \in Sector : x < s => Known(x)
  BY <1>1 DEF Known, Starting
<1>4. \A x \in Sector : Unbroken(x)' /\ (x <= s => Filled(x)')
  <2> SUFFICES ASSUME NEW x \in Sector PROVE Unbroken(x)' /\ (x <= s => Filled(x)')
    OBVIOUS
  <2>1. Unbroken(x)'
    BY <1>1 DEF IInv, SInv, Order, Unbroken
  <2>2. CASE x = s
    BY <1>1, <1>2, <2>1, <2>2, ScanEnd DEF IInv, SInv, Order, Filled, DescOK
  <2>3. CASE x # s
    <3>1. x <= s => x < s
      BY <1>2, <2>3, Ranges
    <3> QED
      BY <1>1, <1>3, <2>1, <2>3, <3>1 DEF IInv, SInv, Order, Filled, DescOK
  <2> QED
    BY <2>1, <2>2, <2>3
<1>5. \A q \in Key : kv'[q].addr = IF LiveOf(s, q) = {} THEN kv[q].addr
                                   ELSE <<s, Max(LiveOf(s, q))>>
  <2> SUFFICES ASSUME NEW q \in Key
               PROVE  kv'[q].addr = IF LiveOf(s, q) = {} THEN kv[q].addr
                                    ELSE <<s, Max(LiveOf(s, q))>>
    OBVIOUS
  <2>1. kv'[q] = IF LiveOf(s, q) = {} THEN kv[q]
                 ELSE LET j == Max(LiveOf(s, q))
                      IN [addr |-> <<s, j>>, val |-> slot[s][j].val, stored |-> TRUE]
    BY DEF LoadSector
  <2> QED
    BY <2>1
<1>6. Index'
  <2> SUFFICES ASSUME NEW q \in Key, kv'[q].addr \in Seen
               PROVE  SlotAt(kv[q].addr)'.key = q /\ IsLive(SlotAt(kv[q].addr)')
    BY DEF Index
  <2>1. CASE LiveOf(s, q) = {}
    <3>1. kv'[q].addr = kv[q].addr
      BY <1>5, <2>1
    <3>2. SlotAt(kv[q].addr).key = q /\ IsLive(SlotAt(kv[q].addr))
      BY <1>1, <3>1, NotMoving DEF IInv, SInv, Index, Movers
    <3> QED
      BY <1>1, <3>1, <3>2 DEF SlotAt
  <2>2. CASE LiveOf(s, q) # {}
    <3> DEFINE j == Max(LiveOf(s, q))
    <3>1. LiveOf(s, q) \subseteq 0..Slots
      <4>1. LiveOf(s, q) \subseteq Visible
        BY DEF LiveOf, LiveIn, Scanned
      <4> QED
        BY <4>1, Sizes DEF Visible
    <3>2. j \in LiveOf(s, q)
      BY <2>2, <3>1, MaxNat, Sizes
    <3>3. kv'[q].addr = <<s, j>>
      BY <1>5, <2>2
    <3> HIDE DEF j
    <3>4. slot[s][j].key = q /\ IsLive(slot[s][j])
      BY <3>2 DEF LiveOf, LiveIn
    <3> QED
      BY <1>1, <3>3, <3>4 DEF SlotAt
  <2> QED
    BY <2>1, <2>2
<1>7. Rooted(Top)
  BY <1>1 DEF Rooted, MigPc, Writer
<1>8. CASE s + 1 \in Sector
  <2> DEFINE f == [Top EXCEPT !.s = s + 1]
  <2>1. f \in Frame /\ f.pc = "load" /\ f.s = s + 1
    BY <1>1, <1>2, <1>8 DEF Frame
  <2>2. todo' = <<f>> \o Tail(todo)
    BY <1>8 DEF LoadSector, Stay
  <2> HIDE DEF f
  <2>3. Chain(todo') /\ todo' # <<>> /\ Top' = f /\ Stage'
    <3>1. Rooted(f) /\ f.pc \in Plain
      BY <2>1 DEF Rooted, MigPc, Writer, Plain
    <3> QED
      BY <1>1, <1>7, <2>1, <2>2, <3>1, StayPlain
  <2>4. \A x \in Sector : Known(x)' => x <= s
    BY <1>2, <2>1, <2>3, Ranges DEF Known
  <2> QED
    BY <1>4, <1>6, <2>3, <2>4 DEF SInv, Order
<1>9. CASE s + 1 \notin Sector
  <2>1. todo' = Tail(todo)
    BY <1>9 DEF LoadSector, Return
  <2>2. Chain(todo') /\ Stage'
    BY <1>1, <1>7, <2>1, PopPlain
  <2>3. \A x \in Sector : x <= s
    BY <1>2, <1>9, Sizes DEF Sector
  <2> QED
    BY <1>4, <1>6, <2>2, <2>3 DEF SInv, Order
<1> QED
  BY <1>8, <1>9

-----------------------------------------------------------------------------
(* The API *)

(* Reading a key back changes its value, not its address.                 *)
LEMMA ReadBackAddr ==
    ASSUME RestOK, NEW k, NEW q \in Key
    PROVE  ReadBack(k)[q].addr = kv[q].addr
BY DEF ReadBack, RestOK, Entry

LEMMA GetKeeps == \A k \in Key : IInv /\ Get(k) => SInv'
<1> SUFFICES ASSUME NEW k \in Key, IInv, Get(k) PROVE SInv'
  OBVIOUS
<1>1. todo = <<>> /\ UNCHANGED <<slot, used, todo>> /\ \A q \in Key : kv'[q].addr = kv[q].addr
  BY ReadBackAddr DEF Get, Ready, flash, desc, IInv, TInv
<1>2. Order' /\ Index'
  BY <1>1, SameData DEF IInv, SInv
<1> QED
  BY <1>1, <1>2 DEF IInv, SInv, Stage, Chain

LEMMA SetKeeps == \A k \in Key : \A v \in Value : IInv /\ Set(k, v) => SInv'
<1> SUFFICES ASSUME NEW k \in Key, NEW v \in Value, IInv, Set(k, v) PROVE SInv'
  OBVIOUS
<1> DEFINE f == [Call0("set_written") EXCEPT !.key = k, !.val = v]
           g == [f EXCEPT !.pc = "put"]
<1>1. todo = <<>> /\ UNCHANGED <<slot, used>> /\ \A q \in Key : kv'[q].addr = kv[q].addr
  BY ReadBackAddr DEF Set, Ready, flash, desc, IInv, TInv
<1>2. Order' /\ Index'
  BY <1>1, SameData DEF IInv, SInv
<1>3. CASE UNCHANGED todo
  BY <1>1, <1>2, <1>3 DEF IInv, SInv, Stage, Chain
<1>4. CASE todo' = <<g, f>>
  <2>1. Call0("set_written") \in Frame /\ Call0("set_written").pc = "set_written"
    BY Frames DEF Pc
  <2>2. f \in Frame /\ f.pc = "set_written" /\ f.key = k /\ f.val = v
    BY <2>1 DEF Frame
  <2> HIDE DEF f
  <2>3. g \in Frame /\ g.pc = "put" /\ g.key = k /\ g.val = v
    BY <2>2 DEF Frame, Pc
  <2> HIDE DEF g
  <2>4. Rooted(f) /\ Link(g, f)
    BY <2>2, <2>3 DEF Rooted, Link, MigPc, Writer, Setters, Suspended, Awaiting, Eraser
  <2>5. Chain(todo')
    BY <1>4, <2>2, <2>3, <2>4, ChainTwo
  <2>6. Stage'
    <3>1. Top' = g
      BY <1>4 DEF Top
    <3> QED
      BY <2>3, <3>1, StagePlain DEF Plain
  <2> QED
    BY <1>2, <2>5, <2>6 DEF SInv
<1>5. UNCHANGED todo \/ todo' = <<g, f>>
  BY DEF Set
<1> HIDE DEF f, g
<1> QED
  BY <1>3, <1>4, <1>5

LEMMA SetPreDeleteKeeps == IInv /\ SetPreDelete => SInv'
<1> SUFFICES ASSUME IInv, SetPreDelete PROVE SInv'
  OBVIOUS
<1> PICK k, a, b : k = Top.key /\ a = Old(k) /\ b = ret
  OBVIOUS
<1>1. /\ todo # <<>> /\ Top.pc = "set_written" /\ UNCHANGED <<used, kv, ret>>
      /\ StackOK /\ FlashOK /\ Chain(todo)
      /\ slot' = IF a \notin {NoAddr, b} THEN SetKvStatus(slot, a, PRE_DELETE) ELSE slot
      /\ b \in Addr \cup {NoAddr}
  BY DEF SetPreDelete, At, desc, IInv, TInv, SInv, RestOK
<1>2. Top \in Frame /\ k \in Key /\ k # 0
  BY <1>1, Stack, RealKeys DEF Frame
<1>3. Fresh(b, k)
  BY <1>1 DEF IInv, SInv, Stage, Relies, Awaiting
<1>4. a \in Addr \cup {NoAddr} /\ (a \in Seen => SlotAt(a).key = k)
  BY <1>2 DEF Old, IInv, TInv, SInv, RestOK, Entry, Index
<1> DEFINE g == [Top EXCEPT !.pc = "set_commit", !.new = ret]
<1>5. todo' = <<g>> \o Tail(todo)
  BY DEF SetPreDelete, Stay
<1>6. g \in Frame /\ g.pc = "set_commit" /\ g.key = k /\ g.new = b
  BY <1>1, <1>2 DEF Frame, Pc
<1> HIDE DEF g
<1> PICK f : f = g
  OBVIOUS
<1>7. Chain(todo')
  BY <1>1, <1>5, <1>6, ChainStay DEF Alike, MigPc, Writer, Setters
<1>8. todo' # <<>> /\ Top' = f
  BY <1>1, <1>5, <1>6, Stack, NewTop
<1>9. CASE a \in {NoAddr, b}
  <2>1. slot' = slot
    BY <1>1, <1>9
  <2>2. Order' /\ Index'
    BY <1>1, <2>1, SameData DEF IInv, SInv, Movers, Starting
  <2>3. Fresh(b, k)'
    BY <1>3, <2>1 DEF Fresh, SlotAt
  <2>4. Stage'
    BY <1>6, <1>8, <2>3 DEF Stage, Relies, Awaiting, Eraser, Starting
  <2> QED
    BY <1>7, <2>2, <2>4 DEF SInv
<1>10. CASE a \notin {NoAddr, b}
  <2>1. slot' = SetKvStatus(slot, a, PRE_DELETE)
    BY <1>1, <1>10
  <2>2. Order'
    BY <1>1, <1>2, <1>4, <2>1, StatusOrder, AllKnown DEF IInv, SInv, Starting
  <2>3. Index'
    <3>1. Moving(k)' /\ \A q : ~Moving(q)
      BY <1>1, <1>6, <1>8 DEF Moving, Movers
    <3> QED
      BY <1>1, <1>4, <2>1, <3>1, IndexKill DEF IInv, SInv
  <2>4. Fresh(b, k)'
    <3> SUFFICES ASSUME b \in Seen PROVE SlotAt(b)' = SlotAt(b)
      BY <1>3 DEF Fresh
    <3> PICK x, j : x = b[1] /\ j = b[2]
      OBVIOUS
    <3>1. x \in Sector /\ j \in Slot /\ b = <<x, j>>
      BY SeenIs
    <3>2. slot'[x][j] = slot[x][j]
      BY <1>1, <1>4, <1>10, <2>1, <3>1, Kills
    <3> QED
      BY <3>2 DEF SlotAt
  <2>5. Stage'
    BY <1>6, <1>8, <2>4 DEF Stage, Relies, Awaiting, Eraser, Starting
  <2> QED
    BY <1>7, <2>2, <2>3, <2>5 DEF SInv
<1> QED
  BY <1>9, <1>10

LEMMA SetCommitKeeps == IInv /\ SetCommit => SInv'
<1> SUFFICES ASSUME IInv, SetCommit PROVE SInv'
  OBVIOUS
<1> PICK k, b : k = Top.key /\ b = Top.new
  OBVIOUS
<1>1. /\ todo # <<>> /\ Top.pc = "set_commit" /\ UNCHANGED <<used, kv>>
      /\ StackOK /\ FlashOK /\ Chain(todo) /\ slot' = SetKvStatus(slot, b, WRITE)
  BY DEF SetCommit, At, desc, IInv, TInv, SInv
<1>2. Top \in Frame /\ k \in Key /\ k # 0 /\ b \in Addr \cup {NoAddr}
  BY <1>1, Stack, RealKeys DEF Frame
<1>3. Fresh(b, k)
  BY <1>1 DEF IInv, SInv, Stage, Relies
<1>4. Order'
  <2>1. b \in Seen => SlotAt(b).key # 0
    BY <1>2, <1>3 DEF Fresh
  <2> QED
    BY <1>1, <1>2, <2>1, StatusOrder, AllKnown DEF IInv, SInv, Starting
<1> DEFINE g == [Top EXCEPT !.pc = "set_deleted"]
<1>5. todo' = <<g>> \o Tail(todo)
  BY DEF SetCommit, Goto, Stay
<1>6. g \in Frame /\ g.pc = "set_deleted" /\ g.key = k /\ g.new = b
  BY <1>2 DEF Frame, Pc
<1> HIDE DEF g
<1> PICK f : f = g
  OBVIOUS
<1>7. Chain(todo')
  BY <1>1, <1>5, <1>6, ChainStay DEF Alike, MigPc, Writer, Setters
<1>8. todo' # <<>> /\ Top' = f
  BY <1>1, <1>5, <1>6, Stack, NewTop
<1>9. Index'
  <2>1. \A q : Moving(q) => Moving(q)'
    BY <1>6, <1>8 DEF Moving, Movers
  <2> QED
    BY <1>1, <1>2, <2>1, IndexCommit DEF IInv, SInv
<1>10. Committed(b, k)'
  BY <1>1, <1>2, <1>3, FreshCommitted
<1>11. Stage'
  BY <1>6, <1>8, <1>10 DEF Stage, Relies, Awaiting, Eraser, Starting
<1> QED
  BY <1>4, <1>7, <1>9, <1>11 DEF SInv

LEMMA SetDeletedKeeps == IInv /\ SetDeleted => SInv'
<1> SUFFICES ASSUME IInv, SetDeleted PROVE SInv'
  OBVIOUS
<1> PICK k, b : k = Top.key /\ b = Top.new
  OBVIOUS
<1> PICK a : a = IF Old(k) \notin {NoAddr, b} THEN Old(k) ELSE NoAddr
  OBVIOUS
<1>1. /\ todo # <<>> /\ Top.pc = "set_deleted" /\ UNCHANGED used /\ todo' = Tail(todo)
      /\ StackOK /\ FlashOK /\ Chain(todo) /\ kv \in [Key -> Entry]
      /\ slot' = IF a # NoAddr THEN SetKvStatus(slot, a, DELETED) ELSE slot
  BY DEF SetDeleted, Return, At, desc, IInv, TInv, SInv, RestOK
<1>2. Top \in Frame /\ k \in Key /\ k # 0
  BY <1>1, Stack, RealKeys DEF Frame
<1>3. Committed(b, k)
  BY <1>1 DEF IInv, SInv, Stage, Relies
<1>4. a \in Addr \cup {NoAddr} /\ (a \in Seen => SlotAt(a).key = k)
  BY <1>2, SeenIs DEF Old, IInv, TInv, SInv, RestOK, Entry, Index
<1>5. kv'[k].addr = b /\ \A q \in Key : q # k => kv'[q].addr = kv[q].addr
  BY <1>1, <1>2 DEF SetDeleted
<1>6. Order'
  <2>1. CASE a = NoAddr
    BY <1>1, <2>1, OrderSame, AllKnown DEF IInv, SInv, Starting
  <2>2. CASE a # NoAddr
    BY <1>1, <1>2, <1>4, <2>2, StatusOrder, AllKnown DEF IInv, SInv, Starting
  <2> QED
    BY <2>1, <2>2
<1>7. Index'
  <2>1. \A x \in Sector : \A j \in Slot : <<x, j>> # a =>
          slot'[x][j].key = slot[x][j].key /\ (IsLive(slot[x][j]) => IsLive(slot'[x][j]))
    <3>1. CASE a = NoAddr
      BY <1>1, <3>1
    <3>2. CASE a # NoAddr
      <4>1. slot' = SetKvStatus(slot, a, DELETED) /\ FlashOK
        BY <1>1, <3>2
      <4> QED
        BY <1>4, <4>1, Kills
    <3> QED
      BY <3>1, <3>2
  <2>2. b = a => b \notin Seen
    BY SeenIs
  <2>3. \A q : Moving(q) => q = k
    BY DEF Moving
  <2> QED
    BY <1>1, <1>2, <1>3, <1>4, <1>5, <2>1, <2>2, <2>3, IndexMove DEF IInv, SInv
<1>8. Chain(todo') /\ Stage'
  BY <1>1, PopPlain DEF Rooted, MigPc, Writer
<1> QED
  BY <1>6, <1>7, <1>8 DEF SInv

(* A stack with one function that relies on nothing.                      *)
LEMMA StartPlain ==
    ASSUME NEW l \in Plain \ {"put"}, todo' = <<Call0(l)>>
    PROVE  Chain(todo') /\ Stage'
<1>1. Call0(l) \in Frame /\ Call0(l).pc = l
  BY Frames DEF Plain, Pc
<1>2. Top' = Call0(l)
  BY DEF Top
<1>3. Chain(todo')
  BY <1>1, ChainOne DEF Rooted, Plain, MigPc, Writer
<1> QED
  BY <1>1, <1>2, <1>3, StagePlain

LEMMA DeleteKeeps == \A k \in Key : IInv /\ Delete(k) => SInv'
<1> SUFFICES ASSUME NEW k \in Key, IInv, Delete(k) PROVE SInv'
  OBVIOUS
<1> PICK a : a = kv[k].addr
  OBVIOUS
<1>1. todo = <<>> /\ UNCHANGED used /\ FlashOK /\ kv \in [Key -> Entry]
  BY DEF Delete, Ready, desc, IInv, TInv, RestOK
<1>2. CASE a = NoAddr
  <2>1. todo' = <<Call0("hung")>> /\ UNCHANGED <<slot, kv>>
    BY <1>2 DEF Delete
  <2>2. Order' /\ Index'
    BY <1>1, <2>1, SameData DEF IInv, SInv
  <2> QED
    BY <2>1, <2>2, StartPlain DEF SInv, Plain
<1>3. CASE a # NoAddr
  <2>1. /\ slot' = SetKvStatus(slot, a, DELETED) /\ UNCHANGED todo
        /\ kv' = [kv EXCEPT ![k].addr = NoAddr, ![k].stored = FALSE]
    BY <1>3 DEF Delete
  <2>2. a \in Addr /\ (a \in Seen => SlotAt(a).key = k) /\ k # 0
    BY <1>1, <1>3, RealKeys DEF IInv, SInv, Index, Entry
  <2>3. Order'
    BY <1>1, <2>1, <2>2, StatusOrder, AllKnown DEF IInv, SInv
  <2>4. Index'
    <3>1. \A x \in Sector : \A j \in Slot : <<x, j>> # a =>
            slot'[x][j].key = slot[x][j].key /\ (IsLive(slot[x][j]) => IsLive(slot'[x][j]))
      BY <1>1, <2>1, <2>2, Kills
    <3>2. kv'[k].addr = NoAddr /\ \A q \in Key : q # k => kv'[q].addr = kv[q].addr
      BY <1>1, <2>1 DEF Entry
    <3>3. NoAddr \notin Seen /\ Committed(NoAddr, k) /\ \A q : ~Moving(q)
      BY <1>1, SeenIs DEF Committed, Moving
    <3> QED
      BY <1>1, <2>1, <2>2, <3>1, <3>2, <3>3, IndexMove DEF IInv, SInv
  <2> QED
    BY <1>1, <2>1, <2>3, <2>4 DEF IInv, SInv, Stage, Chain
<1> QED
  BY <1>2, <1>3

LEMMA CollectKeeps == IInv /\ Collect => SInv'
<1> SUFFICES ASSUME IInv, Collect PROVE SInv'
  OBVIOUS
<1>1. todo = <<>> /\ UNCHANGED <<slot, used, kv>> /\ todo' = <<Call0("gc")>>
  BY DEF Collect, Ready, flash, desc
<1>2. Order' /\ Index'
  BY <1>1, SameData DEF IInv, SInv
<1> QED
  BY <1>1, <1>2, StartPlain DEF SInv, Plain

-----------------------------------------------------------------------------
(* Power cuts *)

LEMMA Reset ==
    ASSUME todo' = <<Call0("init")>>, kv' = ResetKv, \A s \in Sector : Unbroken(s)'
    PROVE  SInv'
<1>1. Call0("init") \in Frame /\ Call0("init").pc = "init"
  BY Frames DEF Pc
<1>2. Top' = Call0("init") /\ todo' # <<>>
  BY DEF Top
<1>3. Chain(todo')
  BY <1>1, ChainOne DEF Rooted, MigPc, Writer
<1>4. \A k \in Key : kv'[k].addr = NoAddr
  BY DEF ResetKv
<1>5. Order'
  BY <1>1, <1>2 DEF Order, Known
<1>6. Index'
  BY <1>4, SeenIs DEF Index
<1>7. Stage'
  BY <1>1, <1>2, <1>4 DEF Stage, Relies, Awaiting, Eraser
<1> QED
  BY <1>3, <1>5, <1>6, <1>7 DEF SInv

(* The record a power cut tears is the first behind the others.           *)
LEMMA PowerCutKeeps == IInv /\ PowerCut => SInv'
<1> SUFFICES ASSUME IInv, PowerCut PROVE SInv'
  OBVIOUS
<1>1. todo' = <<Call0("init")>> /\ kv' = ResetKv
  BY DEF PowerCut
<1>2. CASE UNCHANGED slot
  BY <1>1, <1>2, Reset DEF IInv, SInv, Order, Unbroken
<1>3. CASE At("append") /\ slot' = PutRecord(slot, <<Top.s, used[Top.s] + 1>>, Torn)
  <2> PICK s, n : s = Top.s /\ n = used[s] + 1
    OBVIOUS
  <2> DEFINE a == <<s, n>>
  <2>1. todo # <<>> /\ Top.pc = "append" /\ StackOK /\ FlashOK /\ slot' = PutRecord(slot, a, Torn)
    BY <1>3 DEF At, IInv, TInv
  <2>2. s \in Sector
    BY <2>1, Stack DEF Frame
  <2>3. used[s] \in Nat /\ n \in Slot
    <3>1. used[s] < Slots /\ used[s] \in 0..Slots
      BY <1>3, <2>2 DEF IInv, TInv, Room, DescOK
    <3> QED
      BY <3>1, Sizes DEF Slot
  <2>4. \A x \in Sector : Filled(x) /\ Unbroken(x)
    BY <2>1, AllKnown DEF IInv, SInv, Order, Starting
  <2>5. a \in Addr /\ Torn \in Record
    BY <2>2, <2>3, Records DEF Addr
  <2>6. \A x \in Sector : \A j \in Visible :
          slot'[x][j] = IF <<x, j>> = a /\ slot[x][j] = Erased THEN Torn ELSE slot[x][j]
    BY <2>1, <2>5, RecordWrite, SeenIs
  <2>7. Torn # Erased
    BY Statuses DEF Torn, Erased
  <2>8. ASSUME NEW x \in Sector PROVE Unbroken(x)'
    <3> SUFFICES ASSUME NEW i \in Visible, NEW j \in Visible, i < j, slot'[x][i] = Erased
                 PROVE  slot'[x][j] = Erased
      BY DEF Unbroken
    <3>1. slot[x][i] = Erased /\ <<x, i>> # a
      BY <2>6, <2>7
    <3>2. slot[x][j] = Erased
      BY <2>4, <3>1 DEF Unbroken
    <3>3. <<x, j>> # a
      <4>1. i \in Nat /\ j \in Nat
        BY SeenIs
      <4>2. x = s => ~(i <= used[s]) /\ i # n
        BY <2>4, <3>1 DEF Filled
      <4> QED
        BY <2>3, <4>1, <4>2
    <3> QED
      BY <2>6, <3>2, <3>3
  <2> QED
    BY <1>1, <2>8, Reset
<1> QED
  BY <1>2, <1>3 DEF PowerCut

LEMMA InitIndex == Init => SInv
<1> SUFFICES ASSUME Init PROVE SInv
  OBVIOUS
<1>1. Call0("init") \in Frame /\ Call0("init").pc = "init"
  BY Frames DEF Pc
<1>2. todo = <<Call0("init")>> /\ Top = Call0("init")
  BY DEF Init, Top
<1>3. Chain(todo)
  BY <1>1, <1>2, ChainOne DEF Rooted, MigPc, Writer
<1>4. \A k \in Key : kv[k].addr = NoAddr
  BY DEF Init, ResetKv
<1>5. Order
  BY <1>1, <1>2, SeenIs DEF Init, Order, Known, Unbroken
<1>6. Index
  BY <1>4, SeenIs DEF Index
<1>7. Stage
  BY <1>1, <1>2, <1>4 DEF Stage, Relies, Awaiting, Eraser
<1> QED
  BY <1>3, <1>5, <1>6, <1>7 DEF SInv

LEMMA StepKeeps == IInv /\ Step => SInv'
<1> SUFFICES ASSUME IInv, Step PROVE SInv'
  OBVIOUS
<1>1. CASE InitClassify \/ InitDone \/ LoadSector
  BY <1>1, InitClassifyKeeps, InitDoneKeeps, LoadSectorKeeps
<1>2. CASE FormatErase \/ FormatRole \/ FormatMagic \/ Defaults \/ DefaultsCommit
  BY <1>2, FormatEraseKeeps, FormatRoleKeeps, FormatMagicKeeps, DefaultsKeeps,
     DefaultsCommitKeeps
<1>3. CASE Put \/ WriteRecord \/ WriteSectorStatus
  BY <1>3, PutKeeps, WriteRecordKeeps, WriteSectorStatusKeeps
<1>4. CASE MigrateEnter \/ Migrate \/ MigratePreDelete \/ MigrateCommit \/ MigrateDeleted
  BY <1>4, MigrateEnterKeeps, MigrateKeeps, MigratePreDeleteKeeps, MigrateCommitKeeps,
     MigrateDeletedKeeps
<1>5. CASE RebuildStart \/ RebuildRound \/ RebuildErase \/ RebuildMagic \/ RebuildRole
  BY <1>5, RebuildStartKeeps, RebuildRoundKeeps, RebuildEraseKeeps, RebuildMagicKeeps,
     RebuildRoleKeeps
<1>6. CASE GcStart \/ GcFind \/ GcMigrate \/ GcErase \/ GcRole \/ GcMagic \/ GcData
  BY <1>6, GcStartKeeps, GcFindKeeps, GcMigrateKeeps, GcEraseKeeps, GcRoleKeeps,
     GcMagicKeeps, GcDataKeeps
<1>7. CASE SetPreDelete \/ SetCommit \/ SetDeleted
  BY <1>7, SetPreDeleteKeeps, SetCommitKeeps, SetDeletedKeeps
<1> QED
  BY <1>1, <1>2, <1>3, <1>4, <1>5, <1>6, <1>7 DEF Step

LEMMA NextKeeps == IInv /\ [Next]_vars => IInv'
<1> SUFFICES ASSUME IInv, [Next]_vars PROVE SInv'
  BY NextType DEF IInv
<1>1. CASE Step
  BY <1>1, StepKeeps
<1>2. CASE Update
  BY <1>2, GetKeeps, SetKeeps DEF Update
<1>3. CASE Collect
  BY <1>3, CollectKeeps
<1>4. CASE \E k \in Key : Delete(k)
  BY <1>4, DeleteKeeps
<1>5. CASE PowerCut
  BY <1>5, PowerCutKeeps
<1>6. CASE UNCHANGED vars
  <2>1. UNCHANGED <<slot, used, kv, todo, ret>>
    BY <1>6 DEF vars
  <2>2. Chain(todo)' /\ Order' /\ Index'
    BY <2>1 DEF IInv, SInv, Chain, Order, Unbroken, Known, Filled, Top, Index, Moving, SlotAt
  <2>3. Stage'
    BY <2>1 DEF IInv, SInv, Stage, Relies, Top, Waits, Begun, Ended, Source, Cleared, Fresh,
                Committed, Beyond, SlotAt, LiveSeen, Victim
  <2> QED
    BY <2>2, <2>3 DEF SInv
<1> QED
  BY <1>1, <1>2, <1>3, <1>4, <1>5, <1>6 DEF Next

LEMMA AlwaysIndexed == Spec => []IInv
<1>1. Init => IInv
  BY InitType, InitIndex DEF IInv
<1> QED
  BY <1>1, NextKeeps, PTL DEF Spec

-----------------------------------------------------------------------------
(* What the invariant says *)

(* A record is programmed into an erased slot, in whichever call and after *)
(* whatever power cuts, unless it is the last slot of its sector, which no *)
(* scan reads.                                                             *)
THEOREM WritesInOrder ==
    Spec => [](At("append") /\ used[Top.s] + 1 \in Visible => WritesHitErasedSlots)
<1>1. IInv => (At("append") /\ used[Top.s] + 1 \in Visible => WritesHitErasedSlots)
  <2> SUFFICES ASSUME IInv, At("append"), used[Top.s] + 1 \in Visible
               PROVE  used[Top.s] < Slots /\ slot[Top.s][used[Top.s] + 1] = Erased
    BY DEF WritesHitErasedSlots
  <2>1. todo # <<>> /\ Top.pc = "append" /\ StackOK /\ DescOK /\ used[Top.s] < Slots
    BY DEF At, IInv, TInv, Room
  <2>2. Top.s \in Sector
    BY <2>1, Stack DEF Frame
  <2>3. Filled(Top.s)
    BY <2>1, <2>2, AllKnown DEF IInv, SInv, Order, Starting
  <2>4. used[Top.s] \in Nat
    BY <2>1, <2>2, Sizes DEF DescOK
  <2> QED
    BY <2>1, <2>3, <2>4 DEF Filled
<1> QED
  BY <1>1, AlwaysIndexed, PTL

(* Between calls every address of the RAM index that a scan can see is     *)
(* that of a live record of the key: embedded_flash_get, which checks      *)
(* nothing but the status of the record it finds there, returns a value    *)
(* that was written for this key.                                          *)
THEOREM IndexPointsHome ==
    Spec => [](Ready => \A k \in Key : kv[k].addr \in Seen =>
                            SlotAt(kv[k].addr).key = k /\ IsLive(SlotAt(kv[k].addr)))
<1>1. IInv => (Ready => \A k \in Key : kv[k].addr \in Seen =>
                            SlotAt(kv[k].addr).key = k /\ IsLive(SlotAt(kv[k].addr)))
  <2> SUFFICES ASSUME IInv, Ready, NEW k \in Key, kv[k].addr \in Seen
               PROVE  SlotAt(kv[k].addr).key = k /\ IsLive(SlotAt(kv[k].addr))
    OBVIOUS
  <2>1. ~Moving(k)
    BY NotMoving DEF Ready
  <2> QED
    BY <2>1 DEF IInv, SInv, Index
<1> QED
  BY <1>1, AlwaysIndexed, PTL

-----------------------------------------------------------------------------
(***************************************************************************)
(* What the engine erases.                                                 *)
(*                                                                         *)
(* Garbage collection and rebuilding erase a sector once its records have  *)
(* moved: Stage says so.  Formatting erases without looking, on the word   *)
(* of the headers that the flash has never been used: Headers says that    *)
(* this is so only while no record can be read.  Two sectors have their    *)
(* magic word except in the middle of an erasure and early in a recovery,  *)
(* and there the sector to be erased is never the only one.                *)
(***************************************************************************)

Formats == {"format", "format_role", "format_magic"}
Openers == {"load", "rebuild", "reb_round", "reb_erase", "append", "append_status"} \cup MigPc

SomeMagic == \E s \in Sector : hdr[s].magic
Spare(x)  == \E s \in Sector : s # x /\ hdr[s].magic    \* x may be erased
Two       == \A x \in Sector : Spare(x)
NoneLive  == \A s \in Sector : ~LiveSeen(s)

(* The call stack of a start-up whose recovery has not erased anything.    *)
StartUp(q) == \A n \in 1..Len(q) :
    IF n = Len(q) THEN q[n].pc = "init_done" ELSE q[n].pc \in Openers \cup {"defaults"}

Early ==
    /\ StartUp(todo) /\ Top.pc \in Openers /\ SomeMagic
    /\ Top.pc = "load" =>
          /\ Waits.pc = "rebuild" /\ Waits.i = 0
          /\ \A x \in Sector : x < Top.s => used[x] < Slots
    /\ Top.pc = "rebuild" => Top.i = 0 /\ \A x \in Sector : used[x] < Slots
    /\ Top.pc = "reb_round" => Top.i = 0 /\ hdr[Top.s].magic
    /\ Top.pc \in MigPc \cup {"reb_erase"} => Spare(Top.s)
    /\ Top.pc \in {"append", "append_status"} => Waits.pc = "mig_predelete" /\ Spare(Waits.s)

Idle == \/ Top.pc = "init" /\ (SomeMagic \/ NoneLive)
        \/ Top.pc = "init_failed" /\ SomeMagic

Halfway == \/ Top.pc = "reb_magic" /\ Spare(Top.s)
           \/ Top.pc \in {"gc_role", "gc_magic"} /\ Spare(Top.t)

Blank == NoneLive /\ \A x \in Sector : x < Top.s => hdr[x].magic

Headers ==
    IF todo # <<>> /\ Top.pc \in Formats THEN Blank
    ELSE Two \/ (todo # <<>> /\ (Idle \/ Early \/ Halfway))

-----------------------------------------------------------------------------
(* Magic words *)

LEMMA Grow ==
    ASSUME \A s \in Sector : hdr[s].magic => hdr'[s].magic
    PROVE  /\ SomeMagic => SomeMagic'
           /\ Two => Two'
           /\ \A x \in Sector : Spare(x) => Spare(x)'
BY DEF SomeMagic, Two, Spare

LEMMA Magics ==
    /\ Two => SomeMagic
    /\ \A x \in Sector : Spare(x) => SomeMagic
    /\ \A x \in Sector : Spare(x) /\ hdr[x].magic => Two
BY Ranges DEF SomeMagic, Two, Spare

LEMMA HeaderWord ==
    ASSUME FlashOK, NEW s \in Sector, NEW r
    PROVE  \A x \in Sector : /\ SetSectorStatus(hdr, s, r)[x].magic = hdr[x].magic
                             /\ SetSectorRole(hdr, s, r)[x].magic = hdr[x].magic
BY DEF FlashOK, Header, SetSectorStatus, SetSectorRole

LEMMA MagicWord ==
    ASSUME FlashOK, NEW s \in Sector
    PROVE  \A x \in Sector : SetMagic(hdr, s)[x].magic <=> x = s \/ hdr[x].magic
BY DEF FlashOK, Header, SetMagic

LEMMA Erasure ==
    ASSUME FlashOK, NEW s \in Sector, EraseSector(s)
    PROVE  /\ \A x \in Sector : x # s => hdr'[x].magic = hdr[x].magic
           /\ Spare(s) => Spare(s)'
<1>1. \A x \in Sector : x # s => hdr'[x].magic = hdr[x].magic
  BY DEF EraseSector, FlashOK
<1> QED
  BY <1>1 DEF Spare

-----------------------------------------------------------------------------
(* The call stack *)

LEMMA StartPush ==
    ASSUME NEW q \in Seq(Frame), StartUp(q), q # <<>>,
           NEW f \in Frame, f.pc \in Openers \cup {"defaults"}
    PROVE  StartUp(<<f>> \o q)
<1> DEFINE p == <<f>> \o q
<1>1. /\ p \in Seq(Frame) /\ Len(p) = Len(q) + 1 /\ p[1] = f /\ Len(q) >= 1
      /\ \A n \in 1..Len(q) : p[n + 1] = q[n]
  OBVIOUS
<1> HIDE DEF p
<1>2. ASSUME NEW n \in 1..Len(p)
      PROVE  IF n = Len(p) THEN p[n].pc = "init_done" ELSE p[n].pc \in Openers \cup {"defaults"}
  <2>1. CASE n = 1
    BY <1>1, <2>1
  <2>2. CASE n # 1
    <3> DEFINE m == n - 1
    <3>1. m \in 1..Len(q) /\ p[n] = q[m] /\ (n = Len(p) <=> m = Len(q))
      BY <1>1, <2>2
    <3> HIDE DEF m
    <3> QED
      BY <3>1 DEF StartUp
  <2> QED
    BY <2>1, <2>2
<1> QED
  BY <1>2 DEF StartUp, p

LEMMA StartPop ==
    ASSUME StackOK, todo # <<>>, StartUp(todo)
    PROVE  /\ StartUp(Tail(todo))
           /\ Tail(todo) = <<>> => Top.pc = "init_done"
           /\ Tail(todo) # <<>> => /\ Top.pc \in Openers \cup {"defaults"}
                                 /\ Waits.pc \in Openers \cup {"defaults", "init_done"}
<1> DEFINE q == Tail(todo)
<1>1. todo \in Seq(Frame)
  BY DEF StackOK
<1>2. /\ q \in Seq(Frame) /\ Len(todo) = Len(q) + 1 /\ Top = todo[1]
      /\ \A n \in 1..Len(q) : q[n] = todo[n + 1]
  BY <1>1, HeadTailProperties DEF Top
<1>3. (q = <<>> <=> Len(q) = 0) /\ (q # <<>> => Waits = q[1] /\ 1 \in 1..Len(q))
  <2>1. Waits = Head(q)
    BY DEF Waits
  <2> HIDE DEF q
  <2>2. q = <<>> <=> Len(q) = 0
    BY <1>2
  <2>3. q # <<>> => Head(q) = q[1] /\ 1 \in 1..Len(q)
    BY <1>2
  <2> QED
    BY <2>1, <2>2, <2>3
<1> HIDE DEF q
<1>4. StartUp(q)
  <2> SUFFICES ASSUME NEW n \in 1..Len(q)
               PROVE  IF n = Len(q) THEN q[n].pc = "init_done"
                      ELSE q[n].pc \in Openers \cup {"defaults"}
    BY DEF StartUp
  <2>1. n + 1 \in 1..Len(todo) /\ (n = Len(q) <=> n + 1 = Len(todo))
    BY <1>2
  <2> QED
    BY <1>2, <2>1 DEF StartUp
<1>5. (q = <<>> => Top.pc = "init_done") /\ (q # <<>> => Top.pc \in Openers \cup {"defaults"})
  <2>1. 1 \in 1..Len(todo) /\ (1 = Len(todo) <=> q = <<>>)
    BY <1>2, <1>3
  <2> QED
    BY <1>2, <2>1 DEF StartUp
<1>6. q # <<>> => Waits.pc \in Openers \cup {"defaults", "init_done"}
  BY <1>3, <1>4 DEF StartUp
<1> QED
  BY <1>4, <1>5, <1>6 DEF q

(* A function returns to its caller.                                       *)
LEMMA Back ==
    ASSUME StackOK, Chain(todo), todo # <<>>, todo' = Tail(todo), todo' # <<>>
    PROVE  Top' = Waits /\ Link(Top, Waits) /\ Top'.pc \notin Formats \cup {"init", "init_failed"}
<1>1. Top' = Waits /\ Link(Top, Waits)
  BY ChainPop DEF Top, Waits
<1> QED
  BY <1>1 DEF Link, Suspended, Awaiting, Eraser, Formats

(* It goes on, or calls another.                                           *)
LEMMA On ==
    ASSUME StackOK, todo # <<>>, NEW f \in Frame, todo' = <<f>> \o Tail(todo)
    PROVE  /\ todo' # <<>> /\ Top' = f /\ (Tail(todo) # <<>> => Waits' = Waits)
           /\ StartUp(todo) /\ f.pc \in Openers \cup {"defaults"} /\ Tail(todo) # <<>>
                 => StartUp(todo')
<1>1. todo' # <<>> /\ Top' = f /\ (Tail(todo) # <<>> => Waits' = Waits)
  BY Stack, NewTop DEF Waits
<1>2. StartUp(todo) /\ f.pc \in Openers \cup {"defaults"} /\ Tail(todo) # <<>>
        => StartUp(<<f>> \o Tail(todo))
  BY Stack, StartPop, StartPush
<1> QED
  BY <1>1, <1>2

LEMMA Into ==
    ASSUME StackOK, todo # <<>>, NEW f \in Frame, NEW g \in Frame,
           todo' = <<g, f>> \o Tail(todo)
    PROVE  /\ todo' # <<>> /\ Top' = g /\ Waits' = f
           /\ /\ StartUp(todo) /\ Tail(todo) # <<>>
              /\ f.pc \in Openers \cup {"defaults"} /\ g.pc \in Openers \cup {"defaults"}
              => StartUp(todo')
<1> DEFINE q == <<f>> \o Tail(todo)
<1>1. q \in Seq(Frame) /\ q # <<>> /\ Head(q) = f /\ <<g>> \o q = <<g, f>> \o Tail(todo)
  BY Stack, TwoFrames
<1>2. StartUp(todo) /\ f.pc \in Openers \cup {"defaults"} /\ Tail(todo) # <<>> => StartUp(q)
  BY Stack, StartPop, StartPush
<1> HIDE DEF q
<1>3. todo' # <<>> /\ Top' = g /\ Waits' = f
  BY <1>1, NewTop
<1>4. StartUp(q) /\ g.pc \in Openers \cup {"defaults"} => StartUp(<<g>> \o q)
  BY <1>1, StartPush
<1> QED
  BY <1>1, <1>2, <1>3, <1>4

(* A failing call ends in a handler; that of a start-up in init_failed.    *)
LEMMA Failed ==
    ASSUME StackOK, todo # <<>>, Fail
    PROVE  /\ todo' # <<>> => Top'.pc \in {"init_failed", "gc_find"}
           /\ StartUp(todo) /\ Tail(todo) # <<>> => todo' = <<Call0("init_failed")>>
<1> DEFINE j == Min(Handlers)
<1>1. Handlers # {} => j \in 2..Len(todo) /\ todo[j].pc \in {"gc_find", "set_written", "init_done"}
  <2>1. Handlers # {} => j \in Handlers
    <3>1. Handlers \subseteq Nat
      BY DEF Handlers, StackOK
    <3> QED
      BY <3>1, MinNat
  <2> HIDE DEF j
  <2> QED
    BY <2>1 DEF Handlers
<1>2. Handlers = {} => todo' = <<>>
  BY Zenon DEF Fail
<1>3. Handlers # {} => CASE todo[j].pc = "gc_find"   -> todo' = SubSeq(todo, j, Len(todo))
                         [] todo[j].pc = "init_done" -> todo' = <<Call0("init_failed")>>
                         [] OTHER                    -> todo' = <<>>
  BY Zenon DEF Fail
<1> HIDE DEF j
<1>4. Handlers # {} /\ todo[j].pc = "gc_find" => Top'.pc = "gc_find"
  <2> SUFFICES ASSUME Handlers # {}, todo[j].pc = "gc_find" PROVE Top'.pc = "gc_find"
    OBVIOUS
  <2>1. todo' = SubSeq(todo, j, Len(todo))
    BY <1>3, Zenon
  <2>2. todo \in Seq(Frame) /\ j \in 1..Len(todo)
    BY <1>1 DEF StackOK
  <2>3. todo' \in Seq(Frame) /\ Len(todo') >= 1 /\ todo'[1] = todo[j]
    BY <2>1, <2>2, SubSeqProperties
  <2> QED
    BY <2>3 DEF Top
<1>5. Handlers # {} /\ todo[j].pc = "init_done" => todo' = <<Call0("init_failed")>>
  <2>1. "gc_find" # "init_done"
    OBVIOUS
  <2> QED
    BY <1>3, <2>1, Zenon
<1>6. Handlers # {} /\ todo[j].pc = "set_written" => todo' = <<>>
  <2>1. "gc_find" # "set_written" /\ "init_done" # "set_written"
    OBVIOUS
  <2> QED
    BY <1>3, <2>1, Zenon
<1>7. Call0("init_failed").pc = "init_failed"
  BY Frames DEF Pc
<1>8. todo' = <<Call0("init_failed")>> => Top'.pc = "init_failed"
  BY <1>7 DEF Top
<1>9. todo' # <<>> => Top'.pc \in {"init_failed", "gc_find"}
  BY <1>1, <1>2, <1>4, <1>5, <1>6, <1>8
<1>10. ASSUME StartUp(todo), Tail(todo) # <<>> PROVE todo' = <<Call0("init_failed")>>
  <2>1. todo \in Seq(Frame)
    BY DEF StackOK
  <2>2. Len(todo) \in Nat /\ Len(todo) >= 2
    <3>1. Tail(todo) \in Seq(Frame) /\ Len(Tail(todo)) = Len(todo) - 1 /\ Len(todo) \in Nat
      BY <2>1, HeadTailProperties
    <3>2. Len(Tail(todo)) # 0
      BY <1>10, <3>1
    <3> QED
      BY <3>1, <3>2
  <2>3. \A n \in 1..Len(todo) : todo[n].pc \notin {"gc_find", "set_written"}
    BY <1>10 DEF StartUp, Openers, MigPc
  <2>4. todo[Len(todo)].pc = "init_done" /\ Len(todo) \in 2..Len(todo)
    BY <1>10, <2>2 DEF StartUp
  <2>5. Handlers # {}
    BY <2>4 DEF Handlers
  <2> QED
    BY <1>1, <1>5, <2>2, <2>3, <2>5
<1> QED
  BY <1>9, <1>10

-----------------------------------------------------------------------------
(* Steps outside a recovery *)

LEMMA Sure ==
    ASSUME StackOK, Chain(todo), Two, \A s \in Sector : hdr[s].magic => hdr'[s].magic,
           \/ todo' = <<>>
           \/ \E f \in Frame : f.pc \notin Formats /\ todo' = <<f>>
           \/ todo # <<>> /\ todo' = Tail(todo)
           \/ todo # <<>> /\ \E f \in Frame : f.pc \notin Formats /\ todo' = <<f>> \o Tail(todo)
           \/ todo # <<>> /\ \E f, g \in Frame :
                 g.pc \notin Formats /\ todo' = <<g, f>> \o Tail(todo)
           \/ todo # <<>> /\ Fail
    PROVE  Headers'
<1>1. Two'
  BY Grow
<1>2. todo' # <<>> => Top'.pc \notin Formats
  <2>1. CASE todo' = <<>>
    BY <2>1
  <2>2. ASSUME NEW f \in Frame, f.pc \notin Formats, todo' = <<f>> PROVE Top'.pc \notin Formats
    BY <2>2 DEF Top
  <2>3. CASE todo # <<>> /\ todo' = Tail(todo)
    BY <2>3, Back
  <2>4. ASSUME todo # <<>>, NEW f \in Frame, f.pc \notin Formats, todo' = <<f>> \o Tail(todo)
        PROVE  Top'.pc \notin Formats
    BY <2>4, On
  <2>5. ASSUME todo # <<>>, NEW f \in Frame, NEW g \in Frame, g.pc \notin Formats,
               todo' = <<g, f>> \o Tail(todo)
        PROVE  Top'.pc \notin Formats
    BY <2>5, Into
  <2>6. CASE todo # <<>> /\ Fail
    BY <2>6, Failed DEF Formats
  <2> QED
    BY <2>1, <2>2, <2>3, <2>4, <2>5, <2>6
<1> QED
  BY <1>1, <1>2 DEF Headers

LEMMA Ripe ==
    ASSUME Headers,
           todo # <<>> => Top.pc \notin Formats \cup Openers
                            \cup {"init", "init_failed", "reb_magic", "gc_role", "gc_magic"}
    PROVE  Two
BY DEF Headers, Idle, Early, Halfway

LEMMA InitDoneSafe == IInv /\ Headers /\ InitDone => Headers'
<1> SUFFICES ASSUME IInv, Headers, InitDone PROVE Headers'
  OBVIOUS
<1>1. /\ todo # <<>> /\ Top.pc = "init_done" /\ todo' = Tail(todo) /\ hdr' = hdr
      /\ StackOK /\ Chain(todo)
  BY DEF InitDone, At, Return, flash, IInv, TInv, SInv
<1>2. Two
  BY <1>1, Ripe DEF Formats, Openers, MigPc
<1> QED
  BY <1>1, <1>2, Sure

LEMMA DefaultsSafe == IInv /\ Headers /\ Defaults => Headers'
<1> SUFFICES ASSUME IInv, Headers, Defaults PROVE Headers'
  OBVIOUS
<1> DEFINE K == {k \in Key : k > Top.i /\ ~kv[k].stored}
<1>1. /\ todo # <<>> /\ Top.pc = "defaults" /\ hdr' = hdr /\ StackOK /\ Chain(todo)
      /\ kv \in [Key -> Entry]
  BY DEF Defaults, At, flash, IInv, TInv, SInv, RestOK
<1>2. Two
  BY <1>1, Ripe DEF Formats, Openers, MigPc
<1>3. CASE K = {}
  <2>1. todo' = Tail(todo)
    BY <1>3 DEF Defaults, Return
  <2> QED
    BY <1>1, <1>2, <2>1, Sure
<1>4. CASE K # {}
  <2> DEFINE k == Min(K)
             e == [Top EXCEPT !.i = k, !.key = k, !.val = kv[k].val]
             f == [e EXCEPT !.pc = "defaults_commit"]
             g == [e EXCEPT !.pc = "put"]
  <2>1. k \in Key /\ k \in Nat
    <3>1. K \subseteq Key /\ K \subseteq Nat
      BY Ranges
    <3> QED
      BY <1>4, <3>1, MinNat
  <2>2. todo' = <<g, f>> \o Tail(todo)
    BY <1>4 DEF Defaults, Call
  <2> HIDE DEF k
  <2>3. e \in Frame
    <3>1. Top \in Frame /\ kv[k].val \in Value
      BY <1>1, <2>1, Stack DEF Entry
    <3> QED
      BY <2>1, <3>1 DEF Frame
  <2> HIDE DEF e
  <2>4. f \in Frame /\ g \in Frame /\ g.pc = "put"
    BY <2>3 DEF Frame, Pc
  <2>5. g.pc \notin Formats
    BY <2>4 DEF Formats
  <2> HIDE DEF f, g
  <2> QED
    BY <1>1, <1>2, <2>2, <2>4, <2>5, Sure
<1> QED
  BY <1>3, <1>4

LEMMA SimpleSafe ==
    ASSUME IInv, Headers, todo # <<>>, NEW l \in Pc \ Formats, NEW n \in Addr \cup {NoAddr},
           NEW s \in Sector,
           Top.pc \notin Formats \cup Openers
              \cup {"init", "init_failed", "reb_magic", "gc_role", "gc_magic"},
           \/ todo' = Tail(todo)
           \/ Stay([Top EXCEPT !.pc = l])
           \/ Stay([Top EXCEPT !.pc = l, !.s = s])
           \/ Stay([Top EXCEPT !.pc = l, !.new = n]),
           hdr' = hdr
    PROVE  Headers'
<1>1. StackOK /\ Chain(todo) /\ Top \in Frame
  BY Stack DEF IInv, TInv, SInv
<1>2. Two
  BY Ripe
<1>3. \A f : f \in {[Top EXCEPT !.pc = l], [Top EXCEPT !.pc = l, !.s = s],
                    [Top EXCEPT !.pc = l, !.new = n]}
              => f \in Frame /\ f.pc \notin Formats
  BY <1>1 DEF Frame
<1>4. todo' = Tail(todo) \/ \E f \in Frame : f.pc \notin Formats /\ todo' = <<f>> \o Tail(todo)
  BY <1>3 DEF Stay
<1> QED
  BY <1>1, <1>2, <1>4, Sure

LEMMA DefaultsCommitSafe == IInv /\ Headers /\ DefaultsCommit => Headers'
BY SimpleSafe, Sizes, Ranges DEF DefaultsCommit, At, Goto, Pc, Formats, Openers, MigPc

LEMMA SetPreDeleteSafe == IInv /\ Headers /\ SetPreDelete => Headers'
<1>1. IInv => ret \in Addr \cup {NoAddr}
  BY DEF IInv, TInv, RestOK
<1> QED
  BY <1>1, SimpleSafe, Ranges DEF SetPreDelete, At, Pc, Formats, Openers, MigPc

LEMMA SetCommitSafe == IInv /\ Headers /\ SetCommit => Headers'
BY SimpleSafe, Ranges DEF SetCommit, At, Goto, Pc, Formats, Openers, MigPc

LEMMA SetDeletedSafe == IInv /\ Headers /\ SetDeleted => Headers'
BY SimpleSafe, Ranges DEF SetDeleted, At, Return, Pc, Formats, Openers, MigPc

LEMMA PutSafe == IInv /\ Headers /\ Put => Headers'
<1> SUFFICES ASSUME IInv, Headers, Put PROVE Headers'
  OBVIOUS
<1>1. /\ todo # <<>> /\ Top.pc = "put" /\ hdr' = hdr /\ StackOK /\ Chain(todo)
      /\ Top \in Frame
  BY Stack DEF Put, At, flash, IInv, TInv, SInv
<1>2. Two
  BY <1>1, Ripe DEF Formats, Openers, MigPc
<1>3. CASE FindWritableDataSector >= 0
  <2> DEFINE f == [Top EXCEPT !.pc = "append", !.s = FindWritableDataSector]
  <2>1. todo' = <<f>> \o Tail(todo)
    BY <1>3 DEF Put, Stay
  <2>2. f \in Frame /\ f.pc \notin Formats
    <3>1. FindWritableDataSector \in Sector
      BY <1>3, FindWritable DEF IInv, TInv
    <3> QED
      BY <1>1, <3>1 DEF Frame, Pc, Formats
  <2> HIDE DEF f
  <2> QED
    BY <1>1, <1>2, <2>1, <2>2, Sure
<1>4. CASE ~(FindWritableDataSector >= 0)
  <2> DEFINE g == Call0("gc")
  <2>1. g \in Frame /\ g.pc \notin Formats
    BY Frames DEF Pc, Formats
  <2>2. todo' = <<g, Top>> \o Tail(todo)
    BY <1>4 DEF Put, Call
  <2> HIDE DEF g
  <2> QED
    BY <1>1, <1>2, <2>1, <2>2, Sure
<1> QED
  BY <1>3, <1>4

(* The magic word of the sector that was erased makes two again.           *)
LEMMA RebuildMagicSafe == IInv /\ Headers /\ RebuildMagic => Headers'
<1> SUFFICES ASSUME IInv, Headers, RebuildMagic PROVE Headers'
  OBVIOUS
<1>1. /\ todo # <<>> /\ Top.pc = "reb_magic" /\ hdr' = SetMagic(hdr, Top.s) /\ StackOK
      /\ FlashOK /\ Top \in Frame /\ todo' = <<[Top EXCEPT !.pc = "reb_role"]>> \o Tail(todo)
  BY Stack DEF RebuildMagic, At, Goto, Stay, IInv, TInv, SInv
<1>2. Top.s \in Sector
  BY <1>1 DEF Frame
<1>3. Spare(Top.s)
  BY <1>1, <1>2 DEF Headers, Formats, Idle, Early, Halfway, Openers, MigPc, Two
<1>4. \A x \in Sector : hdr'[x].magic <=> x = Top.s \/ hdr[x].magic
  BY <1>1, <1>2, MagicWord
<1>5. Two'
  BY <1>2, <1>3, <1>4 DEF Two, Spare
<1> DEFINE f == [Top EXCEPT !.pc = "reb_role"]
<1>6. f \in Frame /\ f.pc \notin Formats
  BY <1>1 DEF Frame, Pc, Formats
<1> HIDE DEF f
<1>7. Top'.pc \notin Formats
  BY <1>1, <1>6, On DEF f
<1> QED
  BY <1>5, <1>7 DEF Headers

LEMMA RebuildRoleSafe == IInv /\ Headers /\ RebuildRole => Headers'
<1> SUFFICES ASSUME IInv, Headers, RebuildRole PROVE Headers'
  OBVIOUS
<1> DEFINE r == IF Top.i = NumSectors - 1 THEN GC ELSE DATA
<1>1. /\ todo # <<>> /\ Top.pc = "reb_role" /\ hdr' = SetSectorRole(hdr, Top.s, r)
      /\ StackOK /\ Chain(todo) /\ FlashOK /\ Top \in Frame
  BY Stack DEF RebuildRole, At, IInv, TInv, SInv
<1>2. Two
  BY <1>1, Ripe DEF Formats, Openers, MigPc
<1> HIDE DEF r
<1>3. \A x \in Sector : hdr'[x].magic = hdr[x].magic
  <2>1. Top.s \in Sector
    BY <1>1 DEF Frame
  <2> QED
    BY <1>1, <2>1, HeaderWord
<1> DEFINE f == [Top EXCEPT !.pc = "reb_round", !.i = @ + 1]
<1>4. f \in Frame /\ f.pc \notin Formats
  <2>1. Top.i + 1 \in Nat
    BY <1>1 DEF Frame
  <2> QED
    BY <1>1, <2>1 DEF Frame, Pc, Formats
<1>5. todo' = Tail(todo) \/ todo' = <<f>> \o Tail(todo)
  BY DEF RebuildRole, Return, Stay
<1> HIDE DEF f
<1> QED
  BY <1>1, <1>2, <1>3, <1>4, <1>5, Sure

LEMMA GcStartSafe == IInv /\ Headers /\ GcStart => Headers'
<1> SUFFICES ASSUME IInv, Headers, GcStart PROVE Headers'
  OBVIOUS
<1> DEFINE f == [Top EXCEPT !.pc = "gc_find"]
<1>1. /\ todo # <<>> /\ Top.pc = "gc" /\ hdr' = hdr /\ StackOK /\ Chain(todo)
      /\ Top \in Frame /\ Tail(todo) \in Seq(Frame)
  BY Stack DEF GcStart, At, flash, IInv, TInv, SInv
<1>2. Two
  BY <1>1, Ripe DEF Formats, Openers, MigPc
<1>3. f \in Frame /\ f.pc = "gc_find"
  BY <1>1 DEF Frame, Pc
<1>4. CASE IsNormal
  <2>1. todo' = <<f>> \o Tail(todo)
    BY <1>4 DEF GcStart, Goto, Stay
  <2> HIDE DEF f
  <2> QED
    BY <1>1, <1>2, <1>3, <2>1, Sure DEF Formats
<1>5. CASE ~IsNormal
  <2>1. todo' = RecoverFrames \o <<f>> \o Tail(todo)
    BY <1>5 DEF GcStart
  <2> HIDE DEF f
  <2>2. Chain(<<f>> \o Tail(todo))
    BY <1>1, <1>3, ChainStay DEF Alike, MigPc, Writer, Setters
  <2>3. todo' # <<>> /\ Top' = Call0("load")
    BY <1>1, <1>3, <2>1, <2>2, ChainRecover DEF Top
  <2>4. Top'.pc \notin Formats
    BY <2>3, Frames DEF Pc, Formats
  <2>5. Two'
    BY <1>1, <1>2, Grow
  <2> QED
    BY <2>4, <2>5 DEF Headers
<1> QED
  BY <1>4, <1>5

LEMMA GcFindSafe == IInv /\ Headers /\ GcFind => Headers'
<1> SUFFICES ASSUME IInv, Headers, GcFind PROVE Headers'
  OBVIOUS
<1> PICK g : g = FindSectorRole(GC)
  OBVIOUS
<1>1. /\ todo # <<>> /\ Top.pc = "gc_find" /\ StackOK /\ Chain(todo) /\ FlashOK
      /\ Top \in Frame
  BY Stack DEF GcFind, At, IInv, TInv, SInv
<1>2. Two
  BY <1>1, Ripe DEF Formats, Openers, MigPc
<1>3. CASE g < 0
  <2>1. Fail /\ hdr' = hdr
    BY <1>3 DEF GcFind
  <2> QED
    BY <1>1, <1>2, <2>1, Sure
<1>4. CASE ~(g < 0)
  <2> DEFINE f == [Top EXCEPT !.pc = "gc_gcing", !.s = g, !.t = (g + 1) % NumSectors]
  <2>1. hdr' = SetSectorRole(hdr, g, GC_TEMP) /\ todo' = <<f>> \o Tail(todo)
    BY <1>4 DEF GcFind, Stay
  <2>2. g \in Sector
    BY <1>4, FindRole DEF IInv, TInv
  <2>3. f \in Frame /\ f.pc \notin Formats
    <3>1. (g + 1) % NumSectors \in Sector
      BY <2>2, Ranges
    <3> QED
      BY <1>1, <2>2, <3>1 DEF Frame, Pc, Formats
  <2> HIDE DEF f
  <2>4. \A x \in Sector : hdr'[x].magic = hdr[x].magic
    BY <1>1, <2>1, <2>2, HeaderWord
  <2> QED
    BY <1>1, <1>2, <2>1, <2>3, <2>4, Sure
<1> QED
  BY <1>3, <1>4

LEMMA GcMigrateSafe == IInv /\ Headers /\ GcMigrate => Headers'
<1> SUFFICES ASSUME IInv, Headers, GcMigrate PROVE Headers'
  OBVIOUS
<1> DEFINE f == [Top EXCEPT !.pc = "gc_erase"]
           g == MigrateFrame(Top.t, Top.s)
<1>1. /\ todo # <<>> /\ Top.pc = "gc_gcing" /\ hdr' = SetSectorRole(hdr, Top.t, DATA_GCING)
      /\ StackOK /\ Chain(todo) /\ FlashOK /\ Top \in Frame /\ Top.s \in Sector
      /\ Top.t \in Sector /\ todo' = <<g, f>> \o Tail(todo)
  <2>1. todo # <<>> /\ StackOK
    BY DEF GcMigrate, At, IInv, TInv
  <2>2. Top \in Frame
    BY <2>1, Stack
  <2> QED
    BY <2>1, <2>2 DEF GcMigrate, At, Call, IInv, TInv, SInv, Frame
<1>2. Two
  BY <1>1, Ripe DEF Formats, Openers, MigPc
<1>3. f \in Frame /\ g \in Frame /\ g.pc \notin Formats
  <2>1. g \in Frame
    BY <1>1, MigrateFrameType, QuietIsFrame
  <2>2. g.pc = "mig_enter"
    BY Frames DEF MigrateFrame, Pc, Frame
  <2> QED
    BY <1>1, <2>1, <2>2 DEF Frame, Pc, Formats
<1> HIDE DEF f, g
<1>4. \A x \in Sector : hdr'[x].magic = hdr[x].magic
  BY <1>1, HeaderWord
<1> QED
  BY <1>1, <1>2, <1>3, <1>4, Sure

(* An erasure takes one magic word of two, and leaves the other.           *)
LEMMA GcEraseSafe == IInv /\ Headers /\ GcErase => Headers'
<1> SUFFICES ASSUME IInv, Headers, GcErase PROVE Headers'
  OBVIOUS
<1> PICK t : t = Top.t
  OBVIOUS
<1> DEFINE f == [Top EXCEPT !.pc = "gc_role"]
<1>1. /\ todo # <<>> /\ Top.pc = "gc_erase" /\ EraseSector(t)
      /\ StackOK /\ FlashOK /\ Top \in Frame /\ todo' = <<f>> \o Tail(todo)
  BY Stack DEF GcErase, At, Goto, Stay, IInv, TInv
<1>2. t \in Sector
  BY <1>1 DEF Frame
<1>3. Two
  BY <1>1, Ripe DEF Formats, Openers, MigPc
<1>4. Spare(t)'
  BY <1>1, <1>2, <1>3, Erasure DEF Two
<1>5. f \in Frame /\ f.pc = "gc_role" /\ f.t = t
  BY <1>1 DEF Frame, Pc
<1> HIDE DEF f
<1>6. todo' # <<>> /\ Top' = f
  BY <1>1, <1>5, On
<1>7. Halfway'
  BY <1>4, <1>5, <1>6 DEF Halfway
<1> QED
  BY <1>5, <1>6, <1>7 DEF Headers, Formats

LEMMA HalfwayGc ==
    ASSUME IInv, Headers, todo # <<>>, Top.pc \in {"gc_role", "gc_magic"}
    PROVE  Spare(Top.t)
<1>1. Top.t \in Sector
  BY Stack DEF IInv, TInv, Frame
<1> QED
  BY <1>1 DEF Headers, Formats, Idle, Early, Halfway, Openers, MigPc, Two

LEMMA GcRoleSafe == IInv /\ Headers /\ GcRole => Headers'
<1> SUFFICES ASSUME IInv, Headers, GcRole PROVE Headers'
  OBVIOUS
<1> PICK t : t = Top.t
  OBVIOUS
<1> DEFINE f == [Top EXCEPT !.pc = "gc_magic"]
<1>1. /\ todo # <<>> /\ Top.pc = "gc_role" /\ hdr' = SetSectorRole(hdr, t, GC)
      /\ StackOK /\ FlashOK /\ Top \in Frame /\ todo' = <<f>> \o Tail(todo)
  BY Stack DEF GcRole, At, Goto, Stay, IInv, TInv
<1>2. t \in Sector
  BY <1>1 DEF Frame
<1>3. Spare(t)'
  <2>1. Spare(t)
    BY <1>1, HalfwayGc
  <2> QED
    BY <1>1, <1>2, <2>1, HeaderWord, Grow
<1>4. f \in Frame /\ f.pc = "gc_magic" /\ f.t = t
  BY <1>1 DEF Frame, Pc
<1> HIDE DEF f
<1>5. todo' # <<>> /\ Top' = f
  BY <1>1, <1>4, On
<1>6. Halfway'
  BY <1>3, <1>4, <1>5 DEF Halfway
<1> QED
  BY <1>4, <1>5, <1>6 DEF Headers, Formats

LEMMA GcMagicSafe == IInv /\ Headers /\ GcMagic => Headers'
<1> SUFFICES ASSUME IInv, Headers, GcMagic PROVE Headers'
  OBVIOUS
<1> PICK t : t = Top.t
  OBVIOUS
<1> DEFINE f == [Top EXCEPT !.pc = "gc_data"]
<1>1. /\ todo # <<>> /\ Top.pc = "gc_magic" /\ hdr' = SetMagic(hdr, t)
      /\ StackOK /\ FlashOK /\ Top \in Frame /\ todo' = <<f>> \o Tail(todo)
  BY Stack DEF GcMagic, At, Goto, Stay, IInv, TInv
<1>2. t \in Sector
  BY <1>1 DEF Frame
<1>3. Spare(t)
  BY <1>1, HalfwayGc
<1>4. \A x \in Sector : hdr'[x].magic <=> x = t \/ hdr[x].magic
  BY <1>1, <1>2, MagicWord
<1>5. Two'
  BY <1>2, <1>3, <1>4 DEF Two, Spare
<1>6. f \in Frame /\ f.pc = "gc_data"
  BY <1>1 DEF Frame, Pc
<1> HIDE DEF f
<1>7. Top'.pc \notin Formats
  BY <1>1, <1>6, On DEF Formats
<1> QED
  BY <1>5, <1>7 DEF Headers

LEMMA GcDataSafe == IInv /\ Headers /\ GcData => Headers'
<1> SUFFICES ASSUME IInv, Headers, GcData PROVE Headers'
  OBVIOUS
<1>1. /\ todo # <<>> /\ Top.pc = "gc_data" /\ hdr' = SetSectorRole(hdr, Top.s, DATA)
      /\ StackOK /\ Chain(todo) /\ FlashOK /\ Top \in Frame /\ todo' = Tail(todo)
  BY Stack DEF GcData, At, Return, IInv, TInv, SInv
<1>2. Two
  BY <1>1, Ripe DEF Formats, Openers, MigPc
<1>3. Top.s \in Sector
  BY <1>1 DEF Frame
<1>4. \A x \in Sector : hdr'[x].magic = hdr[x].magic
  BY <1>1, <1>3, HeaderWord
<1> QED
  BY <1>1, <1>2, <1>4, Sure

(* The API, while no call is in progress.                                  *)
LEMMA ReadySafe ==
    ASSUME IInv, Headers, Ready, hdr' = hdr,
           \/ todo' = <<>>
           \/ \E f \in Frame : f.pc \notin Formats /\ todo' = <<f>>
           \/ \E f, g \in Frame : g.pc \notin Formats /\ todo' = <<g, f>>
    PROVE  Headers'
<1>1. Two'
  BY Grow DEF Headers, Ready
<1>2. todo' # <<>> => Top'.pc \notin Formats
  BY DEF Top
<1> QED
  BY <1>1, <1>2 DEF Headers

LEMMA UpdateSafe == IInv /\ Headers /\ Update => Headers'
<1> SUFFICES ASSUME IInv, Headers, NEW k \in Key, Get(k) \/ \E v \in Value : Set(k, v)
             PROVE  Headers'
  BY DEF Update
<1>1. CASE Get(k)
  BY <1>1, ReadySafe DEF Get, Ready, flash
<1>2. ASSUME NEW v \in Value, Set(k, v) PROVE Headers'
  <2> DEFINE f == [Call0("set_written") EXCEPT !.key = k, !.val = v]
             g == [f EXCEPT !.pc = "put"]
  <2>1. f \in Frame
    <3>1. Call0("set_written") \in Frame
      BY Frames DEF Pc
    <3> QED
      BY <3>1 DEF Frame
  <2>2. g \in Frame /\ g.pc \notin Formats
    <3> HIDE DEF f
    <3> QED
      BY <2>1 DEF Frame, Pc, Formats
  <2>3. todo' = todo \/ todo' = <<g, f>>
    BY <1>2 DEF Set
  <2>4. Ready /\ hdr' = hdr
    BY <1>2 DEF Set, flash
  <2> HIDE DEF f, g
  <2> QED
    BY <2>1, <2>2, <2>3, <2>4, ReadySafe DEF Ready
<1> QED
  BY <1>1, <1>2

LEMMA DeleteSafe == \A k \in Key : IInv /\ Headers /\ Delete(k) => Headers'
<1>1. Call0("hung") \in Frame /\ Call0("hung").pc \notin Formats
  BY Frames DEF Pc, Formats
<1> QED
  BY <1>1, ReadySafe DEF Delete, Ready

LEMMA CollectSafe == IInv /\ Headers /\ Collect => Headers'
<1>1. Call0("gc") \in Frame /\ Call0("gc").pc \notin Formats
  BY Frames DEF Pc, Formats
<1> QED
  BY <1>1, ReadySafe DEF Collect, Ready, flash

-----------------------------------------------------------------------------
(* Start-up: formatting *)

LEMMA FormatEraseSafe == IInv /\ Headers /\ FormatErase => Headers'
<1> SUFFICES ASSUME IInv, Headers, FormatErase PROVE Headers'
  OBVIOUS
<1> PICK s : s = Top.s
  OBVIOUS
<1> DEFINE f == [Top EXCEPT !.pc = "format_role"]
<1>1. /\ todo # <<>> /\ Top.pc = "format" /\ EraseSector(s)
      /\ StackOK /\ FlashOK /\ DescOK /\ Top \in Frame /\ todo' = <<f>> \o Tail(todo)
  BY Stack DEF FormatErase, At, Goto, Stay, IInv, TInv
<1>2. s \in Sector
  BY <1>1 DEF Frame
<1>3. Blank
  BY <1>1 DEF Headers, Formats
<1>4. f \in Frame /\ f.pc = "format_role" /\ f.s = s
  BY <1>1 DEF Frame, Pc
<1> HIDE DEF f
<1>5. todo' # <<>> /\ Top' = f
  BY <1>1, <1>4, On
<1>6. NoneLive'
  <2>1. \A x \in Sector : \A j \in Visible :
          slot'[x][j] = IF x = s THEN Erased ELSE slot[x][j]
    BY <1>1, <1>2, EraseIs, SeenIs
  <2> QED
    BY <1>3, <2>1, Statuses DEF Blank, NoneLive, LiveSeen
<1>7. \A x \in Sector : x < s => hdr'[x].magic
  <2>1. \A x \in Sector : x < s => x # s
    BY <1>2, Ranges
  <2> QED
    BY <1>1, <1>2, <1>3, <2>1, Erasure DEF Blank
<1> QED
  BY <1>4, <1>5, <1>6, <1>7 DEF Headers, Formats, Blank

LEMMA FormatRoleSafe == IInv /\ Headers /\ FormatRole => Headers'
<1> SUFFICES ASSUME IInv, Headers, FormatRole PROVE Headers'
  OBVIOUS
<1> PICK s : s = Top.s
  OBVIOUS
<1> DEFINE f == [Top EXCEPT !.pc = "format_magic"]
           r == IF s = NumSectors - 1 THEN GC ELSE DATA
<1>1. /\ todo # <<>> /\ Top.pc = "format_role" /\ slot' = slot /\ hdr' = SetSectorRole(hdr, s, r)
      /\ StackOK /\ FlashOK /\ Top \in Frame /\ todo' = <<f>> \o Tail(todo)
  BY Stack DEF FormatRole, At, Goto, Stay, IInv, TInv
<1> HIDE DEF r
<1>2. s \in Sector
  BY <1>1 DEF Frame
<1>3. Blank
  BY <1>1 DEF Headers, Formats
<1>4. f \in Frame /\ f.pc = "format_magic" /\ f.s = s
  BY <1>1 DEF Frame, Pc
<1> HIDE DEF f
<1>5. todo' # <<>> /\ Top' = f
  BY <1>1, <1>4, On
<1>6. \A x \in Sector : hdr'[x].magic = hdr[x].magic
  BY <1>1, <1>2, HeaderWord
<1>7. Blank'
  BY <1>1, <1>3, <1>4, <1>5, <1>6 DEF Blank, NoneLive, LiveSeen
<1> QED
  BY <1>4, <1>5, <1>7 DEF Headers, Formats

(* Once every sector has its magic word the flash is no longer blank.      *)
LEMMA FormatMagicSafe == IInv /\ Headers /\ FormatMagic => Headers'
<1> SUFFICES ASSUME IInv, Headers, FormatMagic PROVE Headers'
  OBVIOUS
<1> PICK s : s = Top.s
  OBVIOUS
<1>1. /\ todo # <<>> /\ Top.pc = "format_magic" /\ slot' = slot /\ hdr' = SetMagic(hdr, s)
      /\ StackOK /\ FlashOK /\ Chain(todo) /\ Top \in Frame
  BY Stack DEF FormatMagic, At, IInv, TInv, SInv
<1>2. s \in Sector /\ s \in Nat
  BY <1>1, Ranges DEF Frame
<1>3. Blank
  BY <1>1 DEF Headers, Formats
<1>4. \A x \in Sector : hdr'[x].magic <=> x = s \/ hdr[x].magic
  BY <1>1, <1>2, MagicWord
<1>5. \A x \in Sector : x <= s => hdr'[x].magic
  <2>1. \A x \in Sector : x <= s => x < s \/ x = s
    BY <1>2, Ranges
  <2> QED
    BY <1>3, <1>4, <2>1 DEF Blank
<1>6. CASE s + 1 \in Sector
  <2> DEFINE f == [Top EXCEPT !.s = @ + 1, !.pc = "format"]
  <2>1. todo' = <<f>> \o Tail(todo)
    BY <1>6 DEF FormatMagic, Stay
  <2>2. f \in Frame /\ f.pc = "format" /\ f.s = s + 1
    BY <1>1, <1>6 DEF Frame, Pc
  <2> HIDE DEF f
  <2>3. todo' # <<>> /\ Top' = f
    BY <1>1, <2>1, <2>2, On
  <2>4. \A x \in Sector : x < s + 1 => x <= s
    BY <1>2, Ranges
  <2>5. Blank'
    BY <1>1, <1>3, <1>5, <2>2, <2>3, <2>4 DEF Blank, NoneLive, LiveSeen
  <2> QED
    BY <2>2, <2>3, <2>5 DEF Headers, Formats
<1>7. CASE s + 1 \notin Sector
  <2>1. todo' = Tail(todo)
    BY <1>7 DEF FormatMagic, Return
  <2>2. todo' # <<>> => Top'.pc \notin Formats
    BY <1>1, <2>1, Back
  <2>3. \A x \in Sector : hdr'[x].magic
    <3>1. \A x \in Sector : x <= s
      BY <1>2, <1>7, Sizes DEF Sector
    <3> QED
      BY <1>5, <3>1
  <2>4. \A x \in Sector : \E y \in Sector : y # x
    BY Sizes DEF Sector
  <2>5. Two'
    BY <2>3, <2>4 DEF Two, Spare
  <2> QED
    BY <2>2, <2>5 DEF Headers
<1> QED
  BY <1>6, <1>7

-----------------------------------------------------------------------------
(* Start-up: power cuts and the classification of the flash *)

LEMMA SomeOrNone ==
    ASSUME IInv, Headers
    PROVE  SomeMagic \/ NoneLive
<1>1. CASE Halfway /\ todo # <<>>
  <2>1. Top.s \in Sector /\ Top.t \in Sector
    BY <1>1, Stack DEF IInv, TInv, Frame
  <2> QED
    BY <1>1, <2>1, Magics DEF Halfway
<1> QED
  BY <1>1, Magics DEF Headers, Blank, Idle, Early

LEMMA PowerCutSafe == IInv /\ Headers /\ PowerCut => Headers'
<1> SUFFICES ASSUME IInv, Headers, PowerCut PROVE Headers'
  OBVIOUS
<1>1. todo' = <<Call0("init")>> /\ hdr' = hdr
  BY DEF PowerCut
<1>2. todo' # <<>> /\ Top'.pc = "init"
  BY <1>1, Frames DEF Pc, Top
<1>3. NoneLive => NoneLive'
  <2>1. CASE slot' = slot
    BY <2>1 DEF NoneLive, LiveSeen
  <2>2. CASE At("append") /\ slot' = PutRecord(slot, <<Top.s, used[Top.s] + 1>>, Torn)
    <3>1. todo # <<>> /\ StackOK /\ FlashOK /\ DescOK /\ used[Top.s] < Slots
      BY <2>2 DEF IInv, TInv, Room, At
    <3>2. Top.s \in Sector
      BY <3>1, Stack DEF Frame
    <3>3. <<Top.s, used[Top.s] + 1>> \in Addr
      <4>1. used[Top.s] \in 0..Slots
        BY <3>1, <3>2 DEF DescOK
      <4> QED
        BY <3>1, <3>2, <4>1, Sizes DEF Addr, Slot
    <3>4. Torn \in Record /\ ~IsLive(Torn)
      BY Records DEF Torn, IsLive
    <3>5. \A x \in Sector : \A j \in Visible : slot'[x][j] = slot[x][j] \/ slot'[x][j] = Torn
      BY <2>2, <3>1, <3>3, <3>4, RecordWrite, SeenIs
    <3> QED
      BY <3>4, <3>5 DEF NoneLive, LiveSeen
  <2> QED
    BY <2>1, <2>2 DEF PowerCut
<1>4. SomeMagic' \/ NoneLive'
  BY <1>1, <1>3, SomeOrNone DEF SomeMagic
<1> QED
  BY <1>2, <1>4 DEF Headers, Idle, Formats

(* The flash is formatted only when it was blank.                          *)
LEMMA InitClassifySafe == IInv /\ Headers /\ InitClassify => Headers'
<1> SUFFICES ASSUME IInv, Headers, InitClassify PROVE Headers'
  OBVIOUS
<1>1. todo # <<>> /\ Top.pc = "init" /\ hdr' = hdr /\ slot' = slot
  BY DEF InitClassify, At, flash
<1>2. \A l \in {"load", "defaults", "rebuild", "format", "init_done"} :
        Call0(l) \in Frame /\ Call0(l).pc = l /\ Call0(l).s = 0 /\ Call0(l).i = 0
  BY Frames DEF Pc, Call0
<1>3. CASE IsNormal
  <2> DEFINE r == <<Call0("load"), Call0("defaults")>>
             d == <<Call0("init_done")>>
  <2>0. ~IsFirstPowerOn
    BY <1>3, Ranges DEF IsNormal, IsFirstPowerOn
  <2>1. todo' = r \o d
    BY <1>3, <2>0, Zenon DEF InitClassify
  <2>2. Top'.pc = "load"
    BY <1>2, <2>1 DEF Top
  <2>3. \A x \in Sector : \E y \in Sector : y # x
    BY Sizes DEF Sector
  <2>4. Two'
    BY <1>1, <1>3, <2>3 DEF IsNormal, Two, Spare
  <2> QED
    BY <2>2, <2>4 DEF Headers, Formats
<1>4. CASE ~IsNormal /\ IsFirstPowerOn
  <2>1. todo' = <<Call0("format"), Call0("defaults"), Call0("load")>> \o <<Call0("init_done")>>
    BY <1>4, Zenon DEF InitClassify
  <2>2. todo' # <<>> /\ Top' = Call0("format")
    BY <1>2, <2>1 DEF Top
  <2>3. NoneLive
    BY <1>4, SomeOrNone DEF IsFirstPowerOn, SomeMagic
  <2>4. \A x \in Sector : ~(x < 0)
    BY Ranges
  <2>5. Blank'
    BY <1>1, <1>2, <2>2, <2>3, <2>4 DEF Blank, NoneLive, LiveSeen
  <2> QED
    BY <1>2, <2>2, <2>5 DEF Headers, Formats
<1>5. CASE ~IsNormal /\ ~IsFirstPowerOn
  <2>1. todo' = RecoverFrames \o <<Call0("init_done")>>
    BY <1>5, Zenon DEF InitClassify
  <2> DEFINE r == RecoverFrames
             d == <<Call0("init_done")>>
             c == r \o d
  <2>2. todo' = c
    BY <2>1
  <2>3. /\ c \in Seq(Frame) /\ Len(c) = 5 /\ c[1] = Call0("load") /\ c[2] = Call0("rebuild")
        /\ c[3] = Call0("load") /\ c[4] = Call0("defaults") /\ c[5] = Call0("init_done")
    <3>1. /\ r \in Seq(Frame) /\ Len(r) = 4 /\ r[1] = Call0("load") /\ r[2] = Call0("rebuild")
          /\ r[3] = Call0("load") /\ r[4] = Call0("defaults")
      BY <1>2 DEF RecoverFrames
    <3>2. d \in Seq(Frame) /\ Len(d) = 1 /\ d[1] = Call0("init_done")
      BY <1>2
    <3>0. c = r \o d
      OBVIOUS
    <3> HIDE DEF r, d, c
    <3>3. /\ c \in Seq(Frame) /\ Len(c) = Len(r) + Len(d)
          /\ \A i \in 1..Len(r) : c[i] = r[i]
          /\ \A i \in 1..Len(d) : c[Len(r) + i] = d[i]
      <4>1. r \in Seq(Frame) /\ d \in Seq(Frame)
        BY <3>1, <3>2
      <4> QED
        BY <3>0, <4>1, Joined
    <3> QED
      BY <3>1, <3>2, <3>3
  <2> HIDE DEF r, d, c
  <2>4. todo' # <<>> /\ Top' = Call0("load") /\ Waits' = Call0("rebuild")
    <3>1. Head(c) = c[1] /\ Tail(c) \in Seq(Frame) /\ Len(Tail(c)) = 4 /\ Tail(c)[1] = c[2]
          /\ c # <<>>
      BY <2>3
    <3>2. Head(Tail(c)) = Tail(c)[1]
      BY <3>1
    <3> QED
      BY <2>2, <2>3, <3>1, <3>2 DEF Top, Waits
  <2>5. StartUp(c)
    BY <1>2, <2>3 DEF StartUp, Openers
  <2>6. SomeMagic'
    BY <1>1, <1>5 DEF IsFirstPowerOn, SomeMagic
  <2>7. \A x \in Sector : ~(x < 0)
    BY Ranges
  <2>8. Early'
    BY <1>2, <2>2, <2>4, <2>5, <2>6, <2>7 DEF Early, Openers, MigPc
  <2> QED
    BY <1>2, <2>4, <2>8 DEF Headers, Formats
<1> QED
  BY <1>3, <1>4, <1>5

-----------------------------------------------------------------------------
(* Start-up: recovery, until it has erased a sector *)

LEMMA Opened ==
    ASSUME IInv, Headers, todo # <<>>, Top.pc \in Openers
    PROVE  Two \/ Early
BY DEF Headers, Idle, Halfway, Openers, Formats, MigPc

LEMMA EarlyTail ==
    ASSUME IInv, todo # <<>>, Early
    PROVE  /\ Tail(todo) # <<>> /\ Waits \in Frame
           /\ StartUp(Tail(todo)) /\ Waits.pc \in Openers \cup {"defaults", "init_done"}
<1>1. StackOK /\ StartUp(todo) /\ Top.pc # "init_done"
  BY DEF IInv, TInv, Early, Openers, MigPc
<1> QED
  BY <1>1, StartPop, Stack

(* The sector scanned has a free slot: a scan does not see them all.       *)
LEMMA ScanLeaves == \A s : Cardinality(Scanned(s)) < Slots
<1> SUFFICES ASSUME NEW s PROVE Cardinality(Scanned(s)) < Slots
  OBVIOUS
<1>1. Scanned(s) \subseteq 1..(Slots - 1)
  BY DEF Scanned, Visible
<1>2. IsFiniteSet(1..(Slots - 1)) /\ Cardinality(1..(Slots - 1)) = Slots - 1
  BY Sizes, FS_Interval
<1>3. Cardinality(Scanned(s)) <= Slots - 1
  <2>1. Cardinality(Scanned(s)) <= Cardinality(1..(Slots - 1))
    BY <1>1, <1>2, FS_Subset
  <2> QED
    BY <1>2, <2>1
<1>4. Cardinality(Scanned(s)) \in Nat
  BY ScanCount, Sizes
<1> QED
  BY Sizes, <1>3, <1>4

LEMMA LoadSectorSafe == IInv /\ Headers /\ LoadSector => Headers'
<1> SUFFICES ASSUME IInv, Headers, LoadSector PROVE Headers'
  OBVIOUS
<1> PICK s : s = Top.s
  OBVIOUS
<1>1. /\ todo # <<>> /\ Top.pc = "load" /\ StackOK /\ Chain(todo) /\ FlashOK /\ DescOK
      /\ Top \in Frame /\ used' = [used EXCEPT ![s] = Cardinality(Scanned(s))]
  BY Stack DEF LoadSector, At, IInv, TInv, SInv
<1>2. s \in Sector /\ s \in Nat
  BY <1>1, Ranges DEF Frame
<1>3. \A x \in Sector : hdr'[x].magic = hdr[x].magic
  <2>1. hdr' = hdr \/ \E st : hdr' = SetSectorStatus(hdr, s, st)
    BY DEF LoadSector
  <2> QED
    BY <1>1, <1>2, <2>1, HeaderWord
<1> DEFINE f == [Top EXCEPT !.s = s + 1]
<1>4. \/ s + 1 \in Sector /\ todo' = <<f>> \o Tail(todo)
      \/ s + 1 \notin Sector /\ todo' = Tail(todo)
  BY DEF LoadSector, Stay, Return
<1>5. s + 1 \in Sector => f \in Frame /\ f.pc = "load" /\ f.s = s + 1
  BY <1>1 DEF Frame
<1> HIDE DEF f
<1>6. CASE Two
  BY <1>1, <1>3, <1>4, <1>5, <1>6, Sure DEF Formats
<1>7. CASE Early
  <2>1. \A x \in Sector : x <= s => used'[x] < Slots
    <3>1. \A x \in Sector : x < s => used[x] < Slots
      BY <1>1, <1>7 DEF Early
    <3>2. \A x \in Sector : x <= s => x < s \/ x = s
      BY <1>2, Ranges
    <3> QED
      BY <1>1, <1>2, <3>1, <3>2, ScanLeaves DEF DescOK
  <2>2. SomeMagic' /\ Waits.pc = "rebuild" /\ Waits.i = 0
    BY <1>1, <1>3, <1>7, Grow DEF Early
  <2>3. Tail(todo) # <<>> /\ StartUp(Tail(todo)) /\ StartUp(todo)
    BY <1>1, <1>7, EarlyTail DEF Early
  <2>4. CASE s + 1 \in Sector
    <3>1. StartUp(todo') /\ todo' # <<>> /\ Top' = f /\ Waits' = Waits
      BY <1>1, <1>4, <1>5, <2>3, <2>4, On DEF Openers
    <3>2. \A x \in Sector : x < s + 1 => x <= s
      BY <1>2, Ranges
    <3>3. Early'
      BY <1>5, <2>1, <2>2, <2>4, <3>1, <3>2 DEF Early, Openers, MigPc
    <3> QED
      BY <1>5, <2>4, <3>1, <3>3 DEF Headers, Formats
  <2>5. CASE s + 1 \notin Sector
    <3>1. todo' = Tail(todo) /\ todo' # <<>> /\ Top' = Waits
      BY <1>4, <2>3, <2>5 DEF Top, Waits
    <3>2. \A x \in Sector : x <= s
      BY <1>2, <2>5, Sizes DEF Sector
    <3>3. Early'
      BY <2>1, <2>2, <2>3, <3>1, <3>2 DEF Early, Openers, MigPc
    <3> QED
      BY <2>2, <3>1, <3>3 DEF Headers, Formats
  <2> QED
    BY <2>4, <2>5
<1> QED
  BY <1>1, <1>6, <1>7, Opened DEF Openers

(* Rebuilding starts at a sector that has its magic word.                  *)
LEMMA RebuildStartSafe == IInv /\ Headers /\ RebuildStart => Headers'
<1> SUFFICES ASSUME IInv, Headers, RebuildStart PROVE Headers'
  OBVIOUS
<1>0. \A x \in Sector : used[x] \in Nat
  <2>1. \A x \in Sector : used[x] \in 0..Slots
    BY DEF IInv, TInv, DescOK
  <2> QED
    BY <2>1, Sizes
<1> DEFINE V == {s \in Sector : hdr[s].magic}
           E == {s \in V : used[s] < Slots /\ \A x \in V : used[s] <= used[x]}
           m == IF E = {} THEN 0 ELSE Min(E)
<1>1. /\ todo # <<>> /\ Top.pc = "rebuild" /\ hdr' = hdr /\ slot' = slot
      /\ StackOK /\ Chain(todo) /\ DescOK /\ Top \in Frame
      /\ todo' = <<[Top EXCEPT !.pc = "reb_round", !.s = m]>> \o Tail(todo)
  BY Stack DEF RebuildStart, At, Stay, flash, IInv, TInv, SInv
<1>2. E # {} => m \in E
  <2>1. E \subseteq Nat
    BY Ranges
  <2> QED
    BY <2>1, MinNat
<1>3. m \in Sector
  BY <1>2, Ranges
<1>4. SomeMagic /\ (\A x \in Sector : used[x] < Slots) => E # {}
  <2> SUFFICES ASSUME SomeMagic, \A x \in Sector : used[x] < Slots PROVE E # {}
    OBVIOUS
  <2> DEFINE U == {used[x] : x \in V}
  <2>1. V # {} /\ U # {}
    BY DEF SomeMagic
  <2>2. U \subseteq Nat
    BY <1>0
  <2>3. Min(U) \in U /\ \A y \in U : Min(U) <= y
    BY <2>1, <2>2, MinNat
  <2>4. PICK s \in V : used[s] = Min(U)
    BY <2>3
  <2>5. \A x \in V : used[s] <= used[x]
    BY <2>3, <2>4
  <2> QED
    BY <2>4, <2>5
<1> HIDE DEF m
<1> DEFINE f == [Top EXCEPT !.pc = "reb_round", !.s = m]
<1>5. f \in Frame /\ f.pc = "reb_round" /\ f.s = m /\ f.i = Top.i
  BY <1>1, <1>3 DEF Frame, Pc
<1>6. todo' = <<f>> \o Tail(todo)
  BY <1>1
<1> HIDE DEF f
<1>7. CASE Two
  BY <1>1, <1>5, <1>6, <1>7, Sure DEF Formats
<1>8. CASE Early
  <2>1. SomeMagic /\ Top.i = 0 /\ (\A x \in Sector : used[x] < Slots) /\ StartUp(todo)
    BY <1>1, <1>8 DEF Early
  <2>2. hdr[m].magic
    BY <1>2, <1>4, <2>1
  <2>3. StartUp(todo') /\ todo' # <<>> /\ Top' = f
    BY <1>1, <1>5, <1>6, <1>8, <2>1, EarlyTail, On DEF Openers
  <2>4. Early'
    BY <1>1, <1>5, <2>1, <2>2, <2>3 DEF Early, Openers, MigPc, SomeMagic
  <2> QED
    BY <1>5, <2>3, <2>4 DEF Headers, Formats
<1> QED
  BY <1>1, <1>7, <1>8, Opened DEF Openers

(* The first sector to be moved and erased is not the one it moves to.     *)
LEMMA RebuildRoundSafe == IInv /\ Headers /\ RebuildRound => Headers'
<1> SUFFICES ASSUME IInv, Headers, RebuildRound PROVE Headers'
  OBVIOUS
<1> DEFINE n == (Top.s + Top.i + 1) % NumSectors
           f == [Top EXCEPT !.pc = "reb_erase", !.s = n]
           g == MigrateFrame(n, Top.s)
<1>1. /\ todo # <<>> /\ Top.pc = "reb_round" /\ hdr' = hdr /\ StackOK /\ Chain(todo)
      /\ Top \in Frame /\ todo' = <<g, f>> \o Tail(todo)
  BY Stack DEF RebuildRound, At, Call, flash, IInv, TInv, SInv
<1>2. Top.s \in Sector /\ Top.s \in Nat /\ Top.i \in Nat
  BY <1>1, Ranges DEF Frame
<1>3. n \in Sector
  <2>1. Top.s + Top.i + 1 \in Nat
    BY <1>2
  <2> QED
    BY <2>1, Ranges
<1>4. Top.i = 0 => n # Top.s
  <2> SUFFICES ASSUME Top.i = 0 PROVE n # Top.s
    OBVIOUS
  <2>1. n = (Top.s + 1) % NumSectors
    BY <1>2
  <2>2. CASE Top.s + 1 = NumSectors
    <3>1. n = 0 /\ Top.s # 0
      BY <2>1, <2>2, Sizes
    <3> QED
      BY <3>1
  <2>3. CASE Top.s + 1 < NumSectors
    BY <1>2, <2>1, <2>3, Sizes
  <2> QED
    BY <1>2, <2>2, <2>3, Sizes DEF Sector
<1> HIDE DEF n
<1>5. /\ f \in Frame /\ f.pc = "reb_erase"
      /\ g \in Frame /\ g.pc = "mig_enter" /\ g.s = n
  <2>1. g \in Frame
    BY <1>2, <1>3, MigrateFrameType, QuietIsFrame
  <2>2. g.pc = "mig_enter" /\ g.s = n
    BY DEF MigrateFrame, Call0
  <2> QED
    BY <1>1, <1>3, <2>1, <2>2 DEF Frame, Pc
<1> HIDE DEF f, g
<1>6. CASE Two
  BY <1>1, <1>5, <1>6, Sure DEF Formats
<1>7. CASE Early
  <2>1. SomeMagic /\ Top.i = 0 /\ hdr[Top.s].magic /\ StartUp(todo)
    BY <1>1, <1>7 DEF Early
  <2> PICK c, d, m : c = f /\ d = g /\ m = n
    OBVIOUS
  <2>2. Spare(m)
    BY <1>2, <1>4, <2>1 DEF Spare
  <2>3. StartUp(todo') /\ todo' # <<>> /\ Top' = d /\ Waits' = c
    BY <1>1, <1>5, <1>7, <2>1, EarlyTail, Into DEF Openers, MigPc
  <2>4. SomeMagic' /\ Spare(m)'
    BY <1>1, <1>3, <2>1, <2>2, Grow
  <2>5. Early'
    BY <1>5, <2>3, <2>4 DEF Early, Openers, MigPc
  <2> QED
    BY <1>5, <2>3, <2>5 DEF Headers, Formats
<1> QED
  BY <1>1, <1>6, <1>7, Opened DEF Openers

LEMMA RebuildEraseSafe == IInv /\ Headers /\ RebuildErase => Headers'
<1> SUFFICES ASSUME IInv, Headers, RebuildErase PROVE Headers'
  OBVIOUS
<1> PICK s : s = Top.s
  OBVIOUS
<1> DEFINE f == [Top EXCEPT !.pc = "reb_magic"]
<1>1. /\ todo # <<>> /\ Top.pc = "reb_erase" /\ EraseSector(s)
      /\ StackOK /\ FlashOK /\ Top \in Frame /\ todo' = <<f>> \o Tail(todo)
  BY Stack DEF RebuildErase, At, Goto, Stay, IInv, TInv
<1>2. s \in Sector
  BY <1>1 DEF Frame
<1>3. Spare(s)
  <2>1. Two \/ Early
    BY <1>1, Opened DEF Openers
  <2> QED
    BY <1>1, <1>2, <2>1 DEF Two, Early
<1>4. Spare(s)'
  BY <1>1, <1>2, <1>3, Erasure
<1>5. f \in Frame /\ f.pc = "reb_magic" /\ f.s = s
  BY <1>1 DEF Frame, Pc
<1> HIDE DEF f
<1>6. todo' # <<>> /\ Top' = f
  BY <1>1, <1>5, On
<1>7. Halfway'
  BY <1>4, <1>5, <1>6 DEF Halfway
<1> QED
  BY <1>5, <1>6, <1>7 DEF Headers, Formats

(* A migration goes on with the same sector.                               *)
LEMMA MigrationSafe ==
    ASSUME IInv, Headers, todo # <<>>, Top.pc \in MigPc, hdr' = hdr,
           NEW f \in Frame, f.pc \in MigPc, f.s = Top.s, todo' = <<f>> \o Tail(todo)
    PROVE  Headers'
<1>1. StackOK /\ Chain(todo)
  BY DEF IInv, TInv, SInv
<1>2. f.pc \notin Formats
  BY DEF MigPc, Formats
<1>3. CASE Two
  BY <1>1, <1>2, <1>3, Sure
<1>4. CASE Early
  <2>1. SomeMagic /\ Spare(f.s) /\ StartUp(todo)
    BY <1>4 DEF Early
  <2>2. StartUp(todo') /\ todo' # <<>> /\ Top' = f
    BY <1>1, <1>4, <2>1, EarlyTail, On DEF Openers
  <2>3. SomeMagic' /\ Spare(f.s)'
    <3>1. f.s \in Sector
      BY DEF Frame
    <3> QED
      BY <2>1, <3>1, Grow
  <2>4. Early'
    BY <2>2, <2>3 DEF Early, Openers, MigPc
  <2> QED
    BY <1>2, <2>2, <2>4 DEF Headers
<1> QED
  BY <1>3, <1>4, Opened DEF Openers

LEMMA FailSafe ==
    ASSUME IInv, Headers, todo # <<>>, Top.pc \in MigPc, hdr' = hdr, Fail
    PROVE  Headers'
<1>1. StackOK /\ Chain(todo)
  BY DEF IInv, TInv, SInv
<1>2. CASE Two
  BY <1>1, <1>2, Sure
<1>3. CASE Early
  <2>1. todo' = <<Call0("init_failed")>> /\ SomeMagic
    BY <1>1, <1>3, EarlyTail, Failed DEF Early
  <2>2. todo' # <<>> /\ Top'.pc = "init_failed" /\ SomeMagic'
    BY <2>1, Frames DEF Top, Pc, SomeMagic
  <2> QED
    BY <2>2 DEF Headers, Idle, Formats
<1> QED
  BY <1>2, <1>3, Opened DEF Openers

LEMMA MigrateEnterSafe == IInv /\ Headers /\ MigrateEnter => Headers'
<1> SUFFICES ASSUME IInv, Headers, MigrateEnter PROVE Headers'
  OBVIOUS
<1> DEFINE f == [Top EXCEPT !.pc = "migrate"]
<1>1. /\ todo # <<>> /\ Top.pc = "mig_enter" /\ hdr' = hdr /\ Top \in Frame
      /\ Fail \/ todo' = <<f>> \o Tail(todo)
  BY Stack DEF MigrateEnter, At, Goto, Stay, flash, IInv, TInv
<1>2. f \in Frame /\ f.pc = "migrate" /\ f.s = Top.s
  BY <1>1 DEF Frame, Pc
<1> HIDE DEF f
<1> QED
  BY <1>1, <1>2, MigrationSafe, FailSafe DEF MigPc

LEMMA MigrateSafe == IInv /\ Headers /\ Migrate => Headers'
<1> SUFFICES ASSUME IInv, Headers, Migrate PROVE Headers'
  OBVIOUS
<1> DEFINE J == {j \in LiveIn(Top.s) : j > Top.i}
           j == Min(J)
           r == slot[Top.s][j]
           f == [Top EXCEPT !.pc = "mig_predelete", !.i = j, !.key = r.key]
           g == [Call0("append") EXCEPT !.s = Top.t, !.key = r.key, !.val = r.val]
<1>1. /\ todo # <<>> /\ Top.pc = "migrate" /\ hdr' = hdr /\ StackOK /\ FlashOK /\ Chain(todo)
      /\ Top \in Frame /\ Top.s \in Sector /\ Top.t \in Sector
  <2>1. todo # <<>> /\ StackOK
    BY DEF Migrate, At, IInv, TInv
  <2>2. Top \in Frame
    BY <2>1, Stack
  <2> QED
    BY <2>1, <2>2 DEF Migrate, At, flash, IInv, TInv, SInv, Frame
<1>2. CASE Return
  <2>1. todo' = Tail(todo)
    BY <1>2 DEF Return
  <2>2. CASE Two
    BY <1>1, <2>1, <2>2, Sure
  <2>3. CASE Early
    <3>1. /\ SomeMagic' /\ Spare(Top.s) /\ Tail(todo) # <<>> /\ StartUp(Tail(todo))
          /\ Waits.pc \in Openers \cup {"defaults", "init_done"}
      BY <1>1, <2>3, EarlyTail, Grow DEF Early, MigPc
    <3>2. Link(Top, Waits) /\ todo' # <<>> /\ Top' = Waits
      BY <1>1, <2>1, <3>1, ChainPop DEF Top, Waits
    <3>3. Waits.pc = "reb_erase" /\ Waits.s = Top.s
      BY <1>1, <3>1, <3>2 DEF Link, Victim, Eraser, MigPc, Openers
    <3> PICK s, w : s = Top.s /\ w = Waits
      OBVIOUS
    <3>4. Spare(s)'
      BY <1>1, <3>1, Grow
    <3>5. Early'
      BY <2>1, <3>1, <3>2, <3>3, <3>4 DEF Early, Openers, MigPc
    <3> QED
      BY <3>2, <3>3, <3>5 DEF Headers, Formats
  <2> QED
    BY <1>1, <2>2, <2>3, Opened DEF Openers, MigPc
<1>3. CASE Fail
  BY <1>1, <1>3, FailSafe DEF MigPc
<1>4. CASE J # {} /\ Call(f, g)
  <2>1. j \in LiveIn(Top.s) /\ j \in Nat
    <3>1. J \subseteq Nat
      BY SeenIs DEF LiveIn, Scanned
    <3> QED
      BY <1>4, <3>1, MinNat
  <2>2. r.key \in Key /\ r.val \in Value
    <3>1. r \in Record /\ IsLive(r)
      BY <1>1, <2>1, SlotIs, SeenIs DEF LiveIn, Scanned
    <3> QED
      BY <3>1, Sizes DEF Record, IsLive, Key
  <2>3. todo' = <<g, f>> \o Tail(todo)
    BY <1>4 DEF Call
  <2> HIDE DEF j, r
  <2>4. f \in Frame /\ f.pc = "mig_predelete" /\ f.s = Top.s
    BY <1>1, <2>1, <2>2 DEF Frame, Pc
  <2>5. g \in Frame /\ g.pc = "append"
    <3>1. Call0("append") \in Frame /\ Call0("append").pc = "append"
      BY Frames DEF Pc
    <3> QED
      BY <1>1, <2>2, <3>1 DEF Frame
  <2> HIDE DEF f, g
  <2>6. CASE Two
    BY <1>1, <2>3, <2>4, <2>5, <2>6, Sure DEF Formats
  <2>7. CASE Early
    <3> PICK c, d, s : c = f /\ d = g /\ s = Top.s
      OBVIOUS
    <3>1. SomeMagic' /\ Spare(s)' /\ StartUp(todo)
      BY <1>1, <2>4, <2>7, Grow DEF Early, MigPc
    <3>2. StartUp(todo') /\ todo' # <<>> /\ Top' = d /\ Waits' = c
      BY <1>1, <2>3, <2>4, <2>5, <2>7, <3>1, EarlyTail, Into DEF Openers, MigPc
    <3>3. Early'
      BY <2>4, <2>5, <3>1, <3>2 DEF Early, Openers, MigPc
    <3> QED
      BY <2>5, <3>2, <3>3 DEF Headers, Formats
  <2> QED
    BY <1>1, <2>6, <2>7, Opened DEF Openers, MigPc
<1> HIDE DEF f, g
<1> QED
  BY <1>2, <1>3, <1>4 DEF Migrate, f, g

LEMMA MigrateStatusSafe ==
    IInv /\ Headers /\ (MigratePreDelete \/ MigrateCommit \/ MigrateDeleted) => Headers'
<1> SUFFICES ASSUME IInv, Headers, MigratePreDelete \/ MigrateCommit \/ MigrateDeleted
             PROVE  Headers'
  OBVIOUS
<1>1. todo # <<>> /\ Top.pc \in MigPc /\ hdr' = hdr
  BY DEF MigratePreDelete, MigrateCommit, MigrateDeleted, At, MigPc
<1>2. Top \in Frame /\ ret \in Addr \cup {NoAddr}
  BY <1>1, Stack DEF IInv, TInv, RestOK
<1>3. PICK f : /\ f \in {[Top EXCEPT !.pc = "mig_commit", !.new = ret],
                         [Top EXCEPT !.pc = "mig_deleted"], [Top EXCEPT !.pc = "migrate"]}
               /\ todo' = <<f>> \o Tail(todo)
  BY DEF MigratePreDelete, MigrateCommit, MigrateDeleted, Goto, Stay
<1>4. f \in Frame
  <2>1. [Top EXCEPT !.pc = "mig_commit", !.new = ret] \in Frame
    BY <1>2 DEF Frame, Pc
  <2>2. [Top EXCEPT !.pc = "mig_deleted"] \in Frame /\ [Top EXCEPT !.pc = "migrate"] \in Frame
    BY <1>2 DEF Frame, Pc
  <2> QED
    BY <1>3, <2>1, <2>2
<1>5. f.pc \in MigPc /\ f.s = Top.s
  BY <1>2, <1>3 DEF Frame, MigPc
<1> QED
  BY <1>1, <1>3, <1>4, <1>5, MigrationSafe

(* A record is written, during a recovery for a migration.                 *)
LEMMA WriterSafe ==
    ASSUME IInv, Headers, todo # <<>>, Top.pc \in {"append", "append_status"},
           \A s \in Sector : hdr'[s].magic = hdr[s].magic,
           \/ todo' = Tail(todo)
           \/ \E f \in Frame : f.pc = "append_status" /\ todo' = <<f>> \o Tail(todo)
    PROVE  Headers'
<1>1. StackOK /\ Chain(todo)
  BY DEF IInv, TInv, SInv
<1>2. CASE Two
  BY <1>1, <1>2, Sure DEF Formats
<1>3. CASE Early
  <2> PICK w : w = Waits
    OBVIOUS
  <2>1. /\ SomeMagic /\ w.pc = "mig_predelete" /\ Spare(w.s) /\ StartUp(todo)
        /\ Tail(todo) # <<>> /\ StartUp(Tail(todo)) /\ w.s \in Sector
    BY <1>3, EarlyTail DEF Early, MigPc, Frame
  <2>2. SomeMagic' /\ Spare(w.s)'
    BY <2>1, Grow
  <2>3. CASE todo' = Tail(todo)
    <3>1. todo' # <<>> /\ Top' = w
      BY <2>1, <2>3 DEF Top, Waits
    <3>2. Early'
      BY <2>1, <2>2, <2>3, <3>1 DEF Early, Openers, MigPc
    <3> QED
      BY <2>1, <3>1, <3>2 DEF Headers, Formats
  <2>4. ASSUME NEW f \in Frame, f.pc = "append_status", todo' = <<f>> \o Tail(todo)
        PROVE  Headers'
    <3>1. StartUp(todo') /\ todo' # <<>> /\ Top' = f /\ Waits' = w
      BY <1>1, <2>1, <2>4, On DEF Openers
    <3>2. Early'
      BY <2>1, <2>2, <2>4, <3>1 DEF Early, Openers, MigPc
    <3> QED
      BY <2>4, <3>1, <3>2 DEF Headers, Formats
  <2> QED
    BY <2>3, <2>4
<1> QED
  BY <1>2, <1>3, Opened DEF Openers

LEMMA WriteRecordSafe == IInv /\ Headers /\ WriteRecord => Headers'
<1> SUFFICES ASSUME IInv, Headers, WriteRecord PROVE Headers'
  OBVIOUS
<1> DEFINE f == [Top EXCEPT !.pc = "append_status"]
<1>1. /\ todo # <<>> /\ Top.pc = "append" /\ hdr' = hdr /\ Top \in Frame
      /\ todo' = Tail(todo) \/ todo' = <<f>> \o Tail(todo)
  BY Stack DEF WriteRecord, At, Goto, Stay, Return, IInv, TInv
<1>2. f \in Frame /\ f.pc = "append_status"
  BY <1>1 DEF Frame, Pc
<1> HIDE DEF f
<1> QED
  BY <1>1, <1>2, WriterSafe

LEMMA WriteSectorStatusSafe == IInv /\ Headers /\ WriteSectorStatus => Headers'
<1> SUFFICES ASSUME IInv, Headers, WriteSectorStatus PROVE Headers'
  OBVIOUS
<1>1. /\ todo # <<>> /\ Top.pc = "append_status" /\ Top \in Frame /\ FlashOK
      /\ hdr' = SetSectorStatus(hdr, Top.s, attr[Top.s].status) /\ todo' = Tail(todo)
  BY Stack DEF WriteSectorStatus, At, Return, IInv, TInv
<1>2. Top.s \in Sector
  BY <1>1 DEF Frame
<1>3. \A x \in Sector : hdr'[x].magic = hdr[x].magic
  BY <1>1, <1>2, HeaderWord
<1> QED
  BY <1>1, <1>3, WriterSafe

-----------------------------------------------------------------------------
(* The invariant *)

LEMMA InitHeaders == Init => Headers
<1> SUFFICES ASSUME Init PROVE Headers
  OBVIOUS
<1>1. todo # <<>> /\ Top.pc = "init"
  BY Frames DEF Init, Top, Pc
<1>2. NoneLive
  BY Statuses, SeenIs DEF Init, NoneLive, LiveSeen
<1> QED
  BY <1>1, <1>2 DEF Headers, Idle, Formats

LEMMA StepSafe == IInv /\ Headers /\ Step => Headers'
<1> SUFFICES ASSUME IInv, Headers, Step PROVE Headers'
  OBVIOUS
<1>1. CASE InitClassify \/ InitDone \/ LoadSector
  BY <1>1, InitClassifySafe, InitDoneSafe, LoadSectorSafe
<1>2. CASE FormatErase \/ FormatRole \/ FormatMagic
  BY <1>2, FormatEraseSafe, FormatRoleSafe, FormatMagicSafe
<1>3. CASE Defaults \/ DefaultsCommit \/ Put \/ WriteRecord \/ WriteSectorStatus
  BY <1>3, DefaultsSafe, DefaultsCommitSafe, PutSafe, WriteRecordSafe, WriteSectorStatusSafe
<1>4. CASE MigrateEnter \/ Migrate \/ MigratePreDelete \/ MigrateCommit \/ MigrateDeleted
  BY <1>4, MigrateEnterSafe, MigrateSafe, MigrateStatusSafe
<1>5. CASE RebuildStart \/ RebuildRound \/ RebuildErase \/ RebuildMagic \/ RebuildRole
  BY <1>5, RebuildStartSafe, RebuildRoundSafe, RebuildEraseSafe, RebuildMagicSafe, RebuildRoleSafe
<1>6. CASE GcStart \/ GcFind \/ GcMigrate \/ GcErase \/ GcRole \/ GcMagic \/ GcData
  BY <1>6, GcStartSafe, GcFindSafe, GcMigrateSafe, GcEraseSafe, GcRoleSafe, GcMagicSafe, GcDataSafe
<1>7. CASE SetPreDelete \/ SetCommit \/ SetDeleted
  BY <1>7, SetPreDeleteSafe, SetCommitSafe, SetDeletedSafe
<1> QED
  BY <1>1, <1>2, <1>3, <1>4, <1>5, <1>6, <1>7 DEF Step

LEMMA NextSafe == IInv /\ Headers /\ [Next]_vars => Headers'
<1> SUFFICES ASSUME IInv, Headers, [Next]_vars PROVE Headers'
  OBVIOUS
<1>1. CASE UNCHANGED vars
  BY <1>1 DEF vars, Headers, Two, Spare, Blank, NoneLive, LiveSeen, Idle, SomeMagic, Early,
              StartUp, Halfway, Top, Waits
<1> QED
  BY <1>1, StepSafe, UpdateSafe, CollectSafe, DeleteSafe, PowerCutSafe DEF Next

LEMMA AlwaysHeaders == Spec => [](IInv /\ Headers)
<1>1. Init => Headers
  BY InitHeaders
<1>2. IInv /\ Headers /\ [Next]_vars => Headers'
  BY NextSafe
<1> QED
  BY <1>1, <1>2, AlwaysIndexed, PTL DEF Spec

-----------------------------------------------------------------------------
(* Erasures *)

LEMMA NotErased == ASSUME FlashOK, NEW a \in Seen, IsLive(SlotAt(a)) PROVE SlotAt(a) # Erased
BY Statuses

LEMMA StatusKeeps ==
    ASSUME FlashOK, NEW a \in Seen, IsLive(SlotAt(a)),
           NEW b \in Addr \cup {NoAddr}, NEW st \in {WRITE, PRE_DELETE, DELETED},
           slot' = SetKvStatus(slot, b, st)
    PROVE  SlotAt(a)' # Erased
<1> PICK s, j : s = a[1] /\ j = a[2]
  OBVIOUS
<1>1. s \in Sector /\ j \in Slot /\ slot[s][j].key # 0
  BY SeenIs DEF SlotAt, IsLive
<1>2. slot'[s][j] # Erased
  BY <1>1, Kills, Commits
<1> QED
  BY <1>2 DEF SlotAt

LEMMA PutKeepsOthers ==
    ASSUME FlashOK, NEW a \in Seen, IsLive(SlotAt(a)),
           NEW b \in Addr, NEW r \in Record, slot' = PutRecord(slot, b, r)
    PROVE  SlotAt(a)' # Erased
<1> PICK s, j : s = a[1] /\ j = a[2]
  OBVIOUS
<1>1. s \in Sector /\ j \in Slot /\ slot[s][j] # Erased
  BY SeenIs, NotErased DEF SlotAt
<1>2. slot'[s][j] # Erased
  BY <1>1, RecordWrite
<1> QED
  BY <1>2 DEF SlotAt

LEMMA ErasureKeeps ==
    ASSUME FlashOK, DescOK, NEW a \in Seen, IsLive(SlotAt(a)),
           NEW s \in Sector, EraseSector(s), ~LiveSeen(s)
    PROVE  SlotAt(a)' # Erased
<1> PICK x, j : x = a[1] /\ j = a[2]
  OBVIOUS
<1>1. x \in Sector /\ j \in Visible /\ j \in Slot /\ IsLive(slot[x][j])
  BY SeenIs DEF SlotAt
<1>2. x # s
  BY <1>1 DEF LiveSeen
<1>3. slot'[x][j] = slot[x][j]
  BY <1>1, <1>2, EraseIs
<1> QED
  BY <1>3, NotErased DEF SlotAt

LEMMA AppendAddr ==
    ASSUME IInv, At("append")
    PROVE  FlashOK /\ <<Top.s, used[Top.s] + 1>> \in Addr /\ Top.key \in Key /\ Top.val \in Value
<1>1. todo # <<>> /\ StackOK /\ FlashOK /\ DescOK /\ used[Top.s] < Slots
  BY DEF IInv, TInv, Room, At
<1>2. Top.s \in Sector /\ Top.key \in Key /\ Top.val \in Value
  BY <1>1, Stack DEF Frame
<1>3. used[Top.s] \in 0..Slots
  BY <1>1, <1>2 DEF DescOK
<1> QED
  BY <1>1, <1>2, <1>3, Sizes DEF Addr, Slot

(* A write leaves every live record that scans see in its place.           *)
LEMMA WritesKeep ==
    ASSUME IInv, NEW a \in Seen, IsLive(SlotAt(a)),
           \/ DefaultsCommit \/ WriteRecord \/ PowerCut
           \/ MigratePreDelete \/ MigrateCommit \/ MigrateDeleted
           \/ SetPreDelete \/ SetCommit \/ SetDeleted \/ \E k \in Key : Delete(k)
    PROVE  SlotAt(a)' # Erased
<1>1. FlashOK /\ StackOK /\ RestOK
  BY DEF IInv, TInv
<1>2. todo # <<>> => Top \in Frame /\ Top.new \in Addr \cup {NoAddr}
  BY <1>1, Stack DEF Frame
<1>3. ret \in Addr \cup {NoAddr} /\ \A k \in Key : kv[k].addr \in Addr \cup {NoAddr}
  BY <1>1 DEF RestOK, Entry
<1>4. CASE slot' = slot
  BY <1>1, <1>4, NotErased DEF SlotAt
<1>5. CASE DefaultsCommit
  BY <1>1, <1>3, <1>5, StatusKeeps DEF DefaultsCommit
<1>6. CASE WriteRecord
  <2>1. At("append") /\ slot' = PutRecord(slot, <<Top.s, used[Top.s] + 1>>,
                                              NewRecord(Top.key, Top.val))
    BY <1>6 DEF WriteRecord
  <2>2. NewRecord(Top.key, Top.val) \in Record
    BY <2>1, AppendAddr, Records
  <2> QED
    BY <2>1, <2>2, AppendAddr, PutKeepsOthers
<1>7. CASE PowerCut
  <2>1. slot' = slot \/ (At("append") /\ slot' = PutRecord(slot, <<Top.s, used[Top.s] + 1>>, Torn))
    BY <1>7 DEF PowerCut
  <2>2. Torn \in Record
    BY Records
  <2> QED
    BY <1>4, <2>1, <2>2, AppendAddr, PutKeepsOthers
<1>8. CASE MigratePreDelete \/ MigrateDeleted
  <2>1. todo # <<>> /\ Top.pc \in {"mig_predelete", "mig_deleted"}
    BY <1>8 DEF MigratePreDelete, MigrateDeleted, At
  <2>2. Source(Top)
    BY <2>1 DEF IInv, SInv, Stage, Relies, Begun, Ended
  <2>3. <<Top.s, Top.i>> \in Addr
    BY <1>2, <2>1, <2>2, SeenIs DEF Source, Frame
  <2>4. \E st \in {PRE_DELETE, DELETED} : slot' = SetKvStatus(slot, <<Top.s, Top.i>>, st)
    BY <1>8 DEF MigratePreDelete, MigrateDeleted
  <2> QED
    BY <1>1, <2>3, <2>4, StatusKeeps
<1>9. CASE MigrateCommit \/ SetCommit
  BY <1>1, <1>2, <1>9, StatusKeeps DEF MigrateCommit, SetCommit, At
<1>10. CASE SetPreDelete \/ SetDeleted
  <2>1. todo # <<>>
    BY <1>10 DEF SetPreDelete, SetDeleted, At
  <2>2. Old(Top.key) \in Addr \cup {NoAddr}
    BY <1>2, <1>3, <2>1 DEF Old, Frame
  <2>3. \/ slot' = slot
        \/ \E st \in {PRE_DELETE, DELETED} : slot' = SetKvStatus(slot, Old(Top.key), st)
    BY <1>10 DEF SetPreDelete, SetDeleted
  <2> QED
    BY <1>1, <1>4, <2>2, <2>3, StatusKeeps
<1>11. CASE \E k \in Key : Delete(k)
  <2>1. slot' = slot \/ \E k \in Key : slot' = SetKvStatus(slot, kv[k].addr, DELETED)
    BY <1>11 DEF Delete
  <2> QED
    BY <1>1, <1>3, <1>4, <2>1, StatusKeeps
<1> QED
  BY <1>5, <1>6, <1>7, <1>8, <1>9, <1>10, <1>11

LEMMA ErasuresKeep ==
    ASSUME IInv, Headers, NEW a \in Seen, IsLive(SlotAt(a)),
           FormatErase \/ RebuildErase \/ GcErase
    PROVE  SlotAt(a)' # Erased
<1>1. todo # <<>> /\ FlashOK /\ DescOK /\ StackOK
  BY DEF FormatErase, RebuildErase, GcErase, At, IInv, TInv
<1>2. Top \in Frame /\ Top.s \in Sector /\ Top.t \in Sector
  BY <1>1, Stack DEF Frame
<1>3. CASE FormatErase
  <2>1. EraseSector(Top.s) /\ NoneLive
    BY <1>3 DEF FormatErase, At, Headers, Formats, Blank
  <2> QED
    BY <1>1, <1>2, <2>1, ErasureKeeps DEF NoneLive
<1>4. CASE RebuildErase
  <2>1. EraseSector(Top.s) /\ ~LiveSeen(Top.s)
    BY <1>4 DEF RebuildErase, At, IInv, SInv, Stage, Relies, Eraser, Victim
  <2> QED
    BY <1>1, <1>2, <2>1, ErasureKeeps
<1>5. CASE GcErase
  <2>1. EraseSector(Top.t) /\ ~LiveSeen(Top.t)
    BY <1>5 DEF GcErase, At, IInv, SInv, Stage, Relies, Eraser, Victim
  <2> QED
    BY <1>1, <1>2, <2>1, ErasureKeeps
<1> QED
  BY <1>3, <1>4, <1>5

(* The other steps touch no record.                                        *)
LEMMA OthersKeep ==
    ASSUME [Next]_vars
    PROVE  \/ slot' = slot
           \/ FormatErase \/ RebuildErase \/ GcErase
           \/ DefaultsCommit \/ WriteRecord \/ PowerCut
           \/ MigratePreDelete \/ MigrateCommit \/ MigrateDeleted
           \/ SetPreDelete \/ SetCommit \/ SetDeleted \/ \E k \in Key : Delete(k)
<1>1. ASSUME Step
      PROVE  \/ slot' = slot
             \/ FormatErase \/ RebuildErase \/ GcErase
             \/ DefaultsCommit \/ WriteRecord
             \/ MigratePreDelete \/ MigrateCommit \/ MigrateDeleted
             \/ SetPreDelete \/ SetCommit \/ SetDeleted
  BY <1>1 DEF Step, InitClassify, InitDone, LoadSector, FormatRole, FormatMagic, Defaults, Put,
              WriteSectorStatus, MigrateEnter, Migrate, RebuildStart, RebuildRound, RebuildMagic,
              RebuildRole, GcStart, GcFind, GcMigrate, GcRole, GcMagic, GcData, flash
<1>2. Update \/ Collect \/ UNCHANGED vars => slot' = slot
  BY DEF Update, Get, Set, Collect, flash, vars
<1> QED
  BY <1>1, <1>2 DEF Next

(* No step of any call, and no power cut, erases a live record that scans  *)
(* see: neither a collection nor a rebuild, however its stack of           *)
(* interrupted calls came about, and never the formatting at start-up.     *)
THEOREM NothingSeenErased == Spec => NeverEraseSeen
<1>1. IInv /\ Headers /\ [Next]_vars
        => [\A a \in Seen : IsLive(SlotAt(a)) => SlotAt(a)' # Erased]_vars
  <2> SUFFICES ASSUME IInv, Headers, [Next]_vars, NEW a \in Seen, IsLive(SlotAt(a))
               PROVE  SlotAt(a)' # Erased
    OBVIOUS
  <2>1. CASE slot' = slot
    BY <2>1, NotErased DEF IInv, TInv, SlotAt
  <2>2. CASE FormatErase \/ RebuildErase \/ GcErase
    BY <2>2, ErasuresKeep
  <2> QED
    BY <2>1, <2>2, OthersKeep, WritesKeep
<1> QED
  BY <1>1, AlwaysHeaders, PTL DEF Spec, NeverEraseSeen
=============================================================================
