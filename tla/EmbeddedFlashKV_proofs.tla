----------------------- MODULE EmbeddedFlashKV_proofs -----------------------
(***************************************************************************)
(* The engine implements KVStore, for every number of sectors, slots,      *)
(* keys, values and power cuts.                                            *)
(*                                                                         *)
(* Every step of the engine is one of KVStore or changes nothing that      *)
(* KVStore sees.  The live record of a key, its RAM copy and what the call *)
(* in progress is to write are tied together by the invariants of the      *)
(* other modules; what is added here is that a record which has been       *)
(* written is one that scans see (Placed), and which functions run on      *)
(* behalf of nobody (Based), so that their return is the end of a call.    *)
(*                                                                         *)
(* A record in the last slot of a sector is not seen by any scan, so its   *)
(* value is not durable: what follows is for behaviours in which none is   *)
(* written there.  Without power cuts that is always so.                   *)
(***************************************************************************)
EXTENDS EmbeddedFlashKV, EmbeddedFlash_uncut_proofs

LastSlotsFree == \A x \in Sector : slot[x][Slots] = Erased

-----------------------------------------------------------------------------
(* Durable values *)

LEMMA LiveAddrsAre == \A k : LiveAddrs(k) = {a \in Seen : LiveOfKey(a, k)}
BY SeenIs DEF LiveAddrs, LiveAt, LiveOfKey

LEMMA DurableFunction == Durable = [k \in Key |-> Durable[k]]
BY DEF Durable

LEMMA DurableGone ==
    ASSUME NEW k \in Key, Absent(k)
    PROVE  Durable[k] = Gone
BY LiveAddrsAre DEF Durable, Absent

LEMMA DurableOne ==
    ASSUME NEW k \in Key, NEW a \in Seen, LiveOfKey(a, k), Only(k, a)
    PROVE  Durable[k] = SlotAt(a).val
<1>1. LiveAddrs(k) = {a}
  BY LiveAddrsAre DEF Only
<1> QED
  BY <1>1 DEF Durable

(* The same after a step.                                                  *)
LEMMA DurableGoneNow ==
    ASSUME NEW k \in Key, Absent(k)'
    PROVE  Durable'[k] = Gone
<1>1. LiveAddrs(k)' = {}
  BY SeenIs DEF LiveAddrs, LiveAt, LiveOfKey, Absent
<1> QED
  BY <1>1 DEF Durable

LEMMA DurableOneNow ==
    ASSUME NEW k \in Key, NEW a \in Seen, LiveOfKey(a, k)', Only(k, a)'
    PROVE  Durable'[k] = SlotAt(a)'.val
<1>1. LiveAddrs(k)' = {a}
  BY SeenIs DEF LiveAddrs, LiveAt, LiveOfKey, Only
<1> QED
  BY <1>1 DEF Durable, SlotAt

(* A key keeps its durable value while its live records and their values   *)
(* stay.                                                                   *)
SameLive(k) == \A a \in Seen : LiveOfKey(a, k)' <=> LiveOfKey(a, k)

LEMMA DurableSame ==
    ASSUME LiveKept, NEW k \in Key, SameLive(k)
    PROVE  Durable'[k] = Durable[k]
<1>1. LiveAddrs(k)' = LiveAddrs(k)
  BY SeenIs DEF LiveAddrs, LiveAt, LiveOfKey, SameLive
<1>2. CASE LiveAddrs(k) = {}
  BY <1>1, <1>2 DEF Durable
<1>3. CASE LiveAddrs(k) # {}
  <2>1. PICK a : a = CHOOSE b \in LiveAddrs(k) : TRUE
    OBVIOUS
  <2>2. a \in Seen /\ IsLive(SlotAt(a))
    BY <1>3, <2>1 DEF LiveAddrs, LiveAt
  <2>3. SlotAt(a)'.val = SlotAt(a).val
    BY <2>2 DEF LiveKept
  <2>4. Durable[k] = SlotAt(a).val /\ Durable'[k] = SlotAt(a)'.val
    BY <1>1, <1>3, <2>1 DEF Durable, SlotAt
  <2> QED
    BY <2>3, <2>4
<1> QED
  BY <1>2, <1>3

LEMMA DurableSames ==
    ASSUME LiveKept, \A k \in Key : SameLive(k)
    PROVE  Durable' = Durable
<1>1. \A k \in Key : Durable'[k] = Durable[k]
  BY DurableSame
<1> QED
  BY <1>1 DEF Durable

LEMMA DurableStill == slot' = slot => Durable' = Durable
BY DEF Durable, LiveAddrs, LiveAt, SlotAt, Seen

-----------------------------------------------------------------------------
(* The call stack: what runs on behalf of a client or of the start-up      *)

Outer == {"init", "init_done", "init_failed", "hung"} \cup Setters
Bases == Outer \cup {"gc", "gc_find", "gc_gcing", "gc_erase", "gc_role", "gc_magic", "gc_data"}

Based(q) == \A n \in 1..Len(q) :
    IF n = Len(q) THEN q[n].pc \in Bases ELSE q[n].pc \notin Outer

(* Frame f may take the place of g.                                        *)
Twin(f, g) ==
    /\ f.pc \in Outer <=> g.pc \in Outer
    /\ f.pc \in Bases <=> g.pc \in Bases
    /\ f.pc \in Setters <=> g.pc \in Setters
    /\ f.pc \in Setters => f.key = g.key /\ f.val = g.val

LEMMA BasedPush ==
    ASSUME NEW q \in Seq(Frame), NEW f \in Frame, Based(q),
           IF q = <<>> THEN f.pc \in Bases ELSE f.pc \notin Outer
    PROVE  Based(<<f>> \o q)
<1> DEFINE p == <<f>> \o q
<1>1. p \in Seq(Frame) /\ Len(p) = Len(q) + 1 /\ Len(q) \in Nat
  OBVIOUS
<1>2. p[1] = f /\ \A n \in 2..Len(p) : p[n] = q[n - 1] /\ n - 1 \in 1..Len(q)
  BY <1>1
<1>3. q = <<>> <=> Len(q) = 0
  OBVIOUS
<1> HIDE DEF p
<1>4. SUFFICES ASSUME NEW n \in 1..Len(p)
               PROVE  IF n = Len(p) THEN p[n].pc \in Bases ELSE p[n].pc \notin Outer
  BY DEF Based, p
<1>5. CASE n = 1
  BY <1>1, <1>2, <1>3, <1>5
<1>6. CASE n # 1
  <2>1. n \in 2..Len(p) /\ (n = Len(p) <=> n - 1 = Len(q))
    BY <1>1, <1>6
  <2> QED
    BY <1>2, <2>1 DEF Based
<1> QED
  BY <1>5, <1>6

LEMMA LastFrame ==
    ASSUME StackOK, todo # <<>>
    PROVE  (Tail(todo) = <<>> <=> Len(todo) = 1) /\ Top = todo[1] /\ 1 \in 1..Len(todo)
<1>1. todo \in Seq(Frame) /\ Len(todo) \in Nat /\ Len(todo) >= 1
  BY DEF StackOK
<1>2. Tail(todo) \in Seq(Frame) /\ Len(Tail(todo)) = Len(todo) - 1
  BY <1>1
<1>3. Len(Tail(todo)) = 0 <=> Len(todo) = 1
  BY <1>1, <1>2
<1>4. \A q \in Seq(Frame) : q = <<>> <=> Len(q) = 0
  OBVIOUS
<1>5. Top = todo[1] /\ 1 \in 1..Len(todo)
  BY <1>1 DEF Top
<1> QED
  BY <1>2, <1>3, <1>4, <1>5

LEMMA BasedPop ==
    ASSUME StackOK, todo # <<>>, Based(todo)
    PROVE  /\ Based(Tail(todo))
           /\ IF Tail(todo) = <<>> THEN Top.pc \in Bases ELSE Top.pc \notin Outer
<1>1. todo \in Seq(Frame) /\ Len(todo) \in Nat /\ Len(todo) >= 1
  BY DEF StackOK
<1>2. Tail(todo) \in Seq(Frame) /\ Len(Tail(todo)) = Len(todo) - 1
  BY <1>1
<1>3. \A n \in 1..Len(Tail(todo)) : Tail(todo)[n] = todo[n + 1] /\ n + 1 \in 1..Len(todo)
  BY <1>1, <1>2
<1>4. (Tail(todo) = <<>> <=> Len(todo) = 1) /\ Top = todo[1] /\ 1 \in 1..Len(todo)
  BY LastFrame
<1>5. Based(Tail(todo))
  <2> SUFFICES ASSUME NEW n \in 1..Len(Tail(todo))
               PROVE  IF n = Len(Tail(todo)) THEN Tail(todo)[n].pc \in Bases
                                             ELSE Tail(todo)[n].pc \notin Outer
    BY DEF Based
  <2>1. n = Len(Tail(todo)) <=> n + 1 = Len(todo)
    BY <1>1, <1>2
  <2> QED
    BY <1>3, <2>1 DEF Based
<1>6. IF Tail(todo) = <<>> THEN Top.pc \in Bases ELSE Top.pc \notin Outer
  BY <1>4 DEF Based
<1> QED
  BY <1>5, <1>6

LEMMA BasedNone == Based(<<>>) /\ Asked(<<>>) = {}
BY DEF Based, Asked

LEMMA BasedOne ==
    ASSUME NEW f, f.pc \in Bases
    PROVE  Based(<<f>>)
BY DEF Based

LEMMA AskedPush ==
    ASSUME NEW q \in Seq(Frame), q # <<>>, NEW f
    PROVE  Asked(<<f>> \o q) = Asked(q)
<1> DEFINE p == <<f>> \o q
<1>1. Len(p) = Len(q) + 1 /\ Len(q) \in Nat /\ Len(q) >= 1 /\ p[Len(p)] = q[Len(q)]
  OBVIOUS
<1> HIDE DEF p
<1>2. Asked(p) = Asked(q)
  BY <1>1 DEF Asked
<1> QED
  BY <1>2 DEF p

LEMMA AskedOne ==
    ASSUME NEW f
    PROVE  Asked(<<f>>) = IF f.pc \in Setters THEN {<<f.key, f.val>>} ELSE {}
BY DEF Asked, Setters

LEMMA AskedTop ==
    ASSUME StackOK, todo # <<>>
    PROVE  Asked(todo) = IF Tail(todo) # <<>> THEN Asked(Tail(todo))
                         ELSE IF Top.pc \in Setters THEN {<<Top.key, Top.val>>} ELSE {}
<1>1. todo = <<Top>> \o Tail(todo) /\ Tail(todo) \in Seq(Frame)
  BY Stack
<1>2. CASE Tail(todo) # <<>>
  BY <1>1, <1>2, AskedPush
<1>3. CASE Tail(todo) = <<>>
  <2>1. Len(todo) = 1 /\ todo[1] = Top
    BY <1>3, LastFrame
  <2> QED
    BY <1>3, <2>1 DEF Asked, Setters
<1> QED
  BY <1>2, <1>3

LEMMA BasedSuffix ==
    ASSUME NEW q \in Seq(Frame), Based(q), NEW j \in 1..Len(q)
    PROVE  /\ SubSeq(q, j, Len(q)) # <<>> /\ Head(SubSeq(q, j, Len(q))) = q[j]
           /\ Based(SubSeq(q, j, Len(q))) /\ Asked(SubSeq(q, j, Len(q))) = Asked(q)
<1> DEFINE p == SubSeq(q, j, Len(q))
<1>1. p \in Seq(Frame) /\ Len(p) = Len(q) - j + 1 /\ Len(q) \in Nat /\ j \in Nat
  OBVIOUS
<1>2. \A n \in 1..Len(p) : p[n] = q[n + j - 1] /\ n + j - 1 \in 1..Len(q)
  BY <1>1
<1>3. Len(p) \in Nat /\ Len(p) >= 1 /\ p # <<>> /\ Head(p) = p[1]
  <2>1. Len(p) \in Nat /\ Len(p) >= 1
    BY <1>1
  <2> HIDE DEF p
  <2> QED
    BY <1>1, <2>1
<1>4. p[1] = q[j] /\ p[Len(p)] = q[Len(q)]
  <2>1. 1 \in 1..Len(p) /\ Len(p) \in 1..Len(p) /\ Len(p) + j - 1 = Len(q) /\ 1 + j - 1 = j
    BY <1>1, <1>3
  <2> QED
    BY <1>2, <2>1
<1> HIDE DEF p
<1>5. Based(p)
  <2> SUFFICES ASSUME NEW n \in 1..Len(p)
               PROVE  IF n = Len(p) THEN p[n].pc \in Bases ELSE p[n].pc \notin Outer
    BY DEF Based
  <2>1. n = Len(p) <=> n + j - 1 = Len(q)
    BY <1>1
  <2> QED
    BY <1>2, <2>1 DEF Based
<1>6. Asked(p) = Asked(q)
  BY <1>1, <1>3, <1>4 DEF Asked
<1> QED
  BY <1>3, <1>4, <1>5, <1>6 DEF p

LEMMA Offset ==
    ASSUME NEW k \in Nat, NEW m \in Nat, NEW n \in 1..(k + m), n \notin 1..k
    PROVE  \E i \in 1..m : n = k + i /\ (n = k + m <=> i = m)
<1>1. n - k \in 1..m /\ n = k + (n - k) /\ (n = k + m <=> n - k = m)
  OBVIOUS
<1> QED
  BY <1>1

(* Only the frame at the bottom of the stack says what is asked.            *)
AskedOf(f) == {<<g.key, g.val>> :
                 g \in {h \in {f} : h.pc \in {"set_written", "set_commit", "set_deleted"}}}

LEMMA AskedOfLast ==
    ASSUME NEW q, Len(q) \in Nat, Len(q) >= 1
    PROVE  Asked(q) = AskedOf(q[Len(q)])
<1>1. Len(q) \in 1..Len(q)
  OBVIOUS
<1>2. \A x : x \in Asked(q) <=> x \in AskedOf(q[Len(q)])
  BY <1>1 DEF Asked, AskedOf
<1> QED
  BY <1>2 DEF Asked, AskedOf

(* A recovery is put above a function.                                     *)
LEMMA BasedJoin ==
    ASSUME NEW a \in Seq(Frame), \A n \in 1..Len(a) : a[n].pc \notin Outer,
           NEW b \in Seq(Frame), b # <<>>, Based(b), NEW c, c = a \o b
    PROVE  c # <<>> /\ Based(c) /\ Asked(c) = Asked(b)
<1>1. /\ c \in Seq(Frame) /\ Len(c) = Len(a) + Len(b)
      /\ \A n \in 1..Len(a) : c[n] = a[n]
      /\ \A n \in 1..Len(b) : c[Len(a) + n] = b[n]
  BY Joined
<1>2. Len(a) \in Nat /\ Len(b) \in Nat /\ Len(b) >= 1
  OBVIOUS
<1>3. c # <<>> /\ c[Len(c)] = b[Len(b)]
  BY <1>1, <1>2
<1>4. Based(c)
  <2> SUFFICES ASSUME NEW n \in 1..Len(c)
               PROVE  IF n = Len(c) THEN c[n].pc \in Bases ELSE c[n].pc \notin Outer
    BY DEF Based
  <2>1. CASE n \in 1..Len(a)
    <3>1. n # Len(c) /\ c[n] = a[n]
      BY <1>1, <1>2, <2>1
    <3> QED
      BY <2>1, <3>1
  <2>2. CASE n \notin 1..Len(a)
    <3>1. n \in 1..(Len(a) + Len(b)) /\ Len(c) = Len(a) + Len(b)
      BY <1>1
    <3>2. PICK m \in 1..Len(b) : n = Len(a) + m /\ (n = Len(a) + Len(b) <=> m = Len(b))
      BY <1>2, <2>2, <3>1, Offset
    <3>3. c[n] = b[m]
      BY <1>1, <3>2
    <3> QED
      BY <3>1, <3>2, <3>3 DEF Based
  <2> QED
    BY <2>1, <2>2
<1>5. Asked(c) = Asked(b)
  <2>1. Len(c) \in Nat /\ Len(c) >= 1
    BY <1>1, <1>2
  <2> QED
    BY <1>2, <1>3, <2>1, AskedOfLast DEF AskedOf
<1> QED
  BY <1>3, <1>4, <1>5

-----------------------------------------------------------------------------
(* The invariant, and what steps within a call have in common              *)

Placed == Within /\ (todo # <<>> => Handed)
BInv   == Based(todo) /\ Placed

Behind == Awaiting \cup {"append_status"} \cup Movers

LEMMA PlacedOn ==
    ASSUME Placed, SameIndex, ret' = ret, todo' # <<>> => Top'.pc \notin Behind
    PROVE  Placed'
<1>1. Within'
  BY DEF Placed, Within, SameIndex, Near, Seen
<1>2. todo' # <<>> => Handed'
  BY DEF Handed, Behind
<1> QED
  BY <1>1, <1>2 DEF Placed

(* The call in progress goes on.                                           *)
InCall == todo # <<>> /\ todo' # <<>> /\ Asked(todo') = Asked(todo)

LEMMA OneFrame == \A f \in Frame : \A q : q = <<>> => <<f>> \o q = <<f>>
BY ConcatEmptySeq

LEMMA StayOn ==
    ASSUME StackOK, Based(todo), todo # <<>>,
           NEW f \in Frame, Twin(f, Top), todo' = <<f>> \o Tail(todo)
    PROVE  InCall /\ Based(todo')
<1>1. /\ Tail(todo) \in Seq(Frame) /\ Based(Tail(todo))
      /\ IF Tail(todo) = <<>> THEN Top.pc \in Bases ELSE Top.pc \notin Outer
  BY Stack, BasedPop
<1>2. Based(todo') /\ todo' # <<>>
  <2>1. Based(<<f>> \o Tail(todo))
    BY <1>1, BasedPush DEF Twin
  <2> QED
    BY <1>1, <2>1, TwoFrames
<1>3. Asked(todo') = Asked(todo)
  <2>1. CASE Tail(todo) # <<>>
    BY <1>1, <2>1, AskedPush, AskedTop
  <2>2. CASE Tail(todo) = <<>>
    <3>1. todo' = <<f>>
      BY <2>2, OneFrame
    <3> QED
      BY <2>2, <3>1, AskedOne, AskedTop DEF Twin
  <2> QED
    BY <2>1, <2>2
<1> QED
  BY <1>2, <1>3 DEF InCall

LEMMA IntoOn ==
    ASSUME StackOK, Based(todo), todo # <<>>,
           NEW f \in Frame, Twin(f, Top), NEW g \in Frame, g.pc \notin Outer,
           todo' = <<g, f>> \o Tail(todo)
    PROVE  InCall /\ Based(todo')
<1>1. /\ Tail(todo) \in Seq(Frame) /\ Based(Tail(todo))
      /\ IF Tail(todo) = <<>> THEN Top.pc \in Bases ELSE Top.pc \notin Outer
  BY Stack, BasedPop
<1>2. PICK q : q = <<f>> \o Tail(todo)
  OBVIOUS
<1>3. q \in Seq(Frame) /\ q # <<>> /\ todo' = <<g>> \o q
  BY <1>1, <1>2, TwoFrames
<1>4. Based(q)
  BY <1>1, <1>2, BasedPush DEF Twin
<1>5. Based(todo') /\ todo' # <<>>
  <2>1. Based(<<g>> \o q)
    BY <1>3, <1>4, BasedPush
  <2> QED
    BY <1>3, <2>1, TwoFrames
<1>6. Asked(todo') = Asked(q)
  BY <1>3, AskedPush
<1>7. Asked(q) = Asked(todo)
  <2>1. CASE Tail(todo) # <<>>
    BY <1>1, <1>2, <2>1, AskedPush, AskedTop
  <2>2. CASE Tail(todo) = <<>>
    <3>1. q = <<f>>
      BY <1>2, <2>2, OneFrame
    <3> QED
      BY <2>2, <3>1, AskedOne, AskedTop DEF Twin
  <2> QED
    BY <2>1, <2>2
<1> QED
  BY <1>5, <1>6, <1>7 DEF InCall

LEMMA BackOn ==
    ASSUME StackOK, Based(todo), todo # <<>>, Top.pc \notin Bases, todo' = Tail(todo)
    PROVE  InCall /\ Based(todo')
<1>1. Based(Tail(todo)) /\ Tail(todo) # <<>>
  BY BasedPop
<1> QED
  BY <1>1, AskedTop DEF InCall

(* A call ends.                                                            *)
LEMMA LastBack ==
    ASSUME StackOK, Based(todo), todo # <<>>, todo' = Tail(todo)
    PROVE  /\ Based(todo')
           /\ Tail(todo) = <<>> /\ Top.pc \notin Setters => Asked(todo) = {}
           /\ Tail(todo) = <<>> /\ Top.pc \in Setters => Asked(todo) = {<<Top.key, Top.val>>}
BY BasedPop, AskedTop

(* A failure ends the call or the start-up, or is ignored by a collection. *)
LEMMA FailOn ==
    ASSUME StackOK, Based(todo), todo # <<>>, Fail
    PROVE  /\ Based(todo')
           /\ \/ InCall /\ reply' = reply
              \/ todo' = <<>> /\ reply' = "err"
              \/ todo' = <<Call0("init_failed")>> /\ reply' = "err" /\ Asked(todo) = {}
<1>1. todo \in Seq(Frame) /\ Len(todo) \in Nat /\ Handlers \subseteq Nat
  BY DEF StackOK, Handlers
<1>2. CASE Handlers = {}
  BY <1>2, BasedNone DEF Fail
<1>3. CASE Handlers # {}
  <2>1. PICK j : j = Min(Handlers)
    OBVIOUS
  <2>2. /\ j \in 1..Len(todo) /\ todo[j].pc \in {"gc_find", "set_written", "init_done"}
    <3>1. j \in Handlers
      BY <1>1, <1>3, <2>1, MinNat
    <3> QED
      BY <1>1, <3>1 DEF Handlers
  <2>3. CASE todo[j].pc = "gc_find"
    <3>1. todo' = SubSeq(todo, j, Len(todo)) /\ reply' = reply
      BY <1>3, <2>1, <2>3 DEF Fail
    <3> QED
      BY <1>1, <2>2, <3>1, BasedSuffix DEF InCall
  <2>4. CASE todo[j].pc = "init_done"
    <3>1. todo' = <<Call0("init_failed")>> /\ reply' = "err"
      BY <1>3, <2>1, <2>4 DEF Fail
    <3>2. Based(todo')
      BY <3>1, Frames DEF Based, Bases, Outer, Pc
    <3>3. j = Len(todo)
      BY <2>2, <2>4 DEF Based, Outer
    <3>4. Asked(todo) = {}
      BY <1>1, <2>4, <3>3 DEF Asked
    <3> QED
      BY <3>1, <3>2, <3>4
  <2>5. CASE todo[j].pc \notin {"gc_find", "init_done"}
    <3>1. todo' = <<>> /\ reply' = "err"
      BY <1>3, <2>1, <2>5 DEF Fail
    <3> QED
      BY <3>1, BasedNone
  <2> QED
    BY <2>3, <2>4, <2>5
<1> QED
  BY <1>2, <1>3

-----------------------------------------------------------------------------
(* Steps that KVStore does not see                                         *)

RInv == IInv /\ Headers /\ UInv /\ VInv /\ BInv

Step2KV == BInv' /\ [KV!Next]_(KV!vars)

Hidden == Durable' = Durable /\ Copies' = Copies /\ StoredKeys' = StoredKeys /\ reply' = reply

LEMMA HiddenStep ==
    ASSUME InCall, Hidden
    PROVE  UNCHANGED KV!vars
BY DEF InCall, Hidden, KV!vars, Ready

LEMMA SameCopies ==
    ASSUME \A k \in Key : kv'[k].val = kv[k].val /\ kv'[k].stored = kv[k].stored
    PROVE  Copies' = Copies /\ StoredKeys' = StoredKeys
<1>1. Copies' = Copies
  BY Zenon DEF Copies
<1>2. StoredKeys' = StoredKeys
  BY Zenon DEF StoredKeys
<1> QED
  BY <1>1, <1>2

LEMMA HiddenSame == UNCHANGED <<slot, kv, reply>> => Hidden
BY DurableStill DEF Hidden, Copies, StoredKeys

LEMMA HiddenOn ==
    ASSUME RInv, todo # <<>>, Hidden, SameIndex, ret' = ret,
           NEW f \in Frame, Twin(f, Top), f.pc \notin Behind, todo' = <<f>> \o Tail(todo)
    PROVE  Step2KV
<1>1. StackOK /\ Based(todo) /\ Placed
  BY DEF RInv, IInv, TInv, BInv
<1>2. InCall /\ Based(todo')
  BY <1>1, StayOn
<1>3. Top' = f
  BY <1>1, On
<1>4. Placed'
  BY <1>1, <1>3, PlacedOn
<1> QED
  BY <1>2, <1>4, HiddenStep DEF Step2KV, BInv

LEMMA HiddenInto ==
    ASSUME RInv, todo # <<>>, Hidden, SameIndex, ret' = ret,
           NEW f \in Frame, Twin(f, Top), NEW g \in Frame, g.pc \notin Behind \cup Outer,
           todo' = <<g, f>> \o Tail(todo)
    PROVE  Step2KV
<1>1. StackOK /\ Based(todo) /\ Placed
  BY DEF RInv, IInv, TInv, BInv
<1>2. InCall /\ Based(todo')
  BY <1>1, IntoOn
<1>3. Top' = g
  BY <1>1, Into
<1>4. Placed'
  BY <1>1, <1>3, PlacedOn
<1> QED
  BY <1>2, <1>4, HiddenStep DEF Step2KV, BInv

LEMMA PlacedBack ==
    ASSUME IInv, Placed, todo # <<>>, SameIndex, ret' = ret, Top.pc \notin Writer,
           todo' = Tail(todo)
    PROVE  Placed'
<1>1. StackOK /\ Chain(todo)
  BY DEF IInv, TInv, SInv
<1>2. CASE todo' # <<>>
  <2>1. Top' = Waits /\ Link(Top, Waits) /\ Top'.pc \notin Movers
    BY <1>1, <1>2, Back, Waiting
  <2>2. Top'.pc \notin Behind
    BY <2>1 DEF Link, Suspended, Behind, Awaiting, Movers, Eraser
  <2> QED
    BY <2>2, PlacedOn
<1>3. CASE todo' = <<>>
  BY <1>3, PlacedOn
<1> QED
  BY <1>2, <1>3

LEMMA HiddenBack ==
    ASSUME RInv, todo # <<>>, Hidden, SameIndex, ret' = ret,
           Top.pc \notin Bases \cup Writer, todo' = Tail(todo)
    PROVE  Step2KV
<1>1. StackOK /\ Based(todo) /\ Placed /\ IInv
  BY DEF RInv, IInv, TInv, BInv
<1>2. InCall /\ Based(todo')
  BY <1>1, BackOn
<1>3. Placed'
  BY <1>1, PlacedBack
<1> QED
  BY <1>2, <1>3, HiddenStep DEF Step2KV, BInv

-----------------------------------------------------------------------------
(* When no record is being replaced RAM and flash agree                    *)

LEMMA StoredIs ==
    ASSUME IInv, UInv, Placed, NEW k \in Key
    PROVE  /\ kv[k].stored <=> kv[k].addr # NoAddr
           /\ kv[k].stored => kv[k].addr \in Seen /\ SlotAt(kv[k].addr).key = k
           /\ kv[k].stored /\ ~Moving(k) => LiveOfKey(kv[k].addr, k)
<1>1. kv[k].stored <=> kv[k].addr # NoAddr
  BY DEF UInv, Stored, Placed, Within
<1>2. kv[k].stored => kv[k].addr \in Seen
  BY <1>1 DEF Placed, Within, Near
<1> QED
  BY <1>1, <1>2 DEF IInv, SInv, Index, LiveOfKey

LEMMA Exact ==
    ASSUME IInv, UInv, VInv, Placed, todo # <<>> => Top.pc \notin Starting,
           NEW k \in Key, ~Moving(k)
    PROVE  Durable[k] = IF kv[k].stored THEN kv[k].val ELSE Gone
<1>1. CASE kv[k].stored
  <2>1. PICK a \in Seen : a = kv[k].addr
    BY <1>1, StoredIs
  <2>2. LiveOfKey(a, k)
    BY <1>1, <2>1, StoredIs
  <2>3. Durable[k] = SlotAt(a).val
    BY <2>2, DurableOne DEF UInv, Single, Only
  <2>4. SlotAt(a).val = kv[k].val
    BY <2>1 DEF VInv, Values, Holds
  <2> QED
    BY <1>1, <2>3, <2>4
<1>2. CASE ~kv[k].stored
  <2>1. ASSUME NEW a \in Seen, LiveOfKey(a, k) PROVE FALSE
    <3>1. kv[k].addr = a
      BY <2>1, AllKnown DEF UInv, Complete
    <3> QED
      BY <1>2, <3>1, StoredIs, SeenIs
  <2> QED
    BY <1>2, <2>1, DurableGone DEF Absent
<1> QED
  BY <1>1, <1>2

LEMMA AllExact ==
    ASSUME IInv, UInv, VInv, Placed, todo # <<>> => Top.pc \notin Starting \cup Movers
    PROVE  KV!Settled(Copies, StoredKeys)
<1>1. \A k \in Key : Durable[k] = IF kv[k].stored THEN kv[k].val ELSE Gone
  BY Exact, NotMoving
<1> QED
  BY <1>1 DEF KV!Settled, Copies, StoredKeys

-----------------------------------------------------------------------------
(* The end of a call                                                       *)

LEMMA FailStep ==
    ASSUME RInv, todo # <<>>, Fail, UNCHANGED <<slot, kv, ret>>,
           Top.pc \notin Starting \cup Movers
    PROVE  Step2KV
<1>1. StackOK /\ Based(todo) /\ Placed /\ IInv /\ UInv /\ VInv
  BY DEF RInv, IInv, TInv, BInv
<1>2. Based(todo')
  BY <1>1, FailOn
<1>3. Placed'
  <2>1. todo' # <<>> => Top'.pc \notin Behind
    BY <1>1, Failed DEF Behind, Awaiting, Movers
  <2> QED
    BY <1>1, <2>1, PlacedOn DEF SameIndex
<1>4. Durable' = Durable /\ Copies' = Copies /\ StoredKeys' = StoredKeys
  BY DurableStill DEF Copies, StoredKeys
<1>5. KV!Settled(Copies, StoredKeys)
  BY <1>1, AllExact
<1>6. [KV!Next]_(KV!vars)
  <2>1. CASE InCall /\ reply' = reply
    BY <1>4, <2>1, HiddenStep DEF Hidden
  <2>2. CASE todo' = <<>> /\ reply' = "err"
    <3>1. Asked(todo') = {}
      BY <2>2, BasedNone
    <3>2. KV!GiveUp
      BY <1>4, <1>5, <2>2, <3>1 DEF KV!GiveUp, Ready
    <3> QED
      BY <3>2 DEF KV!Next
  <2>3. CASE todo' = <<Call0("init_failed")>> /\ reply' = "err" /\ Asked(todo) = {}
    <3>1. Asked(todo') = {}
      BY <2>3, AskedOne, Frames DEF Setters, Pc
    <3>2. todo' # <<>>
      BY <2>3
    <3>3. KV!GiveUp
      BY <1>4, <2>3, <3>1, <3>2 DEF KV!GiveUp, Ready
    <3> QED
      BY <3>3 DEF KV!Next
  <2> QED
    BY <1>1, <2>1, <2>2, <2>3, FailOn
<1> QED
  BY <1>2, <1>3, <1>6 DEF Step2KV, BInv

LEMMA FinishStep ==
    ASSUME RInv, todo # <<>>, todo' = Tail(todo), Tail(todo) = <<>>, UNCHANGED <<slot, kv, ret>>,
           reply' = "ok", Top.pc \notin Starting \cup Movers \cup Setters
    PROVE  Step2KV
<1>1. StackOK /\ Based(todo) /\ Placed /\ IInv /\ UInv /\ VInv
  BY DEF RInv, IInv, TInv, BInv
<1>2. Based(todo') /\ Asked(todo') = {} /\ Asked(todo) = {}
  BY <1>1, LastBack, BasedNone
<1>3. Placed'
  BY <1>1, PlacedOn DEF SameIndex
<1>4. Durable' = Durable /\ Copies' = Copies /\ StoredKeys' = StoredKeys
  BY DurableStill DEF Copies, StoredKeys
<1>5. KV!Settled(Copies', StoredKeys')
  BY <1>1, <1>4, AllExact
<1>6. KV!Refresh
  <2>1. Copies' = [k \in Key |-> IF k \in {} THEN Durable[k] ELSE Copies[k]]
    BY <1>4 DEF Copies
  <2>2. StoredKeys' = StoredKeys \cup {}
    BY <1>4
  <2> QED
    BY <2>1, <2>2 DEF KV!Refresh
<1>7. KV!Finish
  BY <1>2, <1>4, <1>5, <1>6 DEF KV!Finish, Ready
<1> QED
  BY <1>2, <1>3, <1>7 DEF Step2KV, BInv, KV!Next

LEMMA InitDoneKV == RInv /\ InitDone => Step2KV
<1> SUFFICES ASSUME RInv, InitDone PROVE Step2KV
  OBVIOUS
<1>1. todo # <<>> /\ Top.pc = "init_done" /\ StackOK /\ Based(todo)
  BY DEF InitDone, At, RInv, IInv, TInv, BInv
<1>2. Tail(todo) = <<>>
  BY <1>1, BasedPop DEF Outer
<1>3. todo' = Tail(todo) /\ reply' = "ok" /\ UNCHANGED <<slot, kv, ret>>
  BY DEF InitDone, Return, flash
<1> QED
  BY <1>1, <1>2, <1>3, FinishStep DEF Starting, Movers, Setters

LEMMA GcDataKV == RInv /\ GcData => Step2KV
<1> SUFFICES ASSUME RInv, GcData PROVE Step2KV
  OBVIOUS
<1>1. todo # <<>> /\ Top.pc = "gc_data" /\ StackOK /\ Based(todo) /\ Placed /\ IInv
  BY DEF GcData, At, RInv, IInv, TInv, BInv
<1>2. /\ todo' = Tail(todo) /\ UNCHANGED <<slot, kv, ret>>
      /\ reply' = IF Tail(todo) = <<>> THEN "ok" ELSE reply
  BY DEF GcData, Return
<1>3. CASE Tail(todo) = <<>>
  BY <1>1, <1>2, <1>3, FinishStep DEF Starting, Movers, Setters
<1>4. CASE Tail(todo) # <<>>
  <2>1. InCall /\ Based(todo')
    BY <1>1, <1>2, <1>4, AskedTop, LastBack DEF InCall
  <2>2. Placed'
    BY <1>1, <1>2, PlacedBack DEF SameIndex, Writer
  <2>3. Hidden
    BY <1>2, <1>4, HiddenSame
  <2> QED
    BY <2>1, <2>2, <2>3, HiddenStep DEF Step2KV, BInv
<1> QED
  BY <1>3, <1>4

-----------------------------------------------------------------------------
(* Start-up *)

Swappers == Bases \ Outer

LEMMA Twins ==
    ASSUME NEW f, NEW g, \/ f.pc \notin Bases /\ g.pc \notin Bases
                         \/ f.pc \in Swappers /\ g.pc \in Swappers
    PROVE  Twin(f, g)
BY DEF Twin, Swappers, Bases, Outer

LEMMA Quick ==
    ASSUME RInv, NEW l, At(l)
    PROVE  /\ todo # <<>> /\ Top.pc = l /\ Top \in Frame /\ Tail(todo) \in Seq(Frame)
           /\ FlashOK /\ DescOK /\ RestOK /\ StackOK /\ Chain(todo)
           /\ Based(todo) /\ Placed /\ IInv /\ Headers /\ UInv /\ VInv
           /\ \A m \in Pc : [Top EXCEPT !.pc = m] \in Frame /\ [Top EXCEPT !.pc = m].pc = m
BY Running, Stack DEF RInv, BInv

LEMMA RecoverInner ==
    /\ RecoverFrames \in Seq(Frame)
    /\ \A n \in 1..Len(RecoverFrames) : RecoverFrames[n].pc \notin Bases
<1>1. /\ Call0("load") \in Frame /\ Call0("load").pc = "load"
      /\ Call0("rebuild") \in Frame /\ Call0("rebuild").pc = "rebuild"
      /\ Call0("defaults") \in Frame /\ Call0("defaults").pc = "defaults"
  BY Frames DEF Pc
<1> PICK l \in Frame, r \in Frame, d \in Frame :
      /\ l = Call0("load") /\ r = Call0("rebuild") /\ d = Call0("defaults")
      /\ l.pc \notin Bases /\ r.pc \notin Bases /\ d.pc \notin Bases
  BY <1>1 DEF Bases, Outer, Setters
<1>2. RecoverFrames = <<l, r, l, d>>
  BY DEF RecoverFrames
<1> QED
  BY <1>2

LEMMA InitClassifyKV == RInv /\ InitClassify => Step2KV
<1> SUFFICES ASSUME RInv, InitClassify PROVE Step2KV
  OBVIOUS
<1>1. At("init") /\ UNCHANGED <<slot, kv, ret, reply>>
  BY DEF InitClassify, flash
<1>2. todo # <<>> /\ Top.pc = "init" /\ StackOK /\ Based(todo) /\ Placed
  BY <1>1, Quick
<1>3. Asked(todo) = {}
  <2>1. Tail(todo) = <<>>
    BY <1>2, BasedPop DEF Outer
  <2> QED
    BY <1>2, <2>1, AskedTop DEF Setters
<1>4. \A l \in {"load", "format", "defaults", "init_done"} :
         Call0(l) \in Frame /\ Call0(l).pc = l
  BY Frames DEF Pc
<1>5. PICK q \in Seq(Frame) :
        /\ todo' = q \o <<Call0("init_done")>>
        /\ \A n \in 1..Len(q) : q[n].pc \notin Outer
  <2> DEFINE P(q) == q \in Seq(Frame) /\ \A n \in 1..Len(q) : q[n].pc \notin Outer
  <2> PICK l \in Frame, g \in Frame, d \in Frame :
        /\ l = Call0("load") /\ g = Call0("format") /\ d = Call0("defaults")
        /\ l.pc \notin Outer /\ g.pc \notin Outer /\ d.pc \notin Outer
    BY <1>4 DEF Outer, Setters
  <2>1. P(<<l, d>>) /\ P(<<g, d, l>>)
    OBVIOUS
  <2>2. P(RecoverFrames)
    BY RecoverInner DEF Bases
  <2> DEFINE x == CASE IsNormal -> <<Call0("load"), Call0("defaults")>>
                    [] IsFirstPowerOn -> <<Call0("format"), Call0("defaults"), Call0("load")>>
                    [] OTHER -> RecoverFrames
  <2>3. x \in {<<Call0("load"), Call0("defaults")>>,
               <<Call0("format"), Call0("defaults"), Call0("load")>>, RecoverFrames}
    BY Zenon
  <2>4. todo' = x \o <<Call0("init_done")>>
    BY DEF InitClassify
  <2> HIDE DEF x, P
  <2>5. P(x)
    BY <2>1, <2>2, <2>3
  <2> QED
    BY <2>4, <2>5 DEF P
<1>6. todo' # <<>> /\ Based(todo') /\ Asked(todo') = {}
  <2> PICK f \in Frame : f = Call0("init_done") /\ f.pc = "init_done"
    BY <1>4
  <2>0. <<f>> \in Seq(Frame)
    OBVIOUS
  <2> PICK b \in Seq(Frame) : b = <<f>>
    BY <2>0
  <2>1. b # <<>> /\ Based(b)
    BY DEF Based, Bases, Outer
  <2>2. Asked(b) = {}
    BY AskedOne DEF Setters
  <2> QED
    BY <1>5, <2>1, <2>2, BasedJoin
<1>7. Placed'
  <2>1. Top'.pc \notin Behind
    BY ClassifyCalls DEF Behind, Awaiting, Movers
  <2> QED
    BY <1>1, <1>2, <2>1, PlacedOn DEF SameIndex
<1> QED
  BY <1>1, <1>2, <1>3, <1>6, <1>7, HiddenSame, HiddenStep DEF InCall, Step2KV, BInv

(* Formatting erases a flash without live records.                         *)
LEMMA FormatEraseKV == RInv /\ FormatErase => Step2KV
<1> SUFFICES ASSUME RInv, FormatErase PROVE Step2KV
  OBVIOUS
<1>1. At("format") /\ EraseSector(Top.s) /\ UNCHANGED <<kv, ret, reply>>
  BY DEF FormatErase
<1>2. /\ todo # <<>> /\ Top.pc = "format" /\ Top \in Frame /\ FlashOK /\ DescOK /\ Headers
  BY <1>1, Quick
<1>3. NoneLive /\ Top.s \in Sector
  BY <1>2 DEF Headers, Formats, Blank, Frame
<1>4. Durable' = Durable
  <2>1. \A a \in Seen : ~IsLive(SlotAt(a)) /\ ~IsLive(SlotAt(a)')
    <3> SUFFICES ASSUME NEW a \in Seen PROVE ~IsLive(SlotAt(a)) /\ ~IsLive(SlotAt(a)')
      OBVIOUS
    <3>1. a[1] \in Sector /\ a[2] \in Visible /\ a[2] \in Slot
      BY SeenIs
    <3>2. ~IsLive(slot[a[1]][a[2]])
      BY <1>3, <3>1 DEF NoneLive, LiveSeen
    <3>3. slot'[a[1]][a[2]] \in {Erased, slot[a[1]][a[2]]}
      BY <1>1, <1>2, <1>3, <3>1, EraseIs
    <3> QED
      BY <3>2, <3>3, Statuses DEF SlotAt
  <2> QED
    BY <2>1, DurableSames DEF SameLive, LiveOfKey, LiveKept
<1>5. Hidden
  BY <1>1, <1>4 DEF Hidden, Copies, StoredKeys
<1> PICK f : f = [Top EXCEPT !.pc = "format_role"]
  OBVIOUS
<1>6. f \in Frame /\ f.pc = "format_role" /\ todo' = <<f>> \o Tail(todo)
  BY <1>1, Quick DEF FormatErase, Goto, Stay, Pc
<1> QED
  BY <1>1, <1>2, <1>5, <1>6, HiddenOn, Twins
    DEF SameIndex, Bases, Outer, Setters, Behind, Awaiting, Movers

LEMMA FormatRoleKV == RInv /\ FormatRole => Step2KV
<1> SUFFICES ASSUME RInv, FormatRole PROVE Step2KV
  OBVIOUS
<1>1. At("format_role") /\ UNCHANGED <<slot, kv, ret, reply>>
  BY DEF FormatRole
<1> PICK f : f = [Top EXCEPT !.pc = "format_magic"]
  OBVIOUS
<1>2. f \in Frame /\ f.pc = "format_magic" /\ todo' = <<f>> \o Tail(todo)
  BY <1>1, Quick DEF FormatRole, Goto, Stay, Pc
<1> QED
  BY <1>1, <1>2, Quick, HiddenSame, HiddenOn, Twins
    DEF SameIndex, Bases, Outer, Setters, Behind, Awaiting, Movers

LEMMA FormatMagicKV == RInv /\ FormatMagic => Step2KV
<1> SUFFICES ASSUME RInv, FormatMagic PROVE Step2KV
  OBVIOUS
<1>1. At("format_magic") /\ UNCHANGED <<slot, kv, ret, reply>>
  BY DEF FormatMagic
<1>2. /\ todo # <<>> /\ Top.pc = "format_magic" /\ Top \in Frame
      /\ Hidden /\ SameIndex /\ Top.pc \notin Bases
  BY <1>1, Quick, HiddenSame DEF SameIndex, Bases, Outer, Setters
<1>3. CASE Top.s + 1 \in Sector
  <2> PICK f : f = [Top EXCEPT !.s = @ + 1, !.pc = "format"]
    OBVIOUS
  <2>1. f \in Frame /\ f.pc = "format" /\ todo' = <<f>> \o Tail(todo)
    BY <1>2, <1>3 DEF FormatMagic, Stay, Frame, Pc
  <2> QED
    BY <1>1, <1>2, <2>1, HiddenOn, Twins
      DEF Bases, Outer, Setters, Behind, Awaiting, Movers
<1>4. CASE Top.s + 1 \notin Sector
  <2>1. todo' = Tail(todo)
    BY <1>4 DEF FormatMagic, Return
  <2> QED
    BY <1>1, <1>2, <2>1, HiddenBack DEF Writer
<1> QED
  BY <1>3, <1>4

LEMMA DefaultsKV == RInv /\ Defaults => Step2KV
<1> SUFFICES ASSUME RInv, Defaults PROVE Step2KV
  OBVIOUS
<1> DEFINE K == {k \in Key : k > Top.i /\ ~kv[k].stored}
           k == Min(K)
           c == [Top EXCEPT !.i = k, !.key = k, !.val = kv[k].val]
           f == [c EXCEPT !.pc = "defaults_commit"]
           g == [c EXCEPT !.pc = "put"]
<1>1. At("defaults") /\ UNCHANGED <<slot, kv, ret, reply>>
  BY DEF Defaults, flash
<1>2. /\ todo # <<>> /\ Top.pc = "defaults" /\ Top \in Frame /\ RestOK
      /\ Hidden /\ SameIndex /\ Top.pc \notin Bases
  BY <1>1, Quick, HiddenSame DEF SameIndex, Bases, Outer, Setters
<1>3. CASE K = {}
  <2>1. todo' = Tail(todo)
    BY <1>3 DEF Defaults, Return
  <2> QED
    BY <1>1, <1>2, <2>1, HiddenBack DEF Writer
<1>4. CASE K # {}
  <2>1. todo' = <<g, f>> \o Tail(todo)
    BY <1>4 DEF Defaults, Call
  <2>2. k \in Key /\ k \in Nat
    <3>1. K \subseteq Nat
      BY Ranges
    <3>2. k \in K
      BY <1>4, <3>1, MinNat
    <3> QED
      BY <3>1, <3>2
  <2> HIDE DEF k
  <2>3. f \in Frame /\ f.pc = "defaults_commit" /\ g \in Frame /\ g.pc = "put"
    BY <1>2, <2>2 DEF Frame, Pc, RestOK, Entry
  <2> HIDE DEF f, g
  <2>4. f.pc \notin Bases /\ g.pc \notin Behind \cup Outer
    BY <2>3 DEF Bases, Outer, Setters, Behind, Awaiting, Movers
  <2> QED
    BY <1>1, <1>2, <2>1, <2>3, <2>4, HiddenInto, Twins
<1> QED
  BY <1>3, <1>4

-----------------------------------------------------------------------------
(* Writing a record *)

LEMMA PutKV == RInv /\ Put => Step2KV
<1> SUFFICES ASSUME RInv, Put PROVE Step2KV
  OBVIOUS
<1>1. At("put") /\ UNCHANGED <<slot, kv, ret, reply>>
  BY DEF Put, flash
<1>2. /\ todo # <<>> /\ Top.pc = "put" /\ Top \in Frame /\ DescOK
      /\ Hidden /\ SameIndex /\ Top.pc \notin Bases
  BY <1>1, Quick, HiddenSame DEF SameIndex, Bases, Outer, Setters
<1>3. CASE FindWritableDataSector >= 0
  <2> DEFINE f == [Top EXCEPT !.pc = "append", !.s = FindWritableDataSector]
  <2>1. todo' = <<f>> \o Tail(todo)
    BY <1>3 DEF Put, Stay
  <2>2. f \in Frame /\ f.pc = "append"
    BY <1>2, <1>3, FindWritable DEF Frame, Pc
  <2> HIDE DEF f
  <2>3. f.pc \notin Bases /\ f.pc \notin Behind
    BY <2>2 DEF Bases, Outer, Setters, Behind, Awaiting, Movers
  <2> QED
    BY <1>1, <1>2, <2>1, <2>2, <2>3, HiddenOn, Twins
<1>4. CASE ~(FindWritableDataSector >= 0)
  <2> DEFINE g == Call0("gc")
  <2>1. g \in Frame /\ g.pc = "gc"
    BY Frames DEF Pc
  <2>2. todo' = <<g, Top>> \o Tail(todo)
    BY <1>4 DEF Put, Call
  <2> HIDE DEF g
  <2>3. g.pc \notin Behind \cup Outer
    BY <2>1 DEF Outer, Setters, Behind, Awaiting, Movers
  <2> QED
    BY <1>1, <1>2, <2>1, <2>2, <2>3, HiddenInto, Twins
<1> QED
  BY <1>3, <1>4

(* A function returns to one that waits for the record it has written.     *)
LEMMA WrittenOn ==
    ASSUME RInv, todo # <<>>, Top.pc \in {"append", "append_status"}, Hidden, SameIndex,
           ret' \in Seen, todo' = Tail(todo)
    PROVE  Step2KV
<1>1. StackOK /\ Chain(todo) /\ Based(todo) /\ Placed /\ IInv
  BY DEF RInv, IInv, TInv, SInv, BInv
<1>2. InCall /\ Based(todo')
  BY <1>1, BackOn DEF Bases, Outer, Setters
<1>3. Handed'
  <2>1. todo' # <<>>
    BY <1>2 DEF InCall
  <2>2. Link(Top, Waits) /\ Top' = Waits
    BY <1>1, <2>1, Back
  <2>3. Top'.pc \in Awaiting
    BY <2>2 DEF Link, Writer
  <2> QED
    BY <2>3 DEF Handed, Awaiting, Movers
<1>4. Within'
  BY <1>1 DEF Placed, Within, Near, SameIndex, Seen
<1> QED
  BY <1>2, <1>3, <1>4, HiddenStep DEF Step2KV, BInv, Placed

LEMMA WriteSectorStatusKV == RInv /\ WriteSectorStatus => Step2KV
<1> SUFFICES ASSUME RInv, WriteSectorStatus PROVE Step2KV
  OBVIOUS
<1>1. At("append_status") /\ UNCHANGED <<slot, kv, ret, reply>> /\ todo' = Tail(todo)
  BY DEF WriteSectorStatus, Return
<1>2. /\ todo # <<>> /\ Top.pc = "append_status" /\ Hidden /\ SameIndex /\ Placed
  BY <1>1, Quick, HiddenSame DEF SameIndex
<1>3. ret' \in Seen
  BY <1>1, <1>2 DEF Placed, Handed
<1> QED
  BY <1>1, <1>2, <1>3, WrittenOn

(* A record that is not live changes nothing durable.                      *)
LEMMA PutSame ==
    ASSUME FlashOK, NEW b \in Addr, NEW r \in Record, ~IsLive(r), slot' = PutRecord(slot, b, r)
    PROVE  Durable' = Durable
<1>1. \A c \in Seen : /\ IsLive(SlotAt(c)) <=> IsLive(SlotAt(c)')
                      /\ IsLive(SlotAt(c)) => SlotAt(c)' = SlotAt(c)
  <2> SUFFICES ASSUME NEW c \in Seen
               PROVE  /\ IsLive(SlotAt(c)) <=> IsLive(SlotAt(c)')
                      /\ IsLive(SlotAt(c)) => SlotAt(c)' = SlotAt(c)
    OBVIOUS
  <2>1. c[1] \in Sector /\ c[2] \in Slot
    BY SeenIs
  <2>2. slot'[c[1]][c[2]] = slot[c[1]][c[2]] \/ (slot[c[1]][c[2]] = Erased /\ slot'[c[1]][c[2]] = r)
    BY <2>1, RecordWrite
  <2> QED
    BY <2>2, Statuses DEF SlotAt
<1> QED
  BY <1>1, DurableSames DEF SameLive, LiveOfKey, LiveKept

(* The record is written in a slot that scans see, and is not live yet.    *)
LEMMA WriteRecordKV == RInv /\ LastSlotsFree /\ LastSlotsFree' /\ WriteRecord => Step2KV
<1> SUFFICES ASSUME RInv, LastSlotsFree, LastSlotsFree', WriteRecord PROVE Step2KV
  OBVIOUS
<1> DEFINE a == <<Top.s, used[Top.s] + 1>>
           r == NewRecord(Top.key, Top.val)
<1>1. At("append") /\ UNCHANGED <<kv, reply>> /\ slot' = PutRecord(slot, a, r) /\ ret' = a
  BY DEF WriteRecord
<1>2. /\ todo # <<>> /\ Top.pc = "append" /\ Top \in Frame /\ FlashOK /\ DescOK /\ StackOK
      /\ Based(todo) /\ Placed /\ IInv
  BY <1>1, Quick
<1>3. a \in Addr /\ Top.key \in Key /\ Top.val \in Value /\ r \in Record
  BY <1>1, <1>2, AppendAddr, Records
<1>4. ~IsLive(r) /\ r # Erased /\ ~IsLive(Erased)
  BY <1>3, Statuses, RealKeys DEF NewRecord, IsLive, Erased
<1> PICK b \in Addr : b = a
  BY <1>3
<1> HIDE DEF a, r
<1>5. \A s \in Sector : \A j \in Slot :
         slot'[s][j] = IF <<s, j>> = b /\ slot[s][j] = Erased THEN r ELSE slot[s][j]
  BY <1>1, <1>2, <1>3, RecordWrite
<1>6. b[1] \in Sector /\ b[2] \in Slot /\ b = <<b[1], b[2]>>
  BY SeenIs
<1>7. b \in Seen
  <2>1. b[2] # Slots
    <3> SUFFICES ASSUME b[2] = Slots PROVE FALSE
      OBVIOUS
    <3>1. slot[b[1]][b[2]] = Erased /\ slot'[b[1]][b[2]] = Erased
      BY <1>6 DEF LastSlotsFree
    <3> QED
      BY <1>4, <1>5, <1>6, <3>1
  <2> QED
    BY <1>6, <2>1, Sizes DEF Seen, Visible, Slot
<1>8. Durable' = Durable
  BY <1>1, <1>2, <1>3, <1>4, PutSame
<1>9. Hidden /\ SameIndex /\ ret' \in Seen
  BY <1>1, <1>7, <1>8 DEF Hidden, SameIndex, Copies, StoredKeys
<1>10. CASE todo' = Tail(todo)
  BY <1>2, <1>9, <1>10, WrittenOn
<1>11. CASE todo' # Tail(todo)
  <2> PICK f : f = [Top EXCEPT !.pc = "append_status"]
    OBVIOUS
  <2>1. f \in Frame /\ f.pc = "append_status"
    BY <1>1, Quick DEF Pc
  <2>2. todo' = <<f>> \o Tail(todo)
    BY <1>11 DEF WriteRecord, Return, Goto, Stay
  <2>3. InCall /\ Based(todo')
    BY <1>2, <2>1, <2>2, StayOn, Twins DEF Bases, Outer, Setters
  <2>4. Top' = f
    BY <1>2, <2>1, <2>2, On
  <2>5. Placed'
    BY <1>2, <1>9, <2>1, <2>4 DEF Placed, Within, Near, SameIndex, Handed, Movers, Seen
  <2> QED
    BY <1>9, <2>3, <2>5, HiddenStep DEF Step2KV, BInv
<1> QED
  BY <1>10, <1>11

-----------------------------------------------------------------------------
(* Loading a sector *)

LEMMA LoadSectorKV == RInv /\ LoadSector => Step2KV
<1> SUFFICES ASSUME RInv, LoadSector PROVE Step2KV
  OBVIOUS
<1> PICK s : s = Top.s
  OBVIOUS
<1>1. At("load") /\ UNCHANGED <<slot, ret, reply>>
  BY DEF LoadSector
<1>2. /\ todo # <<>> /\ Top.pc = "load" /\ Top \in Frame /\ StackOK /\ RestOK /\ s \in Sector
      /\ Based(todo) /\ Placed /\ IInv /\ UInv
  BY <1>1, Quick DEF Frame
<1> DEFINE K == {k \in Key : LiveOf(s, k) # {}}
<1>3. ASSUME NEW k \in K
      PROVE  /\ kv'[k].addr \in Seen /\ kv'[k].stored
             /\ kv'[k].val = Durable[k] /\ Durable[k] # Gone
  <2> PICK j : j = Max(LiveOf(s, k))
    OBVIOUS
  <2>1. LiveOf(s, k) = {i \in Visible : LiveOfKey(<<s, i>>, k)}
    BY <1>2, LoadFinds
  <2>2. j \in LiveOf(s, k)
    <3>1. LiveOf(s, k) \subseteq 0..Slots /\ LiveOf(s, k) # {}
      BY <2>1, Sizes DEF Visible
    <3> QED
      BY <3>1, MaxNat, Sizes
  <2>3. PICK a \in Seen : a = <<s, j>> /\ LiveOfKey(a, k)
    BY <1>2, <2>1, <2>2, SeenIs
  <2>4. kv'[k] = [addr |-> a, val |-> slot[s][j].val, stored |-> TRUE]
    BY <2>3 DEF LoadSector
  <2>5. Durable[k] = SlotAt(a).val
    BY <1>2, <2>3, DurableOne DEF UInv, Single, Only
  <2>6. SlotAt(a).val \in Value /\ SlotAt(a).val = slot[s][j].val
    <3>1. SlotAt(a) \in Record
      BY <2>3, SlotIs, SeenIs DEF RInv, IInv, TInv
    <3> QED
      BY <2>3, <3>1 DEF SlotAt, Record
  <2> QED
    BY <2>3, <2>4, <2>5, <2>6, GoneAssumption
<1>4. \A k \in Key \ K : kv'[k] = kv[k]
  BY DEF LoadSector
<1>5. InCall /\ Based(todo')
  <2>1. CASE s + 1 \in Sector
    <3> PICK f : f = [Top EXCEPT !.s = s + 1]
      OBVIOUS
    <3>1. f \in Frame /\ f.pc = "load" /\ todo' = <<f>> \o Tail(todo)
      BY <1>2, <2>1 DEF LoadSector, Stay, Frame
    <3> QED
      BY <1>2, <3>1, StayOn, Twins DEF Bases, Outer, Setters
  <2>2. CASE s + 1 \notin Sector
    <3>1. todo' = Tail(todo)
      BY <2>2 DEF LoadSector, Return
    <3> QED
      BY <1>2, <3>1, BackOn DEF Bases, Outer, Setters
  <2> QED
    BY <2>1, <2>2
<1>6. Placed'
  <2>1. Within'
    <3> SUFFICES ASSUME NEW k \in Key
                 PROVE  Near(kv'[k].addr) /\ (kv'[k].stored => kv'[k].addr # NoAddr)
      BY <1>1, <1>2 DEF Placed, Within, Near, Seen
    <3>1. CASE k \in K
      BY <1>3, <3>1, SeenIs DEF Near
    <3>2. CASE k \notin K
      BY <1>2, <1>4, <3>2 DEF Placed, Within
    <3> QED
      BY <3>1, <3>2
  <2>2. todo' # <<>> => Handed'
    BY <1>2, LoadCalls DEF Handed, Carriers, Awaiting, Movers
  <2> QED
    BY <2>1, <2>2 DEF Placed
<1>7. KV!Learn
  <2>1. K \subseteq {k \in Key : Durable[k] # Gone}
    BY <1>3
  <2>2. Copies' = [k \in Key |-> IF k \in K THEN Durable[k] ELSE Copies[k]]
    BY <1>3, <1>4 DEF Copies
  <2>3. StoredKeys' = StoredKeys \cup K
    BY <1>3, <1>4 DEF StoredKeys
  <2> HIDE DEF K
  <2>4. KV!Refresh
    BY <2>1, <2>2, <2>3 DEF KV!Refresh
  <2> QED
    BY <1>1, <1>5, <2>4, DurableStill DEF KV!Learn, Ready, InCall
<1> QED
  BY <1>5, <1>6, <1>7 DEF Step2KV, BInv, KV!Next

-----------------------------------------------------------------------------
(* Withdrawing a value, and committing one                                 *)

LEMMA Withdrawn ==
    ASSUME FlashOK, Single, NEW k \in Key, NEW a \in Seen, LiveOfKey(a, k),
           NEW st \in {PRE_DELETE, DELETED}, slot' = SetKvStatus(slot, a, st)
    PROVE  Durable[k] # Gone /\ Durable' = [Durable EXCEPT ![k] = Gone]
<1>1. a \in Addr \cup {NoAddr} /\ st \in {WRITE, PRE_DELETE, DELETED}
  BY SeenIs
<1>2. \A b \in Seen : \A q \in Key : LiveOfKey(b, q)' <=> LiveOfKey(b, q) /\ b # a
  BY <1>1, KillsSeen
<1>3. Durable'[k] = Gone
  BY <1>2, DurableGoneNow DEF Single, Absent
<1>4. \A q \in Key \ {k} : Durable'[q] = Durable[q]
  <2>1. LiveKept
    BY <1>1, StatusKept, KeptAll
  <2>2. \A q \in Key \ {k} : SameLive(q)
    BY <1>2 DEF SameLive, LiveOfKey
  <2> QED
    BY <2>1, <2>2, DurableSame
<1>5. Durable[k] # Gone
  <2>1. Durable[k] = SlotAt(a).val
    BY DurableOne DEF Single, Only
  <2>2. SlotAt(a) \in Record
    BY SlotIs, SeenIs
  <2> QED
    BY <2>1, <2>2, GoneAssumption DEF Record
<1> QED
  BY <1>3, <1>4, <1>5 DEF Durable

(* A durable value that is about to be withdrawn is the one in RAM, in the *)
(* migrations of a start-up too: every sector has been loaded by then.     *)
LEMMA CopyRight ==
    ASSUME IInv, UInv, VInv, Placed, todo # <<>> => Top.pc \notin Starting \cup Movers,
           NEW k \in Key, Durable[k] # Gone
    PROVE  k \in StoredKeys /\ Copies[k] = Durable[k]
<1>1. Durable[k] = IF kv[k].stored THEN kv[k].val ELSE Gone
  BY Exact, NotMoving
<1> QED
  BY <1>1 DEF StoredKeys, Copies

LEMMA CommittedNow ==
    ASSUME FlashOK, NEW k \in Key, Absent(k), NEW a \in Seen, Fresh(a, k),
           NEW v, Holds(a, v), slot' = SetKvStatus(slot, a, WRITE)
    PROVE  Durable[k] = Gone /\ Durable' = [Durable EXCEPT ![k] = v]
<1>1. a \in Addr \cup {NoAddr} /\ WRITE \in {WRITE, PRE_DELETE, DELETED}
  BY SeenIs
<1>2. \A b \in Seen : \A q \in Key : LiveOfKey(b, q) => LiveOfKey(b, q)'
  <2> SUFFICES ASSUME NEW b \in Seen, NEW q \in Key, LiveOfKey(b, q)
               PROVE  LiveOfKey(b, q)'
    OBVIOUS
  <2>1. b[1] \in Sector /\ b[2] \in Slot
    BY SeenIs
  <2> QED
    BY <1>1, <2>1, Commits DEF LiveOfKey, SlotAt
<1>3. \A b \in Seen : \A q \in Key : LiveOfKey(b, q)' => LiveOfKey(b, q) \/ (b = a /\ q = k)
  BY <1>1, CommitsSeen
<1>4. LiveOfKey(a, k)'
  <2>1. a[1] \in Sector /\ a[2] \in Slot /\ <<a[1], a[2]>> = a
    BY SeenIs
  <2>2. SlotAt(a).key = k /\ SlotAt(a).st = PRE_WRITE
    BY DEF Fresh
  <2>3. SlotAt(a)'.key = k /\ SlotAt(a)'.st = WRITE
    BY <1>1, <2>1, <2>2, Commits DEF SlotAt
  <2> QED
    BY <2>3, RealKeys DEF LiveOfKey, IsLive
<1>5. AllKept
  BY <1>1, StatusKept
<1>6. Durable'[k] = v
  <2>1. Only(k, a)'
    BY <1>3 DEF Only, Absent
  <2>2. Durable'[k] = SlotAt(a)'.val
    BY <1>4, <2>1, DurableOneNow
  <2> QED
    BY <1>5, <2>2 DEF AllKept, Holds
<1>7. \A q \in Key \ {k} : Durable'[q] = Durable[q]
  <2>1. LiveKept
    BY <1>5, KeptAll
  <2>2. \A q \in Key \ {k} : SameLive(q)
    BY <1>2, <1>3 DEF SameLive
  <2> QED
    BY <2>1, <2>2, DurableSame
<1>8. Durable[k] = Gone
  BY DurableGone
<1>9. \A q \in Key : Durable'[q] = IF q = k THEN v ELSE Durable[q]
  BY <1>6, <1>7
<1>10. Durable' = [q \in Key |-> Durable'[q]] /\ Durable = [q \in Key |-> Durable[q]]
  BY DurableFunction DEF Durable
<1> HIDE DEF Durable
<1>11. Durable' = [Durable EXCEPT ![k] = v]
  BY <1>9, <1>10
<1> QED
  BY <1>8, <1>11

-----------------------------------------------------------------------------
(* Migration *)

(* A function goes on with a record that scans see.                        *)
LEMMA MoverOn ==
    ASSUME RInv, todo # <<>>, NEW f \in Frame, Twin(f, Top), todo' = <<f>> \o Tail(todo),
           Within', f.pc \in Movers => f.new \in Seen,
           f.pc \notin Awaiting \cup {"append_status"}
    PROVE  InCall /\ BInv'
<1>1. StackOK /\ Based(todo)
  BY DEF RInv, IInv, TInv, BInv
<1>2. InCall /\ Based(todo')
  BY <1>1, StayOn
<1>3. Top' = f
  BY <1>1, On
<1> QED
  BY <1>2, <1>3 DEF BInv, Placed, Handed

LEMMA WithinOn == Within /\ UNCHANGED <<kv, ret>> => Within'
BY DEF Within, Near, Seen

LEMMA MigrateEnterKV == RInv /\ MigrateEnter => Step2KV
<1> SUFFICES ASSUME RInv, MigrateEnter PROVE Step2KV
  OBVIOUS
<1>1. At("mig_enter") /\ UNCHANGED <<slot, kv, ret>>
  BY DEF MigrateEnter, flash
<1>2. todo # <<>> /\ Top.pc = "mig_enter"
  BY <1>1, Quick
<1>3. CASE used[Top.t] = Slots
  <2>1. Fail
    BY <1>3 DEF MigrateEnter
  <2> QED
    BY <1>1, <1>2, <2>1, FailStep DEF Starting, Movers
<1>4. CASE used[Top.t] # Slots
  <2> PICK f : f = [Top EXCEPT !.pc = "migrate"]
    OBVIOUS
  <2>1. f \in Frame /\ f.pc = "migrate"
    BY <1>1, Quick DEF Pc
  <2>2. todo' = <<f>> \o Tail(todo) /\ reply' = reply
    BY <1>4 DEF MigrateEnter, Goto, Stay
  <2> QED
    BY <1>1, <1>2, <2>1, <2>2, HiddenSame, HiddenOn, Twins
      DEF SameIndex, Bases, Outer, Setters, Behind, Awaiting, Movers
<1> QED
  BY <1>3, <1>4

LEMMA MigrateKV == RInv /\ Migrate => Step2KV
<1> SUFFICES ASSUME RInv, Migrate PROVE Step2KV
  OBVIOUS
<1>1. At("migrate") /\ UNCHANGED <<slot, kv, ret>> /\ (reply' = reply \/ Fail)
  BY DEF Migrate, flash
<1>2. todo # <<>> /\ Top.pc = "migrate" /\ IInv
  BY <1>1, Quick
<1>3. CASE Fail
  BY <1>1, <1>2, <1>3, FailStep DEF Starting, Movers
<1>4. CASE ~Fail
  <2>1. Hidden /\ SameIndex
    BY <1>1, <1>4, HiddenSame DEF SameIndex
  <2>2. CASE todo' = Tail(todo)
    BY <1>1, <1>2, <2>1, <2>2, HiddenBack DEF Bases, Outer, Setters, Writer
  <2>3. CASE todo' # Tail(todo)
    <3>1. PICK f \in Frame, g \in Frame :
            /\ todo' = <<g, f>> \o Tail(todo) /\ f.pc = "mig_predelete" /\ g.pc = "append"
      BY <1>2, <1>4, <2>3, MigrateCalls
    <3>2. f.pc \notin Bases /\ Top.pc \notin Bases /\ g.pc \notin Behind \cup Outer
      BY <1>2, <3>1 DEF Bases, Outer, Setters, Behind, Awaiting, Movers
    <3> QED
      BY <1>1, <1>2, <2>1, <3>1, <3>2, HiddenInto, Twins
  <2> QED
    BY <2>2, <2>3
<1> QED
  BY <1>3, <1>4

(* The record to be moved is withdrawn.                                    *)
LEMMA MigratePreDeleteKV == RInv /\ MigratePreDelete => Step2KV
<1> SUFFICES ASSUME RInv, MigratePreDelete PROVE Step2KV
  OBVIOUS
<1> PICK k, a : k = Top.key /\ a = <<Top.s, Top.i>>
  OBVIOUS
<1> PICK f : f = [Top EXCEPT !.pc = "mig_commit", !.new = ret]
  OBVIOUS
<1>1. /\ At("mig_predelete") /\ slot' = SetKvStatus(slot, a, PRE_DELETE)
      /\ UNCHANGED <<kv, ret, reply>> /\ todo' = <<f>> \o Tail(todo)
  BY DEF MigratePreDelete, Stay
<1>2. /\ todo # <<>> /\ Top.pc = "mig_predelete" /\ Top \in Frame /\ FlashOK /\ RestOK
      /\ Placed /\ IInv /\ UInv /\ VInv
  BY <1>1, Quick
<1>3. k \in Key /\ Top.s \in Sector /\ f \in Frame /\ f.pc = "mig_commit" /\ f.new = ret
  BY <1>2 DEF Frame, Pc, RestOK
<1>4. a \in Seen /\ LiveOfKey(a, k)
  <2>1. Begun(Top)
    BY <1>2 DEF IInv, SInv, Stage, Relies
  <2> QED
    BY <1>3, <2>1, SeenIs DEF Begun, Source, LiveOfKey, SlotAt
<1>5. Durable[k] # Gone /\ Durable' = [Durable EXCEPT ![k] = Gone]
  BY <1>1, <1>2, <1>3, <1>4, Withdrawn DEF UInv
<1>6. ret \in Seen
  BY <1>2 DEF Placed, Handed, Awaiting
<1>7. InCall /\ BInv'
  <2>1. Within'
    BY <1>1, <1>2, WithinOn DEF Placed
  <2>2. Twin(f, Top)
    BY <1>2, <1>3, Twins DEF Bases, Outer, Setters
  <2> QED
    BY <1>1, <1>2, <1>3, <1>6, <2>1, <2>2, MoverOn DEF Awaiting
<1>8. k \in StoredKeys /\ Copies[k] = Durable[k]
  BY <1>2, <1>3, <1>5, CopyRight DEF Starting, Movers
<1>9. KV!Withdraw(k)
  BY <1>1, <1>5, <1>7, <1>8 DEF KV!Withdraw, InCall, Ready, Copies, StoredKeys
<1> QED
  BY <1>3, <1>7, <1>9 DEF Step2KV, KV!Next

(* The record that takes its place gives the same value back.              *)
LEMMA MigrateCommitKV == RInv /\ MigrateCommit => Step2KV
<1> SUFFICES ASSUME RInv, MigrateCommit PROVE Step2KV
  OBVIOUS
<1> PICK k, a : k = Top.key /\ a = Top.new
  OBVIOUS
<1> PICK f : f = [Top EXCEPT !.pc = "mig_deleted"]
  OBVIOUS
<1>1. /\ At("mig_commit") /\ slot' = SetKvStatus(slot, a, WRITE)
      /\ UNCHANGED <<kv, ret, reply>> /\ todo' = <<f>> \o Tail(todo)
  BY DEF MigrateCommit, Goto, Stay
<1>2. /\ todo # <<>> /\ Top.pc = "mig_commit" /\ Top \in Frame /\ FlashOK
      /\ Placed /\ IInv /\ UInv /\ VInv
  BY <1>1, Quick
<1>3. k \in Key /\ f \in Frame /\ f.pc = "mig_deleted" /\ f.new = a /\ a \in Seen
  BY <1>2 DEF Frame, Pc, Placed, Handed, Movers
<1>4. Absent(k) /\ Fresh(a, k) /\ Holds(a, kv[k].val)
  BY <1>2 DEF UInv, Moved, IInv, SInv, Stage, Relies, VInv, Carried
<1>5. Durable[k] = Gone /\ Durable' = [Durable EXCEPT ![k] = kv[k].val]
  BY <1>1, <1>2, <1>3, <1>4, CommittedNow
<1>6. InCall /\ BInv'
  <2>1. Within'
    BY <1>1, <1>2, WithinOn DEF Placed
  <2>2. Twin(f, Top)
    BY <1>2, <1>3, Twins DEF Bases, Outer, Setters
  <2> QED
    BY <1>1, <1>2, <1>3, <2>1, <2>2, MoverOn DEF Awaiting
<1>7. KV!Commit(k)
  <2>1. kv[k].val \in KV!Candidates(k)
    BY <1>3 DEF KV!Candidates, Copies
  <2> QED
    BY <1>1, <1>5, <1>6, <2>1 DEF KV!Commit, InCall, Ready, Copies, StoredKeys
<1> QED
  BY <1>3, <1>6, <1>7 DEF Step2KV, KV!Next

(* The old record is no longer live, and the index follows the new one.    *)
LEMMA MigrateDeletedKV == RInv /\ MigrateDeleted => Step2KV
<1> SUFFICES ASSUME RInv, MigrateDeleted PROVE Step2KV
  OBVIOUS
<1> PICK k, a, b : k = Top.key /\ a = <<Top.s, Top.i>> /\ b = Top.new
  OBVIOUS
<1> PICK f : f = [Top EXCEPT !.pc = "migrate"]
  OBVIOUS
<1>1. /\ At("mig_deleted") /\ slot' = SetKvStatus(slot, a, DELETED)
      /\ kv' = [kv EXCEPT ![k].addr = b, ![k].stored = TRUE]
      /\ UNCHANGED <<ret, reply>> /\ todo' = <<f>> \o Tail(todo)
  BY DEF MigrateDeleted, Goto, Stay
<1>2. /\ todo # <<>> /\ Top.pc = "mig_deleted" /\ Top \in Frame /\ FlashOK /\ RestOK
      /\ Placed /\ IInv /\ UInv
  BY <1>1, Quick
<1>3. k \in Key /\ Top.s \in Sector /\ f \in Frame /\ f.pc = "migrate" /\ b \in Seen
  BY <1>2 DEF Frame, Pc, Placed, Handed, Movers
<1>4. a \in Seen /\ ~IsLive(SlotAt(a))
  <2>1. Ended(Top)
    BY <1>2 DEF IInv, SInv, Stage, Relies
  <2> QED
    BY <1>3, <2>1, SeenIs DEF Ended, Source, SlotAt
<1>5. Durable' = Durable
  <2>1. \A c \in Seen : \A q \in Key : LiveOfKey(c, q)' <=> LiveOfKey(c, q) /\ c # a
    BY <1>1, <1>2, <1>4, SeenIs, KillsSeen
  <2>2. LiveKept
    BY <1>1, <1>2, <1>4, SeenIs, StatusKept, KeptAll
  <2> QED
    BY <1>4, <2>1, <2>2, DurableSames DEF SameLive, LiveOfKey
<1>6. kv[k].stored
  BY <1>2 DEF UInv, Moved
<1>7. \A q \in Key : kv'[q].val = kv[q].val /\ kv'[q].stored = kv[q].stored
  BY <1>1, <1>2, <1>3, <1>6 DEF RestOK, Entry
<1>8. InCall /\ BInv'
  <2>1. Within'
    BY <1>1, <1>2, <1>3, SeenIs DEF Placed, Within, Near, Seen, RestOK, Entry
  <2>2. Twin(f, Top)
    BY <1>2, <1>3, Twins DEF Bases, Outer, Setters
  <2> QED
    BY <1>1, <1>2, <1>3, <2>1, <2>2, MoverOn DEF Awaiting, Movers
<1>9. Hidden
  BY <1>1, <1>5, <1>7, SameCopies DEF Hidden
<1> QED
  BY <1>8, <1>9, HiddenStep DEF Step2KV

-----------------------------------------------------------------------------
(* A default is committed *)

LEMMA DefaultsCommitKV == RInv /\ DefaultsCommit => Step2KV
<1> SUFFICES ASSUME RInv, DefaultsCommit PROVE Step2KV
  OBVIOUS
<1> PICK k, a, v : k = Top.key /\ a = ret /\ v = Top.val
  OBVIOUS
<1> PICK f : f = [Top EXCEPT !.pc = "defaults"]
  OBVIOUS
<1>1. /\ At("defaults_commit") /\ slot' = SetKvStatus(slot, a, WRITE)
      /\ kv' = [kv EXCEPT ![k].addr = a, ![k].stored = TRUE]
      /\ UNCHANGED <<ret, reply>> /\ todo' = <<f>> \o Tail(todo)
  BY DEF DefaultsCommit, Goto, Stay
<1>2. /\ todo # <<>> /\ Top.pc = "defaults_commit" /\ Top \in Frame /\ FlashOK /\ RestOK
      /\ StackOK /\ Placed /\ IInv /\ UInv /\ VInv
  BY <1>1, Quick
<1>3. k \in Key /\ f \in Frame /\ f.pc = "defaults" /\ a \in Seen
  BY <1>2 DEF Frame, Pc, Placed, Handed, Awaiting
<1>4. Pends(todo, Top) /\ Writes(todo, k)
  <2>1. Top = todo[1] /\ 1 \in 1..Len(todo)
    BY <1>2, LastFrame
  <2> QED
    BY <1>2, <2>1 DEF Pends, Writes
<1>5. Absent(k)
  BY <1>2, <1>3, <1>4 DEF UInv, Pending
<1>6. Fresh(a, k) /\ Holds(a, v)
  BY <1>2 DEF IInv, SInv, Stage, Relies, Awaiting, VInv, Carried
<1>7. v = kv[k].val
  BY <1>2, <1>4 DEF VInv, Defaulted, Pends
<1>8. Durable[k] = Gone /\ Durable' = [Durable EXCEPT ![k] = v]
  BY <1>1, <1>2, <1>3, <1>5, <1>6, CommittedNow
<1>9. InCall /\ BInv'
  <2>1. Within'
    BY <1>1, <1>2, <1>3, SeenIs DEF Placed, Within, Near, Seen, RestOK, Entry
  <2>2. Twin(f, Top)
    BY <1>2, <1>3, Twins DEF Bases, Outer, Setters
  <2> QED
    BY <1>1, <1>2, <1>3, <2>1, <2>2, MoverOn DEF Awaiting, Movers
<1>10. \A q \in Key : /\ kv'[q].val = kv[q].val
                      /\ kv'[q].stored <=> kv[q].stored \/ q = k
  BY <1>1, <1>2, <1>3 DEF RestOK, Entry
<1>11. Copies' = Copies /\ StoredKeys' = StoredKeys \cup {k}
  <2>1. Copies' = Copies
    BY <1>10 DEF Copies
  <2>2. StoredKeys' = StoredKeys \cup {k}
    BY <1>3, <1>10 DEF StoredKeys
  <2> QED
    BY <2>1, <2>2
<1>12. KV!Commit(k)
  <2>1. v \in KV!Candidates(k)
    BY <1>3, <1>7 DEF KV!Candidates, Copies
  <2> QED
    BY <1>1, <1>8, <1>9, <1>11, <2>1 DEF KV!Commit, InCall, Ready
<1> QED
  BY <1>3, <1>9, <1>12 DEF Step2KV, KV!Next

-----------------------------------------------------------------------------
(* Rebuilding *)

LEMMA RebuildStartKV == RInv /\ RebuildStart => Step2KV
<1> SUFFICES ASSUME RInv, RebuildStart PROVE Step2KV
  OBVIOUS
<1>1. At("rebuild") /\ UNCHANGED <<slot, kv, ret, reply>>
  BY DEF RebuildStart, flash
<1>2. todo # <<>> /\ Top.pc = "rebuild" /\ Top \in Frame /\ Hidden /\ SameIndex
  BY <1>1, Quick, HiddenSame DEF SameIndex
<1>3. PICK f \in Frame : f.pc = "reb_round" /\ todo' = <<f>> \o Tail(todo)
  <2> DEFINE V == {s \in Sector : hdr[s].magic}
             E == {s \in V : used[s] < Slots /\ \A x \in V : used[s] <= used[x]}
             x == IF E = {} THEN 0 ELSE Min(E)
             f == [Top EXCEPT !.pc = "reb_round", !.s = x]
  <2>1. x \in Sector
    <3>1. E \subseteq Nat /\ E \subseteq Sector
      BY Ranges
    <3>2. E # {} => Min(E) \in E
      BY <3>1, MinNat
    <3> QED
      BY <3>1, <3>2, Ranges
  <2>2. todo' = <<f>> \o Tail(todo)
    BY DEF RebuildStart, Stay
  <2> HIDE DEF x
  <2>3. f \in Frame /\ f.pc = "reb_round"
    BY <1>2, <2>1 DEF Frame, Pc
  <2> QED
    BY <2>2, <2>3
<1>4. Twin(f, Top) /\ f.pc \notin Behind
  BY <1>2, <1>3, Twins DEF Bases, Outer, Setters, Behind, Awaiting, Movers
<1> QED
  BY <1>1, <1>2, <1>3, <1>4, HiddenOn

LEMMA RebuildRoundKV == RInv /\ RebuildRound => Step2KV
<1> SUFFICES ASSUME RInv, RebuildRound PROVE Step2KV
  OBVIOUS
<1>1. At("reb_round") /\ UNCHANGED <<slot, kv, ret, reply>>
  BY DEF RebuildRound, flash
<1>2. todo # <<>> /\ Top.pc = "reb_round" /\ Top \in Frame /\ Hidden /\ SameIndex
  BY <1>1, Quick, HiddenSame DEF SameIndex
<1>3. PICK n : n = (Top.s + Top.i + 1) % NumSectors
  OBVIOUS
<1>4. n \in Sector /\ Top.s \in Sector
  <2>1. Top.s \in Nat /\ Top.i \in Nat /\ Top.s \in Sector
    BY <1>2, Ranges DEF Frame
  <2> QED
    BY <1>3, <2>1, Ranges
<1>5. PICK f, g : f = [Top EXCEPT !.pc = "reb_erase", !.s = n] /\ g = MigrateFrame(n, Top.s)
  OBVIOUS
<1>6. todo' = <<g, f>> \o Tail(todo)
  BY <1>3, <1>5 DEF RebuildRound, Call
<1>7. f \in Frame /\ f.pc = "reb_erase" /\ g \in Frame /\ g.pc = "mig_enter"
  <2>1. g \in Frame
    BY <1>4, <1>5, MigrateFrameType, QuietIsFrame
  <2>2. g.pc = "mig_enter"
    BY <1>5 DEF MigrateFrame, Call0
  <2> QED
    BY <1>2, <1>4, <1>5, <2>1, <2>2 DEF Frame, Pc
<1>8. Twin(f, Top) /\ g.pc \notin Behind \cup Outer
  BY <1>2, <1>7, Twins DEF Bases, Outer, Setters, Behind, Awaiting, Movers
<1> QED
  BY <1>1, <1>2, <1>6, <1>7, <1>8, HiddenInto

LEMMA RebuildMagicKV == RInv /\ RebuildMagic => Step2KV
<1> SUFFICES ASSUME RInv, RebuildMagic PROVE Step2KV
  OBVIOUS
<1>1. At("reb_magic") /\ UNCHANGED <<slot, kv, ret, reply>>
  BY DEF RebuildMagic
<1> PICK f : f = [Top EXCEPT !.pc = "reb_role"]
  OBVIOUS
<1>2. f \in Frame /\ f.pc = "reb_role" /\ todo' = <<f>> \o Tail(todo)
  BY <1>1, Quick DEF RebuildMagic, Goto, Stay, Pc
<1> QED
  BY <1>1, <1>2, Quick, HiddenSame, HiddenOn, Twins
    DEF SameIndex, Bases, Outer, Setters, Behind, Awaiting, Movers

LEMMA RebuildRoleKV == RInv /\ RebuildRole => Step2KV
<1> SUFFICES ASSUME RInv, RebuildRole PROVE Step2KV
  OBVIOUS
<1>1. At("reb_role") /\ UNCHANGED <<slot, kv, ret, reply>>
  BY DEF RebuildRole
<1>2. /\ todo # <<>> /\ Top.pc = "reb_role" /\ Top \in Frame /\ Hidden /\ SameIndex
      /\ Top.pc \notin Bases \cup Writer
  BY <1>1, Quick, HiddenSame DEF SameIndex, Bases, Outer, Setters, Writer
<1>3. CASE Top.i = NumSectors - 1
  <2>1. todo' = Tail(todo)
    BY <1>3 DEF RebuildRole, Return
  <2> QED
    BY <1>1, <1>2, <2>1, HiddenBack
<1>4. CASE Top.i # NumSectors - 1
  <2> PICK f : f = [Top EXCEPT !.pc = "reb_round", !.i = @ + 1]
    OBVIOUS
  <2>1. f \in Frame /\ f.pc = "reb_round"
    <3> PICK i : i = Top.i + 1
      OBVIOUS
    <3>1. i \in Nat
      BY <1>2 DEF Frame
    <3>2. f = [Top EXCEPT !.pc = "reb_round", !.i = i]
      OBVIOUS
    <3> QED
      BY <1>2, <3>1, <3>2 DEF Frame, Pc
  <2>2. todo' = <<f>> \o Tail(todo)
    BY <1>4 DEF RebuildRole, Stay
  <2>3. Twin(f, Top) /\ f.pc \notin Behind
    BY <1>2, <2>1, Twins DEF Bases, Outer, Setters, Behind, Awaiting, Movers
  <2> QED
    BY <1>1, <1>2, <2>1, <2>2, <2>3, HiddenOn
<1> QED
  BY <1>3, <1>4

(* A sector is erased that a migration has left without live records.      *)
LEMMA ErasedSame ==
    ASSUME FlashOK, DescOK, NEW s \in Sector, EraseSector(s), ~LiveSeen(s)
    PROVE  Durable' = Durable
<1>1. \A a \in Seen : IsLive(SlotAt(a)) <=> IsLive(SlotAt(a)')
  <2> SUFFICES ASSUME NEW a \in Seen PROVE IsLive(SlotAt(a)) <=> IsLive(SlotAt(a)')
    OBVIOUS
  <2>1. a[1] \in Sector /\ a[2] \in Visible /\ a[2] \in Slot
    BY SeenIs
  <2>2. slot'[a[1]][a[2]] = IF a[1] = s THEN Erased ELSE slot[a[1]][a[2]]
    BY <2>1, EraseIs
  <2> QED
    BY <2>1, <2>2, Statuses DEF SlotAt, LiveSeen
<1>2. \A a \in Seen : IsLive(SlotAt(a)) => SlotAt(a)' = SlotAt(a)
  <2> SUFFICES ASSUME NEW a \in Seen, IsLive(SlotAt(a)) PROVE SlotAt(a)' = SlotAt(a)
    OBVIOUS
  <2>1. a[1] \in Sector /\ a[2] \in Visible /\ a[2] \in Slot
    BY SeenIs
  <2>2. a[1] # s
    BY <2>1 DEF SlotAt, LiveSeen
  <2> QED
    BY <2>1, <2>2, EraseIs DEF SlotAt
<1> QED
  BY <1>1, <1>2, EraseKept, DurableSames DEF SameLive, LiveOfKey

LEMMA EraseKV ==
    ASSUME RInv, todo # <<>>, Top.pc \in Eraser, EraseSector(Victim(Top)),
           UNCHANGED <<kv, ret, reply>>,
           NEW f \in Frame, Twin(f, Top), f.pc \notin Behind, todo' = <<f>> \o Tail(todo)
    PROVE  Step2KV
<1>1. FlashOK /\ DescOK /\ StackOK /\ ~LiveSeen(Victim(Top))
  BY DEF RInv, IInv, TInv, SInv, Stage, Relies
<1>2. Victim(Top) \in Sector
  <2>1. Top \in Frame
    BY <1>1, Stack
  <2> QED
    BY <2>1 DEF Victim, Frame
<1>3. Hidden /\ SameIndex
  BY <1>1, <1>2, ErasedSame DEF Hidden, SameIndex, Copies, StoredKeys
<1> QED
  BY <1>3, HiddenOn

LEMMA RebuildEraseKV == RInv /\ RebuildErase => Step2KV
<1> SUFFICES ASSUME RInv, RebuildErase PROVE Step2KV
  OBVIOUS
<1>1. At("reb_erase") /\ EraseSector(Top.s) /\ UNCHANGED <<kv, ret, reply>>
  BY DEF RebuildErase
<1> PICK f : f = [Top EXCEPT !.pc = "reb_magic"]
  OBVIOUS
<1>2. f \in Frame /\ f.pc = "reb_magic" /\ todo' = <<f>> \o Tail(todo)
  BY <1>1, Quick DEF RebuildErase, Goto, Stay, Pc
<1>3. /\ todo # <<>> /\ Top.pc \in Eraser /\ EraseSector(Victim(Top))
      /\ Top.pc = "reb_erase"
  BY <1>1, Quick DEF Eraser, Victim
<1> QED
  BY <1>1, <1>2, <1>3, EraseKV, Twins DEF Bases, Outer, Setters, Behind, Awaiting, Movers

-----------------------------------------------------------------------------
(* Garbage collection *)

LEMMA GcStartKV == RInv /\ GcStart => Step2KV
<1> SUFFICES ASSUME RInv, GcStart PROVE Step2KV
  OBVIOUS
<1>1. At("gc") /\ UNCHANGED <<slot, kv, ret, reply>>
  BY DEF GcStart, flash
<1>2. /\ todo # <<>> /\ Top.pc = "gc" /\ Top \in Frame /\ StackOK /\ Based(todo) /\ Placed
      /\ Chain(todo) /\ Tail(todo) \in Seq(Frame) /\ Hidden /\ SameIndex
  BY <1>1, Quick, HiddenSame DEF SameIndex
<1> PICK f : f = [Top EXCEPT !.pc = "gc_find"]
  OBVIOUS
<1>3. f \in Frame /\ f.pc = "gc_find" /\ Twin(f, Top)
  <2>1. f \in Frame /\ f.pc = "gc_find"
    BY <1>1, Quick DEF Pc
  <2> QED
    BY <1>2, <2>1, Twins DEF Swappers, Bases, Outer, Setters
<1>4. CASE IsNormal
  <2>1. todo' = <<f>> \o Tail(todo)
    BY <1>4 DEF GcStart, Goto, Stay
  <2>2. f.pc \notin Behind
    BY <1>3 DEF Behind, Awaiting, Movers
  <2> QED
    BY <1>1, <1>2, <1>3, <2>1, <2>2, HiddenOn
<1>5. CASE ~IsNormal
  <2>1. todo' = RecoverFrames \o <<f>> \o Tail(todo)
    BY <1>5 DEF GcStart
  <2> PICK q : q = <<f>> \o Tail(todo)
    OBVIOUS
  <2>2. q \in Seq(Frame) /\ q # <<>>
    BY <1>2, <1>3, TwoFrames
  <2>3. todo' = RecoverFrames \o q
    BY <1>2, <1>3, <2>1, RecoverInner
  <2>4. Based(q) /\ Asked(q) = Asked(todo)
    <3>1. /\ Based(Tail(todo))
          /\ IF Tail(todo) = <<>> THEN Top.pc \in Bases ELSE Top.pc \notin Outer
      BY <1>2, BasedPop
    <3>2. Based(q)
      BY <1>2, <1>3, <3>1, BasedPush DEF Twin
    <3>3. CASE Tail(todo) # <<>>
      BY <1>2, <3>2, <3>3, AskedPush, AskedTop
    <3>4. CASE Tail(todo) = <<>>
      <4>1. q = <<f>>
        BY <1>3, <3>4, OneFrame
      <4> QED
        BY <1>2, <1>3, <3>2, <3>4, <4>1, AskedOne, AskedTop DEF Setters
    <3> QED
      BY <3>3, <3>4
  <2>5. InCall /\ Based(todo')
    <3>1. \A n \in 1..Len(RecoverFrames) : RecoverFrames[n].pc \notin Outer
      BY RecoverInner DEF Bases
    <3>2. todo' # <<>> /\ Based(todo') /\ Asked(todo') = Asked(q)
      BY <2>2, <2>3, <2>4, <3>1, RecoverInner, BasedJoin
    <3> QED
      BY <1>2, <2>4, <3>2 DEF InCall
  <2>6. Top' = Call0("load")
    <3>1. Chain(q)
      BY <1>2, <1>3, ChainStay DEF Alike, MigPc, Writer, Setters
    <3> QED
      BY <1>2, <1>3, <2>1, <3>1, ChainRecover DEF Top
  <2>7. Placed'
    <3>1. Top'.pc \notin Behind
      BY <2>6, Frames DEF Pc, Behind, Awaiting, Movers
    <3> QED
      BY <1>1, <1>2, <3>1, PlacedOn
  <2> QED
    BY <1>2, <2>5, <2>7, HiddenStep DEF Step2KV, BInv
<1> QED
  BY <1>4, <1>5

LEMMA GcFindKV == RInv /\ GcFind => Step2KV
<1> SUFFICES ASSUME RInv, GcFind PROVE Step2KV
  OBVIOUS
<1> PICK g : g = FindSectorRole(GC)
  OBVIOUS
<1>1. At("gc_find") /\ UNCHANGED <<slot, kv, ret>>
  BY DEF GcFind
<1>2. todo # <<>> /\ Top.pc = "gc_find" /\ Top \in Frame
  BY <1>1, Quick
<1>3. CASE g < 0
  <2>1. Fail
    BY <1>3 DEF GcFind
  <2> QED
    BY <1>1, <1>2, <2>1, FailStep DEF Starting, Movers
<1>4. CASE ~(g < 0)
  <2>1. g \in Sector /\ g \in Nat
    <3>1. g \in Sector \/ g = -1
      BY FindRole
    <3>2. g # -1
      BY <1>4
    <3> QED
      BY <3>1, <3>2, Ranges
  <2> PICK t : t = (g + 1) % NumSectors
    OBVIOUS
  <2>2. t \in Sector
    BY <2>1, Ranges
  <2> PICK f : f = [Top EXCEPT !.pc = "gc_gcing", !.s = g, !.t = t]
    OBVIOUS
  <2>3. todo' = <<f>> \o Tail(todo) /\ reply' = reply
    BY <1>4 DEF GcFind, Stay
  <2>4. f \in Frame /\ f.pc = "gc_gcing"
    BY <1>2, <2>1, <2>2 DEF Frame, Pc
  <2>5. Twin(f, Top) /\ f.pc \notin Behind
    BY <1>2, <2>4, Twins DEF Swappers, Bases, Outer, Setters, Behind, Awaiting, Movers
  <2>6. Hidden /\ SameIndex
    BY <1>1, <2>3, HiddenSame DEF SameIndex
  <2> QED
    BY <1>1, <1>2, <2>3, <2>4, <2>5, <2>6, HiddenOn
<1> QED
  BY <1>3, <1>4

LEMMA GcMigrateKV == RInv /\ GcMigrate => Step2KV
<1> SUFFICES ASSUME RInv, GcMigrate PROVE Step2KV
  OBVIOUS
<1>1. At("gc_gcing") /\ UNCHANGED <<slot, kv, ret, reply>>
  BY DEF GcMigrate
<1>2. todo # <<>> /\ Top.pc = "gc_gcing" /\ Top \in Frame /\ Hidden /\ SameIndex
  BY <1>1, Quick, HiddenSame DEF SameIndex
<1>3. PICK f, g : f = [Top EXCEPT !.pc = "gc_erase"] /\ g = MigrateFrame(Top.t, Top.s)
  OBVIOUS
<1>4. todo' = <<g, f>> \o Tail(todo)
  BY <1>3 DEF GcMigrate, Call
<1>5. f \in Frame /\ f.pc = "gc_erase"
  BY <1>1, <1>3, Quick DEF Pc
<1>6. g \in Frame /\ g.pc = "mig_enter"
  <2>1. g \in Frame
    BY <1>2, <1>3, MigrateFrameType, QuietIsFrame DEF Frame
  <2>2. g.pc = "mig_enter"
    BY <1>3 DEF MigrateFrame, Call0
  <2> QED
    BY <2>1, <2>2
<1>7. Twin(f, Top) /\ g.pc \notin Behind \cup Outer
  BY <1>2, <1>5, <1>6, Twins DEF Swappers, Bases, Outer, Setters, Behind, Awaiting, Movers
<1> QED
  BY <1>1, <1>2, <1>4, <1>5, <1>6, <1>7, HiddenInto

LEMMA GcEraseKV == RInv /\ GcErase => Step2KV
<1> SUFFICES ASSUME RInv, GcErase PROVE Step2KV
  OBVIOUS
<1>1. At("gc_erase") /\ EraseSector(Top.t) /\ UNCHANGED <<kv, ret, reply>>
  BY DEF GcErase
<1> PICK f : f = [Top EXCEPT !.pc = "gc_role"]
  OBVIOUS
<1>2. f \in Frame /\ f.pc = "gc_role" /\ todo' = <<f>> \o Tail(todo)
  BY <1>1, Quick DEF GcErase, Goto, Stay, Pc
<1>3. /\ todo # <<>> /\ Top.pc \in Eraser /\ EraseSector(Victim(Top))
      /\ Top.pc = "gc_erase"
  BY <1>1, Quick DEF Eraser, Victim
<1> QED
  BY <1>1, <1>2, <1>3, EraseKV, Twins
    DEF Swappers, Bases, Outer, Setters, Behind, Awaiting, Movers

LEMMA GcHeaderKV == RInv /\ (GcRole \/ GcMagic) => Step2KV
<1> SUFFICES ASSUME RInv, GcRole \/ GcMagic PROVE Step2KV
  OBVIOUS
<1>1. PICK l \in {"gc_role", "gc_magic"}, m \in {"gc_magic", "gc_data"} :
        At(l) /\ Goto(m) /\ UNCHANGED <<slot, kv, ret, reply>>
  BY DEF GcRole, GcMagic
<1> PICK f : f = [Top EXCEPT !.pc = m]
  OBVIOUS
<1>2. f \in Frame /\ f.pc = m /\ todo' = <<f>> \o Tail(todo)
  BY <1>1, Quick DEF Goto, Stay, Pc
<1>3. todo # <<>> /\ Top.pc = l /\ Hidden /\ SameIndex
  BY <1>1, Quick, HiddenSame DEF SameIndex
<1>4. Twin(f, Top) /\ f.pc \notin Behind
  BY <1>2, <1>3, Twins DEF Swappers, Bases, Outer, Setters, Behind, Awaiting, Movers
<1> QED
  BY <1>1, <1>2, <1>3, <1>4, HiddenOn

-----------------------------------------------------------------------------
(* Setting a value *)

(* The old record is withdrawn, if there is one that scans see.            *)
LEMMA SetPreDeleteKV == RInv /\ SetPreDelete => Step2KV
<1> SUFFICES ASSUME RInv, SetPreDelete PROVE Step2KV
  OBVIOUS
<1> PICK k, a : k = Top.key /\ a = kv[Top.key].addr
  OBVIOUS
<1> PICK f : f = [Top EXCEPT !.pc = "set_commit", !.new = ret]
  OBVIOUS
<1>1. /\ At("set_written") /\ UNCHANGED <<kv, ret, reply>> /\ todo' = <<f>> \o Tail(todo)
      /\ slot' = IF a \notin {NoAddr, ret} THEN SetKvStatus(slot, a, PRE_DELETE) ELSE slot
  BY DEF SetPreDelete, Stay, Old
<1>2. /\ todo # <<>> /\ Top.pc = "set_written" /\ Top \in Frame /\ FlashOK /\ RestOK
      /\ Placed /\ IInv /\ UInv /\ VInv
  BY <1>1, Quick
<1>3. /\ k \in Key /\ f \in Frame /\ f.pc = "set_commit" /\ f.new = ret
      /\ f.key = Top.key /\ f.val = Top.val
  BY <1>2 DEF Frame, Pc, RestOK
<1>4. ret \in Seen
  BY <1>2 DEF Placed, Handed, Awaiting
<1>5. InCall /\ BInv'
  <2>1. Within'
    BY <1>1, <1>2, WithinOn DEF Placed
  <2>2. Twin(f, Top)
    BY <1>2, <1>3 DEF Twin, Bases, Outer, Setters
  <2> QED
    BY <1>1, <1>2, <1>3, <1>4, <2>1, <2>2, MoverOn DEF Awaiting
<1>6. Copies' = Copies /\ StoredKeys' = StoredKeys
  BY <1>1 DEF Copies, StoredKeys
<1>7. CASE a \notin {NoAddr, ret}
  <2>1. a \in Seen
    BY <1>2, <1>3, <1>7 DEF Placed, Within, Near
  <2>2. LiveOfKey(a, k)
    <3>1. ~Moving(k)
      BY <1>2, NotMoving DEF Movers
    <3> QED
      BY <1>2, <1>3, <2>1, <3>1 DEF IInv, SInv, Index, LiveOfKey
  <2>3. Durable[k] # Gone /\ Durable' = [Durable EXCEPT ![k] = Gone]
    BY <1>1, <1>2, <1>3, <1>7, <2>1, <2>2, Withdrawn DEF UInv
  <2>4. k \in StoredKeys /\ Copies[k] = Durable[k]
    BY <1>2, <1>3, <2>3, CopyRight DEF Starting, Movers
  <2>5. KV!Withdraw(k)
    BY <1>1, <1>5, <1>6, <2>3, <2>4 DEF KV!Withdraw, InCall, Ready
  <2> QED
    BY <1>3, <1>5, <2>5 DEF Step2KV, KV!Next
<1>8. CASE a \in {NoAddr, ret}
  <2>1. Hidden
    BY <1>1, <1>6, <1>8, DurableStill DEF Hidden
  <2> QED
    BY <1>5, <2>1, HiddenStep DEF Step2KV
<1> QED
  BY <1>7, <1>8

(* The new one becomes the value of the key.                               *)
LEMMA SetCommitKV == RInv /\ SetCommit => Step2KV
<1> SUFFICES ASSUME RInv, SetCommit PROVE Step2KV
  OBVIOUS
<1> PICK k, a, v : k = Top.key /\ a = Top.new /\ v = Top.val
  OBVIOUS
<1> PICK f : f = [Top EXCEPT !.pc = "set_deleted"]
  OBVIOUS
<1>1. /\ At("set_commit") /\ slot' = SetKvStatus(slot, a, WRITE)
      /\ UNCHANGED <<kv, ret, reply>> /\ todo' = <<f>> \o Tail(todo)
  BY DEF SetCommit, Goto, Stay
<1>2. /\ todo # <<>> /\ Top.pc = "set_commit" /\ Top \in Frame /\ FlashOK /\ StackOK
      /\ Placed /\ IInv /\ UInv /\ VInv
  BY <1>1, Quick
<1>3. /\ k \in Key /\ v \in Value /\ a \in Seen /\ f \in Frame /\ f.pc = "set_deleted"
      /\ f.new = a /\ f.key = Top.key /\ f.val = Top.val
  BY <1>2 DEF Frame, Pc, Placed, Handed, Movers
<1>4. Absent(k) /\ Fresh(a, k) /\ Holds(a, v)
  BY <1>2 DEF UInv, Moved, IInv, SInv, Stage, Relies, VInv, Carried
<1>5. Durable[k] = Gone /\ Durable' = [Durable EXCEPT ![k] = v]
  BY <1>1, <1>2, <1>3, <1>4, CommittedNow
<1>6. InCall /\ BInv'
  <2>1. Within'
    BY <1>1, <1>2, WithinOn DEF Placed
  <2>2. Twin(f, Top)
    BY <1>2, <1>3 DEF Twin, Bases, Outer, Setters
  <2> QED
    BY <1>1, <1>2, <1>3, <2>1, <2>2, MoverOn DEF Awaiting
<1>7. Asked(todo) = {<<k, v>>}
  <2>1. Tail(todo) = <<>>
    BY <1>2, SetAlone DEF Setters
  <2> QED
    BY <1>2, <2>1, AskedTop DEF Setters
<1>8. KV!Commit(k)
  <2>1. v \in KV!Candidates(k)
    BY <1>3, <1>7 DEF KV!Candidates
  <2> QED
    BY <1>1, <1>5, <1>6, <2>1 DEF KV!Commit, InCall, Ready, Copies, StoredKeys
<1> QED
  BY <1>3, <1>6, <1>8 DEF Step2KV, KV!Next

(* The old record is no longer live, and the value read is the one set.    *)
LEMMA SetDeletedKV == RInv /\ SetDeleted => Step2KV
<1> SUFFICES ASSUME RInv, SetDeleted PROVE Step2KV
  OBVIOUS
<1> PICK k, a, b, v : k = Top.key /\ a = kv[Top.key].addr /\ b = Top.new /\ v = Top.val
  OBVIOUS
<1>1. /\ At("set_deleted") /\ UNCHANGED ret /\ todo' = Tail(todo) /\ reply' = "ok"
      /\ slot' = IF a \notin {NoAddr, b} THEN SetKvStatus(slot, a, DELETED) ELSE slot
      /\ kv' = [kv EXCEPT ![k] = [addr |-> b, val |-> v, stored |-> TRUE]]
  BY DEF SetDeleted, Return, Old
<1>2. /\ todo # <<>> /\ Top.pc = "set_deleted" /\ Top \in Frame /\ FlashOK /\ RestOK
      /\ StackOK /\ Based(todo) /\ Placed /\ IInv /\ UInv /\ VInv
  BY <1>1, Quick
<1>3. k \in Key /\ v \in Value /\ b \in Seen /\ b # NoAddr
  BY <1>2, SeenIs DEF Frame, Placed, Handed, Movers
<1>4. Only(k, b) /\ Committed(b, k) /\ Holds(b, v)
  BY <1>2 DEF UInv, Moved, IInv, SInv, Stage, Relies, VInv, Carried
<1>5. LiveOfKey(b, k)
  BY <1>3, <1>4, RealKeys DEF Committed, LiveOfKey, IsLive
<1>6. Durable[k] = v
  BY <1>3, <1>4, <1>5, DurableOne DEF Holds
<1>7. Durable' = Durable
  <2>1. CASE a \notin {NoAddr, b}
    <3>1. a \in Seen /\ SlotAt(a).key = k
      BY <1>2, <1>3, <2>1 DEF Placed, Within, Near, IInv, SInv, Index
    <3>2. ~IsLive(SlotAt(a))
      BY <1>4, <2>1, <3>1 DEF Only, LiveOfKey
    <3>3. \A c \in Seen : \A q \in Key : LiveOfKey(c, q)' <=> LiveOfKey(c, q) /\ c # a
      BY <1>1, <1>2, <2>1, <3>1, SeenIs, KillsSeen
    <3>4. LiveKept
      BY <1>1, <1>2, <2>1, <3>1, SeenIs, StatusKept, KeptAll
    <3> QED
      BY <3>2, <3>3, <3>4, DurableSames DEF SameLive, LiveOfKey
  <2>2. CASE a \in {NoAddr, b}
    BY <1>1, <2>2, DurableStill
  <2> QED
    BY <2>1, <2>2
<1>8. kv'[k] = [addr |-> b, val |-> v, stored |-> TRUE] /\ \A q \in Key \ {k} : kv'[q] = kv[q]
  BY <1>1, <1>2, <1>3 DEF RestOK
<1>9. Asked(todo) = {<<k, v>>} /\ Asked(todo') = {} /\ todo' = <<>> /\ Based(todo')
  <2>1. Tail(todo) = <<>>
    BY <1>2, SetAlone DEF Setters
  <2> QED
    BY <1>1, <1>2, <2>1, AskedTop, BasedNone DEF Setters
<1>10. Placed'
  BY <1>1, <1>2, <1>3, <1>8, <1>9 DEF Placed, Within, Near, Seen
<1>11. \A q \in Key : Durable'[q] = IF kv'[q].stored THEN kv'[q].val ELSE Gone
  <2> SUFFICES ASSUME NEW q \in Key
               PROVE  Durable'[q] = IF kv'[q].stored THEN kv'[q].val ELSE Gone
    OBVIOUS
  <2>1. CASE q = k
    BY <1>6, <1>7, <1>8, <2>1
  <2>2. CASE q # k
    <3>1. ~Moving(q) /\ Top.pc \notin Starting
      BY <1>2, <2>2, Movings DEF Starting
    <3> QED
      BY <1>2, <1>7, <1>8, <2>2, <3>1, Exact
  <2> QED
    BY <2>1, <2>2
<1>12. KV!Refresh
  <2>1. {k} \subseteq {q \in Key : Durable[q] # Gone}
    BY <1>3, <1>6, GoneAssumption
  <2>2. Copies' = [q \in Key |-> IF q \in {k} THEN Durable[q] ELSE Copies[q]]
    BY <1>6, <1>8 DEF Copies
  <2>3. StoredKeys' = StoredKeys \cup {k}
    BY <1>3, <1>8 DEF StoredKeys
  <2> QED
    BY <2>1, <2>2, <2>3 DEF KV!Refresh
<1>13. KV!Settled(Copies', StoredKeys')
  BY <1>7, <1>11 DEF KV!Settled, Copies, StoredKeys
<1>14. KV!Finish
  BY <1>1, <1>2, <1>6, <1>7, <1>9, <1>12, <1>13 DEF KV!Finish, Ready
<1> QED
  BY <1>9, <1>10, <1>14 DEF Step2KV, BInv, KV!Next

-----------------------------------------------------------------------------
(* The calls of the client *)

(* Between calls RAM and flash agree.                                      *)
LEMMA Agreed ==
    ASSUME RInv, Ready, NEW k \in Key
    PROVE  /\ kv[k].stored <=> kv[k].addr # NoAddr
           /\ Readable(k) <=> kv[k].stored
           /\ Readable(k) => FlashVal(k) = kv[k].val /\ LiveOfKey(kv[k].addr, k)
           /\ Durable[k] = IF kv[k].stored THEN kv[k].val ELSE Gone
           /\ kv[k].val \in Value
           /\ ReadBack(k) = kv
<1>1. IInv /\ UInv /\ VInv /\ Placed /\ RestOK /\ todo = <<>> /\ ~Moving(k)
  BY DEF RInv, BInv, IInv, TInv, Ready, Moving
<1>2. /\ kv[k].stored <=> kv[k].addr # NoAddr
      /\ kv[k].stored => kv[k].addr \in Seen /\ LiveOfKey(kv[k].addr, k)
  BY <1>1, StoredIs
<1>3. Readable(k) <=> kv[k].stored
  BY <1>2 DEF Readable, LiveOfKey, SlotAt
<1>4. Readable(k) => FlashVal(k) = kv[k].val
  BY <1>1, <1>2, <1>3 DEF VInv, Values, Holds, FlashVal, SlotAt
<1>5. ReadBack(k) = kv
  <2>1. [kv EXCEPT ![k].val = kv[k].val] = kv
    BY <1>1 DEF RestOK, Entry
  <2> QED
    BY <1>4, <2>1 DEF ReadBack
<1>6. Durable[k] = IF kv[k].stored THEN kv[k].val ELSE Gone
  BY <1>1, Exact
<1> QED
  BY <1>1, <1>2, <1>3, <1>4, <1>5, <1>6 DEF RestOK, Entry

(* A call that changes nothing durable, or starts.                         *)
LEMMA ReadyOn ==
    ASSUME RInv, Ready, UNCHANGED <<slot, kv, ret>>, Based(todo'),
           todo' # <<>> => Top'.pc \notin Behind
    PROVE  /\ BInv' /\ Asked(todo) = {}
           /\ Durable' = Durable /\ Copies' = Copies /\ StoredKeys' = StoredKeys
<1>1. Placed'
  BY PlacedOn DEF RInv, BInv, SameIndex
<1>2. Asked(todo) = {}
  BY BasedNone DEF Ready
<1> QED
  BY <1>1, <1>2, DurableStill DEF BInv, Copies, StoredKeys

LEMMA AnswerOn ==
    ASSUME RInv, Ready, UNCHANGED <<slot, kv, ret, todo>>, NEW k \in Key,
           reply' = IF kv[k].stored THEN "ok" ELSE "err"
    PROVE  Step2KV
<1>1. /\ BInv' /\ Asked(todo) = {} /\ Durable' = Durable /\ Copies' = Copies
      /\ StoredKeys' = StoredKeys
  BY BasedNone, ReadyOn DEF Ready
<1>2. KV!Answer(k)
  BY <1>1 DEF KV!Answer, Ready, StoredKeys
<1> QED
  BY <1>1, <1>2 DEF Step2KV, KV!Next

LEMMA GetKV == \A k \in Key : RInv /\ Get(k) => Step2KV
<1> SUFFICES ASSUME NEW k \in Key, RInv, Get(k) PROVE Step2KV
  OBVIOUS
<1>1. Ready /\ kv' = ReadBack(k) /\ UNCHANGED <<slot, ret, todo>>
  BY DEF Get, flash
<1>2. reply' = IF Readable(k) THEN "ok" ELSE "err"
  BY DEF Get
<1> QED
  BY <1>1, <1>2, Agreed, AnswerOn

(* A set that has something to write asks for a new value.                 *)
LEMMA SetKV == \A k \in Key : \A v \in Value : RInv /\ Set(k, v) => Step2KV
<1> SUFFICES ASSUME NEW k \in Key, NEW v \in Value, RInv, Set(k, v) PROVE Step2KV
  OBVIOUS
<1> PICK f : f = [Call0("set_written") EXCEPT !.key = k, !.val = v]
  OBVIOUS
<1> PICK g : g = [f EXCEPT !.pc = "put"]
  OBVIOUS
<1>1. Ready /\ kv' = kv /\ UNCHANGED <<slot, ret>>
  BY Agreed DEF Set, flash
<1>2. CASE Readable(k) /\ FlashVal(k) = v
  <2>1. reply' = "ok" /\ todo' = todo
    BY <1>2 DEF Set
  <2> QED
    BY <1>1, <1>2, <2>1, Agreed, AnswerOn
<1>3. CASE ~(Readable(k) /\ FlashVal(k) = v)
  <2>1. Readable(k) \/ kv[k].addr = NoAddr
    BY <1>1, Agreed
  <2>2. reply' = "none" /\ todo' = <<g, f>>
    BY <1>3, <2>1 DEF Set
  <2>3. /\ f \in Frame /\ f.pc = "set_written" /\ f.key = k /\ f.val = v
        /\ g \in Frame /\ g.pc = "put"
    <3>1. Call0("set_written") \in Frame /\ Call0("set_written").pc = "set_written"
      BY Frames DEF Pc
    <3> PICK h \in Frame : h = Call0("set_written") /\ h.pc = "set_written"
      BY <3>1
    <3> QED
      BY DEF Frame, Pc
  <2> PICK q : q = <<f>>
    OBVIOUS
  <2>4. q \in Seq(Frame) /\ q # <<>> /\ todo' = <<g>> \o q /\ todo' # <<>> /\ Top' = g
    BY <2>2, <2>3 DEF Top
  <2>5. Based(q) /\ Asked(q) = {<<k, v>>}
    <3>1. f.pc \in Bases /\ f.pc \in Setters
      BY <2>3 DEF Bases, Outer, Setters
    <3> QED
      BY <2>3, <3>1, AskedOne, BasedOne
  <2>6. Based(todo') /\ Asked(todo') = {<<k, v>>}
    BY <2>3, <2>4, <2>5, BasedPush, AskedPush DEF Outer, Setters
  <2>7. /\ BInv' /\ Asked(todo) = {} /\ Durable' = Durable /\ Copies' = Copies
        /\ StoredKeys' = StoredKeys
    BY <1>1, <2>3, <2>4, <2>6, ReadyOn DEF Behind, Awaiting, Movers
  <2>8. v # Durable[k]
    BY <1>1, <1>3, Agreed, GoneAssumption
  <2>9. KV!Start
    BY <1>1, <2>2, <2>4, <2>6, <2>7, <2>8 DEF KV!Start, Ready
  <2> QED
    BY <2>7, <2>9 DEF Step2KV, KV!Next
<1> QED
  BY <1>2, <1>3

LEMMA StartOn ==
    ASSUME RInv, Ready, UNCHANGED <<slot, kv, ret>>, reply' = "none",
           NEW l \in {"gc", "hung"}, todo' = <<Call0(l)>>
    PROVE  Step2KV
<1> PICK f \in Frame : f = Call0(l) /\ f.pc = l
  BY Frames DEF Pc
<1>1. todo' = <<f>> /\ todo' # <<>> /\ Top' = f
  BY DEF Top
<1>2. Based(todo') /\ Asked(todo') = {}
  <2>1. f.pc \in Bases /\ f.pc \notin Setters
    BY DEF Bases, Outer, Setters
  <2> QED
    BY <1>1, <2>1, AskedOne, BasedOne
<1>3. /\ BInv' /\ Asked(todo) = {} /\ Durable' = Durable /\ Copies' = Copies
      /\ StoredKeys' = StoredKeys
  BY <1>1, <1>2, ReadyOn DEF Behind, Awaiting, Movers
<1>4. KV!Start
  BY <1>1, <1>2, <1>3 DEF KV!Start, Ready
<1> QED
  BY <1>3, <1>4 DEF Step2KV, KV!Next

LEMMA CollectKV == RInv /\ Collect => Step2KV
BY StartOn DEF Collect, flash

LEMMA DeleteKV == \A k \in Key : RInv /\ Delete(k) => Step2KV
<1> SUFFICES ASSUME NEW k \in Key, RInv, Delete(k) PROVE Step2KV
  OBVIOUS
<1> PICK a : a = kv[k].addr
  OBVIOUS
<1>1. Ready /\ UNCHANGED ret
  BY DEF Delete
<1>2. CASE a = NoAddr
  <2>1. todo' = <<Call0("hung")>> /\ reply' = "none" /\ UNCHANGED <<slot, kv>>
    BY <1>2 DEF Delete
  <2> QED
    BY <1>1, <2>1, StartOn
<1>3. CASE a # NoAddr
  <2>1. /\ slot' = SetKvStatus(slot, a, DELETED) /\ reply' = "ok" /\ UNCHANGED todo
        /\ kv' = [kv EXCEPT ![k].addr = NoAddr, ![k].stored = FALSE]
    BY <1>3 DEF Delete
  <2>2. kv[k].stored /\ LiveOfKey(a, k)
    BY <1>1, <1>3, Agreed
  <2>3. FlashOK /\ RestOK /\ UInv /\ IInv /\ Placed
    BY DEF RInv, BInv, IInv, TInv
  <2>4. a \in Seen
    BY <2>2, <2>3, StoredIs
  <2>5. Durable' = [Durable EXCEPT ![k] = Gone]
    BY <2>1, <2>2, <2>3, <2>4, Withdrawn DEF UInv
  <2>6. \A q \in Key : /\ kv'[q].val = kv[q].val
                       /\ kv'[q].addr = IF q = k THEN NoAddr ELSE kv[q].addr
                       /\ kv'[q].stored <=> kv[q].stored /\ q # k
    BY <2>1, <2>3 DEF RestOK, Entry
  <2>7. Copies' = Copies /\ StoredKeys' = StoredKeys \ {k} /\ k \in StoredKeys
    <3>1. Copies' = Copies
      BY <2>6 DEF Copies
    <3>2. StoredKeys' = StoredKeys \ {k}
      BY <2>6 DEF StoredKeys
    <3> QED
      BY <2>2, <3>1, <3>2 DEF StoredKeys
  <2>8. BInv'
    <3>1. Within'
      BY <1>1, <2>3, <2>6 DEF Placed, Within, Near, Seen
    <3> QED
      BY <1>1, <2>1, <3>1, BasedNone DEF BInv, Placed, Ready
  <2>9. KV!Delete(k)
    BY <1>1, <2>1, <2>5, <2>7 DEF KV!Delete, Ready
  <2> QED
    BY <2>8, <2>9 DEF Step2KV, KV!Next
<1> QED
  BY <1>2, <1>3

-----------------------------------------------------------------------------
(* Power cuts, and the first start-up                                      *)

LEMMA ResetOn ==
    ASSUME todo' = <<Call0("init")>>, ret' = NoAddr, kv' = ResetKv
    PROVE  /\ BInv' /\ todo' # <<>> /\ Asked(todo') = {}
           /\ Copies' = [k \in Key |-> Default] /\ StoredKeys' = {}
<1> PICK f \in Frame : f = Call0("init") /\ f.pc = "init"
  BY Fresh0
<1>1. todo' = <<f>> /\ todo' # <<>> /\ Top' = f
  BY DEF Top
<1>2. Based(todo') /\ Asked(todo') = {}
  <2>1. f.pc \in Bases /\ f.pc \notin Setters
    BY DEF Bases, Outer, Setters
  <2> QED
    BY <1>1, <2>1, AskedOne, BasedOne
<1>3. \A k \in Key : kv'[k] = [addr |-> NoAddr, val |-> Default, stored |-> FALSE]
  BY DEF ResetKv
<1>4. Placed'
  <2>1. Within'
    BY <1>3 DEF Within, Near
  <2>2. Handed'
    BY <1>1 DEF Handed, Awaiting, Movers
  <2> QED
    BY <2>1, <2>2 DEF Placed
<1>5. Copies' = [k \in Key |-> Default] /\ StoredKeys' = {}
  BY <1>3 DEF Copies, StoredKeys
<1> QED
  BY <1>1, <1>2, <1>4, <1>5 DEF BInv

LEMMA PowerCutKV == RInv /\ PowerCut => Step2KV
<1> SUFFICES ASSUME RInv, PowerCut PROVE Step2KV
  OBVIOUS
<1>1. todo' = <<Call0("init")>> /\ ret' = NoAddr /\ kv' = ResetKv /\ reply' = "none"
  BY DEF PowerCut
<1>2. Durable' = Durable
  <2>1. CASE slot' = slot
    BY <2>1, DurableStill
  <2>2. CASE slot' # slot
    <3> PICK a : a = <<Top.s, used[Top.s] + 1>>
      OBVIOUS
    <3>1. At("append") /\ slot' = PutRecord(slot, a, Torn)
      BY <2>2 DEF PowerCut
    <3>2. FlashOK /\ a \in Addr /\ Torn \in Record /\ ~IsLive(Torn)
      BY <3>1, AppendAddr, Records DEF RInv, Torn, IsLive
    <3> QED
      BY <3>1, <3>2, PutSame
  <2> QED
    BY <2>1, <2>2
<1>3. KV!PowerCut
  BY <1>1, <1>2, ResetOn DEF KV!PowerCut, Ready
<1> QED
  BY <1>1, <1>3, ResetOn DEF Step2KV, KV!Next

LEMMA InitKV == Init => BInv /\ KV!Init
<1> SUFFICES ASSUME Init PROVE BInv /\ KV!Init
  OBVIOUS
<1> PICK f \in Frame : f = Call0("init") /\ f.pc = "init"
  BY Fresh0
<1>1. todo = <<f>> /\ todo # <<>> /\ Top = f
  BY DEF Init, Top
<1>2. Based(todo) /\ Asked(todo) = {}
  <2>1. f.pc \in Bases /\ f.pc \notin Setters
    BY DEF Bases, Outer, Setters
  <2> QED
    BY <1>1, <2>1, AskedOne, BasedOne
<1>3. \A k \in Key : kv[k] = [addr |-> NoAddr, val |-> Default, stored |-> FALSE]
  BY DEF Init, ResetKv
<1>4. Placed
  <2>1. Within
    BY <1>3 DEF Init, Within, Near
  <2>2. Handed
    BY <1>1 DEF Handed, Awaiting, Movers
  <2> QED
    BY <2>1, <2>2 DEF Placed
<1>5. Copies = [k \in Key |-> Default] /\ StoredKeys = {}
  BY <1>3 DEF Copies, StoredKeys
<1>6. Durable = [k \in Key |-> Gone]
  <2>1. \A k \in Key : LiveAddrs(k) = {}
    <3>1. \A a \in Seen : ~IsLive(SlotAt(a))
      <4>1. \A s \in Sector : \A j \in Slot : slot[s][j] = Erased
        BY DEF Init
      <4> QED
        BY <4>1, SeenIs, Statuses DEF SlotAt
    <3> QED
      BY <3>1, LiveAddrsAre DEF LiveOfKey
  <2> QED
    BY <2>1 DEF Durable
<1> QED
  BY <1>1, <1>2, <1>4, <1>5, <1>6 DEF BInv, KV!Init, Init, Ready

LEMMA StutterKV == RInv /\ UNCHANGED vars => Step2KV
<1> SUFFICES ASSUME RInv, UNCHANGED vars PROVE Step2KV
  OBVIOUS
<1>1. UNCHANGED <<slot, kv, todo, ret, reply>>
  BY DEF vars
<1>2. Hidden
  BY <1>1, HiddenSame
<1>3. BInv'
  BY <1>1 DEF RInv, BInv, Placed, Within, Handed, Near, Seen, Based, Top
<1> QED
  BY <1>1, <1>2, <1>3 DEF Step2KV, Hidden, KV!vars, Ready

-----------------------------------------------------------------------------
(* The refinement                                                          *)

LEMMA StepKV == RInv /\ LastSlotsFree /\ LastSlotsFree' /\ Step => Step2KV
BY InitClassifyKV, InitDoneKV, LoadSectorKV, FormatEraseKV, FormatRoleKV, FormatMagicKV,
   DefaultsKV, DefaultsCommitKV, PutKV, WriteRecordKV, WriteSectorStatusKV,
   MigrateEnterKV, MigrateKV, MigratePreDeleteKV, MigrateCommitKV, MigrateDeletedKV,
   RebuildStartKV, RebuildRoundKV, RebuildEraseKV, RebuildMagicKV, RebuildRoleKV,
   GcStartKV, GcFindKV, GcMigrateKV, GcEraseKV, GcHeaderKV, GcDataKV,
   SetPreDeleteKV, SetCommitKV, SetDeletedKV
   DEF Step

LEMMA NextKV == RInv /\ LastSlotsFree /\ LastSlotsFree' /\ [Next]_vars => Step2KV
<1> SUFFICES ASSUME RInv, LastSlotsFree, LastSlotsFree', [Next]_vars PROVE Step2KV
  OBVIOUS
<1>1. CASE Step
  BY <1>1, StepKV
<1>2. CASE Update
  BY <1>2, GetKV, SetKV DEF Update
<1>3. CASE Collect \/ PowerCut \/ \E k \in Key : Delete(k)
  BY <1>3, CollectKV, PowerCutKV, DeleteKV
<1>4. CASE UNCHANGED vars
  BY <1>4, StutterKV
<1> QED
  BY <1>1, <1>2, <1>3, <1>4 DEF Next

(* Every behaviour of the engine is one of KVStore, whatever clients ask   *)
(* for and wherever power fails, unless recovery is entered again while it *)
(* writes a default, or a record reaches the last slot of a sector, which  *)
(* no scan reads.  So a set replaces the value of a key by the one it was  *)
(* asked to write, and only through a moment without a value; collections, *)
(* rebuilds and start-ups give every value back unchanged; no call returns *)
(* before RAM and flash agree; and a call that fails loses nothing.        *)
THEOREM Refinement ==
    Spec /\ []RecoveryNotReentered /\ []LastSlotsFree => ImplementsKVStore
<1> DEFINE HInv == IInv /\ Headers /\ UInv /\ VInv
<1>1. Spec /\ []RecoveryNotReentered => []HInv
  BY AlwaysValued
<1>2. Init => BInv /\ KV!Init
  BY InitKV
<1>3. HInv /\ BInv /\ LastSlotsFree /\ LastSlotsFree' /\ [Next]_vars
        => BInv' /\ [KV!Next]_(KV!vars)
  BY NextKV DEF RInv, Step2KV
<1> HIDE DEF HInv
<1> QED
  BY <1>1, <1>2, <1>3, PTL DEF Spec, ImplementsKVStore, KV!Spec

(* As long as the power has never failed neither exception arises, for any *)
(* client: the engine then implements KVStore outright.                    *)
THEOREM UncutRefinement == Spec /\ [](crashes = 0) => ImplementsKVStore
<1> DEFINE HInv == IInv /\ Headers /\ UncutInv
<1>1. Spec => []HInv
  BY AlwaysUncut
<1>2. HInv /\ crashes = 0 => RecoveryNotReentered /\ LastSlotsFree
  BY NotReentered DEF UncutInv, NInv, Spacious, LastSlotsFree
<1> HIDE DEF HInv
<1> QED
  BY <1>1, <1>2, Refinement, PTL
=============================================================================
