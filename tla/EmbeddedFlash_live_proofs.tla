---------------------- MODULE EmbeddedFlash_live_proofs ---------------------
(***************************************************************************)
(* Which records of a key are live, for every number of sectors, slots,    *)
(* keys, values and power cuts.                                            *)
(*                                                                         *)
(* A scan takes the last live record it meets, so there must never be two  *)
(* of a key.  A set and a migration kill the old record before they commit *)
(* the new one, and kill it where the RAM index says it is: Single needs   *)
(* Complete, which says that the index knows every live record of the      *)
(* sectors scanned so far.  A default is committed without killing         *)
(* anything: Pending says that a key whose default is being written has no *)
(* live record, for every such write on the call stack.  That is true of   *)
(* two writes at once only until the first of them is committed: what      *)
(* follows is for behaviours in which recovery is not entered again while  *)
(* it writes a default (RecoveryNotReentered).                             *)
(***************************************************************************)
EXTENDS EmbeddedFlash_index_proofs

LiveOfKey(a, k) == IsLive(SlotAt(a)) /\ SlotAt(a).key = k
Absent(k)  == \A a \in Seen : ~LiveOfKey(a, k)
Only(k, b) == \A a \in Seen : LiveOfKey(a, k) => a = b

Single == \A k \in Key : \A a, b \in Seen : LiveOfKey(a, k) /\ LiveOfKey(b, k) => a = b

Complete == \A k \in Key : \A a \in Seen :
    LiveOfKey(a, k) /\ Known(a[1]) => Moving(k) \/ kv[k].addr = a

Stored == \A k \in Key : kv[k].addr # NoAddr => kv[k].stored

(* The calls that are writing a default value, and the keys they write.    *)
Pends(q, f)  == f.pc = "defaults_commit" /\ \E n \in 1..Len(q) : q[n] = f
Writes(q, k) == \E n \in 1..Len(q) : Pends(q, q[n]) /\ q[n].key = k
Pending == \A k \in Key : Writes(todo, k) => Absent(k) /\ ~kv[k].stored

Moved ==
    /\ Top.pc \in {"mig_commit", "mig_deleted"} => kv[Top.key].stored
    /\ Top.pc \in {"mig_commit", "set_commit"} => Absent(Top.key)
    /\ Top.pc \in {"mig_deleted", "set_deleted"} => Only(Top.key, Top.new)

UInv == Single /\ Complete /\ Stored /\ Pending /\ (todo # <<>> => Moved)

-----------------------------------------------------------------------------
(* The call stack *)

LEMMA PendsPush ==
    ASSUME NEW f \in Frame, NEW q \in Seq(Frame), NEW c, Pends(<<f>> \o q, c)
    PROVE  c = f \/ Pends(q, c)
<1> DEFINE p == <<f>> \o q
<1>1. PICK n \in 1..Len(p) : p[n] = c
  BY DEF Pends
<1>2. p[1] = f
  OBVIOUS
<1>3. CASE n # 1
  <2>1. n - 1 \in 1..Len(q) /\ p[n] = q[n - 1]
    BY <1>1, <1>3
  <2> QED
    BY <1>1, <2>1 DEF Pends
<1> QED
  BY <1>1, <1>2, <1>3

LEMMA PendsOne ==
    ASSUME NEW f \in Frame, f.pc # "defaults_commit", NEW q \in Seq(Frame), NEW c,
           Pends(<<f>> \o q, c)
    PROVE  Pends(q, c)
BY PendsPush DEF Pends

LEMMA PendsTail ==
    ASSUME NEW q \in Seq(Frame), q # <<>>, NEW c, Pends(Tail(q), c)
    PROVE  Pends(q, c)
<1> DEFINE p == Tail(q)
<1>1. PICK n \in 1..Len(p) : p[n] = c
  BY DEF Pends
<1>2. n + 1 \in 1..Len(q) /\ p[n] = q[n + 1]
  BY <1>1
<1> QED
  BY <1>1, <1>2 DEF Pends

LEMMA PendsSuffix ==
    ASSUME NEW q \in Seq(Frame), NEW j \in 1..Len(q), NEW c, Pends(SubSeq(q, j, Len(q)), c)
    PROVE  Pends(q, c)
<1> DEFINE p == SubSeq(q, j, Len(q))
<1>1. PICK n \in 1..Len(p) : p[n] = c
  BY DEF Pends
<1>2. Len(p) = Len(q) - j + 1
  OBVIOUS
<1>3. n + j - 1 \in 1..Len(q) /\ p[n] = q[n + j - 1]
  BY <1>1, <1>2
<1> QED
  BY <1>1, <1>3 DEF Pends

LEMMA PendsNone == \A c : ~Pends(<<>>, c)
BY DEF Pends

(* How every step but one changes the stack, seen from Pending.            *)
Calm ==
    \/ todo' = <<>>
    \/ todo' = todo
    \/ todo # <<>> /\ todo' = Tail(todo)
    \/ \E f \in Frame : f.pc # "defaults_commit" /\ todo' = <<f>>
    \/ \E f, g \in Frame : /\ f.pc # "defaults_commit" /\ g.pc # "defaults_commit"
                           /\ todo' = <<g, f>>
    \/ todo # <<>> /\ \E f \in Frame : f.pc # "defaults_commit" /\ todo' = <<f>> \o Tail(todo)
    \/ todo # <<>> /\ \E f, g \in Frame : /\ f.pc # "defaults_commit" /\ g.pc # "defaults_commit"
                                         /\ todo' = <<g, f>> \o Tail(todo)
    \/ todo # <<>> /\ Fail

LEMMA FailPends ==
    ASSUME StackOK, todo # <<>>, Fail, NEW c, Pends(todo, c)'
    PROVE  Pends(todo, c)
<1>1. CASE todo' = <<>>
  BY <1>1, PendsNone
<1>2. CASE todo' = <<Call0("init_failed")>>
  <2>1. todo' = <<Call0("init_failed")>> \o <<>>
    BY <1>2
  <2>2. Call0("init_failed") \in Frame /\ Call0("init_failed").pc # "defaults_commit"
    BY Frames DEF Pc
  <2>3. <<>> \in Seq(Frame)
    OBVIOUS
  <2>4. Pends(<<>>, c)
    BY <2>1, <2>2, <2>3, PendsOne
  <2> QED
    BY <2>4, PendsNone
<1>3. CASE \E j \in 1..Len(todo) : todo' = SubSeq(todo, j, Len(todo))
  BY <1>3, PendsSuffix DEF StackOK
<1>4. \/ todo' = <<>>
      \/ todo' = <<Call0("init_failed")>>
      \/ \E j \in 1..Len(todo) : todo' = SubSeq(todo, j, Len(todo))
  <2> DEFINE j == Min(Handlers)
  <2>1. Handlers # {} => j \in 1..Len(todo)
    <3>1. Handlers \subseteq Nat /\ Handlers \subseteq 1..Len(todo)
      BY DEF Handlers, StackOK
    <3> QED
      BY <3>1, MinNat
  <2>2. Handlers = {} => todo' = <<>>
    BY Zenon DEF Fail
  <2>3. Handlers # {} => CASE todo[j].pc = "gc_find"   -> todo' = SubSeq(todo, j, Len(todo))
                           [] todo[j].pc = "init_done" -> todo' = <<Call0("init_failed")>>
                           [] OTHER                    -> todo' = <<>>
    BY Zenon DEF Fail
  <2> HIDE DEF j
  <2> QED
    BY <2>1, <2>2, <2>3, Zenon
<1> QED
  BY <1>1, <1>2, <1>3, <1>4

LEMMA CalmPends ==
    ASSUME StackOK, Calm, NEW c, Pends(todo, c)'
    PROVE  Pends(todo, c)
<1>1. todo \in Seq(Frame) /\ (todo # <<>> => Tail(todo) \in Seq(Frame))
  BY DEF StackOK
<1>2. \A f \in Frame : <<f>> = <<f>> \o <<>> /\ <<>> \in Seq(Frame)
  OBVIOUS
<1>3. \A f \in Frame, g \in Frame :
        <<g, f>> = <<g>> \o (<<f>> \o <<>>) /\ <<f>> \o <<>> \in Seq(Frame)
  OBVIOUS
<1> DEFINE e == <<>>
<1>a. e \in Seq(Frame) /\ ~Pends(e, c)
  BY PendsNone
<1> HIDE DEF e
<1>b. \A f \in Frame : f.pc # "defaults_commit" => ~Pends(<<f>> \o e, c)
  BY <1>a, PendsOne
<1>c. \A f \in Frame : f.pc # "defaults_commit" => ~Pends(<<f>> \o <<>>, c)
  BY <1>b DEF e
<1>4. CASE todo' = <<>>
  BY <1>4, PendsNone
<1>5. CASE todo # <<>> /\ todo' = Tail(todo)
  BY <1>1, <1>5, PendsTail
<1>6. CASE \E f \in Frame : f.pc # "defaults_commit" /\ todo' = <<f>>
  <2>1. PICK f \in Frame : f.pc # "defaults_commit" /\ todo' = <<f>> \o <<>>
    BY <1>2, <1>6
  <2> QED
    BY <1>c, <2>1
<1>7. CASE \E f, g \in Frame : /\ f.pc # "defaults_commit" /\ g.pc # "defaults_commit"
                               /\ todo' = <<g, f>>
  <2>1. PICK f \in Frame, g \in Frame : /\ f.pc # "defaults_commit" /\ g.pc # "defaults_commit"
                                        /\ todo' = <<g>> \o (<<f>> \o <<>>)
    BY <1>3, <1>7
  <2>2. Pends(<<f>> \o <<>>, c)
    BY <1>3, <2>1, PendsOne
  <2> QED
    BY <1>c, <2>1, <2>2
<1>8. CASE todo # <<>> /\ \E f \in Frame : f.pc # "defaults_commit" /\ todo' = <<f>> \o Tail(todo)
  <2>1. Pends(Tail(todo), c)
    BY <1>1, <1>8, PendsOne
  <2> QED
    BY <1>1, <1>8, <2>1, PendsTail
<1>9. CASE /\ todo # <<>>
           /\ \E f, g \in Frame : /\ f.pc # "defaults_commit" /\ g.pc # "defaults_commit"
                                  /\ todo' = <<g, f>> \o Tail(todo)
  <2>1. PICK f \in Frame, g \in Frame : /\ f.pc # "defaults_commit" /\ g.pc # "defaults_commit"
                                        /\ todo' = <<g, f>> \o Tail(todo)
    BY <1>9
  <2>2. todo' = <<g>> \o (<<f>> \o Tail(todo)) /\ <<f>> \o Tail(todo) \in Seq(Frame)
    BY <1>1, <1>9, <2>1, TwoFrames
  <2>3. Pends(<<f>> \o Tail(todo), c)
    BY <2>1, <2>2, PendsOne
  <2>4. Pends(Tail(todo), c)
    BY <1>1, <1>9, <2>1, <2>3, PendsOne
  <2> QED
    BY <1>1, <1>9, <2>4, PendsTail
<1>10. CASE todo # <<>> /\ Fail
  BY <1>10, FailPends
<1> QED
  BY <1>4, <1>5, <1>6, <1>7, <1>8, <1>9, <1>10 DEF Calm

LEMMA PendsJoin ==
    ASSUME NEW a \in Seq(Frame), \A n \in 1..Len(a) : a[n].pc # "defaults_commit",
           NEW b \in Seq(Frame), NEW d, NEW c, c = a \o b, Pends(c, d)
    PROVE  Pends(b, d)
<1>1. PICK n \in 1..Len(c) : c[n] = d
  BY DEF Pends
<1>2. /\ Len(c) = Len(a) + Len(b) /\ Len(a) \in Nat /\ Len(b) \in Nat
      /\ \A i \in 1..Len(a) : c[i] = a[i]
      /\ \A i \in 1..Len(b) : c[Len(a) + i] = b[i]
  BY Joined
<1>3. n > Len(a)
  BY <1>1, <1>2 DEF Pends
<1> PICK m : m = n - Len(a)
  OBVIOUS
<1>4. m \in 1..Len(b) /\ n = Len(a) + m
  BY <1>1, <1>2, <1>3
<1> QED
  BY <1>1, <1>2, <1>4 DEF Pends

LEMMA WritesOne ==
    ASSUME NEW f \in Frame, f.pc # "defaults_commit", NEW q \in Seq(Frame), NEW k,
           Writes(<<f>> \o q, k)
    PROVE  Writes(q, k)
BY PendsOne DEF Writes, Pends

LEMMA WritesTail ==
    ASSUME NEW q \in Seq(Frame), q # <<>>, NEW k, Writes(Tail(q), k)
    PROVE  Writes(q, k)
BY PendsTail DEF Writes, Pends

LEMMA WritesNone == \A k : ~Writes(<<>>, k)
BY PendsNone DEF Writes, Pends

LEMMA CalmWrites ==
    ASSUME StackOK, Calm, NEW k, Writes(todo, k)'
    PROVE  Writes(todo, k)
BY CalmPends DEF Writes, Pends

LEMMA WritesJoin ==
    ASSUME NEW a \in Seq(Frame), \A n \in 1..Len(a) : a[n].pc # "defaults_commit",
           NEW b \in Seq(Frame), NEW k, NEW c, c = a \o b, Writes(c, k)
    PROVE  Writes(b, k)
<1>1. PICK n \in 1..Len(c) : Pends(c, c[n]) /\ c[n].key = k
  BY DEF Writes
<1>2. Pends(b, c[n])
  BY <1>1, PendsJoin
<1> QED
  BY <1>1, <1>2 DEF Writes, Pends

-----------------------------------------------------------------------------
(* Steps that commit nothing *)

LEMMA Owners ==
    ASSUME FlashOK, NEW a \in Seen, IsLive(SlotAt(a))
    PROVE  SlotAt(a).key \in Key
<1>1. SlotAt(a) \in Record
  BY SeenIs, SlotIs
<1> QED
  BY <1>1, Sizes DEF Record, IsLive, Key

(* Every live record was one before, of the same key.                      *)
NoneNew == \A a \in Seen : \A k \in Key : LiveOfKey(a, k)' => LiveOfKey(a, k)
SameIndex == \A k \in Key : kv'[k].addr = kv[k].addr /\ kv'[k].stored = kv[k].stored

LEMMA Fewer ==
    ASSUME UInv, NoneNew, SameIndex,
           \A k \in Key : Writes(todo, k)' => Writes(todo, k),
           \A s \in Sector : Known(s)' => Known(s),
           todo # <<>> => Top.pc \notin Movers, todo' # <<>> => Top'.pc \notin Movers
    PROVE  UInv'
<1>1. Single'
  BY DEF UInv, NoneNew, Single
<1>2. Complete'
  <2> SUFFICES ASSUME NEW k \in Key, NEW a \in Seen, LiveOfKey(a, k)', Known(a[1])'
               PROVE  kv'[k].addr = a
    BY DEF Complete
  <2>1. LiveOfKey(a, k) /\ Known(a[1])
    BY SeenIs DEF NoneNew
  <2>2. ~Moving(k)
    BY NotMoving
  <2> QED
    BY <2>1, <2>2 DEF UInv, Complete, SameIndex
<1>3. Stored'
  BY DEF UInv, Stored, SameIndex
<1>4. Pending'
  BY DEF UInv, Pending, Absent, NoneNew, SameIndex
<1>5. todo' # <<>> => Moved'
  BY DEF Moved, Movers
<1> QED
  BY <1>1, <1>2, <1>3, <1>4, <1>5 DEF UInv

LEMMA CalmStep ==
    ASSUME IInv, UInv, NoneNew, SameIndex, Calm,
           todo # <<>> => Top.pc \notin Movers \cup Starting,
           todo' # <<>> => Top'.pc \notin Movers
    PROVE  UInv'
<1>1. \A s \in Sector : Known(s)
  BY AllKnown
<1>2. \A k \in Key : Writes(todo, k)' => Writes(todo, k)
  BY CalmWrites DEF IInv, TInv
<1> QED
  BY <1>1, <1>2, Fewer

LEMMA SameSlots == slot' = slot => NoneNew
BY DEF NoneNew, LiveOfKey, SlotAt

LEMMA SameKv == kv' = kv => SameIndex
BY DEF SameIndex

(* Going on, calling and returning, where the function commits nothing.    *)
LEMMA GoOn ==
    ASSUME IInv, UInv, todo # <<>>, Top.pc \notin Movers \cup Starting, NoneNew, SameIndex,
           NEW f \in Frame, f.pc \notin Movers \cup {"defaults_commit"},
           todo' = <<f>> \o Tail(todo)
    PROVE  UInv'
<1>1. StackOK
  BY DEF IInv, TInv
<1>2. todo' # <<>> /\ Top' = f
  BY <1>1, On
<1>3. Calm
  BY DEF Calm
<1> QED
  BY <1>2, <1>3, CalmStep

LEMMA GoInto ==
    ASSUME IInv, UInv, todo # <<>>, Top.pc \notin Movers \cup Starting, NoneNew, SameIndex,
           NEW f \in Frame, f.pc # "defaults_commit",
           NEW g \in Frame, g.pc \notin Movers \cup {"defaults_commit"},
           todo' = <<g, f>> \o Tail(todo)
    PROVE  UInv'
<1>1. StackOK
  BY DEF IInv, TInv
<1>2. todo' # <<>> /\ Top' = g
  BY <1>1, Into
<1>3. Calm
  BY DEF Calm
<1> QED
  BY <1>2, <1>3, CalmStep

LEMMA Waiting ==
    ASSUME IInv, todo # <<>>, todo' = Tail(todo), todo' # <<>>
    PROVE  Top'.pc \notin Movers \cup (Starting \ {"load"})
<1>1. StackOK /\ Chain(todo)
  BY DEF IInv, TInv, SInv
<1>2. Top' = Waits /\ Link(Top, Waits)
  BY <1>1, Back
<1> QED
  BY <1>2 DEF Link, Suspended, Awaiting, Eraser, Movers, Starting

LEMMA GoBack ==
    ASSUME IInv, UInv, todo # <<>>, Top.pc \notin Movers \cup Starting, NoneNew, SameIndex,
           todo' = Tail(todo)
    PROVE  UInv'
<1>1. todo' # <<>> => Top'.pc \notin Movers
  BY Waiting
<1>2. Calm
  BY DEF Calm
<1> QED
  BY <1>1, <1>2, CalmStep

LEMMA GoFail ==
    ASSUME IInv, UInv, todo # <<>>, Top.pc \notin Movers \cup Starting, NoneNew, SameIndex, Fail
    PROVE  UInv'
<1>1. todo' # <<>> => Top'.pc \notin Movers
  BY Failed DEF IInv, TInv, Movers
<1>2. Calm
  BY DEF Calm
<1> QED
  BY <1>1, <1>2, CalmStep

LEMMA GoStart ==
    ASSUME IInv, UInv, Ready, NoneNew, SameIndex,
           \/ todo' = <<>>
           \/ \E f \in Frame : f.pc \notin Movers \cup {"defaults_commit"} /\ todo' = <<f>>
           \/ \E f, g \in Frame : /\ f.pc # "defaults_commit"
                                  /\ g.pc \notin Movers \cup {"defaults_commit"}
                                  /\ todo' = <<g, f>>
    PROVE  UInv'
<1>1. todo' # <<>> => Top'.pc \notin Movers
  <2>1. \A f \in Frame : Head(<<f>>) = f
    OBVIOUS
  <2>2. \A f \in Frame, g \in Frame : Head(<<g, f>>) = g
    OBVIOUS
  <2> QED
    BY <2>1, <2>2 DEF Top
<1>2. Calm
  BY DEF Calm
<1> QED
  BY <1>1, <1>2, CalmStep DEF Ready

LEMMA Running ==
    ASSUME IInv, NEW l, At(l)
    PROVE  /\ todo # <<>> /\ Top.pc = l /\ Top \in Frame
           /\ FlashOK /\ DescOK /\ RestOK /\ StackOK /\ Chain(todo)
           /\ \A m \in Pc : [Top EXCEPT !.pc = m] \in Frame /\ [Top EXCEPT !.pc = m].pc = m
<1>1. todo # <<>> /\ Top.pc = l /\ StackOK
  BY DEF At, IInv, TInv
<1>2. Top \in Frame
  BY <1>1, Stack
<1>3. \A m \in Pc : [Top EXCEPT !.pc = m] \in Frame /\ [Top EXCEPT !.pc = m].pc = m
  BY <1>2 DEF Frame
<1> QED
  BY <1>1, <1>2, <1>3 DEF IInv, TInv, SInv

-----------------------------------------------------------------------------
(* Values: the RAM copy of a value is the one in flash, and a record on    *)
(* its way to a new place carries it.                                      *)

Holds(a, v) == a \in Seen => SlotAt(a).val = v

Values == \A k \in Key : Moving(k) \/ Holds(kv[k].addr, kv[k].val)

Defaulted == \A n \in 1..Len(todo) : Pends(todo, todo[n]) => todo[n].val = kv[todo[n].key].val

Carriers == {"append", "append_status", "defaults_commit", "set_written", "mig_predelete"}
              \cup Movers

Carried ==
    /\ Top.pc \in {"append", "append_status"} =>
          (Waits.pc = "mig_predelete" => Top.val = kv[Top.key].val)
    /\ Top.pc = "append_status" => Holds(ret, Top.val)
    /\ Top.pc \in {"defaults_commit", "set_written"} => Holds(ret, Top.val)
    /\ Top.pc = "mig_predelete" => Holds(ret, kv[Top.key].val)
    /\ Top.pc \in {"mig_commit", "mig_deleted"} => Holds(Top.new, kv[Top.key].val)
    /\ Top.pc \in {"set_commit", "set_deleted"} => Holds(Top.new, Top.val)

VInv == Values /\ Defaulted /\ (todo # <<>> => Carried)

(* A step that leaves the values of all live records, or of all records.   *)
LiveKept == \A a \in Seen : IsLive(SlotAt(a)) => SlotAt(a)'.val = SlotAt(a).val
AllKept  == \A a \in Seen : SlotAt(a)'.val = SlotAt(a).val

LEMMA SameKept == slot' = slot => AllKept
BY DEF AllKept, SlotAt

LEMMA KeptAll == AllKept => LiveKept
BY DEF AllKept, LiveKept

LEMMA StatusKept ==
    ASSUME FlashOK, NEW a \in Addr \cup {NoAddr}, NEW st \in {WRITE, PRE_DELETE, DELETED},
           slot' = SetKvStatus(slot, a, st)
    PROVE  AllKept
<1> SUFFICES ASSUME NEW b \in Seen PROVE SlotAt(b)'.val = SlotAt(b).val
  BY DEF AllKept
<1> PICK s, j : s = b[1] /\ j = b[2]
  OBVIOUS
<1>1. s \in Sector /\ j \in Slot
  BY SeenIs
<1>2. slot'[s][j].val = slot[s][j].val
  BY <1>1, Kills, Commits
<1> QED
  BY <1>2 DEF SlotAt

LEMMA PutKept ==
    ASSUME FlashOK, NEW a \in Addr, NEW r \in Record, slot' = PutRecord(slot, a, r)
    PROVE  LiveKept
<1> SUFFICES ASSUME NEW b \in Seen, IsLive(SlotAt(b)) PROVE SlotAt(b)'.val = SlotAt(b).val
  BY DEF LiveKept
<1> PICK s, j : s = b[1] /\ j = b[2]
  OBVIOUS
<1>1. s \in Sector /\ j \in Slot
  BY SeenIs
<1>2. slot[s][j] # Erased
  BY NotErased DEF SlotAt
<1>3. slot'[s][j] = slot[s][j]
  BY <1>1, <1>2, RecordWrite
<1> QED
  BY <1>3 DEF SlotAt

LEMMA EraseKept ==
    ASSUME FlashOK, DescOK, NEW s \in Sector, EraseSector(s), ~LiveSeen(s)
    PROVE  LiveKept
<1> SUFFICES ASSUME NEW b \in Seen, IsLive(SlotAt(b)) PROVE SlotAt(b)'.val = SlotAt(b).val
  BY DEF LiveKept
<1> PICK x, j : x = b[1] /\ j = b[2]
  OBVIOUS
<1>1. x \in Sector /\ j \in Visible /\ j \in Slot /\ IsLive(slot[x][j])
  BY SeenIs DEF SlotAt
<1>2. slot'[x][j] = slot[x][j]
  BY <1>1, EraseIs DEF LiveSeen
<1> QED
  BY <1>2 DEF SlotAt

(* The values of the index are those of live records, so they are kept.    *)
LEMMA IndexKept ==
    ASSUME IInv, VInv, LiveKept, NEW k \in Key, ~Moving(k), NEW a \in Seen, a = kv[k].addr
    PROVE  SlotAt(a)'.val = kv[k].val
<1>1. IsLive(SlotAt(a)) /\ SlotAt(a).val = kv[k].val
  BY DEF IInv, SInv, Index, VInv, Values, Holds
<1> QED
  BY <1>1 DEF LiveKept

LEMMA KeepValues ==
    ASSUME IInv, VInv, LiveKept, todo # <<>> => Top.pc \notin Movers,
           \A k \in Key : kv'[k].addr = kv[k].addr /\ kv'[k].val = kv[k].val
    PROVE  Values'
<1> SUFFICES ASSUME NEW k \in Key, NEW a \in Seen, a = kv'[k].addr
             PROVE  SlotAt(a)'.val = kv'[k].val
  BY DEF Values, Holds, SlotAt
<1>1. ~Moving(k)
  BY NotMoving
<1> QED
  BY <1>1, IndexKept

LEMMA KeepDefaulted ==
    ASSUME StackOK, VInv, Calm, \A k \in Key : kv'[k].val = kv[k].val
    PROVE  Defaulted'
<1> SUFFICES ASSUME NEW n \in 1..Len(todo'), Pends(todo', todo'[n])
             PROVE  todo'[n].val = kv'[todo'[n].key].val
  BY DEF Defaulted
<1> PICK f : f = todo'[n]
  OBVIOUS
<1>1. Pends(todo, f)
  BY CalmPends
<1>2. PICK m \in 1..Len(todo) : todo[m] = f
  BY <1>1 DEF Pends
<1>3. f \in Frame
  BY <1>2 DEF StackOK
<1>4. f.val = kv[f.key].val
  BY <1>1, <1>2 DEF VInv, Defaulted
<1> QED
  BY <1>3, <1>4 DEF Frame

LEMMA CalmValues ==
    ASSUME IInv, VInv, LiveKept, kv' = kv, Calm,
           todo # <<>> => Top.pc \notin Movers,
           todo' # <<>> => Top'.pc \notin Carriers
    PROVE  VInv'
<1>1. Values'
  BY KeepValues
<1>2. Defaulted'
  BY KeepDefaulted DEF IInv, TInv
<1>3. todo' # <<>> => Carried'
  BY DEF Carried, Carriers, Movers
<1> QED
  BY <1>1, <1>2, <1>3 DEF VInv

LEMMA CarryOn ==
    ASSUME IInv, VInv, todo # <<>>, Top.pc \notin Movers, LiveKept, kv' = kv,
           NEW f \in Frame, f.pc \notin Carriers, todo' = <<f>> \o Tail(todo)
    PROVE  VInv'
<1>1. StackOK
  BY DEF IInv, TInv
<1>2. todo' # <<>> /\ Top' = f
  BY <1>1, On
<1>3. Calm
  BY DEF Calm, Carriers
<1> QED
  BY <1>2, <1>3, CalmValues

LEMMA CarryInto ==
    ASSUME IInv, VInv, todo # <<>>, Top.pc \notin Movers, LiveKept, kv' = kv,
           NEW f \in Frame, f.pc # "defaults_commit", NEW g \in Frame, g.pc \notin Carriers,
           todo' = <<g, f>> \o Tail(todo)
    PROVE  VInv'
<1>1. StackOK
  BY DEF IInv, TInv
<1>2. todo' # <<>> /\ Top' = g
  BY <1>1, Into
<1>3. Calm
  BY DEF Calm, Carriers
<1> QED
  BY <1>2, <1>3, CalmValues

LEMMA CarryBack ==
    ASSUME IInv, VInv, todo # <<>>, Top.pc \notin Movers \cup Writer, LiveKept, kv' = kv,
           todo' = Tail(todo)
    PROVE  VInv'
<1>1. todo' # <<>> => Top'.pc \notin Carriers
  <2> SUFFICES ASSUME todo' # <<>> PROVE Top'.pc \notin Carriers
    OBVIOUS
  <2>1. StackOK /\ Chain(todo)
    BY DEF IInv, TInv, SInv
  <2>2. Top' = Waits /\ Link(Top, Waits)
    BY <2>1, Back
  <2> QED
    BY <2>2 DEF Link, Suspended, Awaiting, Eraser, Carriers, Movers
<1>2. Calm
  BY DEF Calm
<1> QED
  BY <1>1, <1>2, CalmValues

LEMMA CarryFail ==
    ASSUME IInv, VInv, todo # <<>>, Top.pc \notin Movers, LiveKept, kv' = kv, Fail
    PROVE  VInv'
<1>1. todo' # <<>> => Top'.pc \notin Carriers
  BY Failed DEF IInv, TInv, Carriers, Movers
<1>2. Calm
  BY DEF Calm
<1> QED
  BY <1>1, <1>2, CalmValues

(* Steps that leave the records and the index alone, and both invariants.  *)
Kept == UInv' /\ (VInv => VInv')

LEMMA QuietOn ==
    ASSUME IInv, UInv, todo # <<>>, Top.pc \notin Movers \cup Starting, slot' = slot, kv' = kv,
           NEW f \in Frame, f.pc \notin Carriers, todo' = <<f>> \o Tail(todo)
    PROVE  Kept
<1>1. UInv'
  BY SameSlots, SameKv, GoOn DEF Carriers
<1>2. VInv => VInv'
  BY SameKept, KeptAll, CarryOn
<1> QED
  BY <1>1, <1>2 DEF Kept

LEMMA QuietInto ==
    ASSUME IInv, UInv, todo # <<>>, Top.pc \notin Movers \cup Starting, slot' = slot, kv' = kv,
           NEW f \in Frame, f.pc # "defaults_commit", NEW g \in Frame, g.pc \notin Carriers,
           todo' = <<g, f>> \o Tail(todo)
    PROVE  Kept
<1>1. UInv'
  BY SameSlots, SameKv, GoInto DEF Carriers
<1>2. VInv => VInv'
  BY SameKept, KeptAll, CarryInto
<1> QED
  BY <1>1, <1>2 DEF Kept

LEMMA QuietBack ==
    ASSUME IInv, UInv, todo # <<>>, Top.pc \notin Movers \cup Starting \cup Writer,
           slot' = slot, kv' = kv, todo' = Tail(todo)
    PROVE  Kept
<1>1. UInv'
  BY SameSlots, SameKv, GoBack
<1>2. VInv => VInv'
  BY SameKept, KeptAll, CarryBack
<1> QED
  BY <1>1, <1>2 DEF Kept

LEMMA QuietFail ==
    ASSUME IInv, UInv, todo # <<>>, Top.pc \notin Movers \cup Starting, slot' = slot, kv' = kv,
           Fail
    PROVE  Kept
<1>1. UInv'
  BY SameSlots, SameKv, GoFail
<1>2. VInv => VInv'
  BY SameKept, KeptAll, CarryFail
<1> QED
  BY <1>1, <1>2 DEF Kept

(* With no call in progress before or after, or a call just begun.         *)
LEMMA CarryStart ==
    ASSUME VInv, Values', Ready \/ todo' = <<>>,
           \/ todo' = <<>>
           \/ \E f \in Frame : f.pc \notin Carriers /\ todo' = <<f>>
           \/ \E f, g \in Frame :
                 f.pc # "defaults_commit" /\ g.pc \notin Carriers /\ todo' = <<g, f>>
    PROVE  VInv'
<1>1. Calm
  BY DEF Calm, Carriers
<1>2. Defaulted'
  <2>1. CASE todo' = <<>>
    BY <2>1 DEF Defaulted
  <2>2. CASE Ready
    <3>1. StackOK
      BY <2>2 DEF StackOK, Ready
    <3>2. \A f : ~Pends(todo, f)'
      BY <1>1, <2>2, <3>1, CalmPends, PendsNone DEF Ready
    <3> QED
      BY <3>2 DEF Defaulted
  <2> QED
    BY <2>1, <2>2
<1>3. todo' # <<>> => Top'.pc \notin Carriers
  <2>1. \A f \in Frame : Head(<<f>>) = f
    OBVIOUS
  <2>2. \A f \in Frame, g \in Frame : Head(<<g, f>>) = g
    OBVIOUS
  <2> QED
    BY <2>1, <2>2 DEF Top
<1>4. todo' # <<>> => Carried'
  BY <1>3 DEF Carried, Carriers, Movers
<1> QED
  BY <1>2, <1>4 DEF VInv

-----------------------------------------------------------------------------
(* The actions that commit nothing *)

LEMMA InitDoneLive == IInv /\ UInv /\ InitDone => Kept
<1> SUFFICES ASSUME IInv, UInv, InitDone PROVE Kept
  OBVIOUS
<1>1. At("init_done") /\ todo' = Tail(todo) /\ slot' = slot /\ kv' = kv
  BY DEF InitDone, Return, flash
<1> QED
  BY <1>1, Running, QuietBack DEF Movers, Starting, Carriers, Writer

LEMMA PutLive == IInv /\ UInv /\ Put => UInv'
<1> SUFFICES ASSUME IInv, UInv, Put PROVE UInv'
  OBVIOUS
<1>1. At("put") /\ slot' = slot /\ kv' = kv
  BY DEF Put, flash
<1>2. todo # <<>> /\ Top.pc = "put" /\ Top \in Frame
  BY <1>1, Running
<1>3. CASE FindWritableDataSector >= 0
  <2> DEFINE f == [Top EXCEPT !.pc = "append", !.s = FindWritableDataSector]
  <2>1. todo' = <<f>> \o Tail(todo)
    BY <1>3 DEF Put, Stay
  <2>2. f \in Frame /\ f.pc = "append"
    <3>1. FindWritableDataSector \in Sector
      BY <1>3, FindWritable DEF IInv, TInv
    <3> QED
      BY <1>2, <3>1 DEF Frame, Pc
  <2> HIDE DEF f
  <2> QED
    BY <1>1, <1>2, <2>1, <2>2, SameSlots, SameKv, GoOn DEF Movers, Starting
<1>4. CASE ~(FindWritableDataSector >= 0)
  <2> DEFINE g == Call0("gc")
  <2>1. g \in Frame /\ g.pc = "gc"
    BY Frames DEF Pc
  <2>2. todo' = <<g, Top>> \o Tail(todo)
    BY <1>4 DEF Put, Call
  <2> HIDE DEF g
  <2> QED
    BY <1>1, <1>2, <2>1, <2>2, SameSlots, SameKv, GoInto DEF Movers, Starting
<1> QED
  BY <1>3, <1>4

LEMMA WriteRecordLive == IInv /\ UInv /\ WriteRecord => UInv'
<1> SUFFICES ASSUME IInv, UInv, WriteRecord PROVE UInv'
  OBVIOUS
<1> DEFINE a == <<Top.s, used[Top.s] + 1>>
           r == NewRecord(Top.key, Top.val)
<1>1. At("append") /\ slot' = PutRecord(slot, a, r) /\ kv' = kv
  BY DEF WriteRecord
<1>2. /\ todo # <<>> /\ Top.pc = "append" /\ FlashOK
      /\ [Top EXCEPT !.pc = "append_status"] \in Frame
      /\ [Top EXCEPT !.pc = "append_status"].pc = "append_status"
  BY <1>1, Running DEF Pc
<1>3. NoneNew
  <2>1. a \in Addr /\ r \in Record /\ ~IsLive(r)
    BY <1>1, AppendAddr, Records, Statuses DEF NewRecord, IsLive
  <2> HIDE DEF a, r
  <2> SUFFICES ASSUME NEW b \in Seen, NEW k \in Key, LiveOfKey(b, k)'
               PROVE  LiveOfKey(b, k)
    BY DEF NoneNew
  <2>2. SlotAt(b)' = SlotAt(b) \/ SlotAt(b)' = r
    <3>1. b[1] \in Sector /\ b[2] \in Slot
      BY SeenIs
    <3> QED
      BY <1>1, <1>2, <2>1, <3>1, RecordWrite DEF SlotAt
  <2> QED
    BY <2>1, <2>2 DEF LiveOfKey
<1>4. \/ todo' = Tail(todo)
      \/ todo' = <<[Top EXCEPT !.pc = "append_status"]>> \o Tail(todo)
  BY DEF WriteRecord, Return, Goto, Stay
<1> QED
  BY <1>1, <1>2, <1>3, <1>4, SameKv, GoBack, GoOn DEF Movers, Starting

LEMMA WriteSectorStatusLive == IInv /\ UInv /\ WriteSectorStatus => UInv'
<1> SUFFICES ASSUME IInv, UInv, WriteSectorStatus PROVE UInv'
  OBVIOUS
<1>1. At("append_status") /\ todo' = Tail(todo) /\ slot' = slot /\ kv' = kv
  BY DEF WriteSectorStatus, Return
<1> QED
  BY <1>1, Running, SameSlots, SameKv, GoBack DEF Movers, Starting

LEMMA MigrateEnterLive == IInv /\ UInv /\ MigrateEnter => Kept
<1> SUFFICES ASSUME IInv, UInv, MigrateEnter PROVE Kept
  OBVIOUS
<1>1. At("mig_enter") /\ slot' = slot /\ kv' = kv
  BY DEF MigrateEnter, flash
<1>2. /\ todo # <<>> /\ Top.pc = "mig_enter"
      /\ [Top EXCEPT !.pc = "migrate"] \in Frame
      /\ [Top EXCEPT !.pc = "migrate"].pc = "migrate"
  BY <1>1, Running DEF Pc
<1>3. Fail \/ todo' = <<[Top EXCEPT !.pc = "migrate"]>> \o Tail(todo)
  BY DEF MigrateEnter, Goto, Stay
<1> QED
  BY <1>1, <1>2, <1>3, QuietFail, QuietOn DEF Movers, Starting, Carriers

LEMMA MigrateCalls ==
    ASSUME IInv, Migrate
    PROVE  \/ todo' = Tail(todo)
           \/ used[Top.t] = Slots /\ Fail
           \/ \E f, g \in Frame :
                 /\ todo' = <<g, f>> \o Tail(todo)
                 /\ f.pc = "mig_predelete" /\ f.s = Top.s /\ f.i \in Visible
                 /\ IsLive(slot[f.s][f.i]) /\ f.key = slot[f.s][f.i].key
                 /\ g.pc = "append" /\ g.key = f.key /\ g.val = slot[f.s][f.i].val
                 /\ f.t = Top.t /\ g.s = Top.t /\ f.i > Top.i
<1> DEFINE J == {j \in LiveIn(Top.s) : j > Top.i}
           j == Min(J)
           r == slot[Top.s][j]
           f == [Top EXCEPT !.pc = "mig_predelete", !.i = j, !.key = r.key]
           g == [Call0("append") EXCEPT !.s = Top.t, !.key = r.key, !.val = r.val]
<1>1. todo # <<>> /\ FlashOK /\ Top \in Frame /\ Top.s \in Sector /\ Top.t \in Sector
  BY Running DEF Migrate, Frame
<1>2. CASE J = {}
  BY <1>2 DEF Migrate, Return
<1>3. CASE used[Top.t] = Slots /\ Fail
  BY <1>3
<1>4. CASE J # {} /\ Call(f, g)
  <2>1. LiveIn(Top.s) = {x \in Visible : IsLive(slot[Top.s][x])}
    BY <1>1, ScannedAll DEF IInv, SInv, Order
  <2>2. j \in J
    <3>1. J \subseteq Nat
      BY <2>1, SeenIs
    <3> QED
      BY <1>4, <3>1, MinNat
  <2>3. j \in Visible /\ j \in Slot /\ j \in Nat /\ IsLive(r) /\ j > Top.i
    BY <2>1, <2>2, SeenIs
  <2>4. r.key \in Key /\ r.val \in Value
    <3>1. r \in Record
      BY <1>1, <2>3, SlotIs
    <3> QED
      BY <2>3, <3>1, Sizes DEF Record, IsLive, Key
  <2> HIDE DEF j
  <2>5. /\ f \in Frame /\ f.pc = "mig_predelete" /\ f.s = Top.s /\ f.i = j
        /\ f.key = r.key /\ f.t = Top.t
    BY <1>1, <2>3, <2>4 DEF Frame, Pc
  <2>6. /\ g \in Frame /\ g.pc = "append" /\ g.key = r.key /\ g.val = r.val
        /\ g.s = Top.t
    <3>1. Call0("append") \in Frame /\ Call0("append").pc = "append"
      BY Frames DEF Pc
    <3> HIDE DEF r
    <3> QED
      BY <1>1, <2>4, <3>1 DEF Frame
  <2>7. todo' = <<g, f>> \o Tail(todo)
    BY <1>4 DEF Call
  <2> HIDE DEF f, g
  <2> QED
    BY <2>3, <2>5, <2>6, <2>7
<1> QED
  BY <1>2, <1>3, <1>4, Zenon DEF Migrate

LEMMA MigrateLive == IInv /\ UInv /\ Migrate => UInv'
<1> SUFFICES ASSUME IInv, UInv, Migrate PROVE UInv'
  OBVIOUS
<1>1. At("migrate") /\ slot' = slot /\ kv' = kv
  BY DEF Migrate, flash
<1>2. todo # <<>> /\ Top.pc = "migrate"
  BY <1>1, Running
<1>3. CASE \E f, g \in Frame : /\ todo' = <<g, f>> \o Tail(todo)
                               /\ f.pc = "mig_predelete" /\ g.pc = "append"
  BY <1>1, <1>2, <1>3, SameSlots, SameKv, GoInto DEF Movers, Starting
<1> QED
  BY <1>1, <1>2, <1>3, MigrateCalls, SameSlots, SameKv, GoBack, GoFail DEF Movers, Starting

LEMMA RebuildStartLive == IInv /\ UInv /\ RebuildStart => Kept
<1> SUFFICES ASSUME IInv, UInv, RebuildStart PROVE Kept
  OBVIOUS
<1>1. At("rebuild") /\ slot' = slot /\ kv' = kv
  BY DEF RebuildStart, flash
<1>2. todo # <<>> /\ Top.pc = "rebuild" /\ Top \in Frame
  BY <1>1, Running
<1>3. PICK x \in Sector : todo' = <<[Top EXCEPT !.pc = "reb_round", !.s = x]>> \o Tail(todo)
  <2> DEFINE V == {s \in Sector : hdr[s].magic}
             E == {s \in V : used[s] < Slots /\ \A x \in V : used[s] <= used[x]}
             x == IF E = {} THEN 0 ELSE Min(E)
  <2>1. Stay([Top EXCEPT !.pc = "reb_round", !.s = x])
    BY DEF RebuildStart
  <2>2. x \in Sector
    <3>1. E \subseteq Nat /\ E \subseteq Sector
      BY Ranges
    <3> QED
      BY <3>1, MinNat, Ranges
  <2> HIDE DEF x
  <2> QED
    BY <2>1, <2>2 DEF Stay
<1> DEFINE f == [Top EXCEPT !.pc = "reb_round", !.s = x]
<1>4. f \in Frame /\ f.pc = "reb_round"
  BY <1>2 DEF Frame, Pc
<1>5. todo' = <<f>> \o Tail(todo)
  BY <1>3
<1> HIDE DEF f
<1> QED
  BY <1>1, <1>2, <1>4, <1>5, QuietOn DEF Movers, Starting, Carriers

LEMMA RebuildRoundLive == IInv /\ UInv /\ RebuildRound => Kept
<1> SUFFICES ASSUME IInv, UInv, RebuildRound PROVE Kept
  OBVIOUS
<1> DEFINE n == (Top.s + Top.i + 1) % NumSectors
           f == [Top EXCEPT !.pc = "reb_erase", !.s = n]
           g == MigrateFrame(n, Top.s)
<1>1. At("reb_round") /\ slot' = slot /\ kv' = kv /\ todo' = <<g, f>> \o Tail(todo)
  BY DEF RebuildRound, flash, Call
<1>2. todo # <<>> /\ Top.pc = "reb_round" /\ Top \in Frame /\ Top.s \in Sector /\ Top.i \in Nat
  BY <1>1, Running DEF Frame
<1>3. n \in Sector
  <2>1. Top.s \in Nat
    BY <1>2, Ranges
  <2>2. Top.s + Top.i + 1 \in Nat
    BY <1>2, <2>1
  <2> QED
    BY <2>2, Ranges
<1> HIDE DEF n
<1>4. f \in Frame /\ f.pc = "reb_erase"
  BY <1>2, <1>3 DEF Frame, Pc
<1>5. g \in Frame /\ g.pc = "mig_enter"
  <2>1. g \in Frame
    BY <1>2, <1>3, MigrateFrameType, QuietIsFrame
  <2> QED
    BY <2>1 DEF MigrateFrame, Call0
<1> HIDE DEF f, g
<1> QED
  BY <1>1, <1>2, <1>4, <1>5, QuietInto DEF Movers, Starting, Carriers

LEMMA ErasedNoneNew ==
    ASSUME FlashOK, DescOK, NEW s \in Sector, EraseSector(s)
    PROVE  NoneNew
<1> SUFFICES ASSUME NEW a \in Seen, NEW k \in Key, LiveOfKey(a, k)'
             PROVE  LiveOfKey(a, k)
  BY DEF NoneNew
<1>1. a[1] \in Sector /\ a[2] \in Slot
  BY SeenIs
<1>2. SlotAt(a)' = Erased \/ SlotAt(a)' = SlotAt(a)
  BY <1>1, EraseIs DEF SlotAt
<1> QED
  BY <1>2, Statuses DEF LiveOfKey

LEMMA RebuildEraseLive == IInv /\ UInv /\ RebuildErase => UInv'
<1> SUFFICES ASSUME IInv, UInv, RebuildErase PROVE UInv'
  OBVIOUS
<1> DEFINE f == [Top EXCEPT !.pc = "reb_magic"]
<1>1. At("reb_erase") /\ EraseSector(Top.s) /\ kv' = kv /\ todo' = <<f>> \o Tail(todo)
  BY DEF RebuildErase, Goto, Stay
<1>2. /\ todo # <<>> /\ Top.pc = "reb_erase" /\ Top.s \in Sector /\ FlashOK /\ DescOK
      /\ f \in Frame /\ f.pc = "reb_magic"
  <2>1. todo # <<>> /\ Top.pc = "reb_erase" /\ Top \in Frame /\ FlashOK /\ DescOK
    BY <1>1, Running
  <2> QED
    BY <2>1 DEF Pc, Frame
<1> HIDE DEF f
<1> QED
  BY <1>1, <1>2, ErasedNoneNew, SameKv, GoOn DEF Movers, Starting

LEMMA RebuildMagicLive == IInv /\ UInv /\ RebuildMagic => Kept
<1> SUFFICES ASSUME IInv, UInv, RebuildMagic PROVE Kept
  OBVIOUS
<1> DEFINE f == [Top EXCEPT !.pc = "reb_role"]
<1>1. At("reb_magic") /\ slot' = slot /\ kv' = kv /\ todo' = <<f>> \o Tail(todo)
  BY DEF RebuildMagic, Goto, Stay
<1>2. todo # <<>> /\ Top.pc = "reb_magic" /\ f \in Frame /\ f.pc = "reb_role"
  BY <1>1, Running DEF Pc
<1> HIDE DEF f
<1> QED
  BY <1>1, <1>2, QuietOn DEF Movers, Starting, Carriers

LEMMA RebuildRoleLive == IInv /\ UInv /\ RebuildRole => Kept
<1> SUFFICES ASSUME IInv, UInv, RebuildRole PROVE Kept
  OBVIOUS
<1> DEFINE f == [Top EXCEPT !.pc = "reb_round", !.i = @ + 1]
<1>1. At("reb_role") /\ slot' = slot /\ kv' = kv
  BY DEF RebuildRole
<1>2. todo' = Tail(todo) \/ todo' = <<f>> \o Tail(todo)
  BY DEF RebuildRole, Return, Stay
<1>3. todo # <<>> /\ Top.pc = "reb_role" /\ Top \in Frame
  BY <1>1, Running
<1>4. f \in Frame /\ f.pc = "reb_round"
  <2>1. Top.i + 1 \in Nat
    BY <1>3 DEF Frame
  <2> QED
    BY <1>3, <2>1 DEF Frame, Pc
<1> HIDE DEF f
<1> QED
  BY <1>1, <1>2, <1>3, <1>4, QuietOn, QuietBack DEF Movers, Starting, Carriers, Writer

LEMMA GcFindLive == IInv /\ UInv /\ GcFind => Kept
<1> SUFFICES ASSUME IInv, UInv, GcFind PROVE Kept
  OBVIOUS
<1> DEFINE g == FindSectorRole(GC)
           f == [Top EXCEPT !.pc = "gc_gcing", !.s = g, !.t = (g + 1) % NumSectors]
<1>1. At("gc_find") /\ slot' = slot /\ kv' = kv
  BY DEF GcFind
<1>2. todo # <<>> /\ Top.pc = "gc_find" /\ Top \in Frame
  BY <1>1, Running
<1>3. CASE g < 0
  <2>1. Fail
    BY <1>3 DEF GcFind
  <2> QED
    BY <1>1, <1>2, <2>1, QuietFail DEF Movers, Starting, Carriers
<1>4. CASE ~(g < 0)
  <2>1. todo' = <<f>> \o Tail(todo)
    BY <1>4 DEF GcFind, Stay
  <2>2. g \in Sector /\ g \in Nat
    <3>1. g \in Sector \cup {-1}
      BY FindRole
    <3> HIDE DEF g
    <3> QED
      BY <1>4, <3>1, Ranges
  <2>3. (g + 1) % NumSectors \in Sector
    <3> HIDE DEF g
    <3>1. g + 1 \in Nat
      BY <2>2
    <3> QED
      BY <3>1, Ranges
  <2>4. f \in Frame /\ f.pc = "gc_gcing"
    <3> HIDE DEF g
    <3> QED
      BY <1>2, <2>2, <2>3 DEF Frame, Pc
  <2> HIDE DEF f
  <2> QED
    BY <1>1, <1>2, <2>1, <2>4, QuietOn DEF Movers, Starting, Carriers
<1> QED
  BY <1>3, <1>4

LEMMA GcMigrateLive == IInv /\ UInv /\ GcMigrate => Kept
<1> SUFFICES ASSUME IInv, UInv, GcMigrate PROVE Kept
  OBVIOUS
<1> DEFINE f == [Top EXCEPT !.pc = "gc_erase"]
           g == MigrateFrame(Top.t, Top.s)
<1>1. At("gc_gcing") /\ slot' = slot /\ kv' = kv /\ todo' = <<g, f>> \o Tail(todo)
  BY DEF GcMigrate, Call
<1>2. /\ todo # <<>> /\ Top.pc = "gc_gcing" /\ Top.s \in Sector /\ Top.t \in Sector
      /\ f \in Frame /\ f.pc = "gc_erase"
  <2>1. todo # <<>> /\ Top.pc = "gc_gcing" /\ Top \in Frame
    BY <1>1, Running
  <2> QED
    BY <2>1 DEF Pc, Frame
<1>3. g \in Frame /\ g.pc = "mig_enter"
  <2>1. g \in Frame
    BY <1>2, MigrateFrameType, QuietIsFrame
  <2> QED
    BY <2>1 DEF MigrateFrame, Call0
<1> HIDE DEF f, g
<1> QED
  BY <1>1, <1>2, <1>3, QuietInto DEF Movers, Starting, Carriers

LEMMA GcEraseLive == IInv /\ UInv /\ GcErase => UInv'
<1> SUFFICES ASSUME IInv, UInv, GcErase PROVE UInv'
  OBVIOUS
<1> DEFINE f == [Top EXCEPT !.pc = "gc_role"]
<1>1. At("gc_erase") /\ EraseSector(Top.t) /\ kv' = kv /\ todo' = <<f>> \o Tail(todo)
  BY DEF GcErase, Goto, Stay
<1>2. /\ todo # <<>> /\ Top.pc = "gc_erase" /\ Top.t \in Sector /\ FlashOK /\ DescOK
      /\ f \in Frame /\ f.pc = "gc_role"
  <2>1. todo # <<>> /\ Top.pc = "gc_erase" /\ Top \in Frame /\ FlashOK /\ DescOK
    BY <1>1, Running
  <2> QED
    BY <2>1 DEF Pc, Frame
<1> HIDE DEF f
<1> QED
  BY <1>1, <1>2, ErasedNoneNew, SameKv, GoOn DEF Movers, Starting

LEMMA GcHeaderLive == IInv /\ UInv /\ (GcRole \/ GcMagic) => Kept
<1> SUFFICES ASSUME IInv, UInv, GcRole \/ GcMagic PROVE Kept
  OBVIOUS
<1>1. PICK l \in {"gc_role", "gc_magic"}, m \in {"gc_magic", "gc_data"} :
         At(l) /\ slot' = slot /\ kv' = kv /\ Goto(m)
  BY DEF GcRole, GcMagic
<1> DEFINE f == [Top EXCEPT !.pc = m]
<1>2. /\ todo # <<>> /\ Top.pc = l /\ f \in Frame /\ f.pc = m
      /\ todo' = <<f>> \o Tail(todo)
  <2>1. todo # <<>> /\ Top.pc = l /\ Top \in Frame
    BY <1>1, Running
  <2>2. f \in Frame /\ f.pc = m
    BY <2>1 DEF Pc, Frame
  <2>3. todo' = <<f>> \o Tail(todo)
    BY <1>1 DEF Goto, Stay
  <2> QED
    BY <2>1, <2>2, <2>3
<1> HIDE DEF f
<1> QED
  BY <1>1, <1>2, QuietOn DEF Movers, Starting, Carriers

LEMMA GcDataLive == IInv /\ UInv /\ GcData => Kept
<1> SUFFICES ASSUME IInv, UInv, GcData PROVE Kept
  OBVIOUS
<1>1. At("gc_data") /\ todo' = Tail(todo) /\ slot' = slot /\ kv' = kv
  BY DEF GcData, Return
<1> QED
  BY <1>1, Running, QuietBack DEF Movers, Starting, Carriers, Writer

LEMMA RecoverWrites ==
    /\ RecoverFrames \in Seq(Frame)
    /\ \A n \in 1..Len(RecoverFrames) : RecoverFrames[n].pc # "defaults_commit"
<1>1. /\ Call0("load") \in Frame /\ Call0("load").pc = "load"
      /\ Call0("rebuild") \in Frame /\ Call0("rebuild").pc = "rebuild"
      /\ Call0("defaults") \in Frame /\ Call0("defaults").pc = "defaults"
  BY Frames DEF Pc
<1> DEFINE l == Call0("load")
           r == Call0("rebuild")
           d == Call0("defaults")
<1>2. RecoverFrames = <<l, r, l, d>>
  BY DEF RecoverFrames
<1> HIDE DEF l, r, d
<1>3. RecoverFrames \in Seq(Frame) /\ Len(RecoverFrames) = 4
  BY <1>1, <1>2 DEF l, r, d
<1>4. \A n \in 1..4 : n = 1 \/ n = 2 \/ n = 3 \/ n = 4
  OBVIOUS
<1> QED
  BY <1>1, <1>2, <1>3, <1>4 DEF l, r, d

LEMMA GcStartLive == IInv /\ UInv /\ GcStart => UInv'
<1> SUFFICES ASSUME IInv, UInv, GcStart PROVE UInv'
  OBVIOUS
<1> DEFINE f == [Top EXCEPT !.pc = "gc_find"]
<1>1. At("gc") /\ slot' = slot /\ kv' = kv
  BY DEF GcStart, flash
<1>2. /\ todo # <<>> /\ Top.pc = "gc" /\ f \in Frame /\ f.pc = "gc_find"
      /\ StackOK /\ Chain(todo) /\ Tail(todo) \in Seq(Frame)
  BY <1>1, Running, Stack DEF Pc
<1>3. CASE IsNormal
  <2>1. todo' = <<f>> \o Tail(todo)
    BY <1>3 DEF GcStart, Goto, Stay
  <2> HIDE DEF f
  <2> QED
    BY <1>1, <1>2, <2>1, SameSlots, SameKv, GoOn DEF Movers, Starting
<1>4. CASE ~IsNormal
  <2>1. todo' = RecoverFrames \o <<f>> \o Tail(todo)
    BY <1>4 DEF GcStart
  <2> HIDE DEF f
  <2> PICK q : q = <<f>> \o Tail(todo)
    OBVIOUS
  <2>2. q \in Seq(Frame) /\ todo' = RecoverFrames \o q
    BY <1>2, <2>1, TwoFrames, RecoverWrites
  <2>3. Chain(q)
    BY <1>2, ChainStay DEF Alike, MigPc, Writer, Setters
  <2>4. todo' # <<>> /\ Top' = Call0("load")
    BY <1>2, <2>1, <2>3, ChainRecover DEF Waitable, Top
  <2>5. Top'.pc = "load"
    BY <2>4, Frames DEF Pc
  <2>6. \A k \in Key : Writes(todo, k)' => Writes(todo, k)
    <3> SUFFICES ASSUME NEW k \in Key, Writes(todo', k)
                 PROVE  Writes(todo, k)
      OBVIOUS
    <3>1. Writes(q, k)
      BY <2>2, RecoverWrites, WritesJoin
    <3>2. Writes(Tail(todo), k)
      BY <1>2, <3>1, WritesOne
    <3> QED
      BY <1>2, <3>2, WritesTail DEF StackOK
  <2>7. \A s \in Sector : Known(s)
    BY <1>2, AllKnown DEF Starting
  <2> QED
    BY <1>1, <1>2, <2>5, <2>6, <2>7, SameSlots, SameKv, Fewer DEF Movers
<1> QED
  BY <1>3, <1>4

LEMMA ReadBackSame ==
    ASSUME RestOK, NEW k \in Key, kv' = ReadBack(k)
    PROVE  SameIndex
BY DEF ReadBack, RestOK, Entry, SameIndex

LEMMA UpdateLive == IInv /\ UInv /\ Update => UInv'
<1>1. ASSUME IInv, UInv, NEW k \in Key, Get(k) PROVE UInv'
  <2>1. Ready /\ slot' = slot /\ kv' = ReadBack(k) /\ todo' = <<>>
    BY <1>1 DEF Get, flash, Ready
  <2>2. SameIndex
    BY <1>1, <2>1, ReadBackSame DEF IInv, TInv
  <2> QED
    BY <1>1, <2>1, <2>2, SameSlots, GoStart
<1>2. ASSUME IInv, UInv, NEW k \in Key, NEW v \in Value, Set(k, v) PROVE UInv'
  <2> DEFINE f == [Call0("set_written") EXCEPT !.key = k, !.val = v]
             g == [f EXCEPT !.pc = "put"]
  <2>1. Ready /\ slot' = slot /\ kv' = ReadBack(k)
    BY <1>2 DEF Set, flash
  <2>2. SameIndex
    BY <1>2, <2>1, ReadBackSame DEF IInv, TInv
  <2>3. todo' = <<>> \/ todo' = <<g, f>>
    BY <1>2, Zenon DEF Set, Ready
  <2>4. f \in Frame /\ f.pc = "set_written" /\ g \in Frame /\ g.pc = "put"
    <3>1. Call0("set_written") \in Frame /\ Call0("set_written").pc = "set_written"
      BY Frames DEF Pc
    <3> QED
      BY <3>1 DEF Frame, Pc
  <2> HIDE DEF f, g
  <2> QED
    BY <1>2, <2>1, <2>2, <2>3, <2>4, SameSlots, GoStart DEF Movers
<1> QED
  BY <1>1, <1>2 DEF Update

LEMMA CollectLive == IInv /\ UInv /\ Collect => UInv'
<1> SUFFICES ASSUME IInv, UInv, Collect PROVE UInv'
  OBVIOUS
<1>1. Ready /\ slot' = slot /\ kv' = kv /\ todo' = <<Call0("gc")>>
  BY DEF Collect, flash
<1>2. Call0("gc") \in Frame /\ Call0("gc").pc = "gc"
  BY Frames DEF Pc
<1> QED
  BY <1>1, <1>2, SameSlots, SameKv, GoStart DEF Movers

-----------------------------------------------------------------------------
(* Start-up *)

LEMMA Fresh0 ==
    /\ Call0("init") \in Frame /\ Call0("init").pc = "init"
    /\ Call0("init_done") \in Frame /\ Call0("init_done").pc = "init_done"
BY Frames DEF Pc

(* After a reset nothing is known and nothing is pending.                  *)
LEMMA ResetLive ==
    ASSUME Single', kv' = ResetKv, todo' = <<Call0("init")>>
    PROVE  UInv'
<1> PICK f \in Frame : f = Call0("init") /\ f.pc = "init"
  BY Fresh0
<1>1. todo' # <<>> /\ Top' = f
  BY DEF Top
<1>2. Complete'
  BY <1>1 DEF Complete, Known
<1>3. Stored'
  BY DEF Stored, ResetKv
<1>4. Pending'
  <2>1. todo' = <<f>> \o <<>> /\ <<>> \in Seq(Frame) /\ f.pc # "defaults_commit"
    OBVIOUS
  <2> PICK e : e = <<>>
    OBVIOUS
  <2>2. \A k \in Key : ~Writes(<<f>> \o e, k)
    BY <2>1, WritesOne, WritesNone
  <2> QED
    BY <2>1, <2>2 DEF Pending
<1>5. Moved'
  BY <1>1 DEF Moved
<1> QED
  BY <1>2, <1>3, <1>4, <1>5 DEF UInv

LEMMA InitLive == Init => UInv
<1> SUFFICES ASSUME Init PROVE UInv
  OBVIOUS
<1>1. \A a \in Seen : SlotAt(a) = Erased
  BY SeenIs DEF Init, SlotAt
<1>2. Single
  BY <1>1, Statuses DEF Single, LiveOfKey
<1> PICK f \in Frame : f = Call0("init") /\ f.pc = "init"
  BY Fresh0
<1>3. todo = <<f>> /\ todo # <<>> /\ Top = f /\ kv = ResetKv
  BY DEF Init, Top
<1>4. Complete
  BY <1>3 DEF Complete, Known
<1>5. Stored
  BY <1>3 DEF Stored, ResetKv
<1>6. Pending
  <2>1. todo = <<f>> \o <<>> /\ <<>> \in Seq(Frame) /\ f.pc # "defaults_commit"
    BY <1>3
  <2> PICK e : e = <<>>
    OBVIOUS
  <2>2. \A k \in Key : ~Writes(<<f>> \o e, k)
    BY <2>1, WritesOne, WritesNone
  <2> QED
    BY <2>1, <2>2 DEF Pending
<1>7. Moved
  BY <1>3 DEF Moved
<1> QED
  BY <1>2, <1>4, <1>5, <1>6, <1>7 DEF UInv

LEMMA PowerCutLive == IInv /\ UInv /\ PowerCut => UInv'
<1> SUFFICES ASSUME IInv, UInv, PowerCut PROVE UInv'
  OBVIOUS
<1>1. NoneNew
  <2>1. CASE slot' = slot
    BY <2>1, SameSlots
  <2>2. CASE At("append") /\ slot' = PutRecord(slot, <<Top.s, used[Top.s] + 1>>, Torn)
    <3> PICK b \in Addr : b = <<Top.s, used[Top.s] + 1>> /\ FlashOK
      BY <2>2, AppendAddr
    <3> SUFFICES ASSUME NEW a \in Seen, NEW k \in Key, LiveOfKey(a, k)'
                 PROVE  LiveOfKey(a, k)
      BY DEF NoneNew
    <3>1. a[1] \in Sector /\ a[2] \in Slot
      BY SeenIs
    <3>2. SlotAt(a)' = Torn \/ SlotAt(a)' = SlotAt(a)
      BY <2>2, <3>1, Records, RecordWrite DEF SlotAt
    <3> QED
      BY <3>2 DEF LiveOfKey, IsLive, Torn
  <2> QED
    BY <2>1, <2>2 DEF PowerCut
<1>2. Single'
  BY <1>1 DEF UInv, NoneNew, Single
<1> QED
  BY <1>2, ResetLive DEF PowerCut

(* Classifying the flash: the first sector is still to be scanned, and no  *)
(* default is being written.                                               *)
LEMMA ClassifyCalls ==
    ASSUME InitClassify
    PROVE  /\ todo' # <<>> /\ Top'.s = 0 /\ Top'.pc \in {"load", "format"}
           /\ \A c : ~Pends(todo', c)
<1>1. \A l \in {"load", "format", "rebuild", "defaults", "init_done"} :
         Call0(l) \in Frame /\ Call0(l).pc = l /\ Call0(l).s = 0
  BY Frames DEF Pc, Call0
<1>2. PICK q \in Seq(Frame) :
        /\ todo' = q \o <<Call0("init_done")>> /\ q # <<>>
        /\ q[1] \in {Call0("load"), Call0("format")}
        /\ \A n \in 1..Len(q) : q[n].pc # "defaults_commit"
  <2> DEFINE P(q) == /\ q \in Seq(Frame) /\ q # <<>>
                     /\ q[1] \in {Call0("load"), Call0("format")}
                     /\ \A n \in 1..Len(q) : q[n].pc # "defaults_commit"
  <2>1. P(<<Call0("load"), Call0("defaults")>>)
    BY <1>1
  <2>2. P(<<Call0("format"), Call0("defaults"), Call0("load")>>)
    BY <1>1
  <2>3. P(RecoverFrames)
    BY RecoverWrites DEF RecoverFrames
  <2> DEFINE x == CASE IsNormal -> <<Call0("load"), Call0("defaults")>>
                    [] IsFirstPowerOn -> <<Call0("format"), Call0("defaults"), Call0("load")>>
                    [] OTHER -> RecoverFrames
  <2>4. x \in {<<Call0("load"), Call0("defaults")>>,
               <<Call0("format"), Call0("defaults"), Call0("load")>>, RecoverFrames}
    BY Zenon
  <2>5. todo' = x \o <<Call0("init_done")>>
    BY DEF InitClassify
  <2> HIDE DEF x, P
  <2>6. P(x)
    BY <2>1, <2>2, <2>3, <2>4
  <2> QED
    BY <2>5, <2>6 DEF P
<1>3. todo' # <<>> /\ Top' = q[1]
  <2>0. \A f \in Frame : <<f>> \in Seq(Frame)
    OBVIOUS
  <2> PICK e \in Seq(Frame) : e = <<Call0("init_done")>>
    BY <1>1, <2>0
  <2>1. todo' = q \o e
    BY <1>2
  <2> QED
    BY <1>2, <2>1 DEF Top
<1>4. Top'.s = 0 /\ Top'.pc \in {"load", "format"}
  BY <1>1, <1>2, <1>3
<1>5. ASSUME NEW c, Pends(todo', c) PROVE FALSE
  <2> PICK e : e = <<>>
    OBVIOUS
  <2> PICK f \in Frame : f = Call0("init_done") /\ f.pc = "init_done"
    BY Fresh0
  <2>0. <<f>> \in Seq(Frame)
    OBVIOUS
  <2> PICK b \in Seq(Frame) : b = <<f>>
    BY <2>0
  <2>1. todo' = q \o b
    BY <1>2
  <2>2. Pends(b, c)
    BY <1>2, <1>5, <2>1, PendsJoin
  <2>3. b = <<f>> \o e /\ e \in Seq(Frame) /\ f.pc # "defaults_commit"
    OBVIOUS
  <2>4. Pends(e, c)
    BY <2>2, <2>3, PendsOne
  <2> QED
    BY <2>4, PendsNone
<1> QED
  BY <1>3, <1>4, <1>5

LEMMA InitClassifyLive == IInv /\ UInv /\ InitClassify => UInv'
<1> SUFFICES ASSUME IInv, UInv, InitClassify PROVE UInv'
  OBVIOUS
<1>1. slot' = slot /\ kv' = kv
  BY DEF InitClassify, flash
<1>2. todo' # <<>> /\ Top'.s = 0 /\ Top'.pc \in {"load", "format"}
  BY ClassifyCalls
<1>3. \A s \in Sector : ~Known(s)'
  BY <1>2, Ranges DEF Known
<1>4. \A k \in Key : ~Writes(todo', k)
  BY ClassifyCalls DEF Writes
<1>5. Top'.pc \notin Movers /\ (todo # <<>> => Top.pc \notin Movers)
  BY <1>2 DEF Movers, InitClassify, At
<1> QED
  BY <1>1, <1>3, <1>4, <1>5, Fewer, SameSlots, SameKv

(* A flash without live records stays without while it is formatted.       *)
LEMMA FormatLive ==
    ASSUME IInv, UInv, Headers, NEW l \in Formats, At(l), NoneNew, kv' = kv,
           \/ todo' = Tail(todo)
           \/ \E f \in Frame : f.pc \in Formats /\ todo' = <<f>> \o Tail(todo)
    PROVE  UInv'
<1>1. todo # <<>> /\ Top.pc = l /\ StackOK
  BY Running
<1>2. NoneLive
  BY <1>1 DEF Headers, Blank
<1>3. \A a \in Seen : \A k \in Key : ~LiveOfKey(a, k)'
  <2>1. \A a \in Seen : ~IsLive(SlotAt(a))
    BY <1>2, SeenIs DEF NoneLive, LiveSeen, SlotAt
  <2> QED
    BY <2>1 DEF NoneNew, LiveOfKey
<1>4. todo' # <<>> => Top'.pc \notin Movers
  BY <1>1, Waiting, On DEF Movers, Formats
<1>5. Calm
  BY <1>1 DEF Calm, Formats
<1>6. \A k \in Key : Writes(todo, k)' => Writes(todo, k)
  BY <1>1, <1>5, CalmWrites
<1>7. Single' /\ Complete' /\ Stored'
  BY <1>3 DEF UInv, Single, Complete, Stored
<1>8. Pending'
  BY <1>3, <1>6 DEF UInv, Pending, Absent
<1>9. todo' # <<>> => Moved'
  BY <1>4 DEF Moved, Movers
<1> QED
  BY <1>7, <1>8, <1>9 DEF UInv

LEMMA FormatStepsLive ==
    IInv /\ UInv /\ Headers /\ (FormatErase \/ FormatRole \/ FormatMagic) => UInv'
<1> SUFFICES ASSUME IInv, UInv, Headers, FormatErase \/ FormatRole \/ FormatMagic PROVE UInv'
  OBVIOUS
<1>1. CASE FormatErase
  <2> DEFINE f == [Top EXCEPT !.pc = "format_role"]
  <2>1. At("format") /\ EraseSector(Top.s) /\ kv' = kv /\ todo' = <<f>> \o Tail(todo)
    BY <1>1 DEF FormatErase, Goto, Stay
  <2>2. f \in Frame /\ f.pc = "format_role" /\ Top.s \in Sector /\ FlashOK /\ DescOK
    <3>1. Top \in Frame /\ FlashOK /\ DescOK
      BY <2>1, Running
    <3> QED
      BY <3>1 DEF Pc, Frame
  <2> HIDE DEF f
  <2> QED
    BY <2>1, <2>2, ErasedNoneNew, FormatLive DEF Formats
<1>2. CASE FormatRole
  <2> DEFINE f == [Top EXCEPT !.pc = "format_magic"]
  <2>1. At("format_role") /\ slot' = slot /\ kv' = kv /\ todo' = <<f>> \o Tail(todo)
    BY <1>2 DEF FormatRole, Goto, Stay
  <2>2. f \in Frame /\ f.pc = "format_magic"
    BY <2>1, Running DEF Pc
  <2> HIDE DEF f
  <2> QED
    BY <2>1, <2>2, SameSlots, FormatLive DEF Formats
<1>3. CASE FormatMagic
  <2> DEFINE f == [Top EXCEPT !.s = @ + 1, !.pc = "format"]
  <2>1. At("format_magic") /\ slot' = slot /\ kv' = kv
    BY <1>3 DEF FormatMagic
  <2>2. todo' = Tail(todo) \/ (Top.s + 1 \in Sector /\ todo' = <<f>> \o Tail(todo))
    BY <1>3 DEF FormatMagic, Return, Stay
  <2>3. Top.s + 1 \in Sector => f \in Frame /\ f.pc = "format"
    <3>1. Top \in Frame
      BY <2>1, Running
    <3> QED
      BY <3>1 DEF Pc, Frame
  <2> HIDE DEF f
  <2> QED
    BY <2>1, <2>2, <2>3, SameSlots, FormatLive DEF Formats
<1> QED
  BY <1>1, <1>2, <1>3

LEMMA LoadFinds ==
    ASSUME IInv, NEW s \in Sector, NEW k
    PROVE  LiveOf(s, k) = {j \in Visible : LiveOfKey(<<s, j>>, k)}
<1>1. LiveIn(s) = {j \in Visible : IsLive(slot[s][j])}
  BY ScannedAll DEF IInv, SInv, Order
<1> QED
  BY <1>1 DEF LiveOf, LiveOfKey, SlotAt

LEMMA LoadCalls ==
    ASSUME IInv, LoadSector
    PROVE  Calm /\ (todo' # <<>> => Top'.pc \notin Carriers)
<1> PICK s : s = Top.s
  OBVIOUS
<1>1. todo # <<>> /\ Top.pc = "load" /\ StackOK /\ Chain(todo) /\ Top \in Frame
  BY Running DEF LoadSector
<1>2. CASE s + 1 \in Sector
  <2> DEFINE f == [Top EXCEPT !.s = s + 1]
  <2>1. todo' = <<f>> \o Tail(todo)
    BY <1>2 DEF LoadSector, Stay
  <2>2. f \in Frame /\ f.pc = "load"
    BY <1>1, <1>2 DEF Frame
  <2> HIDE DEF f
  <2>3. Top' = f
    BY <1>1, <2>1, <2>2, On
  <2> QED
    BY <1>1, <2>1, <2>2, <2>3 DEF Calm, Carriers, Movers
<1>3. CASE s + 1 \notin Sector
  <2>1. todo' = Tail(todo)
    BY <1>3 DEF LoadSector, Return
  <2>2. todo' # <<>> => Top' = Waits /\ Link(Top, Waits)
    BY <1>1, <2>1, Back
  <2> QED
    BY <1>1, <2>1, <2>2 DEF Calm, Carriers, Movers, Link, Suspended, Awaiting, Eraser, Writer
<1> QED
  BY <1>2, <1>3

(* Loading a sector indexes its live records, of which no key has two.     *)
LEMMA LoadSectorLive == IInv /\ UInv /\ LoadSector => UInv'
<1> SUFFICES ASSUME IInv, UInv, LoadSector PROVE UInv'
  OBVIOUS
<1> PICK s : s = Top.s
  OBVIOUS
<1>1. At("load") /\ slot' = slot
  BY DEF LoadSector
<1>2. todo # <<>> /\ Top.pc = "load" /\ s \in Sector /\ s \in Nat /\ StackOK /\ Top \in Frame
  BY <1>1, Running, Ranges DEF Frame
<1>3. \A k \in Key : IF LiveOf(s, k) = {} THEN kv'[k] = kv[k]
                     ELSE kv'[k].addr = <<s, Max(LiveOf(s, k))>> /\ kv'[k].stored = TRUE
  <2> SUFFICES ASSUME NEW k \in Key
               PROVE  IF LiveOf(s, k) = {} THEN kv'[k] = kv[k]
                      ELSE kv'[k].addr = <<s, Max(LiveOf(s, k))>> /\ kv'[k].stored = TRUE
    OBVIOUS
  <2> PICK j : j = Max(LiveOf(s, k))
    OBVIOUS
  <2>1. kv'[k] = IF LiveOf(s, k) = {} THEN kv[k]
                 ELSE [addr |-> <<s, j>>, val |-> slot[s][j].val, stored |-> TRUE]
    BY DEF LoadSector
  <2> QED
    BY <2>1
<1>4. \A k \in Key : LiveOf(s, k) = {j \in Visible : LiveOfKey(<<s, j>>, k)}
  BY <1>2, LoadFinds
<1>5. \A k \in Key : \A a \in Seen : LiveOfKey(a, k) /\ a[1] = s => kv'[k].addr = a
  <2> SUFFICES ASSUME NEW k \in Key, NEW a \in Seen, LiveOfKey(a, k), a[1] = s
               PROVE  kv'[k].addr = a
    OBVIOUS
  <2> DEFINE j == Max(LiveOf(s, k))
  <2>1. a[2] \in LiveOf(s, k)
    BY <1>4, SeenIs
  <2>2. j \in LiveOf(s, k)
    <3>1. LiveOf(s, k) \subseteq Visible
      BY DEF LiveOf, LiveIn, Scanned
    <3>2. LiveOf(s, k) \subseteq 0..Slots
      BY <3>1, Sizes DEF Visible
    <3> QED
      BY <2>1, <3>2, MaxNat, Sizes
  <2>3. kv'[k].addr = <<s, j>>
    BY <1>3, <2>1
  <2> HIDE DEF j
  <2>4. <<s, j>> \in Seen /\ LiveOfKey(<<s, j>>, k)
    BY <1>2, <1>4, <2>2, SeenIs
  <2>5. <<s, j>> = a
    BY <2>4 DEF UInv, Single
  <2> QED
    BY <2>3, <2>5
<1>6. \A k \in Key : \A a \in Seen : LiveOfKey(a, k) /\ a[1] # s => kv'[k] = kv[k]
  <2> SUFFICES ASSUME NEW k \in Key, NEW a \in Seen, LiveOfKey(a, k), a[1] # s
               PROVE  LiveOf(s, k) = {}
    BY <1>3
  <2> SUFFICES ASSUME NEW j \in Visible, LiveOfKey(<<s, j>>, k) PROVE FALSE
    BY <1>4
  <2>1. <<s, j>> \in Seen
    BY <1>2, SeenIs
  <2>2. <<s, j>> = a
    BY <2>1 DEF UInv, Single
  <2> QED
    BY <2>2
<1>7. \A x \in Sector : Known(x)' => x = s \/ Known(x)
  <2>1. \A x \in Sector : Known(x) <=> x < s
    BY <1>2 DEF Known
  <2>2. CASE s + 1 \in Sector
    <3> DEFINE f == [Top EXCEPT !.s = s + 1]
    <3>1. todo' = <<f>> \o Tail(todo)
      BY <2>2 DEF LoadSector, Stay
    <3>2. f \in Frame /\ f.pc = "load" /\ f.s = s + 1
      BY <1>2, <2>2 DEF Frame
    <3> HIDE DEF f
    <3>3. todo' # <<>> /\ Top' = f
      BY <1>2, <3>1, <3>2, On
    <3>4. \A x \in Sector : x < s + 1 => x = s \/ x < s
      BY <1>2, Ranges
    <3> QED
      BY <2>1, <3>2, <3>3, <3>4 DEF Known
  <2>3. CASE s + 1 \notin Sector
    <3>1. \A x \in Sector : x = s \/ x < s
      BY <1>2, <2>3, Sizes DEF Sector
    <3> QED
      BY <2>1, <3>1
  <2> QED
    BY <2>2, <2>3
<1>8. Single'
  BY <1>1 DEF UInv, Single, LiveOfKey, SlotAt
<1>9. Complete'
  <2> SUFFICES ASSUME NEW k \in Key, NEW a \in Seen, LiveOfKey(a, k)', Known(a[1])'
               PROVE  kv'[k].addr = a
    BY DEF Complete
  <2>1. LiveOfKey(a, k) /\ a[1] \in Sector
    BY <1>1, SeenIs DEF LiveOfKey, SlotAt
  <2>2. ~Moving(k)
    BY <1>2, NotMoving DEF Movers
  <2> QED
    BY <1>5, <1>6, <1>7, <2>1, <2>2 DEF UInv, Complete
<1>10. Stored'
  <2>1. \A k \in Key : kv'[k] = kv[k] \/ kv'[k].stored = TRUE
    BY <1>3
  <2> QED
    BY <2>1 DEF UInv, Stored
<1>11. Calm /\ (todo' # <<>> => Top'.pc \notin Movers)
  BY LoadCalls DEF Carriers
<1>12. Pending'
  <2> SUFFICES ASSUME NEW k \in Key, Writes(todo, k)' PROVE Absent(k)' /\ ~kv'[k].stored
    BY DEF Pending
  <2>1. Writes(todo, k)
    BY <1>2, <1>11, CalmWrites DEF Calm
  <2>2. Absent(k) /\ ~kv[k].stored
    BY <2>1 DEF UInv, Pending
  <2>3. LiveOf(s, k) = {}
    BY <1>2, <1>4, <2>2, SeenIs DEF Absent
  <2> QED
    BY <1>1, <1>3, <2>2, <2>3 DEF Absent, LiveOfKey, SlotAt
<1>13. todo' # <<>> => Moved'
  BY <1>11 DEF Moved, Movers
<1> QED
  BY <1>8, <1>9, <1>10, <1>12, <1>13 DEF UInv

-----------------------------------------------------------------------------
(* Steps that replace a live record *)

LEMMA KillsSeen ==
    ASSUME FlashOK, NEW a \in Addr \cup {NoAddr}, NEW st \in {PRE_DELETE, DELETED},
           slot' = SetKvStatus(slot, a, st), NEW b \in Seen, NEW k \in Key
    PROVE  LiveOfKey(b, k)' <=> LiveOfKey(b, k) /\ b # a
<1> PICK s, j : s = b[1] /\ j = b[2]
  OBVIOUS
<1>1. s \in Sector /\ j \in Slot /\ b = <<s, j>>
  BY SeenIs
<1>2. /\ slot'[s][j].key = slot[s][j].key
      /\ IsLive(slot'[s][j]) <=> IsLive(slot[s][j]) /\ <<s, j>> # a
  BY <1>1, Kills
<1> QED
  BY <1>1, <1>2 DEF LiveOfKey, SlotAt

LEMMA CommitsSeen ==
    ASSUME FlashOK, NEW a \in Addr \cup {NoAddr}, slot' = SetKvStatus(slot, a, WRITE),
           NEW q \in Key, Fresh(a, q), NEW b \in Seen, NEW k \in Key, LiveOfKey(b, k)'
    PROVE  LiveOfKey(b, k) \/ (b = a /\ k = q)
<1> PICK s, j : s = b[1] /\ j = b[2]
  OBVIOUS
<1>1. s \in Sector /\ j \in Slot /\ b = <<s, j>>
  BY SeenIs
<1>2. /\ slot'[s][j].key = slot[s][j].key
      /\ <<s, j>> # a => slot'[s][j] = slot[s][j]
  BY <1>1, Commits
<1> QED
  BY <1>1, <1>2 DEF LiveOfKey, SlotAt, Fresh

(* While a record of key k is replaced the index is not exact for it.      *)
LEMMA Replacing ==
    ASSUME IInv, UInv, todo # <<>>, Top.pc \notin Starting, NEW k \in Key,
           NEW f \in Frame, f.pc \in Movers, f.key = k, todo' = <<f>> \o Tail(todo), kv' = kv,
           \A q : Moving(q) => q = k, ~Writes(todo, k),
           \A q \in Key \ {k} : \A a \in Seen : LiveOfKey(a, q)' => LiveOfKey(a, q),
           \A a, b \in Seen : LiveOfKey(a, k)' /\ LiveOfKey(b, k)' => a = b,
           f.pc \in {"mig_commit", "mig_deleted"} => kv[k].stored,
           f.pc \in {"mig_commit", "set_commit"} => Absent(k)',
           f.pc \in {"mig_deleted", "set_deleted"} => \A a \in Seen : LiveOfKey(a, k)' => a = f.new
    PROVE  UInv'
<1>1. StackOK
  BY DEF IInv, TInv
<1>2. todo' # <<>> /\ Top' = f
  BY <1>1, On
<1>3. \A s \in Sector : Known(s)
  BY AllKnown
<1>4. Single'
  BY DEF UInv, Single
<1>5. Complete'
  <2> SUFFICES ASSUME NEW q \in Key, NEW a \in Seen, LiveOfKey(a, q)', q # k
               PROVE  kv[q].addr = a
    BY <1>2 DEF Complete, Moving
  <2>1. LiveOfKey(a, q) /\ Known(a[1]) /\ ~Moving(q)
    BY <1>3, SeenIs
  <2> QED
    BY <2>1 DEF UInv, Complete
<1>6. Stored'
  BY DEF UInv, Stored
<1>7. Pending'
  <2>1. Calm
    BY DEF Calm, Movers
  <2>2. \A q \in Key : Writes(todo, q)' => Writes(todo, q) /\ q # k
    BY <1>1, <2>1, CalmWrites
  <2> QED
    BY <2>2 DEF UInv, Pending, Absent
<1>8. Moved'
  BY <1>2 DEF Moved, Only
<1> QED
  BY <1>4, <1>5, <1>6, <1>7, <1>8 DEF UInv

(* And when the index has the new address it is exact again.               *)
LEMMA Replaced ==
    ASSUME UInv, todo # <<>>, Top.pc \notin Starting, NEW k \in Key, NEW b,
           kv'[k].addr = b, kv'[k].stored,
           \A q \in Key \ {k} : kv'[q] = kv[q],
           \A q : Moving(q) => q = k,
           \A q \in Key \ {k} : \A a \in Seen : LiveOfKey(a, q)' => LiveOfKey(a, q),
           \A a \in Seen : LiveOfKey(a, k)' => a = b,
           \A q \in Key : Writes(todo, q)' => Writes(todo, q) /\ q # k,
           todo' # <<>> => Top'.pc \notin Movers
    PROVE  UInv'
<1>1. \A s \in Sector : Known(s)
  BY AllKnown
<1>2. Single'
  BY DEF UInv, Single
<1>3. Complete'
  <2> SUFFICES ASSUME NEW q \in Key, NEW a \in Seen, LiveOfKey(a, q)'
               PROVE  kv'[q].addr = a
    BY DEF Complete
  <2>1. CASE q # k
    <3>1. LiveOfKey(a, q) /\ Known(a[1]) /\ ~Moving(q)
      BY <1>1, <2>1, SeenIs
    <3> QED
      BY <2>1, <3>1 DEF UInv, Complete
  <2> QED
    BY <2>1
<1>4. Stored'
  BY DEF UInv, Stored
<1>5. Pending'
  BY DEF UInv, Pending, Absent
<1>6. todo' # <<>> => Moved'
  BY DEF Moved, Movers
<1> QED
  BY <1>2, <1>3, <1>4, <1>5, <1>6 DEF UInv

(* A set waits for nothing: its frame is the only one.                     *)
LEMMA SetAlone ==
    ASSUME IInv, todo # <<>>, Top.pc \in Setters
    PROVE  Tail(todo) = <<>> /\ \A k : ~Writes(todo, k)
<1>1. StackOK /\ Chain(todo)
  BY DEF IInv, TInv, SInv
<1>2. Tail(todo) = <<>>
  BY <1>1, ChainPop DEF Link
<1>3. todo = <<Top>> \o Tail(todo) /\ Top \in Frame /\ Tail(todo) \in Seq(Frame)
  BY <1>1, Stack
<1>4. \A k : Writes(todo, k) => Writes(Tail(todo), k)
  BY <1>3, WritesOne DEF Setters
<1> QED
  BY <1>2, <1>4, WritesNone

(* Between replacements the index knows every live record.                 *)
LEMMA Found ==
    ASSUME UInv, todo # <<>> => Top.pc \notin Movers \cup Starting,
           NEW k \in Key, NEW a \in Seen, LiveOfKey(a, k)
    PROVE  kv[k].addr = a /\ kv[k].stored
<1>1. Known(a[1])
  BY AllKnown
<1>2. kv[k].addr = a
  BY <1>1, NotMoving DEF UInv, Complete
<1> QED
  BY <1>2, SeenIs DEF UInv, Stored

LEMMA Movings ==
    ASSUME todo # <<>>
    PROVE  \A q : Moving(q) => q = Top.key
BY DEF Moving

LEMMA MigratePreDeleteLive == IInv /\ UInv /\ MigratePreDelete => UInv'
<1> SUFFICES ASSUME IInv, UInv, MigratePreDelete PROVE UInv'
  OBVIOUS
<1> PICK k, a : k = Top.key /\ a = <<Top.s, Top.i>>
  OBVIOUS
<1> DEFINE f == [Top EXCEPT !.pc = "mig_commit", !.new = ret]
<1>1. /\ At("mig_predelete") /\ slot' = SetKvStatus(slot, a, PRE_DELETE) /\ kv' = kv
      /\ todo' = <<f>> \o Tail(todo)
  BY DEF MigratePreDelete, Stay
<1>2. todo # <<>> /\ Top.pc = "mig_predelete" /\ Top \in Frame /\ FlashOK /\ RestOK
  BY <1>1, Running
<1>3. k \in Key /\ Top.s \in Sector /\ f \in Frame /\ f.pc = "mig_commit" /\ f.key = k
  BY <1>2 DEF Frame, Pc, RestOK
<1> HIDE DEF f
<1>4. a \in Seen /\ LiveOfKey(a, k) /\ a \in Addr
  <2>1. Begun(Top)
    BY <1>2 DEF IInv, SInv, Stage, Relies
  <2> QED
    BY <1>3, <2>1, SeenIs DEF Begun, Source, LiveOfKey, SlotAt
<1>5. kv[k].stored
  BY <1>2, <1>3, <1>4, Found DEF Movers, Starting
<1>6. ~Writes(todo, k)
  BY <1>3, <1>5 DEF UInv, Pending
<1>7. \A b \in Seen : \A q \in Key : LiveOfKey(b, q)' <=> LiveOfKey(b, q) /\ b # a
  BY <1>1, <1>2, <1>4, KillsSeen
<1>8. Absent(k)'
  <2>1. \A b \in Seen : ~LiveOfKey(b, k)'
    BY <1>3, <1>4, <1>7 DEF UInv, Single
  <2> QED
    BY <2>1 DEF Absent
<1>9. \A q : Moving(q) => q = k
  BY <1>2, Movings
<1>10. \A x, y \in Seen : LiveOfKey(x, k)' /\ LiveOfKey(y, k)' => x = y
  BY <1>8 DEF Absent
<1> QED
  BY <1>1, <1>2, <1>3, <1>5, <1>6, <1>7, <1>8, <1>9, <1>10, Replacing DEF Movers, Starting

LEMMA MigrateCommitLive == IInv /\ UInv /\ MigrateCommit => UInv'
<1> SUFFICES ASSUME IInv, UInv, MigrateCommit PROVE UInv'
  OBVIOUS
<1> PICK k, a : k = Top.key /\ a = Top.new
  OBVIOUS
<1> DEFINE f == [Top EXCEPT !.pc = "mig_deleted"]
<1>1. /\ At("mig_commit") /\ slot' = SetKvStatus(slot, a, WRITE) /\ kv' = kv
      /\ todo' = <<f>> \o Tail(todo)
  BY DEF MigrateCommit, Goto, Stay
<1>2. todo # <<>> /\ Top.pc = "mig_commit" /\ Top \in Frame /\ FlashOK
  BY <1>1, Running
<1>3. /\ k \in Key /\ a \in Addr \cup {NoAddr}
      /\ f \in Frame /\ f.pc = "mig_deleted" /\ f.key = k /\ f.new = a
  BY <1>2 DEF Frame, Pc
<1> HIDE DEF f
<1>4. kv[k].stored /\ Absent(k)
  BY <1>2 DEF UInv, Moved
<1>5. Fresh(a, k)
  BY <1>2 DEF IInv, SInv, Stage, Relies
<1>6. ~Writes(todo, k)
  BY <1>3, <1>4 DEF UInv, Pending
<1>7. \A b \in Seen : \A q \in Key : LiveOfKey(b, q)' => LiveOfKey(b, q) \/ (b = a /\ q = k)
  BY <1>1, <1>2, <1>3, <1>5, CommitsSeen
<1>8. \A b \in Seen : LiveOfKey(b, k)' => b = a
  BY <1>3, <1>4, <1>7 DEF Absent
<1>9. \A q : Moving(q) => q = k
  BY <1>2, Movings
<1> QED
  BY <1>1, <1>2, <1>3, <1>4, <1>6, <1>7, <1>8, <1>9, Replacing DEF Movers, Starting

LEMMA MigrateDeletedLive == IInv /\ UInv /\ MigrateDeleted => UInv'
<1> SUFFICES ASSUME IInv, UInv, MigrateDeleted PROVE UInv'
  OBVIOUS
<1> PICK k, a : k = Top.key /\ a = <<Top.s, Top.i>>
  OBVIOUS
<1> DEFINE f == [Top EXCEPT !.pc = "migrate"]
<1>1. /\ At("mig_deleted") /\ slot' = SetKvStatus(slot, a, DELETED)
      /\ kv' = [kv EXCEPT ![k].addr = Top.new, ![k].stored = TRUE]
      /\ todo' = <<f>> \o Tail(todo)
  BY DEF MigrateDeleted, Goto, Stay
<1>2. /\ todo # <<>> /\ Top.pc = "mig_deleted" /\ Top \in Frame
      /\ FlashOK /\ RestOK /\ StackOK
  BY <1>1, Running
<1>3. k \in Key /\ Top.s \in Sector /\ f \in Frame /\ f.pc = "migrate"
  BY <1>2 DEF Frame, Pc
<1> HIDE DEF f
<1>4. a \in Addr
  <2>1. Ended(Top)
    BY <1>2 DEF IInv, SInv, Stage, Relies
  <2> QED
    BY <1>3, <2>1, SeenIs DEF Ended, Source
<1>5. kv[k].stored /\ Only(k, Top.new)
  BY <1>2 DEF UInv, Moved
<1>6. ~Writes(todo, k)
  BY <1>3, <1>5 DEF UInv, Pending
<1>7. \A b \in Seen : \A q \in Key : LiveOfKey(b, q)' => LiveOfKey(b, q)
  BY <1>1, <1>2, <1>4, KillsSeen
<1>8. \A b \in Seen : LiveOfKey(b, k)' => b = Top.new
  BY <1>3, <1>5, <1>7 DEF Only
<1>9. /\ kv'[k].addr = Top.new /\ kv'[k].stored
      /\ \A q \in Key \ {k} : kv'[q] = kv[q]
  BY <1>1, <1>2, <1>3 DEF RestOK, Entry
<1>10. \A q \in Key : Writes(todo, q)' => Writes(todo, q) /\ q # k
  <2>1. Calm
    BY <1>1, <1>2, <1>3 DEF Calm
  <2> QED
    BY <1>2, <1>6, <2>1, CalmWrites
<1>11. todo' # <<>> => Top'.pc \notin Movers
  BY <1>1, <1>2, <1>3, On DEF Movers
<1>12. \A q : Moving(q) => q = k
  BY <1>2, Movings
<1> PICK b : b = Top.new
  OBVIOUS
<1> QED
  BY <1>2, <1>3, <1>7, <1>8, <1>9, <1>10, <1>11, <1>12, Replaced DEF Starting

LEMMA SetPreDeleteLive == IInv /\ UInv /\ SetPreDelete => UInv'
<1> SUFFICES ASSUME IInv, UInv, SetPreDelete PROVE UInv'
  OBVIOUS
<1> PICK k, a : k = Top.key /\ a = kv[k].addr
  OBVIOUS
<1> DEFINE f == [Top EXCEPT !.pc = "set_commit", !.new = ret]
<1>1. /\ At("set_written") /\ kv' = kv /\ todo' = <<f>> \o Tail(todo)
      /\ slot' = IF a \notin {NoAddr, ret} THEN SetKvStatus(slot, a, PRE_DELETE) ELSE slot
  BY DEF SetPreDelete, Stay, Old
<1>2. todo # <<>> /\ Top.pc = "set_written" /\ Top \in Frame /\ FlashOK /\ RestOK
  BY <1>1, Running
<1>3. k \in Key /\ f \in Frame /\ f.pc = "set_commit" /\ f.key = k /\ a \in Addr \cup {NoAddr}
  BY <1>2 DEF Frame, Pc, RestOK, Entry
<1> HIDE DEF f
<1>4. ~Writes(todo, k)
  BY <1>2, SetAlone DEF Setters
<1>5. \A b \in Seen : LiveOfKey(b, k) => b = a
  BY <1>2, <1>3, Found DEF Movers, Starting
<1>6. \A b \in Seen : \A q \in Key : LiveOfKey(b, q)' => LiveOfKey(b, q)
  <2>1. CASE a \notin {NoAddr, ret}
    BY <1>1, <1>2, <1>3, <2>1, KillsSeen
  <2>2. CASE a \in {NoAddr, ret}
    BY <1>1, <2>2, SameSlots DEF NoneNew
  <2> QED
    BY <2>1, <2>2
<1>7. Absent(k)'
  <2> SUFFICES ASSUME NEW b \in Seen, LiveOfKey(b, k)' PROVE FALSE
    BY DEF Absent
  <2>1. LiveOfKey(b, k) /\ b = a
    BY <1>3, <1>5, <1>6
  <2>2. CASE a \notin {NoAddr, ret}
    BY <1>1, <1>2, <1>3, <2>1, <2>2, KillsSeen
  <2>3. CASE a = ret
    <3>1. Fresh(ret, k)
      BY <1>2 DEF IInv, SInv, Stage, Relies, Awaiting
    <3> QED
      BY <2>1, <2>3, <3>1, Statuses DEF Fresh, LiveOfKey, IsLive
  <2>4. CASE a = NoAddr
    BY <2>1, <2>4, SeenIs
  <2> QED
    BY <2>2, <2>3, <2>4
<1>8. \A q : Moving(q) => q = k
  BY <1>2, Movings
<1>9. \A x, y \in Seen : LiveOfKey(x, k)' /\ LiveOfKey(y, k)' => x = y
  BY <1>7 DEF Absent
<1> QED
  BY <1>1, <1>2, <1>3, <1>4, <1>6, <1>7, <1>8, <1>9, Replacing DEF Movers, Starting

LEMMA SetCommitLive == IInv /\ UInv /\ SetCommit => UInv'
<1> SUFFICES ASSUME IInv, UInv, SetCommit PROVE UInv'
  OBVIOUS
<1> PICK k, a : k = Top.key /\ a = Top.new
  OBVIOUS
<1> DEFINE f == [Top EXCEPT !.pc = "set_deleted"]
<1>1. /\ At("set_commit") /\ slot' = SetKvStatus(slot, a, WRITE) /\ kv' = kv
      /\ todo' = <<f>> \o Tail(todo)
  BY DEF SetCommit, Goto, Stay
<1>2. todo # <<>> /\ Top.pc = "set_commit" /\ Top \in Frame /\ FlashOK
  BY <1>1, Running
<1>3. /\ k \in Key /\ a \in Addr \cup {NoAddr}
      /\ f \in Frame /\ f.pc = "set_deleted" /\ f.key = k /\ f.new = a
  BY <1>2 DEF Frame, Pc
<1> HIDE DEF f
<1>4. Absent(k)
  BY <1>2 DEF UInv, Moved
<1>5. Fresh(a, k)
  BY <1>2 DEF IInv, SInv, Stage, Relies
<1>6. ~Writes(todo, k)
  BY <1>2, SetAlone DEF Setters
<1>7. \A b \in Seen : \A q \in Key : LiveOfKey(b, q)' => LiveOfKey(b, q) \/ (b = a /\ q = k)
  BY <1>1, <1>2, <1>3, <1>5, CommitsSeen
<1>8. \A b \in Seen : LiveOfKey(b, k)' => b = a
  BY <1>3, <1>4, <1>7 DEF Absent
<1>9. \A q : Moving(q) => q = k
  BY <1>2, Movings
<1> QED
  BY <1>1, <1>2, <1>3, <1>4, <1>6, <1>7, <1>8, <1>9, Replacing DEF Movers, Starting

LEMMA SetDeletedLive == IInv /\ UInv /\ SetDeleted => UInv'
<1> SUFFICES ASSUME IInv, UInv, SetDeleted PROVE UInv'
  OBVIOUS
<1> PICK k, a : k = Top.key /\ a = kv[k].addr
  OBVIOUS
<1>1. /\ At("set_deleted") /\ todo' = Tail(todo)
      /\ slot' = IF a \notin {NoAddr, Top.new} THEN SetKvStatus(slot, a, DELETED) ELSE slot
      /\ kv' = [kv EXCEPT ![k] = [addr |-> Top.new, val |-> Top.val, stored |-> TRUE]]
  BY DEF SetDeleted, Return, Old
<1>2. todo # <<>> /\ Top.pc = "set_deleted" /\ Top \in Frame /\ FlashOK /\ RestOK
  BY <1>1, Running
<1>3. k \in Key /\ a \in Addr \cup {NoAddr}
  BY <1>2 DEF Frame, RestOK, Entry
<1>4. todo' = <<>>
  BY <1>1, <1>2, SetAlone DEF Setters
<1>5. Only(k, Top.new)
  BY <1>2 DEF UInv, Moved
<1>6. \A b \in Seen : \A q \in Key : LiveOfKey(b, q)' => LiveOfKey(b, q)
  <2>1. CASE a \notin {NoAddr, Top.new}
    BY <1>1, <1>2, <1>3, <2>1, KillsSeen
  <2>2. CASE a \in {NoAddr, Top.new}
    BY <1>1, <2>2, SameSlots DEF NoneNew
  <2> QED
    BY <2>1, <2>2
<1>7. \A b \in Seen : LiveOfKey(b, k)' => b = Top.new
  BY <1>3, <1>5, <1>6 DEF Only
<1>8. /\ kv'[k].addr = Top.new /\ kv'[k].stored
      /\ \A q \in Key \ {k} : kv'[q] = kv[q]
  BY <1>1, <1>2, <1>3 DEF RestOK, Entry
<1>9. \A q \in Key : ~Writes(todo, q)'
  BY <1>4, WritesNone
<1>10. \A q : Moving(q) => q = k
  BY <1>2, Movings
<1> PICK b : b = Top.new
  OBVIOUS
<1> QED
  BY <1>2, <1>3, <1>4, <1>6, <1>7, <1>8, <1>9, <1>10, Replaced DEF Starting

(* A default is written for a key of which no scanned sector has a record. *)
LEMMA DefaultsLive == IInv /\ UInv /\ Defaults => UInv'
<1> SUFFICES ASSUME IInv, UInv, Defaults PROVE UInv'
  OBVIOUS
<1> DEFINE K == {k \in Key : k > Top.i /\ ~kv[k].stored}
           k == Min(K)
           c == [Top EXCEPT !.i = k, !.key = k, !.val = kv[k].val]
           f == [c EXCEPT !.pc = "defaults_commit"]
           g == [c EXCEPT !.pc = "put"]
<1>1. At("defaults") /\ slot' = slot /\ kv' = kv
  BY DEF Defaults, flash
<1>2. todo # <<>> /\ Top.pc = "defaults" /\ Top \in Frame /\ RestOK /\ StackOK
  BY <1>1, Running
<1>3. CASE K = {}
  <2>1. todo' = Tail(todo)
    BY <1>3 DEF Defaults, Return
  <2> QED
    BY <1>1, <1>2, <2>1, SameSlots, SameKv, GoBack DEF Movers, Starting
<1>4. CASE K # {}
  <2>1. todo' = <<g, f>> \o Tail(todo)
    BY <1>4 DEF Defaults, Call
  <2>2. k \in Key /\ ~kv[k].stored /\ k \in Nat
    <3>1. K \subseteq Nat
      BY Ranges
    <3>2. k \in K
      BY <1>4, <3>1, MinNat
    <3> QED
      BY <3>1, <3>2
  <2> HIDE DEF k
  <2>3. f \in Frame /\ f.pc = "defaults_commit" /\ f.key = k /\ g \in Frame /\ g.pc = "put"
    BY <1>2, <2>2 DEF Frame, Pc, RestOK, Entry
  <2> HIDE DEF f, g
  <2>4. todo' # <<>> /\ Top' = g
    BY <1>2, <2>1, <2>3, Into
  <2>5. \A s \in Sector : Known(s)
    BY <1>2, AllKnown DEF Starting
  <2>6. \A q \in Key : Writes(todo, q)' => Writes(todo, q) \/ q = k
    <3> SUFFICES ASSUME NEW q \in Key, Writes(todo', q), q # k
                 PROVE  Writes(todo, q)
      OBVIOUS
    <3> PICK t \in Seq(Frame) : t = Tail(todo)
      BY <1>2, Stack
    <3>1. todo' = <<g>> \o (<<f>> \o t) /\ <<f>> \o t \in Seq(Frame)
      BY <2>1, <2>3, TwoFrames
    <3>2. Writes(<<f>> \o t, q)
      BY <2>3, <3>1, WritesOne
    <3>3. Writes(t, q)
      <4>1. PICK d : Pends(<<f>> \o t, d) /\ d.key = q
        BY <3>2 DEF Writes
      <4>2. Pends(t, d)
        BY <2>3, <4>1, PendsPush
      <4> QED
        BY <4>1, <4>2 DEF Writes, Pends
    <3> QED
      BY <1>2, <3>3, WritesTail DEF StackOK
  <2>7. Absent(k)
    BY <1>2, <2>2, Found DEF Absent, Movers, Starting
  <2>8. NoneNew /\ SameIndex
    BY <1>1, SameSlots, SameKv
  <2>9. Single' /\ Stored'
    BY <2>8 DEF UInv, Single, Stored, NoneNew, SameIndex
  <2>10. Complete'
    <3>1. \A q : ~Moving(q)
      BY <1>2, NotMoving DEF Movers
    <3> QED
      BY <2>5, <2>8, <3>1, SeenIs DEF UInv, Complete, NoneNew, SameIndex
  <2>11. Pending'
    BY <2>2, <2>6, <2>7, <2>8 DEF UInv, Pending, Absent, NoneNew, SameIndex
  <2>12. Moved'
    BY <2>3, <2>4 DEF Moved
  <2> QED
    BY <2>9, <2>10, <2>11, <2>12 DEF UInv
<1> QED
  BY <1>3, <1>4

(* Of two frames that write a default one would be waiting for the other.  *)
LEMMA OneWriter ==
    ASSUME StackOK, todo # <<>>, Top.pc = "defaults_commit", RecoveryNotReentered, NEW k
    PROVE  ~Writes(Tail(todo), k)
<1> SUFFICES ASSUME Writes(Tail(todo), k) PROVE FALSE
  OBVIOUS
<1> DEFINE D == {j \in 1..Len(todo) : todo[j].pc = "defaults_commit"}
<1>1. PICK n \in 1..Len(Tail(todo)) : Tail(todo)[n].pc = "defaults_commit"
  BY DEF Writes, Pends
<1>2. todo \in Seq(Frame)
  BY DEF StackOK
<1>3. n + 1 \in 1..Len(todo) /\ Tail(todo)[n] = todo[n + 1] /\ 1 \in 1..Len(todo) /\ todo[1] = Top
  BY <1>1, <1>2 DEF Top
<1>4. 1 \in D /\ n + 1 \in D /\ n + 1 # 1
  BY <1>1, <1>3
<1>5. IsFiniteSet(D)
  <2>1. IsFiniteSet(1..Len(todo))
    BY <1>2, FS_Interval
  <2> QED
    BY <2>1, FS_Subset
<1>6. Cardinality(D) <= 1
  BY DEF RecoveryNotReentered, Recoveries
<1> QED
  <2> PICK m : m = n + 1
    OBVIOUS
  <2> HIDE DEF D
  <2>1. {1, m} \subseteq D
    BY <1>4
  <2>2. Cardinality({1, m}) = 2
    <3> PICK o : o = {1}
      OBVIOUS
    <3>1. IsFiniteSet(o) /\ Cardinality(o) = 1 /\ m \notin o
      BY <1>4, FS_Singleton
    <3>2. Cardinality(o \cup {m}) = IF m \in o THEN Cardinality(o) ELSE Cardinality(o) + 1
      BY <3>1, FS_AddElement
    <3>3. o \cup {m} = {1, m}
      OBVIOUS
    <3>4. Cardinality(o \cup {m}) = 2
      BY <3>1, <3>2
    <3> QED
      BY <3>3, <3>4
  <2>3. Cardinality({1, m}) <= Cardinality(D)
    BY <1>5, <2>1, FS_Subset
  <2>4. Cardinality(D) \in Nat
    BY <1>5, FS_CardinalityType
  <2> QED
    BY <1>6, <2>2, <2>3, <2>4

LEMMA DefaultsCommitLive == IInv /\ UInv /\ RecoveryNotReentered /\ DefaultsCommit => UInv'
<1> SUFFICES ASSUME IInv, UInv, RecoveryNotReentered, DefaultsCommit PROVE UInv'
  OBVIOUS
<1> PICK k, a : k = Top.key /\ a = ret
  OBVIOUS
<1> DEFINE f == [Top EXCEPT !.pc = "defaults"]
<1>1. /\ At("defaults_commit") /\ slot' = SetKvStatus(slot, a, WRITE)
      /\ kv' = [kv EXCEPT ![k].addr = a, ![k].stored = TRUE]
      /\ todo' = <<f>> \o Tail(todo)
  BY DEF DefaultsCommit, Goto, Stay
<1>2. /\ todo # <<>> /\ Top.pc = "defaults_commit" /\ Top \in Frame
      /\ FlashOK /\ RestOK /\ StackOK
  BY <1>1, Running
<1>3. /\ k \in Key /\ a \in Addr \cup {NoAddr} /\ f \in Frame /\ f.pc = "defaults"
      /\ Tail(todo) \in Seq(Frame) /\ todo = <<Top>> \o Tail(todo)
  BY <1>2, Stack DEF Frame, Pc, RestOK
<1> HIDE DEF f
<1>4. Absent(k)
  <2>1. Writes(todo, k)
    <3>1. 1 \in 1..Len(todo) /\ todo[1] = Top
      BY <1>2 DEF Top, StackOK
    <3> QED
      BY <1>2, <3>1 DEF Writes, Pends
  <2> QED
    BY <1>3, <2>1 DEF UInv, Pending
<1>5. Fresh(a, k)
  BY <1>2 DEF IInv, SInv, Stage, Relies, Awaiting
<1>6. \A b \in Seen : \A q \in Key : LiveOfKey(b, q)' => LiveOfKey(b, q) \/ (b = a /\ q = k)
  BY <1>1, <1>2, <1>3, <1>5, CommitsSeen
<1>7. \A b \in Seen : LiveOfKey(b, k)' => b = a
  BY <1>3, <1>4, <1>6 DEF Absent
<1>8. /\ kv'[k].addr = a /\ kv'[k].stored
      /\ \A q \in Key \ {k} : kv'[q] = kv[q]
  BY <1>1, <1>2, <1>3 DEF RestOK, Entry
<1>9. \A q \in Key : ~Writes(todo, q)'
  <2> SUFFICES ASSUME NEW q \in Key, Writes(todo', q) PROVE FALSE
    OBVIOUS
  <2>1. Writes(Tail(todo), q)
    BY <1>1, <1>3, WritesOne
  <2> QED
    BY <1>2, <2>1, OneWriter
<1>10. todo' # <<>> => Top'.pc \notin Movers
  BY <1>1, <1>2, <1>3, On DEF Movers
<1>11. \A q : Moving(q) => q = k
  BY <1>2, Movings
<1> QED
  BY <1>2, <1>3, <1>6, <1>7, <1>8, <1>9, <1>10, <1>11, Replaced DEF Starting

LEMMA DeleteLive == \A k \in Key : IInv /\ UInv /\ Delete(k) => UInv'
<1> SUFFICES ASSUME NEW k \in Key, IInv, UInv, Delete(k) PROVE UInv'
  OBVIOUS
<1>1. Ready /\ todo = <<>> /\ FlashOK /\ RestOK
  BY DEF Delete, Ready, IInv, TInv
<1>2. CASE kv[k].addr = NoAddr /\ slot' = slot /\ kv' = kv /\ todo' = <<Call0("hung")>>
  <2>1. Call0("hung") \in Frame /\ Call0("hung").pc = "hung"
    BY Frames DEF Pc
  <2> QED
    BY <1>1, <1>2, <2>1, SameSlots, SameKv, GoStart DEF Movers
<1>3. CASE /\ slot' = SetKvStatus(slot, kv[k].addr, DELETED)
           /\ kv' = [kv EXCEPT ![k].addr = NoAddr, ![k].stored = FALSE]
           /\ todo' = todo
  <2> PICK a \in Addr \cup {NoAddr} : a = kv[k].addr
    BY <1>1 DEF RestOK, Entry
  <2>1. \A b \in Seen : \A q \in Key : LiveOfKey(b, q)' <=> LiveOfKey(b, q) /\ b # a
    BY <1>1, <1>3, KillsSeen
  <2>2. \A b \in Seen : LiveOfKey(b, k) => b = a
    BY <1>1, Found
  <2>3. /\ kv'[k].addr = NoAddr
        /\ \A q \in Key \ {k} : kv'[q] = kv[q]
    BY <1>1, <1>3 DEF RestOK, Entry
  <2>4. Single'
    BY <2>1 DEF UInv, Single
  <2>5. Complete'
    <3> SUFFICES ASSUME NEW q \in Key, NEW b \in Seen, LiveOfKey(b, q)'
                 PROVE  kv'[q].addr = b
      BY DEF Complete
    <3>1. LiveOfKey(b, q) /\ q # k
      BY <2>1, <2>2
    <3>2. kv[q].addr = b
      BY <1>1, <3>1, Found
    <3> QED
      BY <2>3, <3>1, <3>2
  <2>6. Stored'
    BY <2>3 DEF UInv, Stored
  <2>7. Pending'
    BY <1>1, <1>3, WritesNone DEF Pending
  <2> QED
    BY <1>1, <1>3, <2>4, <2>5, <2>6, <2>7 DEF UInv
<1> QED
  BY <1>2, <1>3 DEF Delete

-----------------------------------------------------------------------------
(* What every step does to the values *)

(* A sector that is erased has no live record any more.                    *)
LEMMA ErasersVal == IInv /\ VInv /\ (RebuildErase \/ GcErase) => VInv'
<1> SUFFICES ASSUME IInv, VInv, RebuildErase \/ GcErase PROVE VInv'
  OBVIOUS
<1>1. PICK l \in Eraser, m \in {"reb_magic", "gc_role"} :
         At(l) /\ EraseSector(Victim(Top)) /\ kv' = kv /\ Goto(m)
  <2>1. CASE RebuildErase
    BY <2>1 DEF RebuildErase, Victim, At, Eraser
  <2>2. CASE GcErase
    BY <2>2 DEF GcErase, Victim, At, Eraser
  <2> QED
    BY <2>1, <2>2
<1> DEFINE f == [Top EXCEPT !.pc = m]
<1>2. /\ todo # <<>> /\ Top.pc \in Eraser /\ FlashOK /\ DescOK /\ Top \in Frame
      /\ f \in Frame /\ f.pc = m /\ todo' = <<f>> \o Tail(todo)
  <2>1. todo # <<>> /\ Top.pc \in Eraser /\ FlashOK /\ DescOK /\ Top \in Frame
    BY <1>1, Running
  <2>2. m \in Pc
    BY DEF Pc
  <2>3. f \in Frame /\ f.pc = m
    BY <2>1, <2>2 DEF Frame
  <2>4. todo' = <<f>> \o Tail(todo)
    BY <1>1 DEF Goto, Stay
  <2> QED
    BY <2>1, <2>3, <2>4
<1>3. Victim(Top) \in Sector
  BY <1>2 DEF Victim, Frame
<1>4. ~LiveSeen(Victim(Top))
  BY <1>2 DEF IInv, SInv, Stage, Relies
<1>5. LiveKept
  BY <1>1, <1>2, <1>3, <1>4, EraseKept
<1> HIDE DEF f
<1> QED
  BY <1>1, <1>2, <1>5, CarryOn DEF Eraser, Movers, Carriers

LEMMA FormatKept ==
    ASSUME IInv, VInv, Headers, NEW l \in Formats, At(l), LiveKept, kv' = kv,
           \/ todo' = Tail(todo)
           \/ \E f \in Frame : f.pc \in Formats /\ todo' = <<f>> \o Tail(todo)
    PROVE  VInv'
<1>1. todo # <<>> /\ Top.pc = l
  BY Running
<1> QED
  BY <1>1, CarryOn, CarryBack DEF Formats, Movers, Writer, Carriers

LEMMA FormatVal ==
    IInv /\ VInv /\ Headers /\ (FormatErase \/ FormatRole \/ FormatMagic) => VInv'
<1> SUFFICES ASSUME IInv, VInv, Headers, FormatErase \/ FormatRole \/ FormatMagic PROVE VInv'
  OBVIOUS
<1>1. CASE FormatErase
  <2> DEFINE f == [Top EXCEPT !.pc = "format_role"]
  <2>1. At("format") /\ EraseSector(Top.s) /\ kv' = kv /\ todo' = <<f>> \o Tail(todo)
    BY <1>1 DEF FormatErase, Goto, Stay
  <2>2. /\ f \in Frame /\ f.pc = "format_role" /\ Top.s \in Sector /\ FlashOK /\ DescOK
        /\ todo # <<>> /\ Top.pc = "format"
    <3>1. todo # <<>> /\ Top.pc = "format" /\ Top \in Frame /\ FlashOK /\ DescOK
      BY <2>1, Running
    <3> QED
      BY <3>1 DEF Pc, Frame
  <2> HIDE DEF f
  <2>3. ~LiveSeen(Top.s)
    BY <2>2 DEF Headers, Blank, NoneLive, Formats
  <2>4. LiveKept
    BY <2>1, <2>2, <2>3, EraseKept
  <2> QED
    BY <2>1, <2>2, <2>4, FormatKept DEF Formats
<1>2. CASE FormatRole
  <2> DEFINE f == [Top EXCEPT !.pc = "format_magic"]
  <2>1. At("format_role") /\ slot' = slot /\ kv' = kv /\ todo' = <<f>> \o Tail(todo)
    BY <1>2 DEF FormatRole, Goto, Stay
  <2>2. f \in Frame /\ f.pc = "format_magic"
    BY <2>1, Running DEF Pc
  <2> HIDE DEF f
  <2> QED
    BY <2>1, <2>2, SameKept, KeptAll, FormatKept DEF Formats
<1>3. CASE FormatMagic
  <2> DEFINE f == [Top EXCEPT !.s = @ + 1, !.pc = "format"]
  <2>1. At("format_magic") /\ slot' = slot /\ kv' = kv
    BY <1>3 DEF FormatMagic
  <2>2. todo' = Tail(todo) \/ (Top.s + 1 \in Sector /\ todo' = <<f>> \o Tail(todo))
    BY <1>3 DEF FormatMagic, Return, Stay
  <2>3. Top.s + 1 \in Sector => f \in Frame /\ f.pc = "format"
    <3>1. Top \in Frame
      BY <2>1, Running
    <3> QED
      BY <3>1 DEF Pc, Frame
  <2> HIDE DEF f
  <2> QED
    BY <2>1, <2>2, <2>3, SameKept, KeptAll, FormatKept DEF Formats
<1> QED
  BY <1>1, <1>2, <1>3

LEMMA InitVal == Init => VInv
<1> SUFFICES ASSUME Init PROVE VInv
  OBVIOUS
<1> PICK f \in Frame : f = Call0("init") /\ f.pc = "init"
  BY Fresh0
<1>1. todo = <<f>> /\ Top = f /\ kv = ResetKv
  BY DEF Init, Top
<1>2. Values
  BY <1>1, SeenIs DEF Values, Holds, ResetKv
<1>3. Defaulted
  BY <1>1 DEF Defaulted, Pends
<1>4. Carried
  BY <1>1 DEF Carried, Movers
<1> QED
  BY <1>2, <1>3, <1>4 DEF VInv

LEMMA PowerCutVal == PowerCut => VInv'
<1> SUFFICES ASSUME PowerCut PROVE VInv'
  OBVIOUS
<1> PICK f \in Frame : f = Call0("init") /\ f.pc = "init"
  BY Fresh0
<1>1. todo' = <<f>> /\ Top' = f /\ kv' = ResetKv
  BY DEF PowerCut, Top
<1>2. Values'
  BY <1>1, SeenIs DEF Values, Holds, ResetKv
<1>3. Defaulted'
  BY <1>1 DEF Defaulted, Pends
<1>4. Carried'
  BY <1>1 DEF Carried, Movers
<1> QED
  BY <1>2, <1>3, <1>4 DEF VInv

LEMMA CollectVal == IInv /\ VInv /\ Collect => VInv'
<1> SUFFICES ASSUME IInv, VInv, Collect PROVE VInv'
  OBVIOUS
<1>1. Ready /\ slot' = slot /\ kv' = kv /\ todo' = <<Call0("gc")>>
  BY DEF Collect, flash
<1>2. Call0("gc") \in Frame /\ Call0("gc").pc = "gc"
  BY Frames DEF Pc
<1>3. Values'
  BY <1>1, SameKept, KeptAll, KeepValues DEF Ready
<1> QED
  BY <1>1, <1>2, <1>3, CarryStart DEF Carriers, Movers

(* Recovery puts frames on the stack that carry nothing.                   *)
LEMMA GcStartVal == IInv /\ VInv /\ GcStart => VInv'
<1> SUFFICES ASSUME IInv, VInv, GcStart PROVE VInv'
  OBVIOUS
<1> DEFINE f == [Top EXCEPT !.pc = "gc_find"]
<1>1. At("gc") /\ slot' = slot /\ kv' = kv
  BY DEF GcStart, flash
<1>2. /\ todo # <<>> /\ Top.pc = "gc" /\ f \in Frame /\ f.pc = "gc_find"
      /\ StackOK /\ Chain(todo) /\ Tail(todo) \in Seq(Frame)
  BY <1>1, Running, Stack DEF Pc
<1>3. CASE IsNormal
  <2>1. todo' = <<f>> \o Tail(todo)
    BY <1>3 DEF GcStart, Goto, Stay
  <2> HIDE DEF f
  <2> QED
    BY <1>1, <1>2, <2>1, SameKept, KeptAll, CarryOn DEF Movers, Carriers
<1>4. CASE ~IsNormal
  <2>1. todo' = RecoverFrames \o <<f>> \o Tail(todo)
    BY <1>4 DEF GcStart
  <2> HIDE DEF f
  <2> PICK q : q = <<f>> \o Tail(todo)
    OBVIOUS
  <2>2. q \in Seq(Frame) /\ todo' = RecoverFrames \o q
    BY <1>2, <2>1, TwoFrames, RecoverWrites
  <2>3. Chain(q)
    BY <1>2, ChainStay DEF Alike, MigPc, Writer, Setters
  <2>4. todo' # <<>> /\ Top' = Call0("load")
    BY <1>2, <2>1, <2>3, ChainRecover DEF Waitable, Top
  <2>5. Top'.pc = "load"
    BY <2>4, Frames DEF Pc
  <2>6. Values'
    BY <1>1, <1>2, SameKept, KeptAll, KeepValues DEF Movers
  <2>7. Defaulted'
    <3> SUFFICES ASSUME NEW n \in 1..Len(todo'), Pends(todo', todo'[n])
                 PROVE  todo'[n].val = kv[todo'[n].key].val
      BY <1>1 DEF Defaulted
    <3> PICK c : c = todo'[n]
      OBVIOUS
    <3>1. Pends(q, c)
      BY <2>2, RecoverWrites, PendsJoin
    <3>2. Pends(Tail(todo), c)
      <4>1. c = f \/ Pends(Tail(todo), c)
        BY <1>2, <3>1, PendsPush
      <4> QED
        BY <1>2, <3>1, <4>1 DEF Pends
    <3>3. Pends(todo, c)
      BY <1>2, <3>2, PendsTail DEF StackOK
    <3>4. PICK m \in 1..Len(todo) : todo[m] = c
      BY <3>3 DEF Pends
    <3> QED
      BY <3>3, <3>4 DEF VInv, Defaulted
  <2> QED
    BY <2>5, <2>6, <2>7 DEF VInv, Carried, Movers
<1> QED
  BY <1>3, <1>4

LEMMA InitClassifyVal == IInv /\ VInv /\ InitClassify => VInv'
<1> SUFFICES ASSUME IInv, VInv, InitClassify PROVE VInv'
  OBVIOUS
<1>1. slot' = slot /\ kv' = kv
  BY DEF InitClassify, flash
<1>2. todo' # <<>> /\ Top'.pc \in {"load", "format"} /\ (todo # <<>> => Top.pc \notin Movers)
  BY ClassifyCalls DEF InitClassify, At, Movers
<1>3. Values'
  BY <1>1, <1>2, SameKept, KeptAll, KeepValues
<1>4. Defaulted'
  BY ClassifyCalls DEF Defaulted
<1> QED
  BY <1>2, <1>3, <1>4 DEF VInv, Carried, Movers

-----------------------------------------------------------------------------
(* Writing a record *)

LEMMA Writing ==
    ASSUME IInv, todo # <<>>, Top.pc \in Writer
    PROVE  /\ Tail(todo) # <<>> /\ Waits.pc \in Awaiting /\ Waits.key = Top.key
           /\ Waits.pc \in {"defaults_commit", "set_written"} => Waits.val = Top.val
           /\ Top.pc = "put" => Waits.pc # "mig_predelete"
<1>1. StackOK /\ Chain(todo) /\ ~Rooted(Top)
  BY DEF IInv, TInv, SInv, Rooted
<1>2. Tail(todo) # <<>> /\ Link(Top, Waits)
  BY <1>1, ChainPop
<1> QED
  BY <1>2 DEF Link, Awaiting

LEMMA PutVal == IInv /\ VInv /\ Put => VInv'
<1> SUFFICES ASSUME IInv, VInv, Put PROVE VInv'
  OBVIOUS
<1>1. At("put") /\ slot' = slot /\ kv' = kv
  BY DEF Put, flash
<1>2. todo # <<>> /\ Top.pc = "put" /\ Top \in Frame /\ StackOK /\ Chain(todo)
  BY <1>1, Running
<1>3. CASE FindWritableDataSector >= 0
  <2> DEFINE f == [Top EXCEPT !.pc = "append", !.s = FindWritableDataSector]
  <2>1. todo' = <<f>> \o Tail(todo)
    BY <1>3 DEF Put, Stay
  <2>2. f \in Frame /\ f.pc = "append"
    <3>1. FindWritableDataSector \in Sector
      BY <1>3, FindWritable DEF IInv, TInv
    <3> QED
      BY <1>2, <3>1 DEF Frame, Pc
  <2> HIDE DEF f
  <2>3. todo' # <<>> /\ Top' = f /\ Waits' = Waits /\ Waits.pc # "mig_predelete"
    BY <1>2, <2>1, <2>2, On, Writing DEF Writer
  <2>4. Calm
    BY <1>2, <2>1, <2>2 DEF Calm
  <2>5. Values' /\ Defaulted'
    BY <1>1, <1>2, <2>4, SameKept, KeptAll, KeepValues, KeepDefaulted DEF Movers
  <2>6. Carried'
    BY <2>2, <2>3 DEF Carried, Movers
  <2> QED
    BY <2>5, <2>6 DEF VInv
<1>4. CASE ~(FindWritableDataSector >= 0)
  <2> DEFINE g == Call0("gc")
  <2>1. g \in Frame /\ g.pc = "gc"
    BY Frames DEF Pc
  <2>2. todo' = <<g, Top>> \o Tail(todo)
    BY <1>4 DEF Put, Call
  <2> HIDE DEF g
  <2> QED
    BY <1>1, <1>2, <2>1, <2>2, SameKept, KeptAll, CarryInto DEF Movers, Carriers
<1> QED
  BY <1>3, <1>4

(* The record is written: its address is returned to who waits for it.     *)
LEMMA WrittenVal ==
    ASSUME IInv, VInv, todo # <<>>, Top.pc \in {"append", "append_status"}, LiveKept, kv' = kv,
           todo' = Tail(todo), NEW v, v = Top.val, Holds(ret, v)'
    PROVE  VInv'
<1>1. StackOK /\ Chain(todo)
  BY DEF IInv, TInv, SInv
<1>2. /\ Tail(todo) # <<>> /\ Waits.pc \in Awaiting /\ Waits.key = Top.key
      /\ Waits.pc \in {"defaults_commit", "set_written"} => Waits.val = Top.val
  BY Writing DEF Writer
<1>3. todo' # <<>> /\ Top' = Waits
  BY <1>1, <1>2, Back
<1>4. Waits.pc = "mig_predelete" => v = kv[Waits.key].val
  BY <1>2 DEF VInv, Carried
<1>5. Calm
  BY DEF Calm
<1>6. Values' /\ Defaulted'
  BY <1>1, <1>5, KeepValues, KeepDefaulted DEF Movers
<1> PICK w : w = Waits
  OBVIOUS
<1>7. Carried'
  BY <1>2, <1>3, <1>4 DEF Carried, Awaiting, Movers
<1> QED
  BY <1>6, <1>7 DEF VInv

LEMMA WriteRecordVal == IInv /\ VInv /\ WriteRecord => VInv'
<1> SUFFICES ASSUME IInv, VInv, WriteRecord PROVE VInv'
  OBVIOUS
<1> PICK v, a, r : v = Top.val /\ a = <<Top.s, used[Top.s] + 1>> /\ r = NewRecord(Top.key, Top.val)
  OBVIOUS
<1>1. At("append") /\ slot' = PutRecord(slot, a, r) /\ ret' = a /\ kv' = kv
  BY DEF WriteRecord
<1>2. todo # <<>> /\ Top.pc = "append" /\ FlashOK /\ DescOK /\ StackOK /\ Top \in Frame
  BY <1>1, Running
<1>3. a \in Addr /\ r \in Record /\ r.val = v
  BY <1>1, AppendAddr, Records DEF NewRecord
<1>4. LiveKept
  BY <1>1, <1>2, <1>3, PutKept
<1>5. Holds(ret, v)'
  <2> SUFFICES ASSUME a \in Seen PROVE SlotAt(a)'.val = v
    BY <1>1 DEF Holds, SlotAt
  <2> PICK s, j : s = Top.s /\ j = used[Top.s] + 1
    OBVIOUS
  <2>1. a = <<s, j>> /\ s \in Sector /\ j \in Visible /\ j \in Slot
    BY SeenIs
  <2>2. slot[s][j] = Erased
    <3>1. Filled(s)
      BY <1>2, <2>1, AllKnown DEF IInv, SInv, Order, Starting
    <3>2. used[s] \in 0..Slots
      BY <1>2, <2>1 DEF DescOK
    <3>3. ~(j <= used[s])
      BY <3>2, Sizes
    <3> QED
      BY <2>1, <3>1, <3>3 DEF Filled
  <2>3. slot'[s][j] = r
    BY <1>1, <1>2, <1>3, <2>1, <2>2, RecordWrite
  <2> QED
    BY <1>3, <2>1, <2>3 DEF SlotAt
<1>6. CASE todo' = Tail(todo)
  BY <1>1, <1>2, <1>4, <1>5, <1>6, WrittenVal
<1>7. CASE Goto("append_status")
  <2> DEFINE f == [Top EXCEPT !.pc = "append_status"]
  <2>1. todo' = <<f>> \o Tail(todo)
    BY <1>7 DEF Goto, Stay
  <2>2. f \in Frame /\ f.pc = "append_status" /\ f.key = Top.key /\ f.val = v
    BY <1>2 DEF Frame, Pc
  <2> HIDE DEF f
  <2>3. todo' # <<>> /\ Top' = f /\ Waits' = Waits
    BY <1>2, <2>1, <2>2, On, Writing DEF Writer
  <2>4. Calm
    BY <1>2, <2>1, <2>2 DEF Calm
  <2>5. Values' /\ Defaulted'
    BY <1>1, <1>2, <1>4, <2>4, KeepValues, KeepDefaulted DEF Movers
  <2>6. Carried'
    <3>1. Waits.pc = "mig_predelete" => v = kv[Top.key].val
      BY <1>2 DEF VInv, Carried
    <3> QED
      BY <1>1, <1>5, <2>2, <2>3, <3>1 DEF Carried, Movers
  <2> QED
    BY <2>5, <2>6 DEF VInv
<1> QED
  BY <1>6, <1>7 DEF WriteRecord, Return

LEMMA WriteSectorStatusVal == IInv /\ VInv /\ WriteSectorStatus => VInv'
<1> SUFFICES ASSUME IInv, VInv, WriteSectorStatus PROVE VInv'
  OBVIOUS
<1> PICK v : v = Top.val
  OBVIOUS
<1>1. At("append_status") /\ todo' = Tail(todo) /\ slot' = slot /\ kv' = kv /\ ret' = ret
  BY DEF WriteSectorStatus, Return
<1>2. todo # <<>> /\ Top.pc = "append_status"
  BY <1>1, Running
<1>3. Holds(ret, v)'
  BY <1>1, <1>2 DEF VInv, Carried, Holds, SlotAt
<1> QED
  BY <1>1, <1>2, <1>3, SameKept, KeptAll, WrittenVal

-----------------------------------------------------------------------------
(* Moving a record, and replacing one                                      *)

(* Status writes change no value.                                          *)
LEMMA HoldsOn ==
    ASSUME AllKept, NEW a, NEW v, Holds(a, v)
    PROVE  a \in Seen => SlotAt(a)'.val = v
BY DEF AllKept, Holds

LEMMA StatusValues ==
    ASSUME VInv, AllKept, kv' = kv, \A q \in Key : Moving(q) => Moving(q)'
    PROVE  Values'
<1> SUFFICES ASSUME NEW q \in Key, ~Moving(q), kv[q].addr \in Seen
             PROVE  SlotAt(kv[q].addr)'.val = kv[q].val
  BY DEF Values, Holds, SlotAt
<1>1. Holds(kv[q].addr, kv[q].val)
  BY DEF VInv, Values
<1> QED
  BY <1>1, HoldsOn

(* Only key k gets a new address.                                          *)
LEMMA NewAddress ==
    ASSUME VInv, AllKept, NEW k, NEW b, NEW v, Holds(b, v), \A q : Moving(q) => q = k,
           kv'[k].addr = b, kv'[k].val = v, \A q \in Key \ {k} : kv'[q] = kv[q]
    PROVE  Values'
<1> SUFFICES ASSUME NEW q \in Key, NEW c \in Seen, c = kv'[q].addr
             PROVE  SlotAt(c)'.val = kv'[q].val
  BY DEF Values, Holds, SlotAt
<1>1. CASE q = k
  BY <1>1, HoldsOn
<1>2. CASE q # k
  <2>1. ~Moving(q) /\ kv'[q] = kv[q]
    BY <1>2
  <2>2. Holds(kv[q].addr, kv[q].val)
    BY <2>1 DEF VInv, Values
  <2> QED
    BY <2>1, <2>2, HoldsOn
<1> QED
  BY <1>1, <1>2

LEMMA MigrateVal == IInv /\ UInv /\ VInv /\ Migrate => VInv'
<1> SUFFICES ASSUME IInv, UInv, VInv, Migrate PROVE VInv'
  OBVIOUS
<1>1. At("migrate") /\ slot' = slot /\ kv' = kv
  BY DEF Migrate, flash
<1>2. todo # <<>> /\ Top.pc = "migrate" /\ StackOK /\ FlashOK
  BY <1>1, Running
<1>3. LiveKept
  BY <1>1, SameKept, KeptAll
<1>4. ASSUME NEW f \in Frame, NEW g \in Frame, todo' = <<g, f>> \o Tail(todo),
             f.pc = "mig_predelete", f.i \in Visible,
             IsLive(slot[f.s][f.i]), f.key = slot[f.s][f.i].key,
             g.pc = "append", g.key = f.key, g.val = slot[f.s][f.i].val
      PROVE  VInv'
  <2>1. todo' # <<>> /\ Top' = g /\ Waits' = f
    BY <1>2, <1>4, Into
  <2>2. Calm
    BY <1>2, <1>4 DEF Calm
  <2>3. Values' /\ Defaulted'
    BY <1>1, <1>2, <1>3, <2>2, KeepValues, KeepDefaulted DEF Movers
  <2> PICK a, k : a = <<f.s, f.i>> /\ k = f.key
    OBVIOUS
  <2>4. a \in Seen /\ k \in Key /\ LiveOfKey(a, k) /\ SlotAt(a).val = g.val
    BY <1>4, SeenIs DEF LiveOfKey, SlotAt, Frame
  <2>5. kv[k].addr = a
    BY <1>2, <2>4, Found DEF Movers, Starting
  <2>6. ~Moving(k)
    BY <1>2, NotMoving DEF Movers
  <2>7. g.val = kv[k].val
    BY <2>4, <2>5, <2>6 DEF VInv, Values, Holds
  <2>8. Carried'
    BY <1>1, <1>4, <2>1, <2>7 DEF Carried, Movers
  <2> QED
    BY <2>3, <2>8 DEF VInv
<1>5. CASE todo' = Tail(todo)
  BY <1>1, <1>2, <1>3, <1>5, CarryBack DEF Movers, Writer
<1>6. CASE Fail
  BY <1>1, <1>2, <1>3, <1>6, CarryFail DEF Movers
<1> QED
  BY <1>4, <1>5, <1>6, MigrateCalls

LEMMA MigratePreDeleteVal == IInv /\ VInv /\ MigratePreDelete => VInv'
<1> SUFFICES ASSUME IInv, VInv, MigratePreDelete PROVE VInv'
  OBVIOUS
<1> PICK k, a, b : k = Top.key /\ a = <<Top.s, Top.i>> /\ b = ret
  OBVIOUS
<1> DEFINE f == [Top EXCEPT !.pc = "mig_commit", !.new = ret]
<1>1. /\ At("mig_predelete") /\ slot' = SetKvStatus(slot, a, PRE_DELETE) /\ kv' = kv
      /\ todo' = <<f>> \o Tail(todo)
  BY DEF MigratePreDelete, Stay
<1>2. /\ todo # <<>> /\ Top.pc = "mig_predelete" /\ Top \in Frame
      /\ FlashOK /\ RestOK /\ StackOK
  BY <1>1, Running
<1>3. Top.s \in Sector /\ f \in Frame /\ f.pc = "mig_commit" /\ f.key = k /\ f.new = b
  BY <1>2 DEF Frame, Pc, RestOK
<1> HIDE DEF f
<1>4. a \in Addr
  <2>1. Begun(Top)
    BY <1>2 DEF IInv, SInv, Stage, Relies
  <2> QED
    BY <1>3, <2>1, SeenIs DEF Begun, Source
<1>5. AllKept
  BY <1>1, <1>2, <1>4, StatusKept
<1>6. todo' # <<>> /\ Top' = f
  BY <1>1, <1>2, <1>3, On
<1>7. Calm
  BY <1>1, <1>2, <1>3 DEF Calm
<1>8. Values' /\ Defaulted'
  BY <1>1, <1>2, <1>5, <1>7, NotMoving, StatusValues, KeepDefaulted DEF Movers
<1>9. Holds(b, kv[k].val)
  BY <1>2 DEF VInv, Carried
<1>10. Carried'
  BY <1>1, <1>3, <1>5, <1>6, <1>9, HoldsOn DEF Carried, Holds, SlotAt
<1> QED
  BY <1>8, <1>10 DEF VInv

LEMMA MigrateCommitVal == IInv /\ VInv /\ MigrateCommit => VInv'
<1> SUFFICES ASSUME IInv, VInv, MigrateCommit PROVE VInv'
  OBVIOUS
<1> PICK k, a : k = Top.key /\ a = Top.new
  OBVIOUS
<1> DEFINE f == [Top EXCEPT !.pc = "mig_deleted"]
<1>1. /\ At("mig_commit") /\ slot' = SetKvStatus(slot, a, WRITE) /\ kv' = kv
      /\ todo' = <<f>> \o Tail(todo)
  BY DEF MigrateCommit, Goto, Stay
<1>2. todo # <<>> /\ Top.pc = "mig_commit" /\ Top \in Frame /\ FlashOK /\ StackOK
  BY <1>1, Running
<1>3. a \in Addr \cup {NoAddr} /\ f \in Frame /\ f.pc = "mig_deleted" /\ f.key = k /\ f.new = a
  BY <1>2 DEF Frame, Pc
<1> HIDE DEF f
<1>4. AllKept
  BY <1>1, <1>2, <1>3, StatusKept
<1>5. todo' # <<>> /\ Top' = f
  BY <1>1, <1>2, <1>3, On
<1>6. Calm
  BY <1>1, <1>2, <1>3 DEF Calm
<1>7. \A q \in Key : Moving(q) => Moving(q)'
  BY <1>3, <1>5 DEF Moving, Movers
<1>8. Values' /\ Defaulted'
  BY <1>1, <1>2, <1>4, <1>6, <1>7, StatusValues, KeepDefaulted
<1>9. Holds(a, kv[k].val)
  BY <1>2 DEF VInv, Carried
<1>10. Carried'
  BY <1>1, <1>3, <1>4, <1>5, <1>9, HoldsOn DEF Carried, Holds, SlotAt
<1> QED
  BY <1>8, <1>10 DEF VInv

LEMMA MigrateDeletedVal == IInv /\ VInv /\ MigrateDeleted => VInv'
<1> SUFFICES ASSUME IInv, VInv, MigrateDeleted PROVE VInv'
  OBVIOUS
<1> PICK k, a, b : k = Top.key /\ a = <<Top.s, Top.i>> /\ b = Top.new
  OBVIOUS
<1> DEFINE f == [Top EXCEPT !.pc = "migrate"]
<1>1. /\ At("mig_deleted") /\ slot' = SetKvStatus(slot, a, DELETED)
      /\ kv' = [kv EXCEPT ![k].addr = b, ![k].stored = TRUE]
      /\ todo' = <<f>> \o Tail(todo)
  BY DEF MigrateDeleted, Goto, Stay
<1>2. /\ todo # <<>> /\ Top.pc = "mig_deleted" /\ Top \in Frame
      /\ FlashOK /\ RestOK /\ StackOK
  BY <1>1, Running
<1>3. k \in Key /\ Top.s \in Sector /\ f \in Frame /\ f.pc = "migrate"
  BY <1>2 DEF Frame, Pc
<1> HIDE DEF f
<1>4. a \in Addr
  <2>1. Ended(Top)
    BY <1>2 DEF IInv, SInv, Stage, Relies
  <2> QED
    BY <1>3, <2>1, SeenIs DEF Ended, Source
<1>5. AllKept
  BY <1>1, <1>2, <1>4, StatusKept
<1>6. /\ kv'[k].addr = b /\ kv'[k].val = kv[k].val
      /\ \A q \in Key \ {k} : kv'[q] = kv[q]
  BY <1>1, <1>2, <1>3 DEF RestOK, Entry
<1>7. Values'
  <2>1. Holds(b, kv[k].val)
    BY <1>2 DEF VInv, Carried
  <2>2. \A q : Moving(q) => q = k
    BY <1>2, Movings
  <2> QED
    BY <1>5, <1>6, <2>1, <2>2, NewAddress
<1>8. Defaulted'
  <2>1. Calm
    BY <1>1, <1>2, <1>3 DEF Calm
  <2> QED
    BY <1>2, <1>6, <2>1, KeepDefaulted
<1>9. Carried'
  <2>1. todo' # <<>> /\ Top' = f
    BY <1>1, <1>2, <1>3, On
  <2> QED
    BY <1>3, <2>1 DEF Carried, Movers
<1> QED
  BY <1>7, <1>8, <1>9 DEF VInv

LEMMA SetPreDeleteVal == IInv /\ VInv /\ SetPreDelete => VInv'
<1> SUFFICES ASSUME IInv, VInv, SetPreDelete PROVE VInv'
  OBVIOUS
<1> PICK k, a, b, v : k = Top.key /\ a = kv[k].addr /\ b = ret /\ v = Top.val
  OBVIOUS
<1> DEFINE f == [Top EXCEPT !.pc = "set_commit", !.new = ret]
<1>1. /\ At("set_written") /\ kv' = kv /\ todo' = <<f>> \o Tail(todo)
      /\ slot' = IF a \notin {NoAddr, b} THEN SetKvStatus(slot, a, PRE_DELETE) ELSE slot
  BY DEF SetPreDelete, Stay, Old
<1>2. /\ todo # <<>> /\ Top.pc = "set_written" /\ Top \in Frame
      /\ FlashOK /\ RestOK /\ StackOK
  BY <1>1, Running
<1>3. /\ k \in Key /\ a \in Addr \cup {NoAddr}
      /\ f \in Frame /\ f.pc = "set_commit" /\ f.new = b /\ f.val = v
  BY <1>2 DEF Frame, Pc, RestOK, Entry
<1> HIDE DEF f
<1>4. AllKept
  BY <1>1, <1>2, <1>3, StatusKept, SameKept
<1>5. Values' /\ Defaulted'
  <2>1. Calm
    BY <1>1, <1>2, <1>3 DEF Calm
  <2> QED
    BY <1>1, <1>2, <1>4, <2>1, NotMoving, StatusValues, KeepDefaulted DEF Movers
<1>6. Holds(b, v)
  BY <1>2 DEF VInv, Carried
<1>7. Carried'
  <2>1. todo' # <<>> /\ Top' = f
    BY <1>1, <1>2, <1>3, On
  <2> QED
    BY <1>3, <1>4, <1>6, <2>1, HoldsOn DEF Carried, Holds, SlotAt
<1> QED
  BY <1>5, <1>7 DEF VInv

LEMMA SetCommitVal == IInv /\ VInv /\ SetCommit => VInv'
<1> SUFFICES ASSUME IInv, VInv, SetCommit PROVE VInv'
  OBVIOUS
<1> PICK k, a, v : k = Top.key /\ a = Top.new /\ v = Top.val
  OBVIOUS
<1> DEFINE f == [Top EXCEPT !.pc = "set_deleted"]
<1>1. /\ At("set_commit") /\ slot' = SetKvStatus(slot, a, WRITE) /\ kv' = kv
      /\ todo' = <<f>> \o Tail(todo)
  BY DEF SetCommit, Goto, Stay
<1>2. todo # <<>> /\ Top.pc = "set_commit" /\ Top \in Frame /\ FlashOK /\ StackOK
  BY <1>1, Running
<1>3. /\ a \in Addr \cup {NoAddr} /\ f \in Frame /\ f.pc = "set_deleted"
      /\ f.key = k /\ f.new = a /\ f.val = v
  BY <1>2 DEF Frame, Pc
<1> HIDE DEF f
<1>4. AllKept
  BY <1>1, <1>2, <1>3, StatusKept
<1>5. todo' # <<>> /\ Top' = f
  BY <1>1, <1>2, <1>3, On
<1>6. Values' /\ Defaulted'
  <2>1. Calm
    BY <1>1, <1>2, <1>3 DEF Calm
  <2>2. \A q \in Key : Moving(q) => Moving(q)'
    BY <1>3, <1>5 DEF Moving, Movers
  <2> QED
    BY <1>1, <1>2, <1>4, <2>1, <2>2, StatusValues, KeepDefaulted
<1>7. Holds(a, v)
  BY <1>2 DEF VInv, Carried
<1>8. Carried'
  BY <1>3, <1>4, <1>5, <1>7, HoldsOn DEF Carried, Holds, SlotAt
<1> QED
  BY <1>6, <1>8 DEF VInv

LEMMA SetDeletedVal == IInv /\ VInv /\ SetDeleted => VInv'
<1> SUFFICES ASSUME IInv, VInv, SetDeleted PROVE VInv'
  OBVIOUS
<1> PICK k, a, b, v : k = Top.key /\ a = kv[k].addr /\ b = Top.new /\ v = Top.val
  OBVIOUS
<1>1. /\ At("set_deleted") /\ todo' = Tail(todo)
      /\ slot' = IF a \notin {NoAddr, b} THEN SetKvStatus(slot, a, DELETED) ELSE slot
      /\ kv' = [kv EXCEPT ![k] = [addr |-> b, val |-> v, stored |-> TRUE]]
  BY DEF SetDeleted, Return, Old
<1>2. todo # <<>> /\ Top.pc = "set_deleted" /\ Top \in Frame /\ FlashOK /\ RestOK
  BY <1>1, Running
<1>3. k \in Key /\ a \in Addr \cup {NoAddr}
  BY <1>2 DEF Frame, RestOK, Entry
<1>4. todo' = <<>>
  BY <1>1, <1>2, SetAlone DEF Setters
<1>5. AllKept
  BY <1>1, <1>2, <1>3, StatusKept, SameKept
<1>6. kv'[k].addr = b /\ kv'[k].val = v /\ \A q \in Key \ {k} : kv'[q] = kv[q]
  BY <1>1, <1>2, <1>3 DEF RestOK
<1>7. Values'
  <2>1. Holds(b, v)
    BY <1>2 DEF VInv, Carried
  <2>2. \A q : Moving(q) => q = k
    BY <1>2, Movings
  <2> QED
    BY <1>5, <1>6, <2>1, <2>2, NewAddress
<1> QED
  BY <1>4, <1>7, CarryStart

-----------------------------------------------------------------------------
(* Defaults, loading, and the calls of the client *)

LEMMA DefaultsVal == IInv /\ VInv /\ Defaults => VInv'
<1> SUFFICES ASSUME IInv, VInv, Defaults PROVE VInv'
  OBVIOUS
<1> DEFINE K == {k \in Key : k > Top.i /\ ~kv[k].stored}
           k == Min(K)
           c == [Top EXCEPT !.i = k, !.key = k, !.val = kv[k].val]
           f == [c EXCEPT !.pc = "defaults_commit"]
           g == [c EXCEPT !.pc = "put"]
<1>1. At("defaults") /\ slot' = slot /\ kv' = kv
  BY DEF Defaults, flash
<1>2. todo # <<>> /\ Top.pc = "defaults" /\ Top \in Frame /\ RestOK /\ StackOK
  BY <1>1, Running
<1>3. CASE K = {}
  <2>1. todo' = Tail(todo)
    BY <1>3 DEF Defaults, Return
  <2> QED
    BY <1>1, <1>2, <2>1, SameKept, KeptAll, CarryBack DEF Movers, Writer
<1>4. CASE K # {}
  <2>1. todo' = <<g, f>> \o Tail(todo)
    BY <1>4 DEF Defaults, Call
  <2>2. k \in Key /\ k \in Nat
    <3>1. K \subseteq Nat
      BY Ranges
    <3>2. k \in K
      BY <1>4, <3>1, MinNat
    <3> QED
      BY <3>1, <3>2
  <2> HIDE DEF k
  <2>3. /\ f \in Frame /\ f.pc = "defaults_commit" /\ f.key = k /\ f.val = kv[k].val
        /\ g \in Frame /\ g.pc = "put"
    BY <1>2, <2>2 DEF Frame, Pc, RestOK, Entry
  <2> HIDE DEF f, g
  <2>4. todo' # <<>> /\ Top' = g
    BY <1>2, <2>1, <2>3, Into
  <2>5. Values'
    BY <1>1, <1>2, SameKept, KeptAll, KeepValues DEF Movers
  <2>6. Defaulted'
    <3> SUFFICES ASSUME NEW n \in 1..Len(todo'), Pends(todo', todo'[n])
                 PROVE  todo'[n].val = kv[todo'[n].key].val
      BY <1>1 DEF Defaulted
    <3> PICK d : d = todo'[n]
      OBVIOUS
    <3> PICK t \in Seq(Frame) : t = Tail(todo)
      BY <1>2, Stack
    <3>1. todo' = <<g>> \o (<<f>> \o t) /\ <<f>> \o t \in Seq(Frame)
      BY <2>1, <2>3, TwoFrames
    <3>2. Pends(<<f>> \o t, d)
      BY <2>3, <3>1, PendsOne
    <3>3. d = f \/ Pends(t, d)
      BY <2>3, <3>2, PendsPush
    <3>4. ASSUME Pends(t, d) PROVE d.val = kv[d.key].val
      <4>1. Pends(todo, d)
        BY <1>2, <3>4, PendsTail DEF StackOK
      <4>2. PICK m \in 1..Len(todo) : todo[m] = d
        BY <4>1 DEF Pends
      <4> QED
        BY <4>1, <4>2 DEF VInv, Defaulted
    <3> QED
      BY <2>3, <3>3, <3>4
  <2>7. Carried'
    BY <2>3, <2>4 DEF Carried, Movers
  <2> QED
    BY <2>5, <2>6, <2>7 DEF VInv
<1> QED
  BY <1>3, <1>4

LEMMA DefaultsCommitVal == IInv /\ VInv /\ DefaultsCommit => VInv'
<1> SUFFICES ASSUME IInv, VInv, DefaultsCommit PROVE VInv'
  OBVIOUS
<1> PICK k, a, v : k = Top.key /\ a = ret /\ v = Top.val
  OBVIOUS
<1> DEFINE f == [Top EXCEPT !.pc = "defaults"]
<1>1. /\ At("defaults_commit") /\ slot' = SetKvStatus(slot, a, WRITE)
      /\ kv' = [kv EXCEPT ![k].addr = a, ![k].stored = TRUE]
      /\ todo' = <<f>> \o Tail(todo)
  BY DEF DefaultsCommit, Goto, Stay
<1>2. /\ todo # <<>> /\ Top.pc = "defaults_commit" /\ Top \in Frame
      /\ FlashOK /\ RestOK /\ StackOK
  BY <1>1, Running
<1>3. k \in Key /\ a \in Addr \cup {NoAddr} /\ f \in Frame /\ f.pc = "defaults"
  BY <1>2 DEF Frame, Pc, RestOK
<1> HIDE DEF f
<1>4. v = kv[k].val
  <2>1. 1 \in 1..Len(todo) /\ todo[1] = Top
    BY <1>2 DEF Top, StackOK
  <2>2. Pends(todo, todo[1])
    BY <1>2, <2>1 DEF Pends
  <2> QED
    BY <2>1, <2>2 DEF VInv, Defaulted
<1>5. Holds(a, v)
  BY <1>2 DEF VInv, Carried
<1>6. AllKept
  BY <1>1, <1>2, <1>3, StatusKept
<1>7. /\ kv'[k].addr = a /\ kv'[k].val = v
      /\ \A q \in Key \ {k} : kv'[q] = kv[q]
  BY <1>1, <1>2, <1>3, <1>4 DEF RestOK, Entry
<1>8. Values'
  <2>1. \A q : Moving(q) => q = k
    BY <1>2, Movings
  <2> QED
    BY <1>5, <1>6, <1>7, <2>1, NewAddress
<1>9. Defaulted'
  <2>1. Calm
    BY <1>1, <1>2, <1>3 DEF Calm
  <2> QED
    BY <1>2, <1>4, <1>7, <2>1, KeepDefaulted
<1>10. Carried'
  <2>1. todo' # <<>> /\ Top' = f
    BY <1>1, <1>2, <1>3, On
  <2> QED
    BY <1>3, <2>1 DEF Carried, Movers
<1> QED
  BY <1>8, <1>9, <1>10 DEF VInv

(* Loading a sector takes the values of its live records, and those of a   *)
(* key whose default is being written stay: it has no live record.         *)
LEMMA LoadSectorVal == IInv /\ UInv /\ VInv /\ LoadSector => VInv'
<1> SUFFICES ASSUME IInv, UInv, VInv, LoadSector PROVE VInv'
  OBVIOUS
<1> PICK s : s = Top.s
  OBVIOUS
<1>1. slot' = slot /\ todo # <<>> /\ Top.pc = "load" /\ s \in Sector /\ StackOK
  BY Running DEF LoadSector, Frame
<1>2. \A k \in Key : \/ kv'[k] = kv[k]
                     \/ /\ LiveOf(s, k) # {}
                        /\ \E j : kv'[k].addr = <<s, j>> /\ kv'[k].val = slot[s][j].val
  <2> SUFFICES ASSUME NEW k \in Key, LiveOf(s, k) # {}
               PROVE  \E j : kv'[k].addr = <<s, j>> /\ kv'[k].val = slot[s][j].val
    BY DEF LoadSector
  <2> PICK j : j = Max(LiveOf(s, k))
    OBVIOUS
  <2>1. kv'[k] = [addr |-> <<s, j>>, val |-> slot[s][j].val, stored |-> TRUE]
    BY DEF LoadSector
  <2> QED
    BY <2>1
<1>3. Values'
  <2> SUFFICES ASSUME NEW k \in Key, NEW a \in Seen, a = kv'[k].addr
               PROVE  SlotAt(a).val = kv'[k].val
    BY <1>1 DEF Values, Holds, SlotAt
  <2>1. CASE kv'[k] = kv[k]
    <3>1. ~Moving(k)
      BY <1>1, NotMoving DEF Movers
    <3> QED
      BY <2>1, <3>1 DEF VInv, Values, Holds
  <2>2. ASSUME NEW j, kv'[k].addr = <<s, j>>, kv'[k].val = slot[s][j].val
        PROVE  SlotAt(a).val = kv'[k].val
    BY <2>2 DEF SlotAt
  <2> QED
    BY <1>2, <2>1, <2>2
<1>4. Defaulted'
  <2> SUFFICES ASSUME NEW n \in 1..Len(todo'), Pends(todo', todo'[n])
               PROVE  todo'[n].val = kv'[todo'[n].key].val
    BY DEF Defaulted
  <2> PICK c : c = todo'[n]
    OBVIOUS
  <2>1. Pends(todo, c)
    BY <1>1, LoadCalls, CalmPends
  <2>2. PICK m \in 1..Len(todo) : todo[m] = c
    BY <2>1 DEF Pends
  <2>3. c \in Frame /\ c.key \in Key
    <3>1. c \in Frame
      BY <1>1, <2>2 DEF StackOK
    <3> QED
      BY <3>1 DEF Frame
  <2>4. Absent(c.key)
    BY <2>1, <2>2, <2>3 DEF UInv, Pending, Writes
  <2>5. LiveOf(s, c.key) = {}
    BY <1>1, <2>4, LoadFinds, SeenIs DEF Absent
  <2>6. kv'[c.key] = kv[c.key]
    BY <1>2, <2>3, <2>5
  <2> QED
    BY <2>1, <2>2, <2>6 DEF VInv, Defaulted
<1>5. todo' # <<>> => Carried'
  BY LoadCalls DEF Carried, Carriers, Movers
<1> QED
  BY <1>3, <1>4, <1>5 DEF VInv

(* Reading a key back takes the value of its record.                       *)
LEMMA ReadBackVal ==
    ASSUME IInv, VInv, Ready, slot' = slot, NEW k \in Key, kv' = ReadBack(k)
    PROVE  Values'
<1> SUFFICES ASSUME NEW q \in Key, NEW a \in Seen, a = kv'[q].addr
             PROVE  SlotAt(a).val = kv'[q].val
  BY DEF Values, Holds, SlotAt
<1>1. RestOK
  BY DEF IInv, TInv
<1>2. kv[q].addr = a
  BY <1>1 DEF ReadBack, RestOK, Entry
<1>3. SlotAt(a).val = kv[q].val
  BY <1>2 DEF VInv, Values, Holds, Moving, Ready
<1>4. kv'[q].val = kv[q].val \/ kv'[q].val = SlotAt(a).val
  BY <1>1, <1>2 DEF ReadBack, FlashVal, SlotAt, RestOK, Entry
<1> QED
  BY <1>3, <1>4

LEMMA UpdateVal == IInv /\ VInv /\ Update => VInv'
<1>1. ASSUME IInv, VInv, NEW k \in Key, Get(k) PROVE VInv'
  <2>1. Ready /\ slot' = slot /\ kv' = ReadBack(k) /\ todo' = <<>>
    BY <1>1 DEF Get, flash, Ready
  <2> QED
    BY <1>1, <2>1, ReadBackVal, CarryStart
<1>2. ASSUME IInv, VInv, NEW k \in Key, NEW v \in Value, Set(k, v) PROVE VInv'
  <2> DEFINE f == [Call0("set_written") EXCEPT !.key = k, !.val = v]
             g == [f EXCEPT !.pc = "put"]
  <2>1. Ready /\ slot' = slot /\ kv' = ReadBack(k)
    BY <1>2 DEF Set, flash
  <2>2. Values'
    BY <1>2, <2>1, ReadBackVal
  <2>3. todo' = <<>> \/ todo' = <<g, f>>
    BY <1>2, Zenon DEF Set, Ready
  <2>4. f \in Frame /\ f.pc = "set_written" /\ g \in Frame /\ g.pc = "put"
    <3>1. Call0("set_written") \in Frame /\ Call0("set_written").pc = "set_written"
      BY Frames DEF Pc
    <3> QED
      BY <3>1 DEF Frame, Pc
  <2> HIDE DEF f, g
  <2> QED
    BY <1>2, <2>1, <2>2, <2>3, <2>4, CarryStart DEF Carriers, Movers
<1> QED
  BY <1>1, <1>2 DEF Update

LEMMA DeleteVal == \A k \in Key : IInv /\ VInv /\ Delete(k) => VInv'
<1> SUFFICES ASSUME NEW k \in Key, IInv, VInv, Delete(k) PROVE VInv'
  OBVIOUS
<1>1. Ready /\ todo = <<>> /\ FlashOK /\ RestOK
  BY DEF Delete, Ready, IInv, TInv
<1>2. CASE slot' = slot /\ kv' = kv /\ todo' = <<Call0("hung")>>
  <2>1. Call0("hung") \in Frame /\ Call0("hung").pc = "hung"
    BY Frames DEF Pc
  <2>2. Values'
    BY <1>1, <1>2, SameKept, KeptAll, KeepValues
  <2> QED
    BY <1>1, <1>2, <2>1, <2>2, CarryStart DEF Carriers, Movers
<1>3. CASE /\ slot' = SetKvStatus(slot, kv[k].addr, DELETED)
           /\ kv' = [kv EXCEPT ![k].addr = NoAddr, ![k].stored = FALSE]
           /\ todo' = todo
  <2>1. kv[k].addr \in Addr \cup {NoAddr}
    BY <1>1 DEF RestOK, Entry
  <2> PICK a, b, v : a = kv[k].addr /\ b = NoAddr /\ v = kv[k].val
    OBVIOUS
  <2>2. AllKept
    BY <1>1, <1>3, <2>1, StatusKept
  <2>3. /\ kv'[k].addr = b /\ kv'[k].val = v
        /\ \A q \in Key \ {k} : kv'[q] = kv[q]
    BY <1>1, <1>3 DEF RestOK, Entry
  <2>4. Holds(b, v)
    BY SeenIs DEF Holds
  <2>5. Values'
    BY <1>1, <2>2, <2>3, <2>4, NewAddress DEF Moving
  <2> QED
    BY <1>1, <1>3, <2>5, CarryStart
<1> QED
  BY <1>2, <1>3 DEF Delete

-----------------------------------------------------------------------------
(* The theorems *)

LEMMA StutterLive == UInv /\ UNCHANGED vars => UInv'
BY DEF vars, UInv, Single, Complete, Stored, Pending, Moved, LiveOfKey, SlotAt, Known, Moving,
       Writes, Pends, Absent, Only, Top

LEMMA StepLive == IInv /\ Headers /\ UInv /\ RecoveryNotReentered /\ Step => UInv'
<1> SUFFICES ASSUME IInv, Headers, UInv, RecoveryNotReentered, Step PROVE UInv'
  OBVIOUS
<1>1. CASE InitClassify \/ InitDone \/ LoadSector
  BY <1>1, InitClassifyLive, InitDoneLive, LoadSectorLive DEF Kept
<1>2. CASE FormatErase \/ FormatRole \/ FormatMagic
  BY <1>2, FormatStepsLive
<1>3. CASE Defaults \/ DefaultsCommit \/ Put \/ WriteRecord \/ WriteSectorStatus
  BY <1>3, DefaultsLive, DefaultsCommitLive, PutLive, WriteRecordLive, WriteSectorStatusLive
<1>4. CASE MigrateEnter \/ Migrate \/ MigratePreDelete \/ MigrateCommit \/ MigrateDeleted
  BY <1>4, MigrateEnterLive, MigrateLive, MigratePreDeleteLive, MigrateCommitLive,
     MigrateDeletedLive DEF Kept
<1>5. CASE RebuildStart \/ RebuildRound \/ RebuildErase \/ RebuildMagic \/ RebuildRole
  BY <1>5, RebuildStartLive, RebuildRoundLive, RebuildEraseLive, RebuildMagicLive, RebuildRoleLive
     DEF Kept
<1>6. CASE GcStart \/ GcFind \/ GcMigrate \/ GcErase \/ GcRole \/ GcMagic \/ GcData
  BY <1>6, GcStartLive, GcFindLive, GcMigrateLive, GcEraseLive, GcHeaderLive, GcDataLive
     DEF Kept
<1>7. CASE SetPreDelete \/ SetCommit \/ SetDeleted
  BY <1>7, SetPreDeleteLive, SetCommitLive, SetDeletedLive
<1> QED
  BY <1>1, <1>2, <1>3, <1>4, <1>5, <1>6, <1>7 DEF Step

LEMMA NextLive == IInv /\ Headers /\ UInv /\ RecoveryNotReentered /\ [Next]_vars => UInv'
BY StepLive, UpdateLive, CollectLive, DeleteLive, PowerCutLive, StutterLive DEF Next

LEMMA AlwaysLive == Spec /\ []RecoveryNotReentered => [](IInv /\ Headers /\ UInv)
BY AlwaysHeaders, InitLive, NextLive, PTL DEF Spec

LEMMA StutterVal == VInv /\ UNCHANGED vars => VInv'
BY DEF vars, VInv, Values, Defaulted, Carried, Holds, SlotAt, Moving, Pends, Top, Waits

LEMMA StepVal == IInv /\ Headers /\ UInv /\ VInv /\ Step => VInv'
<1> SUFFICES ASSUME IInv, Headers, UInv, VInv, Step PROVE VInv'
  OBVIOUS
<1>1. CASE InitClassify \/ InitDone \/ LoadSector
  BY <1>1, InitClassifyVal, InitDoneLive, LoadSectorVal DEF Kept
<1>2. CASE FormatErase \/ FormatRole \/ FormatMagic
  BY <1>2, FormatVal
<1>3. CASE Defaults \/ DefaultsCommit \/ Put \/ WriteRecord \/ WriteSectorStatus
  BY <1>3, DefaultsVal, DefaultsCommitVal, PutVal, WriteRecordVal, WriteSectorStatusVal
<1>4. CASE MigrateEnter \/ Migrate \/ MigratePreDelete \/ MigrateCommit \/ MigrateDeleted
  BY <1>4, MigrateEnterLive, MigrateVal, MigratePreDeleteVal, MigrateCommitVal,
     MigrateDeletedVal DEF Kept
<1>5. CASE RebuildStart \/ RebuildRound \/ RebuildErase \/ RebuildMagic \/ RebuildRole
  BY <1>5, RebuildStartLive, RebuildRoundLive, ErasersVal, RebuildMagicLive, RebuildRoleLive
     DEF Kept
<1>6. CASE GcStart \/ GcFind \/ GcMigrate \/ GcErase \/ GcRole \/ GcMagic \/ GcData
  BY <1>6, GcStartVal, GcFindLive, GcMigrateLive, ErasersVal, GcHeaderLive, GcDataLive
     DEF Kept
<1>7. CASE SetPreDelete \/ SetCommit \/ SetDeleted
  BY <1>7, SetPreDeleteVal, SetCommitVal, SetDeletedVal
<1> QED
  BY <1>1, <1>2, <1>3, <1>4, <1>5, <1>6, <1>7 DEF Step

LEMMA NextVal == IInv /\ Headers /\ UInv /\ VInv /\ [Next]_vars => VInv'
BY StepVal, UpdateVal, CollectVal, DeleteVal, PowerCutVal, StutterVal DEF Next

LEMMA AlwaysValued == Spec /\ []RecoveryNotReentered => [](IInv /\ Headers /\ UInv /\ VInv)
BY AlwaysLive, InitVal, NextVal, PTL DEF Spec

(* Of the records that a scan can see a key never has two live ones,       *)
(* whatever set, migration, recovery or default a power cut interrupts.    *)
THEOREM OneLiveSeen == Spec /\ []RecoveryNotReentered => []AtMostOneSeen
<1>1. UInv => AtMostOneSeen
  BY DEF UInv, Single, AtMostOneSeen, LiveAt, LiveOfKey
<1> QED
  BY <1>1, AlwaysLive, PTL

(* Whenever no call is running, the RAM index finds the one live record of *)
(* each key that a scan can see, and holds its value.                      *)
THEOREM IndexExact == Spec /\ []RecoveryNotReentered => []IndexMatchesSeen
<1>1. IInv /\ UInv /\ VInv => IndexMatchesSeen
  <2> SUFFICES ASSUME IInv, UInv, VInv, Ready, NEW k \in Key
               PROVE  /\ LiveAt(k) \cap Seen = {kv[k].addr} \cap Seen
                      /\ kv[k].addr \in Seen => FlashVal(k) = kv[k].val
    BY DEF IndexMatchesSeen
  <2>1. \A a \in Seen : a \in LiveAt(k) <=> LiveOfKey(a, k)
    BY SeenIs DEF LiveAt, LiveOfKey
  <2>2. \A a \in Seen : LiveOfKey(a, k) => kv[k].addr = a
    BY Found DEF Ready
  <2>3. ~Moving(k)
    BY DEF Moving, Ready
  <2>4. kv[k].addr \in Seen => LiveOfKey(kv[k].addr, k)
    BY <2>3 DEF IInv, SInv, Index, LiveOfKey
  <2>5. kv[k].addr \in Seen => FlashVal(k) = kv[k].val
    BY <2>3 DEF VInv, Values, Holds, FlashVal, SlotAt
  <2> QED
    BY <2>1, <2>2, <2>4, <2>5
<1> QED
  BY <1>1, AlwaysValued, PTL
=============================================================================
