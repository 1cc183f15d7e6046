--------------------- MODULE EmbeddedFlash_uncut_proofs ---------------------
(***************************************************************************)
(* The engine as long as the power has never failed, for every number of   *)
(* sectors, slots, keys and values.                                        *)
(*                                                                         *)
(* Without a power cut no recovery runs: there is always one GC sector,    *)
(* empty, and while a collection is under way its sectors are in the state *)
(* that its program counter says.  No record then reaches the last slot of *)
(* a sector, so what the other modules prove of the slots that a scan can  *)
(* see is true of all of them, and no function of the engine fails.        *)
(***************************************************************************)
EXTENDS EmbeddedFlash_live_proofs

Swapping == {"gc_gcing", "gc_erase", "gc_role", "gc_magic", "gc_data"}
Roots    == {"init", "init_done", "hung"}
Fillers  == {"defaults", "defaults_commit"}
Lower    == Fillers \cup Setters

(* How far up the call stack a function runs; those of a recovery do not.  *)
Rank(f) ==
    IF f.pc \in Roots THEN 0 ELSE IF f.pc = "load" THEN 1 ELSE IF f.pc \in Lower THEN 2
    ELSE IF f.pc \in Formats THEN 3 ELSE IF f.pc = "put" THEN 4
    ELSE IF f.pc \in Swapping \cup {"gc", "gc_find"} THEN 5 ELSE IF f.pc \in MigPc THEN 6
    ELSE IF f.pc \in {"append", "append_status"} THEN 7 ELSE 8

Below(q, r) == \A n \in 1..Len(q) : Rank(q[n]) < r
Ladder(q) ==
    /\ Below(q, 8)
    /\ \A n, m \in 1..Len(q) : n < m => Rank(q[n]) > Rank(q[m])

(* The collections on a stack.                                             *)
Swaps(q) == {q[n] : n \in {m \in 1..Len(q) : q[m].pc \in Swapping}}

-----------------------------------------------------------------------------
(* The invariant *)

RoleOf(x) == SectorRole(hdr[x].words)
Sane(x)   == attr[x].role = RoleOf(x)
Data(x)   == hdr[x].magic /\ RoleOf(x) = DATA
Empty(x)  == used[x] = 0 /\ \A j \in Slot : slot[x][j] = Erased
Final(x)  == IF x = NumSectors - 1 THEN GC ELSE DATA

(* One GC sector, empty, and all the others for data.                      *)
Reserve(g) == hdr[g].magic /\ RoleOf(g) = GC /\ Empty(g)
Steady ==
    /\ \A x \in Sector : Sane(x)
    /\ \E g \in Sector : Reserve(g) /\ \A x \in Sector : x # g => Data(x)

(* Collection f, from sector f.t to the GC sector f.s.                     *)
Swap(f) ==
    /\ f.s # f.t /\ hdr[f.s].magic /\ RoleOf(f.s) = GC_TEMP
    /\ \A x \in Sector : x # f.s /\ x # f.t => Data(x)
    /\ \A x \in Sector : Sane(x) \/ (f.pc = "gc_role" /\ x = f.t)
    /\ f.pc = "gc_gcing" => Data(f.t) /\ Empty(f.s)
    /\ f.pc = "gc_role" => hdr[f.t].words = {} /\ Empty(f.t)
    /\ f.pc \in {"gc_magic", "gc_data"} => RoleOf(f.t) = GC /\ Empty(f.t)
    /\ f.pc = "gc_data" => hdr[f.t].magic

(* Formatting f has reached sector f.s.                                    *)
Format(f) ==
    /\ \A x \in Sector : Empty(x)
    /\ \A x \in Sector : x < f.s => hdr[x].magic /\ RoleOf(x) = Final(x) /\ Sane(x)
    /\ f.pc = "format_role" => hdr[f.s].words = {}
    /\ f.pc = "format_magic" => RoleOf(f.s) = Final(f.s) /\ Sane(f.s)

Layout ==
    IF At("init") THEN \A x \in Sector : Empty(x) /\ ~hdr[x].magic
    ELSE IF todo # <<>> /\ Top.pc \in Formats THEN Format(Top)
    ELSE (\A f \in Swaps(todo) : Swap(f)) /\ (Swaps(todo) = {} => Steady)

(* No record reaches the last slot of a sector, for a migration writes no  *)
(* more records than it has read.                                          *)
Spacious == \A x \in Sector : used[x] < Slots /\ slot[x][Slots] = Erased
Fits ==
    /\ Top.pc \in MigPc => used[Top.t] <= Top.i /\ RoleOf(Top.t) # GC
    /\ Top.pc = "append" =>
          /\ used[Top.s] < Slots - 1 /\ RoleOf(Top.s) # GC
          /\ Waits.pc = "mig_predelete" => Waits.t = Top.s /\ used[Top.s] < Waits.i
    /\ Top.pc = "append_status" =>
          /\ attr[Top.s].status \in {USING, FULL}
          /\ Waits.pc = "mig_predelete" => used[Waits.t] <= Waits.i /\ RoleOf(Waits.t) # GC

(* Every address is one that a scan can see.                               *)
Near(a) == a \in Seen \cup {NoAddr}
Within ==
    /\ Near(ret)
    /\ \A k \in Key : Near(kv[k].addr) /\ (kv[k].stored => kv[k].addr # NoAddr)
Handed ==
    /\ Top.pc \in Awaiting \cup {"append_status"} => ret \in Seen
    /\ Top.pc \in Movers => Top.new \in Seen

NInv == Ladder(todo) /\ Layout /\ Spacious /\ Within /\ (todo # <<>> => Fits /\ Handed)

-----------------------------------------------------------------------------
(* The call stack *)

LEMMA Ranks ==
    ASSUME NEW f
    PROVE  /\ Rank(f) \in 0..8
           /\ f.pc \in Roots <=> Rank(f) = 0
           /\ f.pc = "load" <=> Rank(f) = 1
           /\ f.pc \in Lower <=> Rank(f) = 2
           /\ f.pc \in Formats <=> Rank(f) = 3
           /\ f.pc = "put" <=> Rank(f) = 4
           /\ f.pc \in Swapping \cup {"gc", "gc_find"} <=> Rank(f) = 5
           /\ f.pc \in MigPc <=> Rank(f) = 6
           /\ f.pc \in {"append", "append_status"} <=> Rank(f) = 7
BY DEF Rank, Roots, Lower, Fillers, Setters, Formats, Swapping, MigPc

LEMMA Raise == ASSUME NEW q, NEW r \in Int, NEW p \in Int, r <= p, Below(q, r) PROVE Below(q, p)
<1> SUFFICES ASSUME NEW n \in 1..Len(q) PROVE Rank(q[n]) < p
  BY DEF Below
<1>1. Rank(q[n]) < r /\ Rank(q[n]) \in 0..8
  BY Ranks DEF Below
<1> QED
  BY <1>1

LEMMA RaiseTo ==
    ASSUME NEW q, NEW f, NEW g
    PROVE  /\ Below(q, Rank(f)) /\ Rank(f) <= Rank(g) => Below(q, Rank(g))
           /\ Below(q, Rank(f) + 1) /\ Rank(f) < Rank(g) => Below(q, Rank(g))
<1>1. Rank(f) \in 0..8 /\ Rank(g) \in 0..8
  BY Ranks
<1> QED
  BY <1>1, Raise

LEMMA LadderPush ==
    ASSUME NEW q \in Seq(Frame), NEW f \in Frame, Ladder(q), Below(q, Rank(f)), Rank(f) < 8
    PROVE  Ladder(<<f>> \o q) /\ Below(<<f>> \o q, Rank(f) + 1)
<1> DEFINE c == <<f>> \o q
           r == Rank(f)
<1>1. /\ Len(c) = Len(q) + 1 /\ Len(q) \in Nat /\ c[1] = f
      /\ \A n \in 2..Len(c) : c[n] = q[n - 1] /\ n - 1 \in 1..Len(q)
  OBVIOUS
<1>2. r \in 0..7 /\ \A n \in 1..Len(q) : Rank(q[n]) < r /\ Rank(q[n]) \in 0..8
  BY Ranks DEF Below
<1>3. \A n, m \in 1..Len(q) : n < m => Rank(q[n]) > Rank(q[m])
  BY DEF Ladder
<1>4. ASSUME NEW n \in 1..Len(c) PROVE Rank(c[n]) <= r /\ (n # 1 => Rank(c[n]) < r)
  <2>1. CASE n = 1
    BY <1>1, <1>2, <2>1
  <2>2. CASE n # 1
    <3>1. c[n] = q[n - 1] /\ n - 1 \in 1..Len(q)
      BY <1>1, <2>2
    <3>2. Rank(q[n - 1]) < r /\ Rank(q[n - 1]) \in 0..8
      BY <1>2, <3>1
    <3> HIDE DEF c, r
    <3> QED
      BY <1>2, <3>1, <3>2
  <2> QED
    BY <2>1, <2>2
<1>5. ASSUME NEW n \in 1..Len(c), NEW m \in 1..Len(c), n < m PROVE Rank(c[n]) > Rank(c[m])
  <2>1. CASE n = 1
    <3>1. m # 1 /\ Rank(c[m]) < r /\ Rank(c[n]) = r
      BY <1>1, <1>4, <1>5, <2>1
    <3> QED
      BY <3>1, Ranks
  <2>2. CASE n # 1
    <3>1. /\ c[n] = q[n - 1] /\ n - 1 \in 1..Len(q) /\ c[m] = q[m - 1] /\ m - 1 \in 1..Len(q)
          /\ n - 1 < m - 1
      BY <1>1, <1>5, <2>2
    <3> QED
      BY <1>3, <3>1
  <2> QED
    BY <2>1, <2>2
<1>6. Below(c, r + 1) /\ Below(c, 8)
  <2> SUFFICES ASSUME NEW n \in 1..Len(c) PROVE Rank(c[n]) < r + 1 /\ Rank(c[n]) < 8
    BY DEF Below
  <2>1. Rank(c[n]) <= r /\ Rank(c[n]) \in 0..8
    BY <1>4, Ranks
  <2> HIDE DEF c, r
  <2> QED
    BY <1>2, <2>1
<1> QED
  BY <1>5, <1>6 DEF Ladder

LEMMA LadderPop ==
    ASSUME StackOK, todo # <<>>, Ladder(todo)
    PROVE  Ladder(Tail(todo)) /\ Below(Tail(todo), Rank(Top)) /\ Rank(Top) < 8
<1>1. /\ Len(Tail(todo)) = Len(todo) - 1 /\ Len(todo) \in Nat \ {0} /\ Top = todo[1]
      /\ \A n \in 1..Len(Tail(todo)) : Tail(todo)[n] = todo[n + 1] /\ n + 1 \in 2..Len(todo)
  BY DEF StackOK, Top
<1>2. ASSUME NEW n \in 1..Len(Tail(todo))
      PROVE  Rank(Tail(todo)[n]) < Rank(Top) /\ Rank(Tail(todo)[n]) < 8
  <2>1. Tail(todo)[n] = todo[n + 1] /\ n + 1 \in 1..Len(todo) /\ 1 < n + 1 /\ 1 \in 1..Len(todo)
    BY <1>1
  <2>2. Rank(todo[1]) > Rank(todo[n + 1]) /\ Rank(todo[n + 1]) < 8
    BY <2>1 DEF Ladder, Below
  <2> QED
    BY <1>1, <2>1, <2>2, Ranks
<1>3. ASSUME NEW n \in 1..Len(Tail(todo)), NEW m \in 1..Len(Tail(todo)), n < m
      PROVE  Rank(Tail(todo)[n]) > Rank(Tail(todo)[m])
  <2>1. /\ Tail(todo)[n] = todo[n + 1] /\ n + 1 \in 1..Len(todo)
        /\ Tail(todo)[m] = todo[m + 1] /\ m + 1 \in 1..Len(todo) /\ n + 1 < m + 1
    BY <1>1, <1>3
  <2> QED
    BY <2>1 DEF Ladder
<1>4. Rank(Top) < 8
  BY <1>1 DEF Ladder, Below
<1> QED
  BY <1>2, <1>3, <1>4 DEF Ladder, Below

LEMMA LadderEmpty == Ladder(<<>>) /\ Swaps(<<>>) = {} /\ \A r : Below(<<>>, r)
BY DEF Ladder, Below, Swaps

LEMMA SwapsPush ==
    ASSUME NEW q \in Seq(Frame), NEW f \in Frame
    PROVE  Swaps(<<f>> \o q) = Swaps(q) \cup (IF f.pc \in Swapping THEN {f} ELSE {})
<1> DEFINE c == <<f>> \o q
<1>1. /\ Len(c) = Len(q) + 1 /\ Len(q) \in Nat /\ c[1] = f /\ 1 \in 1..Len(c)
      /\ \A n \in 2..Len(c) : c[n] = q[n - 1] /\ n - 1 \in 1..Len(q)
      /\ \A n \in 1..Len(q) : c[n + 1] = q[n] /\ n + 1 \in 1..Len(c)
  OBVIOUS
<1>2. \A n \in 1..Len(c) : n = 1 \/ n \in 2..Len(c)
  BY <1>1
<1> HIDE DEF c
<1>3. \A g : g \in Swaps(c) <=> \E n \in 1..Len(c) : c[n].pc \in Swapping /\ g = c[n]
  BY DEF Swaps
<1>4. \A g : g \in Swaps(q) <=> \E n \in 1..Len(q) : q[n].pc \in Swapping /\ g = q[n]
  BY DEF Swaps
<1>5. \A g : g \in Swaps(c) <=> g \in Swaps(q) \/ (g = f /\ f.pc \in Swapping)
  BY <1>1, <1>2, <1>3, <1>4
<1> QED
  BY <1>5 DEF c

LEMMA NoSwaps == ASSUME NEW q, NEW r \in Int, r <= 5, Below(q, r) PROVE Swaps(q) = {}
<1>1. \A n \in 1..Len(q) : q[n].pc \in Swapping => Rank(q[n]) = 5 /\ Rank(q[n]) < r
  BY Ranks DEF Below
<1> QED
  BY <1>1 DEF Swaps

LEMMA SwapsTop ==
    ASSUME StackOK, todo # <<>>
    PROVE  Swaps(todo) = Swaps(Tail(todo)) \cup (IF Top.pc \in Swapping THEN {Top} ELSE {})
<1>1. Top \in Frame /\ Tail(todo) \in Seq(Frame) /\ todo = <<Top>> \o Tail(todo)
  BY Stack
<1>2. PICK f \in Frame, q \in Seq(Frame) : f = Top /\ q = Tail(todo)
  BY <1>1
<1>3. Swaps(<<f>> \o q) = Swaps(q) \cup (IF f.pc \in Swapping THEN {f} ELSE {})
  BY SwapsPush
<1> QED
  BY <1>1, <1>2, <1>3

(* A collection that waits has called a migration.                         *)
LEMMA SwapsWait ==
    ASSUME StackOK, Chain(todo), todo # <<>>, NEW f \in Swaps(Tail(todo))
    PROVE  f \in Frame /\ f.pc = "gc_erase"
<1>1. /\ Len(Tail(todo)) = Len(todo) - 1 /\ Len(todo) \in Nat \ {0} /\ Tail(todo) \in Seq(Frame)
      /\ \A n \in 1..Len(Tail(todo)) : Tail(todo)[n] = todo[n + 1]
  BY Stack DEF StackOK
<1>2. PICK n \in 1..Len(Tail(todo)) : Tail(todo)[n].pc \in Swapping /\ f = Tail(todo)[n]
  BY DEF Swaps
<1>3. n \in 1..Len(todo) /\ n # Len(todo)
  <2>1. \A k, l \in Nat : k = l - 1 /\ n \in 1..k => n \in 1..l /\ n # l
    OBVIOUS
  <2>2. Len(Tail(todo)) \in Nat /\ Len(todo) \in Nat /\ Len(Tail(todo)) = Len(todo) - 1
    BY <1>1
  <2> QED
    BY <2>1, <2>2
<1>4. f = todo[n + 1] /\ f \in Frame
  BY <1>1, <1>2
<1>5. todo[n + 1].pc \in Suspended
  BY <1>3 DEF Chain, Link
<1> QED
  BY <1>2, <1>4, <1>5 DEF Suspended, Awaiting, Eraser, Swapping

-----------------------------------------------------------------------------
(* Sector headers *)

LEMMA RoleNumbers ==
    /\ UNASSIGNED = 0 /\ GC = 1 /\ GC_TEMP = 2 /\ DATA = 3 /\ DATA_GCING = 4
    /\ FREE = 0 /\ USING = 1 /\ FULL = 2
    /\ SectorRole({}) = UNASSIGNED
<1>1. SectorRole({}) \in StatusesSet({}, RoleBase, SectorRoleNum)
  BY GetStatusIsMax DEF SectorRole, RoleBase, SectorRoleNum
<1> QED
  BY <1>1 DEF StatusesSet, UNASSIGNED, GC, GC_TEMP, DATA, DATA_GCING, FREE, USING, FULL

(* The words of the two tables are different.                              *)
LEMMA RoleStays ==
    ASSUME NEW w, NEW st \in FREE..FULL
    PROVE  SectorRole(SetStatus(w, StatusBase, st)) = SectorRole(w)
<1>1. {i \in 1..SectorRoleNum : RoleBase + i - 1 \in SetStatus(w, StatusBase, st)}
        = {i \in 1..SectorRoleNum : RoleBase + i - 1 \in w}
  BY DEF SetStatus, RoleBase, StatusBase, SectorRoleNum, FREE, FULL
<1> QED
  BY <1>1 DEF SectorRole, GetStatus

LEMMA StatusHeader ==
    ASSUME FlashOK, NEW s \in Sector, NEW st \in FREE..FULL, hdr' = SetSectorStatus(hdr, s, st)
    PROVE  \A x \in Sector : hdr'[x].magic = hdr[x].magic /\ RoleOf(x)' = RoleOf(x)
<1> SUFFICES ASSUME NEW x \in Sector
             PROVE  hdr'[x].magic = hdr[x].magic /\ RoleOf(x)' = RoleOf(x)
  OBVIOUS
<1>1. hdr'[x].magic = hdr[x].magic
  BY HeaderWord
<1>2. hdr'[x].words \in {hdr[x].words, SetStatus(hdr[x].words, StatusBase, st)}
  BY DEF FlashOK, Header, SetSectorStatus
<1> QED
  BY <1>1, <1>2, RoleStays DEF RoleOf

LEMMA RoleHeader ==
    ASSUME FlashOK, NEW s \in Sector, NEW r \in GC..DATA_GCING, hdr' = SetSectorRole(hdr, s, r)
    PROVE  /\ \A x \in Sector : hdr'[x].magic = hdr[x].magic /\ (x # s => RoleOf(x)' = RoleOf(x))
           /\ RoleOf(s)' = IF r > RoleOf(s) THEN r ELSE RoleOf(s)
<1>1. \A x \in Sector : hdr'[x].magic = hdr[x].magic
  BY HeaderWord
<1>2. /\ hdr'[s].words = SetStatus(hdr[s].words, RoleBase, r)
      /\ \A x \in Sector : x # s => hdr'[x].words = hdr[x].words
  BY DEF FlashOK, Header, SetSectorRole
<1> QED
  BY <1>1, <1>2, RoleNeverGoesBack DEF RoleOf

LEMMA MagicHeader ==
    ASSUME FlashOK, NEW s \in Sector, hdr' = SetMagic(hdr, s)
    PROVE  \A x \in Sector : (hdr'[x].magic <=> x = s \/ hdr[x].magic) /\ RoleOf(x)' = RoleOf(x)
<1>1. \A x \in Sector : hdr'[x].magic <=> x = s \/ hdr[x].magic
  BY MagicWord
<1>2. \A x \in Sector : hdr'[x].words = hdr[x].words
  BY DEF FlashOK, Header, SetMagic
<1> QED
  BY <1>1, <1>2 DEF RoleOf

LEMMA ErasedHeader ==
    ASSUME FlashOK, DescOK, NEW s \in Sector, EraseSector(s)
    PROVE  /\ \A x \in Sector \ {s} : hdr'[x] = hdr[x] /\ RoleOf(x)' = RoleOf(x)
           /\ hdr'[s].words = {}
           /\ \A x \in Sector : attr'[x].role = attr[x].role
           /\ Empty(s)' /\ \A x \in Sector : Empty(x) => Empty(x)'
<1>1. /\ \A x \in Sector \ {s} : hdr'[x] = hdr[x]
      /\ hdr'[s].words = {}
  BY DEF FlashOK, Header, EraseSector
<1>2. \A x \in Sector : attr'[x].role = attr[x].role
  BY DEF DescOK, Attr, EraseSector
<1>3. ASSUME NEW x \in Sector PROVE (x = s \/ Empty(x)) => Empty(x)'
  <2>1. /\ \A j \in Slot : slot'[x][j] = IF x = s THEN Erased ELSE slot[x][j]
        /\ used'[x] = IF x = s THEN 0 ELSE used[x]
    BY EraseIs
  <2> QED
    BY <2>1 DEF Empty
<1> QED
  BY <1>1, <1>2, <1>3 DEF RoleOf

(* Reading the headers finds the roles where every sector has its magic.   *)
LEMMA ReadRoles ==
    ASSUME \A x \in Sector : hdr[x].magic, attr' = ReadHeaders, NEW x \in Sector
    PROVE  attr'[x].role = RoleOf(x)
BY DEF ReadHeaders, AttrOf, RoleOf

LEMMA AttrRole ==
    ASSUME DescOK, NEW s \in Sector, NEW r, attr' = [attr EXCEPT ![s].role = r]
    PROVE  \A x \in Sector : attr'[x].role = IF x = s THEN r ELSE attr[x].role
BY DEF DescOK, Attr

LEMMA AttrStatus ==
    ASSUME DescOK, NEW s, NEW st, attr' = [attr EXCEPT ![s].status = st]
    PROVE  \A x \in Sector : attr'[x].role = attr[x].role
BY DEF DescOK, Attr

-----------------------------------------------------------------------------
(* Steps that keep every sector's role *)

SameRoles == \A x \in Sector :
    hdr'[x].magic = hdr[x].magic /\ RoleOf(x)' = RoleOf(x) /\ attr'[x].role = attr[x].role

LEMMA Untouched == UNCHANGED <<hdr, attr>> => SameRoles
BY DEF SameRoles, RoleOf

LEMMA Arranged ==
    ASSUME Layout, todo # <<>> => Top.pc \notin Formats \cup {"init"}
    PROVE  (\A f \in Swaps(todo) : Swap(f)) /\ (Swaps(todo) = {} => Steady)
BY DEF Layout, At

LEMMA Arrange ==
    ASSUME \A f \in Swaps(todo)' : Swap(f)', Swaps(todo)' = {} => Steady',
           todo' # <<>> => Top'.pc \notin Formats \cup {"init"}
    PROVE  Layout'
BY DEF Layout, At

LEMMA SteadyOn ==
    ASSUME Steady, SameRoles, \A g \in Sector : Reserve(g) => Empty(g)'
    PROVE  Steady'
<1>1. PICK g \in Sector : Reserve(g) /\ \A x \in Sector : x # g => Data(x)
  BY DEF Steady
<1>2. Reserve(g)' /\ \A x \in Sector : x # g => Data(x)'
  BY <1>1 DEF SameRoles, Reserve, Data
<1>3. \A x \in Sector : Sane(x)'
  BY DEF Steady, Sane, SameRoles
<1> QED
  BY <1>2, <1>3 DEF Steady

LEMMA SwapOn ==
    ASSUME NEW f \in Frame, f.pc = "gc_erase", Swap(f), SameRoles
    PROVE  Swap(f)'
<1>1. f.s \in Sector /\ f.t \in Sector
  BY DEF Frame
<1>2. f.s # f.t /\ hdr'[f.s].magic /\ RoleOf(f.s)' = GC_TEMP
  BY <1>1 DEF Swap, SameRoles
<1>3. \A x \in Sector : (x # f.s /\ x # f.t => Data(x)') /\ Sane(x)'
  BY DEF Swap, SameRoles, Data, Sane
<1> QED
  BY <1>2, <1>3 DEF Swap

(* The GC sector stays empty when no collection is under way.              *)
Spared == Swaps(todo) = {} => \A g \in Sector : Reserve(g) => Empty(g)'

LEMMA LayoutOn ==
    ASSUME StackOK, Chain(todo), Layout, SameRoles, Spared,
           todo # <<>> => Top.pc \notin Formats \cup {"init"} \cup Swapping,
           Swaps(todo)' = Swaps(todo), todo' # <<>> => Top'.pc \notin Formats \cup {"init"}
    PROVE  Layout'
<1>1. (\A f \in Swaps(todo) : Swap(f)) /\ (Swaps(todo) = {} => Steady)
  BY Arranged
<1>2. ASSUME NEW f \in Swaps(todo)' PROVE Swap(f)'
  <2>1. f \in Swaps(todo) /\ todo # <<>>
    BY <1>2, LadderEmpty
  <2>2. f \in Swaps(Tail(todo))
    BY <2>1, SwapsTop
  <2>3. PICK g : g = f /\ g \in Frame /\ g.pc = "gc_erase"
    BY <2>1, <2>2, SwapsWait
  <2>4. Swap(g)
    BY <1>1, <2>1, <2>3
  <2>5. Swap(g)'
    BY <2>3, <2>4, SwapOn
  <2> QED
    BY <2>3, <2>5
<1>3. Swaps(todo)' = {} => Steady'
  BY <1>1, SteadyOn DEF Spared
<1> QED
  BY <1>2, <1>3, Arrange

(* The functions that rely on a record that has been, or is to be, written. *)
Busy == MigPc \cup Setters \cup {"defaults_commit", "append", "append_status"}

LEMMA Idles ==
    ASSUME todo' # <<>> => Top'.pc \notin Busy
    PROVE  todo' # <<>> => Fits' /\ Handed'
BY DEF Fits, Handed, Busy, MigPc, Setters, Awaiting, Movers

LEMMA Resting ==
    ASSUME NInv, UNCHANGED <<slot, used, ret>>, SameIndex
    PROVE  Spacious' /\ Within' /\ Spared
BY DEF NInv, Spacious, Within, Near, SameIndex, Spared, Reserve, Empty

LEMMA UncutBack ==
    ASSUME IInv, NInv, todo # <<>>, Top.pc \notin Formats \cup {"init"} \cup Swapping,
           SameRoles, Spared, Spacious', Within', todo' = Tail(todo),
           Top.pc \in Writer /\ todo' # <<>> => Fits' /\ Handed'
    PROVE  NInv'
<1>1. StackOK /\ Chain(todo) /\ Ladder(todo) /\ Layout
  BY DEF IInv, TInv, SInv, NInv
<1>2. Ladder(todo')
  BY <1>1, LadderPop
<1>3. Swaps(todo)' = Swaps(todo)
  BY <1>1, SwapsTop
<1>4. todo' # <<>> => /\ Top'.pc \notin Formats \cup {"init"}
                      /\ Top.pc \notin Writer => Top'.pc \notin Busy
  <2> SUFFICES ASSUME todo' # <<>> PROVE /\ Top'.pc \notin Formats \cup {"init"}
                                         /\ Top.pc \notin Writer => Top'.pc \notin Busy
    OBVIOUS
  <2>1. Top' = Waits /\ Link(Top, Waits) /\ Top'.pc \notin Formats \cup {"init"}
    BY <1>1, Back
  <2> QED
    BY <2>1 DEF Link, Busy, Suspended, Awaiting, Eraser, MigPc, Setters
<1>5. Layout'
  BY <1>1, <1>3, <1>4, LayoutOn
<1>6. todo' # <<>> => Fits' /\ Handed'
  BY <1>4, Idles
<1> QED
  BY <1>2, <1>5, <1>6 DEF NInv

LEMMA UncutOn ==
    ASSUME IInv, NInv, todo # <<>>, Top.pc \notin Formats \cup {"init"} \cup Swapping,
           SameRoles, Spared, Spacious', Within',
           NEW f \in Frame, todo' = <<f>> \o Tail(todo), Rank(f) \in Rank(Top)..7,
           f.pc \notin Formats \cup {"init"} \cup Swapping, f.pc \in Busy => Fits' /\ Handed'
    PROVE  NInv'
<1>1. StackOK /\ Chain(todo) /\ Ladder(todo) /\ Layout
  BY DEF IInv, TInv, SInv, NInv
<1>2. PICK q \in Seq(Frame) : q = Tail(todo)
  BY <1>1, Stack
<1>3. Ladder(todo') /\ Swaps(todo') = Swaps(todo)
  <2>1. Ladder(q) /\ Below(q, Rank(Top)) /\ Swaps(todo) = Swaps(q)
    BY <1>1, <1>2, LadderPop, SwapsTop
  <2>2. Below(q, Rank(f)) /\ Rank(f) < 8
    BY <2>1, Raise, Ranks
  <2>3. Ladder(<<f>> \o q) /\ Swaps(<<f>> \o q) = Swaps(q)
    BY <2>1, <2>2, LadderPush, SwapsPush
  <2> QED
    BY <1>2, <2>1, <2>3
<1>4. todo' # <<>> /\ Top' = f
  BY <1>1, On
<1>5. Layout'
  BY <1>1, <1>3, <1>4, LayoutOn
<1>6. todo' # <<>> => Fits' /\ Handed'
  BY <1>4, Idles
<1> QED
  BY <1>3, <1>5, <1>6 DEF NInv

LEMMA UncutInto ==
    ASSUME IInv, NInv, todo # <<>>, Top.pc \notin Formats \cup {"init"} \cup Swapping,
           SameRoles, Spared, Spacious', Within',
           NEW f \in Frame, NEW g \in Frame, todo' = <<g, f>> \o Tail(todo),
           Rank(f) >= Rank(Top), Rank(f) < Rank(g), Rank(g) < 8,
           f.pc \notin Swapping, g.pc \notin Formats \cup {"init"} \cup Swapping,
           g.pc \in Busy => Fits' /\ Handed'
    PROVE  NInv'
<1>1. StackOK /\ Chain(todo) /\ Ladder(todo) /\ Layout
  BY DEF IInv, TInv, SInv, NInv
<1>2. PICK q \in Seq(Frame) : q = Tail(todo)
  BY <1>1, Stack
<1>3. Ladder(todo') /\ Swaps(todo') = Swaps(todo)
  <2> DEFINE p == <<f>> \o q
  <2>1. Ladder(q) /\ Below(q, Rank(Top)) /\ Swaps(todo) = Swaps(q)
    BY <1>1, <1>2, LadderPop, SwapsTop
  <2>2. Below(q, Rank(f)) /\ Rank(f) < 8
    <3>1. /\ Rank(f) \in 0..8 /\ Rank(g) \in 0..8 /\ Rank(Top) \in 0..8
          /\ Rank(f) >= Rank(Top) /\ Rank(f) < Rank(g) /\ Rank(g) < 8
      BY Ranks
    <3>2. Rank(Top) <= Rank(f) /\ Rank(f) < 8
      BY <3>1
    <3> QED
      BY <2>1, <3>2, RaiseTo
  <2>3. p \in Seq(Frame)
    OBVIOUS
  <2>4. Ladder(p) /\ Below(p, Rank(f) + 1)
    BY <2>1, <2>2, LadderPush
  <2>5. Swaps(p) = Swaps(q)
    BY SwapsPush
  <2>6. <<g>> \o p = <<g, f>> \o q
    BY TwoFrames
  <2> HIDE DEF p
  <2>7. Below(p, Rank(g))
    BY <2>4, RaiseTo
  <2>8. Ladder(<<g>> \o p) /\ Swaps(<<g>> \o p) = Swaps(p)
    BY <2>3, <2>7, <2>4, LadderPush, SwapsPush
  <2> QED
    BY <1>2, <2>1, <2>6, <2>8, <2>5
<1>4. todo' # <<>> /\ Top' = g
  BY <1>1, Into
<1>5. Layout'
  BY <1>1, <1>3, <1>4, LayoutOn
<1>6. todo' # <<>> => Fits' /\ Handed'
  BY <1>4, Idles
<1> QED
  BY <1>3, <1>5, <1>6 DEF NInv

LEMMA UncutStart ==
    ASSUME IInv, NInv, Ready, SameRoles, Spared, Spacious', Within',
           \/ todo' = <<>>
           \/ \E f \in Frame : /\ f.pc \notin Busy \cup Formats \cup {"init"} \cup Swapping
                               /\ Rank(f) < 8 /\ todo' = <<f>>
           \/ \E f, g \in Frame : /\ f.pc \notin Swapping
                                  /\ g.pc \notin Busy \cup Formats \cup {"init"} \cup Swapping
                                  /\ Rank(f) < Rank(g) /\ Rank(g) < 8 /\ todo' = <<g, f>>
    PROVE  NInv'
<1>1. StackOK /\ Chain(todo) /\ Layout /\ todo = <<>> /\ Swaps(todo) = {}
  BY LadderEmpty DEF IInv, TInv, SInv, NInv, Ready
<1>2. /\ Ladder(todo') /\ Swaps(todo') = {}
      /\ todo' # <<>> => Top'.pc \notin Busy \cup Formats \cup {"init"}
  <2>1. CASE todo' = <<>>
    BY <2>1, LadderEmpty
  <2>2. CASE \E f \in Frame : /\ f.pc \notin Busy \cup Formats \cup {"init"} \cup Swapping
                              /\ Rank(f) < 8 /\ todo' = <<f>>
    <3>1. PICK f \in Frame : /\ f.pc \notin Busy \cup Formats \cup {"init"} \cup Swapping
                             /\ Rank(f) < 8 /\ todo' = <<f>>
      BY <2>2
    <3>2. <<>> \in Seq(Frame) /\ <<f>> = <<f>> \o <<>> /\ Head(<<f>>) = f
      OBVIOUS
    <3>3. Ladder(<<f>> \o <<>>) /\ Swaps(<<f>> \o <<>>) = {}
      BY <3>1, <3>2, LadderEmpty, LadderPush, SwapsPush
    <3> QED
      BY <3>1, <3>2, <3>3 DEF Top
  <2>3. CASE \E f, g \in Frame : /\ f.pc \notin Swapping
                                 /\ g.pc \notin Busy \cup Formats \cup {"init"} \cup Swapping
                                 /\ Rank(f) < Rank(g) /\ Rank(g) < 8 /\ todo' = <<g, f>>
    <3>1. PICK f, g \in Frame : /\ f.pc \notin Swapping
                                /\ g.pc \notin Busy \cup Formats \cup {"init"} \cup Swapping
                                /\ Rank(f) < Rank(g) /\ Rank(g) < 8 /\ todo' = <<g, f>>
      BY <2>3
    <3>2. /\ <<>> \in Seq(Frame) /\ <<f>> = <<f>> \o <<>> /\ <<f>> \in Seq(Frame)
          /\ <<g, f>> = <<g>> \o <<f>> /\ Head(<<g, f>>) = g
      OBVIOUS
    <3>3. Rank(f) < 8
      <4>1. Rank(f) \in 0..8 /\ Rank(g) \in 0..8
        BY Ranks
      <4> QED
        BY <3>1, <4>1
    <3>4. Ladder(<<f>> \o <<>>) /\ Swaps(<<f>> \o <<>>) = {} /\ Below(<<f>> \o <<>>, Rank(f) + 1)
      BY <3>1, <3>2, <3>3, LadderEmpty, LadderPush, SwapsPush
    <3>5. Below(<<f>>, Rank(g))
      BY <3>1, <3>2, <3>4, RaiseTo
    <3>6. Ladder(<<g>> \o <<f>>) /\ Swaps(<<g>> \o <<f>>) = {}
      BY <3>1, <3>2, <3>4, <3>5, LadderPush, SwapsPush
    <3> QED
      BY <3>1, <3>2, <3>6 DEF Top
  <2> QED
    BY <2>1, <2>2, <2>3
<1>3. Layout'
  BY <1>1, <1>2, LayoutOn
<1>4. todo' # <<>> => Fits' /\ Handed'
  BY <1>2, Idles
<1> QED
  BY <1>2, <1>3, <1>4 DEF NInv

-----------------------------------------------------------------------------
(* Calls and returns *)

LEMMA InitDoneUncut == IInv /\ NInv /\ InitDone => NInv'
<1> SUFFICES ASSUME IInv, NInv, InitDone PROVE NInv'
  OBVIOUS
<1>1. /\ At("init_done") /\ todo' = Tail(todo)
      /\ UNCHANGED <<hdr, attr, slot, used, kv, ret>>
  BY DEF InitDone, Return, flash, desc
<1>2. SameRoles /\ Spacious' /\ Within' /\ Spared
  BY <1>1, Untouched, SameKv, Resting
<1> QED
  BY <1>1, <1>2, Running, UncutBack DEF Formats, Swapping, Writer

LEMMA DefaultsUncut == IInv /\ NInv /\ Defaults => NInv'
<1> SUFFICES ASSUME IInv, NInv, Defaults PROVE NInv'
  OBVIOUS
<1> DEFINE K == {k \in Key : k > Top.i /\ ~kv[k].stored}
<1>1. At("defaults") /\ UNCHANGED <<hdr, attr, slot, used, kv, ret>>
  BY DEF Defaults, flash, desc
<1>2. SameRoles /\ Spacious' /\ Within' /\ Spared
  BY <1>1, Untouched, SameKv, Resting
<1>3. todo # <<>> /\ Top.pc = "defaults" /\ Top \in Frame /\ RestOK
  BY <1>1, Running
<1>4. Top.pc \notin Formats \cup {"init"} \cup Swapping \cup Writer /\ Rank(Top) = 2
  BY <1>3, Ranks DEF Formats, Swapping, Writer, Lower, Fillers
<1>5. CASE K = {}
  <2>1. todo' = Tail(todo)
    BY <1>5 DEF Defaults, Return
  <2> QED
    BY <1>2, <1>3, <1>4, <2>1, UncutBack
<1>6. CASE K # {}
  <2> DEFINE k == Min(K)
             e == [Top EXCEPT !.i = k, !.key = k, !.val = kv[k].val]
             f == [e EXCEPT !.pc = "defaults_commit"]
             g == [e EXCEPT !.pc = "put"]
  <2>1. k \in Key /\ k \in Nat
    <3>1. K \subseteq Key /\ K \subseteq Nat
      BY Ranges
    <3> QED
      BY <1>6, <3>1, MinNat
  <2>2. todo' = <<g, f>> \o Tail(todo)
    BY <1>6 DEF Defaults, Call
  <2> HIDE DEF k
  <2>3. e \in Frame
    <3>1. kv[k].val \in Value
      BY <1>3, <2>1 DEF RestOK, Entry
    <3> QED
      BY <1>3, <2>1, <3>1 DEF Frame
  <2> HIDE DEF e
  <2>4. f \in Frame /\ f.pc = "defaults_commit" /\ g \in Frame /\ g.pc = "put"
    BY <2>3 DEF Frame, Pc
  <2>5. Rank(f) = 2 /\ Rank(g) = 4
    BY <2>4, Ranks DEF Lower, Fillers
  <2>6. /\ f.pc \notin Swapping
        /\ g.pc \notin Busy \cup Formats \cup {"init"} \cup Swapping
    BY <2>4 DEF Busy, Formats, Swapping, MigPc, Setters
  <2> HIDE DEF f, g
  <2> QED
    BY <1>2, <1>3, <1>4, <2>2, <2>4, <2>5, <2>6, UncutInto
<1> QED
  BY <1>5, <1>6

LEMMA Writable ==
    ASSUME DescOK, FindWritableDataSector >= 0
    PROVE  FindWritableDataSector \in Sector /\ IsWritable(FindWritableDataSector)
<1> DEFINE g == IF FindSectorRole(GC) < 0 THEN 0 ELSE FindSectorRole(GC)
           p(i) == (g + i) % NumSectors
           I == {i \in 1..(NumSectors - 1) : IsWritable(p(i))}
<1>1. FindWritableDataSector = IF I = {} THEN -1 ELSE p(Min(I))
  BY DEF FindWritableDataSector
<1>2. I \subseteq Nat /\ I # {}
  BY <1>1, Sizes
<1>3. Min(I) \in I
  BY <1>2, MinNat
<1>4. IsWritable(p(Min(I)))
  BY <1>3
<1> HIDE DEF p
<1> QED
  BY <1>1, <1>2, <1>4, FindWritable

(* No collection is under way below a function of a low rank.              *)
LEMMA NoneBelow ==
    ASSUME IInv, NInv, todo # <<>>, Rank(Top) <= 5, Top.pc \notin Swapping
    PROVE  Swaps(todo) = {}
<1>1. StackOK /\ Ladder(todo) /\ Rank(Top) \in 0..8
  BY Ranks DEF IInv, TInv, NInv
<1>2. Below(Tail(todo), Rank(Top))
  BY <1>1, LadderPop
<1>3. Swaps(Tail(todo)) = {}
  BY <1>1, <1>2, NoSwaps
<1> QED
  BY <1>1, <1>3, SwapsTop

LEMMA NowSteady ==
    ASSUME IInv, NInv, todo # <<>> => Rank(Top) <= 5 /\ Top.pc \notin Formats \cup {"init"} \cup Swapping
    PROVE  Steady
<1>1. Layout
  BY DEF NInv
<1>2. todo # <<>> => Swaps(todo) = {}
  BY NoneBelow
<1>3. Swaps(todo) = {}
  BY <1>2, LadderEmpty
<1> QED
  BY <1>1, <1>3, Arranged

LEMMA PutUncut == IInv /\ NInv /\ Put => NInv'
<1> SUFFICES ASSUME IInv, NInv, Put PROVE NInv'
  OBVIOUS
<1>1. At("put") /\ UNCHANGED <<hdr, attr, slot, used, kv, ret>>
  BY DEF Put, flash, desc
<1>2. SameRoles /\ Spacious' /\ Within' /\ Spared
  BY <1>1, Untouched, SameKv, Resting
<1>3. todo # <<>> /\ Top.pc = "put" /\ Top \in Frame /\ StackOK /\ DescOK /\ Chain(todo)
  BY <1>1, Running
<1>4. Top.pc \notin Formats \cup {"init"} \cup Swapping /\ Rank(Top) = 4
  BY <1>3, Ranks DEF Formats, Swapping
<1>5. CASE FindWritableDataSector >= 0
  <2>1. PICK w \in Sector : w = FindWritableDataSector /\ IsWritable(w)
    BY <1>3, <1>5, Writable
  <2> DEFINE f == [Top EXCEPT !.pc = "append", !.s = w]
  <2>2. todo' = <<f>> \o Tail(todo)
    BY <1>5, <2>1 DEF Put, Stay
  <2>3. used[w] < Slots - 1 /\ RoleOf(w) = DATA
    <3>1. Steady
      BY <1>3, <1>4, NowSteady
    <3> QED
      BY <2>1, <3>1 DEF IsWritable, Steady, Sane
  <2>4. f \in Frame /\ f.pc = "append" /\ f.s = w
    BY <1>3, <2>1 DEF Frame, Pc
  <2> HIDE DEF f
  <2>5. Rank(f) = 7
    BY <2>4, Ranks
  <2>6. Tail(todo) # <<>> /\ Waits.pc # "mig_predelete"
    BY <1>3, Writing DEF Writer
  <2>7. todo' # <<>> /\ Top' = f /\ Waits' = Waits
    BY <1>3, <2>2, <2>4, <2>6, On
  <2>8. RoleOf(w)' # GC /\ used' = used
    BY <1>1, <2>3, RoleNumbers DEF RoleOf
  <2>9. Fits' /\ Handed'
    BY <2>3, <2>4, <2>6, <2>7, <2>8 DEF Fits, Handed, MigPc, Awaiting, Movers
  <2>10. f.pc \notin Formats \cup {"init"} \cup Swapping
    BY <2>4 DEF Formats, Swapping
  <2> QED
    BY <1>2, <1>3, <1>4, <2>2, <2>4, <2>5, <2>9, <2>10, UncutOn
<1>6. CASE ~(FindWritableDataSector >= 0)
  <2> DEFINE g == Call0("gc")
  <2>1. g \in Frame /\ g.pc = "gc"
    BY Frames DEF Pc
  <2>2. todo' = <<g, Top>> \o Tail(todo)
    BY <1>6 DEF Put, Call
  <2> HIDE DEF g
  <2>3. Rank(g) = 5 /\ g.pc \notin Busy \cup Formats \cup {"init"} \cup Swapping
    BY <2>1, Ranks DEF Busy, Formats, Swapping, MigPc, Setters
  <2> QED
    BY <1>2, <1>3, <1>4, <2>1, <2>2, <2>3, UncutInto
<1> QED
  BY <1>5, <1>6

LEMMA MigrateEnterUncut == IInv /\ NInv /\ MigrateEnter => NInv'
<1> SUFFICES ASSUME IInv, NInv, MigrateEnter PROVE NInv'
  OBVIOUS
<1> DEFINE f == [Top EXCEPT !.pc = "migrate"]
<1>1. At("mig_enter") /\ UNCHANGED <<hdr, attr, slot, used, kv, ret>>
  BY DEF MigrateEnter, flash, desc
<1>2. SameRoles /\ Spacious' /\ Within' /\ Spared
  BY <1>1, Untouched, SameKv, Resting
<1>3. todo # <<>> /\ Top.pc = "mig_enter" /\ Top \in Frame /\ StackOK /\ f \in Frame
  BY <1>1, Running DEF Pc
<1>4. /\ f.pc = "migrate" /\ f.t = Top.t /\ f.i = Top.i /\ Top.t \in Sector
      /\ Rank(Top) = 6 /\ Rank(f) = 6
  BY <1>3, Ranks DEF Frame, MigPc
<1>5. used[Top.t] # Slots /\ used[Top.t] <= Top.i /\ RoleOf(Top.t) # GC
  BY <1>3, <1>4, Sizes DEF NInv, Spacious, Fits, MigPc
<1>6. todo' = <<f>> \o Tail(todo)
  BY <1>5 DEF MigrateEnter, Goto, Stay
<1> HIDE DEF f
<1>7. todo' # <<>> /\ Top' = f
  BY <1>3, <1>6, On
<1>8. Fits' /\ Handed'
  BY <1>1, <1>4, <1>5, <1>7 DEF Fits, Handed, MigPc, Awaiting, Movers, RoleOf
<1>9. {f.pc, Top.pc} \cap (Formats \cup {"init"} \cup Swapping) = {}
  BY <1>3, <1>4 DEF Formats, Swapping
<1> QED
  BY <1>2, <1>3, <1>4, <1>6, <1>8, <1>9, UncutOn

(* The records written fit, for they are no more than those read.          *)
LEMMA MigrateUncut == IInv /\ NInv /\ Migrate => NInv'
<1> SUFFICES ASSUME IInv, NInv, Migrate PROVE NInv'
  OBVIOUS
<1>1. At("migrate") /\ UNCHANGED <<hdr, attr, slot, used, kv, ret>>
  BY DEF Migrate, flash, desc
<1>2. SameRoles /\ Spacious' /\ Within' /\ Spared
  BY <1>1, Untouched, SameKv, Resting
<1>3. todo # <<>> /\ Top.pc = "migrate" /\ Top \in Frame /\ StackOK /\ DescOK
  BY <1>1, Running
<1>4. Top.t \in Sector /\ Rank(Top) = 6 /\ Top.i \in Nat
  BY <1>3, Ranks DEF Frame, MigPc
<1>5. /\ used[Top.t] < Slots /\ used[Top.t] <= Top.i /\ used[Top.t] \in Nat
      /\ RoleOf(Top.t) # GC
  BY <1>3, <1>4 DEF NInv, Spacious, Fits, MigPc, DescOK
<1>6. Top.pc \notin Formats \cup {"init"} \cup Swapping \cup Writer
  BY <1>3 DEF Formats, Swapping, Writer
<1>7. CASE todo' = Tail(todo)
  BY <1>2, <1>3, <1>6, <1>7, UncutBack
<1>8. CASE todo' # Tail(todo)
  <2>1. PICK f, g \in Frame :
            /\ todo' = <<g, f>> \o Tail(todo)
            /\ f.pc = "mig_predelete" /\ f.i \in Visible /\ g.pc = "append"
            /\ f.t = Top.t /\ g.s = Top.t /\ f.i > Top.i
    <3>1. used[Top.t] # Slots
      BY <1>5, Sizes
    <3> QED
      BY <1>8, <3>1, MigrateCalls, Zenon
  <2>2. Rank(f) = 6 /\ Rank(g) = 7
    BY <2>1, Ranks DEF MigPc
  <2>3. todo' # <<>> /\ Top' = g /\ Waits' = f
    BY <1>3, <2>1, Into
  <2>4. used[g.s] < Slots - 1 /\ used[g.s] < f.i /\ RoleOf(g.s) # GC
    BY <1>4, <1>5, <2>1, Sizes DEF Visible
  <2>5. Fits' /\ Handed'
    BY <1>1, <2>1, <2>3, <2>4 DEF Fits, Handed, MigPc, Awaiting, Movers, RoleOf
  <2>6. f.pc \notin Swapping /\ g.pc \notin Formats \cup {"init"} \cup Swapping
    BY <2>1 DEF Formats, Swapping
  <2> QED
    BY <1>2, <1>3, <1>4, <1>6, <2>1, <2>2, <2>5, <2>6, UncutInto
<1> QED
  BY <1>7, <1>8

LEMMA SteadyIsNormal == Steady => IsNormal /\ CountRole(DATA) = NumSectors - 1
<1> SUFFICES ASSUME Steady PROVE IsNormal /\ CountRole(DATA) = NumSectors - 1
  OBVIOUS
<1>1. PICK g \in Sector : Reserve(g) /\ \A x \in Sector : x # g => Data(x)
  BY DEF Steady
<1>2. \A x \in Sector : hdr[x].magic /\ RoleOf(x) = IF x = g THEN GC ELSE DATA
  BY <1>1 DEF Reserve, Data
<1>3. /\ {s \in Sector : hdr[s].magic /\ SectorRole(hdr[s].words) = GC} = {g}
      /\ {s \in Sector : hdr[s].magic /\ SectorRole(hdr[s].words) = GC_TEMP} = {}
      /\ {s \in Sector : hdr[s].magic /\ SectorRole(hdr[s].words) = DATA_GCING} = {}
      /\ {s \in Sector : hdr[s].magic /\ SectorRole(hdr[s].words) = DATA} = Sector \ {g}
  BY <1>2, RoleNumbers DEF RoleOf
<1>4. CountRole(GC) = 1 /\ CountRole(GC_TEMP) = 0 /\ CountRole(DATA_GCING) = 0
  BY <1>3, FS_Singleton, FS_EmptySet DEF CountRole
<1>5. CountRole(DATA) = NumSectors - 1
  <2>1. IsFiniteSet(Sector) /\ Cardinality(Sector) = NumSectors
    BY Sizes, FS_Interval DEF Sector
  <2>2. Cardinality(Sector \ {g}) = NumSectors - 1
    BY <1>1, <2>1, FS_RemoveElement
  <2> QED
    BY <1>3, <2>2 DEF CountRole
<1> QED
  BY <1>2, <1>4, <1>5, Sizes DEF IsNormal

LEMMA GcStartUncut == IInv /\ NInv /\ GcStart => NInv'
<1> SUFFICES ASSUME IInv, NInv, GcStart PROVE NInv'
  OBVIOUS
<1> DEFINE f == [Top EXCEPT !.pc = "gc_find"]
<1>1. At("gc") /\ attr' = ReadHeaders /\ UNCHANGED <<hdr, slot, used, kv, ret>>
  BY DEF GcStart, flash
<1>2. Spacious' /\ Within' /\ Spared
  BY <1>1, SameKv, Resting
<1>3. todo # <<>> /\ Top.pc = "gc" /\ Top \in Frame /\ f \in Frame /\ f.pc = "gc_find"
  BY <1>1, Running DEF Pc
<1>4. /\ {f.pc, Top.pc} \cap (Formats \cup {"init"} \cup Swapping) = {}
      /\ Rank(Top) = 5 /\ Rank(f) = 5 /\ f.pc \notin Busy
  BY <1>3, Ranks DEF Formats, Swapping, Busy, MigPc, Setters
<1>5. Steady
  BY <1>3, <1>4, NowSteady
<1>6. IsNormal
  BY <1>5, SteadyIsNormal
<1>7. SameRoles
  <2>1. \A x \in Sector : hdr[x].magic
    BY <1>6 DEF IsNormal
  <2>2. \A x \in Sector : attr'[x].role = RoleOf(x)
    BY <1>1, <2>1, ReadRoles
  <2> QED
    BY <1>1, <1>5, <2>2 DEF SameRoles, Steady, Sane, RoleOf
<1>8. todo' = <<f>> \o Tail(todo)
  BY <1>6 DEF GcStart, Goto, Stay
<1> HIDE DEF f
<1> QED
  BY <1>2, <1>3, <1>4, <1>7, <1>8, UncutOn

(* No recovery runs.                                                       *)
LEMMA NoRecovery == IInv /\ NInv => ~(RebuildStart \/ RebuildRound \/ RebuildErase \/ RebuildMagic \/ RebuildRole)
<1> SUFFICES ASSUME IInv, NInv,
                    RebuildStart \/ RebuildRound \/ RebuildErase \/ RebuildMagic \/ RebuildRole
             PROVE  FALSE
  OBVIOUS
<1>1. todo # <<>> /\ Top.pc \in {"rebuild", "reb_round", "reb_erase", "reb_magic", "reb_role"}
  BY DEF RebuildStart, RebuildRound, RebuildErase, RebuildMagic, RebuildRole, At
<1>2. Rank(Top) < 8
  BY <1>1, LadderPop DEF IInv, TInv, NInv
<1>3. Rank(Top) = 8
  BY <1>1 DEF Rank, Roots, Lower, Fillers, Setters, Formats, Swapping, MigPc
<1> QED
  BY <1>2, <1>3

LEMMA UpdateUncut == IInv /\ NInv /\ Update => NInv'
<1>1. ASSUME IInv, NInv, NEW k \in Key, Get(k) PROVE NInv'
  <2>1. /\ Ready /\ kv' = ReadBack(k) /\ todo' = <<>>
        /\ UNCHANGED <<hdr, attr, slot, used, ret>>
    BY <1>1 DEF Get, flash, desc, Ready
  <2>2. SameIndex
    BY <1>1, <2>1, ReadBackSame DEF IInv, TInv
  <2>3. SameRoles /\ Spacious' /\ Within' /\ Spared
    BY <1>1, <2>1, <2>2, Untouched, Resting
  <2> QED
    BY <1>1, <2>1, <2>3, UncutStart
<1>2. ASSUME IInv, NInv, NEW k \in Key, NEW v \in Value, Set(k, v) PROVE NInv'
  <2> DEFINE f == [Call0("set_written") EXCEPT !.key = k, !.val = v]
             g == [f EXCEPT !.pc = "put"]
  <2>1. Ready /\ kv' = ReadBack(k) /\ UNCHANGED <<hdr, attr, slot, used, ret>>
    BY <1>2 DEF Set, flash, desc
  <2>2. SameIndex
    BY <1>2, <2>1, ReadBackSame DEF IInv, TInv
  <2>3. SameRoles /\ Spacious' /\ Within' /\ Spared
    BY <1>2, <2>1, <2>2, Untouched, Resting
  <2>4. todo' = <<>> \/ todo' = <<g, f>>
    BY <1>2, Zenon DEF Set, Ready
  <2>5. f \in Frame /\ f.pc = "set_written" /\ g \in Frame /\ g.pc = "put"
    <3>1. Call0("set_written") \in Frame /\ Call0("set_written").pc = "set_written"
      BY Frames DEF Pc
    <3> QED
      BY <3>1 DEF Frame, Pc
  <2>6. /\ Rank(f) = 2 /\ Rank(g) = 4 /\ f.pc \notin Swapping
        /\ g.pc \notin Busy \cup Formats \cup {"init"} \cup Swapping
    BY <2>5, Ranks DEF Lower, Setters, Busy, Formats, Swapping, MigPc
  <2> HIDE DEF f, g
  <2> QED
    BY <1>2, <2>1, <2>3, <2>4, <2>5, <2>6, UncutStart
<1> QED
  BY <1>1, <1>2 DEF Update

LEMMA CollectUncut == IInv /\ NInv /\ Collect => NInv'
<1> SUFFICES ASSUME IInv, NInv, Collect PROVE NInv'
  OBVIOUS
<1>1. Ready /\ UNCHANGED <<hdr, attr, slot, used, kv, ret>> /\ todo' = <<Call0("gc")>>
  BY DEF Collect, flash, desc
<1>2. SameRoles /\ Spacious' /\ Within' /\ Spared
  BY <1>1, Untouched, SameKv, Resting
<1>3. PICK f \in Frame : f = Call0("gc") /\ f.pc = "gc"
  BY Frames DEF Pc
<1>4. Rank(f) = 5 /\ f.pc \notin Busy \cup Formats \cup {"init"} \cup Swapping
  BY <1>3, Ranks DEF Busy, Formats, Swapping, MigPc, Setters
<1> QED
  BY <1>1, <1>2, <1>3, <1>4, UncutStart

-----------------------------------------------------------------------------
(* Status writes *)

LEMMA Marks ==
    ASSUME FlashOK, NInv, used' = used, NEW a \in Seen \cup {NoAddr},
           a \in Seen => SlotAt(a).key # 0,
           NEW st \in {WRITE, PRE_DELETE, DELETED}, slot' = SetKvStatus(slot, a, st)
    PROVE  Spacious' /\ Spared
<1>1. a \in Addr \cup {NoAddr}
  BY SeenIs
<1>2. ASSUME NEW x \in Sector, NEW j \in Slot, slot[x][j] = Erased PROVE slot'[x][j] = Erased
  <2>1. <<x, j>> # a
    <3>1. CASE a \in Seen
      BY <1>2, <3>1, SeenIs DEF SlotAt, Erased
    <3>2. CASE a = NoAddr
      BY <3>2, SeenIs DEF Addr
    <3> QED
      BY <3>1, <3>2
  <2> QED
    BY <1>1, <1>2, <2>1, Commits, Kills
<1>3. Slots \in Slot
  BY Sizes DEF Slot
<1> QED
  BY <1>2, <1>3 DEF NInv, Spacious, Spared, Reserve, Empty

LEMMA Noted ==
    ASSUME NInv, ret' = ret, NEW k, NEW a \in Seen, kv \in [Key -> Entry],
           kv' = [kv EXCEPT ![k].addr = a, ![k].stored = TRUE]
    PROVE  Within'
<1>1. \A q \in Key : /\ kv'[q].addr = IF q = k THEN a ELSE kv[q].addr
                     /\ kv'[q].stored = IF q = k THEN TRUE ELSE kv[q].stored
  BY DEF Entry
<1> QED
  BY <1>1, SeenIs DEF NInv, Within, Near

LEMMA Relied == ASSUME IInv, todo # <<>> PROVE Relies
BY DEF IInv, SInv, Stage

LEMMA DefaultsCommitUncut == IInv /\ NInv /\ DefaultsCommit => NInv'
<1> SUFFICES ASSUME IInv, NInv, DefaultsCommit PROVE NInv'
  OBVIOUS
<1> DEFINE f == [Top EXCEPT !.pc = "defaults"]
<1>1. /\ At("defaults_commit") /\ slot' = SetKvStatus(slot, ret, WRITE)
      /\ kv' = [kv EXCEPT ![Top.key].addr = ret, ![Top.key].stored = TRUE]
      /\ todo' = <<f>> \o Tail(todo) /\ UNCHANGED <<hdr, attr, used, ret>>
  BY DEF DefaultsCommit, Goto, Stay, desc
<1>2. /\ todo # <<>> /\ Top.pc = "defaults_commit" /\ Top \in Frame /\ FlashOK /\ RestOK
      /\ f \in Frame /\ f.pc = "defaults"
  BY <1>1, Running DEF Pc
<1> HIDE DEF f
<1>3. ret \in Seen /\ SlotAt(ret).key = Top.key /\ Top.key # 0
  <2>1. Top.key \in Key
    BY <1>2 DEF Frame
  <2> QED
    BY <1>2, <2>1, Relied, RealKeys DEF NInv, Handed, Relies, Awaiting, Fresh
<1>4. Spacious' /\ Spared
  BY <1>1, <1>2, <1>3, Marks
<1>5. Within'
  BY <1>1, <1>2, <1>3, Noted DEF RestOK
<1>6. SameRoles
  BY <1>1, Untouched
<1>7. /\ {f.pc, Top.pc} \cap (Formats \cup {"init"} \cup Swapping) = {}
      /\ Rank(Top) = 2 /\ Rank(f) = 2 /\ f.pc \notin Busy
  BY <1>2, Ranks DEF Formats, Swapping, Busy, MigPc, Setters, Lower, Fillers
<1> QED
  BY <1>1, <1>2, <1>4, <1>5, <1>6, <1>7, UncutOn

(* The running function of a migration goes on.                            *)
LEMMA MigrationUncut ==
    ASSUME IInv, NInv, todo # <<>>, Top.pc \in MigPc, SameRoles, Spared, Spacious', Within',
           used' = used, NEW f \in Frame, f.pc \in MigPc, f.t = Top.t, f.i = Top.i,
           todo' = <<f>> \o Tail(todo), f.pc # "mig_predelete", f.new \in Seen
    PROVE  NInv'
<1>1. StackOK
  BY DEF IInv, TInv
<1>2. todo' # <<>> /\ Top' = f
  BY <1>1, On
<1>3. Fits' /\ Handed'
  <2>1. used[f.t] <= f.i /\ RoleOf(f.t) # GC /\ f.t \in Sector
    BY DEF NInv, Fits, Frame
  <2> QED
    BY <1>2, <2>1 DEF Fits, Handed, SameRoles, MigPc, Awaiting
<1>4. Rank(Top) = 6 /\ Rank(f) = 6
  BY Ranks
<1>5. {f.pc, Top.pc} \cap (Formats \cup {"init"} \cup Swapping) = {}
  BY DEF Formats, Swapping, MigPc
<1> QED
  BY <1>3, <1>4, <1>5, UncutOn

LEMMA MigratePreDeleteUncut == IInv /\ NInv /\ MigratePreDelete => NInv'
<1> SUFFICES ASSUME IInv, NInv, MigratePreDelete PROVE NInv'
  OBVIOUS
<1> DEFINE f == [Top EXCEPT !.pc = "mig_commit", !.new = ret]
           a == <<Top.s, Top.i>>
<1>1. /\ At("mig_predelete") /\ slot' = SetKvStatus(slot, a, PRE_DELETE)
      /\ todo' = <<f>> \o Tail(todo) /\ UNCHANGED <<hdr, attr, used, kv, ret>>
  BY DEF MigratePreDelete, Stay, desc
<1>2. todo # <<>> /\ Top.pc = "mig_predelete" /\ Top \in Frame /\ FlashOK /\ RestOK
  BY <1>1, Running
<1>3. Top.key # 0 /\ Top.s \in Sector
  BY <1>2, RealKeys DEF Frame
<1>4. a \in Seen /\ SlotAt(a).key # 0
  BY <1>2, <1>3, Relied, SeenIs DEF Relies, Begun, Source, SlotAt
<1>5. ret \in Seen
  BY <1>2 DEF NInv, Handed, Awaiting
<1>6. f \in Frame /\ f.pc = "mig_commit" /\ f.t = Top.t /\ f.i = Top.i /\ f.new = ret
  BY <1>2, <1>5, SeenIs DEF Frame, Pc
<1> HIDE DEF f, a
<1>7. Spacious' /\ Spared
  BY <1>1, <1>2, <1>4, Marks
<1>8. SameRoles /\ Within'
  BY <1>1, Untouched DEF NInv, Within, Near
<1> QED
  BY <1>1, <1>2, <1>5, <1>6, <1>7, <1>8, MigrationUncut DEF MigPc

LEMMA MigrateCommitUncut == IInv /\ NInv /\ MigrateCommit => NInv'
<1> SUFFICES ASSUME IInv, NInv, MigrateCommit PROVE NInv'
  OBVIOUS
<1> DEFINE f == [Top EXCEPT !.pc = "mig_deleted"]
<1>1. /\ At("mig_commit") /\ slot' = SetKvStatus(slot, Top.new, WRITE)
      /\ todo' = <<f>> \o Tail(todo) /\ UNCHANGED <<hdr, attr, used, kv, ret>>
  BY DEF MigrateCommit, Goto, Stay, desc
<1>2. /\ todo # <<>> /\ Top.pc = "mig_commit" /\ Top \in Frame /\ FlashOK
      /\ f \in Frame /\ f.pc = "mig_deleted"
  BY <1>1, Running DEF Pc
<1>3. f.t = Top.t /\ f.i = Top.i /\ f.new = Top.new
  BY <1>2 DEF Frame
<1> HIDE DEF f
<1>4. Top.new \in Seen /\ SlotAt(Top.new).key # 0
  <2>1. Top.key # 0
    BY <1>2, RealKeys DEF Frame
  <2> QED
    BY <1>2, <2>1, Relied DEF NInv, Handed, Movers, Relies, Fresh
<1>5. Spacious' /\ Spared
  BY <1>1, <1>2, <1>4, Marks
<1>6. SameRoles /\ Within'
  BY <1>1, Untouched DEF NInv, Within, Near
<1> QED
  BY <1>1, <1>2, <1>3, <1>4, <1>5, <1>6, MigrationUncut DEF MigPc

LEMMA MigrateDeletedUncut == IInv /\ NInv /\ MigrateDeleted => NInv'
<1> SUFFICES ASSUME IInv, NInv, MigrateDeleted PROVE NInv'
  OBVIOUS
<1> DEFINE f == [Top EXCEPT !.pc = "migrate"]
           a == <<Top.s, Top.i>>
<1>1. /\ At("mig_deleted") /\ slot' = SetKvStatus(slot, a, DELETED)
      /\ kv' = [kv EXCEPT ![Top.key].addr = Top.new, ![Top.key].stored = TRUE]
      /\ todo' = <<f>> \o Tail(todo) /\ UNCHANGED <<hdr, attr, used, ret>>
  BY DEF MigrateDeleted, Goto, Stay, desc
<1>2. /\ todo # <<>> /\ Top.pc = "mig_deleted" /\ Top \in Frame /\ FlashOK /\ RestOK
      /\ f \in Frame /\ f.pc = "migrate"
  BY <1>1, Running DEF Pc
<1>3. f.t = Top.t /\ f.i = Top.i /\ f.new = Top.new
  BY <1>2 DEF Frame
<1>4. Top.key # 0 /\ Top.s \in Sector
  BY <1>2, RealKeys DEF Frame
<1>5. a \in Seen /\ SlotAt(a).key # 0
  BY <1>2, <1>4, Relied, SeenIs DEF Relies, Ended, Source, SlotAt
<1>6. Top.new \in Seen
  BY <1>2 DEF NInv, Handed, Movers
<1> HIDE DEF f, a
<1>7. Spacious' /\ Spared
  BY <1>1, <1>2, <1>5, Marks
<1>8. SameRoles
  BY <1>1, Untouched
<1>9. Within'
  BY <1>1, <1>2, <1>6, Noted DEF RestOK
<1> QED
  BY <1>1, <1>2, <1>3, <1>6, <1>7, <1>8, <1>9, MigrationUncut DEF MigPc

(* The running function of a set goes on.                                  *)
LEMMA SetOn ==
    ASSUME IInv, NInv, todo # <<>>, Top.pc \in Setters, SameRoles, Spared, Spacious', Within',
           NEW f \in Frame, f.pc \in Setters \ {"set_written"}, f.new \in Seen,
           todo' = <<f>> \o Tail(todo)
    PROVE  NInv'
<1>1. StackOK
  BY DEF IInv, TInv
<1>2. todo' # <<>> /\ Top' = f
  BY <1>1, On
<1>3. Fits' /\ Handed'
  BY <1>2 DEF Fits, Handed, MigPc, Awaiting, Setters
<1>4. Rank(Top) = 2 /\ Rank(f) = 2
  BY Ranks DEF Lower
<1>5. {f.pc, Top.pc} \cap (Formats \cup {"init"} \cup Swapping) = {}
  BY DEF Formats, Swapping, Setters
<1> QED
  BY <1>3, <1>4, <1>5, UncutOn

(* The record that a set replaces, when it is one.                         *)
LEMMA OldRecord ==
    ASSUME IInv, NInv, NEW k \in Key, kv[k].addr # NoAddr
    PROVE  kv[k].addr \in Seen /\ SlotAt(kv[k].addr).key # 0
BY RealKeys DEF IInv, SInv, Index, NInv, Within, Near

LEMMA SetPreDeleteUncut == IInv /\ NInv /\ SetPreDelete => NInv'
<1> SUFFICES ASSUME IInv, NInv, SetPreDelete PROVE NInv'
  OBVIOUS
<1> DEFINE f == [Top EXCEPT !.pc = "set_commit", !.new = ret]
<1>1. At("set_written") /\ todo' = <<f>> \o Tail(todo) /\ UNCHANGED <<hdr, attr, used, kv, ret>>
  BY DEF SetPreDelete, Stay, desc
<1>2. todo # <<>> /\ Top.pc = "set_written" /\ Top \in Frame /\ FlashOK /\ Top.key \in Key
  <2>1. todo # <<>> /\ Top.pc = "set_written" /\ Top \in Frame /\ FlashOK
    BY <1>1, Running
  <2> QED
    BY <2>1 DEF Frame
<1>3. ret \in Seen
  BY <1>2 DEF NInv, Handed, Awaiting
<1>4. f \in Frame /\ f.pc = "set_commit" /\ f.new = ret
  BY <1>2, <1>3, SeenIs DEF Frame, Pc
<1> HIDE DEF f
<1>5. Spacious' /\ Spared
  <2>1. CASE Old(Top.key) \notin {NoAddr, ret}
    <3>1. slot' = SetKvStatus(slot, Old(Top.key), PRE_DELETE)
      BY <2>1 DEF SetPreDelete
    <3>2. Old(Top.key) \in Seen /\ SlotAt(Old(Top.key)).key # 0
      BY <1>2, <2>1, OldRecord DEF Old
    <3> QED
      BY <1>1, <1>2, <3>1, <3>2, Marks
  <2>2. CASE Old(Top.key) \in {NoAddr, ret}
    <3>1. slot' = slot
      BY <2>2 DEF SetPreDelete
    <3> QED
      BY <1>1, <3>1, SameKv, Resting
  <2> QED
    BY <2>1, <2>2
<1>6. SameRoles /\ Within'
  BY <1>1, Untouched DEF NInv, Within, Near
<1> QED
  BY <1>1, <1>2, <1>3, <1>4, <1>5, <1>6, SetOn DEF Setters

LEMMA SetCommitUncut == IInv /\ NInv /\ SetCommit => NInv'
<1> SUFFICES ASSUME IInv, NInv, SetCommit PROVE NInv'
  OBVIOUS
<1> DEFINE f == [Top EXCEPT !.pc = "set_deleted"]
<1>1. /\ At("set_commit") /\ slot' = SetKvStatus(slot, Top.new, WRITE)
      /\ todo' = <<f>> \o Tail(todo) /\ UNCHANGED <<hdr, attr, used, kv, ret>>
  BY DEF SetCommit, Goto, Stay, desc
<1>2. /\ todo # <<>> /\ Top.pc = "set_commit" /\ Top \in Frame /\ FlashOK
      /\ f \in Frame /\ f.pc = "set_deleted"
  BY <1>1, Running DEF Pc
<1>3. f.new = Top.new
  BY <1>2 DEF Frame
<1> HIDE DEF f
<1>4. Top.new \in Seen /\ SlotAt(Top.new).key # 0
  <2>1. Top.key # 0
    BY <1>2, RealKeys DEF Frame
  <2> QED
    BY <1>2, <2>1, Relied DEF NInv, Handed, Movers, Relies, Fresh
<1>5. Spacious' /\ Spared
  BY <1>1, <1>2, <1>4, Marks
<1>6. SameRoles /\ Within'
  BY <1>1, Untouched DEF NInv, Within, Near
<1> QED
  BY <1>1, <1>2, <1>3, <1>4, <1>5, <1>6, SetOn DEF Setters

LEMMA SetDeletedUncut == IInv /\ NInv /\ SetDeleted => NInv'
<1> SUFFICES ASSUME IInv, NInv, SetDeleted PROVE NInv'
  OBVIOUS
<1>1. /\ At("set_deleted") /\ todo' = Tail(todo) /\ UNCHANGED <<hdr, attr, used, ret>>
      /\ kv' = [kv EXCEPT ![Top.key] = [addr |-> Top.new, val |-> Top.val, stored |-> TRUE]]
  BY DEF SetDeleted, Return, desc
<1>2. /\ todo # <<>> /\ Top.pc = "set_deleted" /\ Top \in Frame /\ FlashOK /\ RestOK
      /\ Top.key \in Key
  <2>1. todo # <<>> /\ Top.pc = "set_deleted" /\ Top \in Frame /\ FlashOK /\ RestOK
    BY <1>1, Running
  <2> QED
    BY <2>1 DEF Frame
<1>3. Top.new \in Seen
  BY <1>2 DEF NInv, Handed, Movers
<1>4. Spacious' /\ Spared
  <2>1. CASE Old(Top.key) \notin {NoAddr, Top.new}
    <3>1. slot' = SetKvStatus(slot, Old(Top.key), DELETED)
      BY <2>1 DEF SetDeleted
    <3>2. Old(Top.key) \in Seen /\ SlotAt(Old(Top.key)).key # 0
      BY <1>2, <2>1, OldRecord DEF Old
    <3> QED
      BY <1>1, <1>2, <3>1, <3>2, Marks
  <2>2. CASE Old(Top.key) \in {NoAddr, Top.new}
    <3>1. slot' = slot
      BY <2>2 DEF SetDeleted
    <3> QED
      BY <1>1, <3>1 DEF NInv, Spacious, Spared, Reserve, Empty
  <2> QED
    BY <2>1, <2>2
<1>5. Within'
  <2>1. \A q \in Key : /\ kv'[q].addr = IF q = Top.key THEN Top.new ELSE kv[q].addr
                       /\ kv'[q].stored = IF q = Top.key THEN TRUE ELSE kv[q].stored
    BY <1>1, <1>2 DEF RestOK, Entry
  <2> QED
    BY <1>1, <1>3, <2>1, SeenIs DEF NInv, Within, Near
<1>6. SameRoles
  BY <1>1, Untouched
<1> QED
  BY <1>1, <1>2, <1>4, <1>5, <1>6, UncutBack DEF Formats, Swapping, Writer

LEMMA DeleteUncut == \A k \in Key : IInv /\ NInv /\ Delete(k) => NInv'
<1> SUFFICES ASSUME NEW k \in Key, IInv, NInv, Delete(k) PROVE NInv'
  OBVIOUS
<1>1. Ready /\ todo = <<>> /\ UNCHANGED <<hdr, attr, used, ret>> /\ FlashOK /\ RestOK
  BY DEF Delete, desc, Ready, IInv, TInv
<1>2. SameRoles
  BY <1>1, Untouched
<1>3. CASE kv[k].addr = NoAddr
  <2>1. todo' = <<Call0("hung")>> /\ UNCHANGED <<slot, kv>>
    BY <1>3 DEF Delete
  <2>2. PICK f \in Frame : f = Call0("hung") /\ f.pc = "hung"
    BY Frames DEF Pc
  <2>3. Rank(f) = 0 /\ f.pc \notin Busy \cup Formats \cup {"init"} \cup Swapping
    BY <2>2, Ranks DEF Roots, Busy, Formats, Swapping, MigPc, Setters
  <2>4. Spacious' /\ Within' /\ Spared
    BY <1>1, <2>1, SameKv, Resting
  <2> QED
    BY <1>1, <1>2, <2>1, <2>2, <2>3, <2>4, UncutStart
<1>4. CASE kv[k].addr # NoAddr
  <2>1. /\ slot' = SetKvStatus(slot, kv[k].addr, DELETED) /\ todo' = <<>>
        /\ kv' = [kv EXCEPT ![k].addr = NoAddr, ![k].stored = FALSE]
    BY <1>1, <1>4 DEF Delete
  <2>2. kv[k].addr \in Seen /\ SlotAt(kv[k].addr).key # 0
    BY <1>4, OldRecord
  <2>3. Spacious' /\ Spared
    BY <1>1, <2>1, <2>2, Marks
  <2>4. Within'
    <3>1. \A q \in Key : /\ kv'[q].addr = IF q = k THEN NoAddr ELSE kv[q].addr
                         /\ kv'[q].stored = IF q = k THEN FALSE ELSE kv[q].stored
      BY <1>1, <2>1 DEF RestOK, Entry
    <3> QED
      BY <1>1, <3>1 DEF NInv, Within, Near
  <2> QED
    BY <1>1, <1>2, <2>1, <2>3, <2>4, UncutStart
<1> QED
  BY <1>3, <1>4

-----------------------------------------------------------------------------
(* Writing a record, and loading a sector *)

(* A record has been written, and who waits for it resumes.                *)
LEMMA WrittenUncut ==
    ASSUME IInv, NInv, todo # <<>>, Top.pc \in {"append", "append_status"}, SameRoles, Spared,
           Spacious', Within', todo' = Tail(todo), ret' \in Seen, NEW w, w = Waits,
           w.pc = "mig_predelete" => used'[w.t] <= w.i /\ RoleOf(w.t)' # GC
    PROVE  NInv'
<1>1. StackOK /\ Chain(todo)
  BY DEF IInv, TInv, SInv
<1>2. Tail(todo) # <<>> /\ Waits.pc \in Awaiting
  BY Writing DEF Writer
<1>3. todo' # <<>> /\ Top' = Waits
  BY <1>1, <1>2, Back
<1>4. Fits' /\ Handed'
  <2>1. Top' = w /\ w.pc \in Awaiting
    BY <1>2, <1>3
  <2> QED
    BY <2>1 DEF Fits, Handed, Awaiting, MigPc, Movers
<1> QED
  BY <1>4, UncutBack DEF Formats, Swapping

LEMMA WriteSectorStatusUncut == IInv /\ NInv /\ WriteSectorStatus => NInv'
<1> SUFFICES ASSUME IInv, NInv, WriteSectorStatus PROVE NInv'
  OBVIOUS
<1>1. /\ At("append_status") /\ hdr' = SetSectorStatus(hdr, Top.s, attr[Top.s].status)
      /\ todo' = Tail(todo) /\ UNCHANGED <<attr, slot, used, kv, ret>>
  BY DEF WriteSectorStatus, Return, desc
<1>2. todo # <<>> /\ Top.pc = "append_status" /\ Top \in Frame /\ FlashOK /\ StackOK
  BY <1>1, Running
<1>3. Top.s \in Sector /\ attr[Top.s].status \in FREE..FULL
  BY <1>2, RoleNumbers DEF Frame, NInv, Fits
<1>4. SameRoles
  <2>1. PICK st \in FREE..FULL : st = attr[Top.s].status
    BY <1>3
  <2>2. PICK s \in Sector : s = Top.s
    BY <1>3
  <2> QED
    BY <1>1, <1>2, <2>1, <2>2, StatusHeader DEF SameRoles
<1>5. Spacious' /\ Within' /\ Spared
  BY <1>1, SameKv, Resting
<1>6. ret' \in Seen
  BY <1>1, <1>2 DEF NInv, Handed
<1>7. PICK w \in Frame : w = Waits
  BY <1>2, Writing, Stack DEF Writer
<1>8. w.pc = "mig_predelete" => used'[w.t] <= w.i /\ RoleOf(w.t)' # GC
  <2>1. w.t \in Sector
    BY DEF Frame
  <2> QED
    BY <1>1, <1>2, <1>4, <1>7, <2>1 DEF NInv, Fits, SameRoles
<1> QED
  BY <1>1, <1>2, <1>4, <1>5, <1>6, <1>7, <1>8, WrittenUncut

LEMMA WriteRecordUncut == IInv /\ NInv /\ WriteRecord => NInv'
<1> SUFFICES ASSUME IInv, NInv, WriteRecord PROVE NInv'
  OBVIOUS
<1>1. At("append") /\ todo # <<>> /\ Top.pc = "append" /\ Top \in Frame /\ FlashOK /\ DescOK /\ StackOK
  BY Running DEF WriteRecord
<1>2. PICK s \in Sector, k \in Key, v \in Value : s = Top.s /\ k = Top.key /\ v = Top.val
  BY <1>1 DEF Frame
<1>3. PICK n \in Nat : n = used[s] + 1 /\ n < Slots
  <2>1. used[s] \in Nat /\ used[s] < Slots - 1
    BY <1>1, <1>2 DEF DescOK, NInv, Fits
  <2> QED
    BY <2>1, Sizes
<1>4. n \in Visible /\ n \in Slot /\ n > 0
  BY <1>1, <1>2, <1>3, Sizes DEF Visible, Slot, DescOK
<1>5. PICK a \in Seen : a = <<s, n>> /\ a \in Addr
  BY <1>2, <1>4, SeenIs
<1>6. /\ slot' = PutRecord(slot, a, NewRecord(k, v)) /\ ret' = a
      /\ used' = [used EXCEPT ![s] = n] /\ attr' = [attr EXCEPT ![s].status = USING]
      /\ hdr' = hdr /\ kv' = kv
      /\ IF USING # attr[s].status THEN Goto("append_status") ELSE Return
  <2>1. used[s] + 1 # Slots /\ used[s] + 1 = n
    BY <1>3, Sizes
  <2> QED
    BY <1>2, <1>5, <2>1, Zenon DEF WriteRecord
<1>7. \A x \in Sector : used'[x] = IF x = s THEN n ELSE used[x]
  BY <1>1, <1>6 DEF DescOK
<1>8. \A x \in Sector : \A j \in Slot : <<x, j>> # a => slot'[x][j] = slot[x][j]
  BY <1>1, <1>2, <1>5, <1>6, RecordWrite, Records
<1>9. Spacious'
  <2>1. Slots \in Slot /\ \A x \in Sector : <<x, Slots>> # a
    BY <1>3, <1>5, Sizes DEF Slot
  <2> QED
    BY <1>3, <1>7, <1>8, <2>1 DEF NInv, Spacious
<1>10. Within'
  BY <1>6 DEF NInv, Within, Near
<1>11. SameRoles
  BY <1>1, <1>6, AttrStatus DEF SameRoles, RoleOf
<1>12. RoleOf(s) # GC
  BY <1>1, <1>2 DEF NInv, Fits
<1>13. Spared
  BY <1>5, <1>7, <1>8, <1>12 DEF Spared, Reserve, Empty
<1>14. PICK w \in Frame : w = Waits
  BY <1>1, Writing, Stack DEF Writer
<1>15. w.pc = "mig_predelete" => used'[w.t] <= w.i /\ RoleOf(w.t)' # GC
  <2> SUFFICES ASSUME w.pc = "mig_predelete" PROVE used'[w.t] <= w.i /\ RoleOf(w.t)' # GC
    OBVIOUS
  <2>1. w.t = s /\ used[s] < w.i /\ w.i \in Nat /\ used[s] \in Nat
    BY <1>1, <1>2, <1>14 DEF NInv, Fits, Frame, DescOK
  <2>2. used'[w.t] <= w.i
    BY <1>3, <1>7, <2>1
  <2> QED
    BY <1>11, <1>12, <2>1, <2>2 DEF SameRoles
<1>16. CASE todo' = Tail(todo)
  BY <1>1, <1>6, <1>9, <1>10, <1>11, <1>13, <1>14, <1>15, <1>16, WrittenUncut
<1>17. CASE todo' # Tail(todo)
  <2> DEFINE f == [Top EXCEPT !.pc = "append_status"]
  <2>1. todo' = <<f>> \o Tail(todo)
    BY <1>6, <1>17 DEF Goto, Stay, Return
  <2>2. f \in Frame /\ f.pc = "append_status" /\ f.s = s
    BY <1>1, <1>2 DEF Frame, Pc
  <2> HIDE DEF f
  <2>3. Tail(todo) # <<>>
    BY <1>1, Writing DEF Writer
  <2>4. todo' # <<>> /\ Top' = f /\ Waits' = w
    BY <1>1, <1>14, <2>1, <2>2, <2>3, On
  <2>5. attr'[s].status = USING
    BY <1>1, <1>6 DEF DescOK, Attr
  <2>6. Fits' /\ Handed'
    BY <1>6, <1>15, <2>2, <2>4, <2>5 DEF Fits, Handed, MigPc, Awaiting, Movers
  <2>7. Rank(Top) = 7 /\ Rank(f) = 7
    BY <1>1, <2>2, Ranks
  <2>8. {f.pc, Top.pc} \cap (Formats \cup {"init"} \cup Swapping) = {}
    BY <1>1, <2>2 DEF Formats, Swapping
  <2> QED
    BY <1>1, <1>9, <1>10, <1>11, <1>13, <2>1, <2>2, <2>6, <2>7, <2>8, UncutOn
<1> QED
  BY <1>16, <1>17

LEMMA LoadSectorUncut == IInv /\ NInv /\ LoadSector => NInv'
<1> SUFFICES ASSUME IInv, NInv, LoadSector PROVE NInv'
  OBVIOUS
<1>1. /\ At("load") /\ todo # <<>> /\ Top.pc = "load" /\ Top \in Frame
      /\ FlashOK /\ DescOK /\ StackOK /\ RestOK
  BY Running DEF LoadSector
<1>2. PICK s \in Sector : s = Top.s
  BY <1>1 DEF Frame
<1>3. PICK n : n = Cardinality(Scanned(s)) /\ n < Slots
  BY ScanLeaves
<1>4. PICK st \in {FREE, USING} : st = IF \E j \in Scanned(s) : slot[s][j].key # 0 THEN USING ELSE FREE
  OBVIOUS
<1>5. /\ used' = [used EXCEPT ![s] = n]
      /\ attr' = [attr EXCEPT ![s] = [AttrOf(s) EXCEPT !.status = st]]
      /\ hdr' \in {hdr, SetSectorStatus(hdr, s, st)}
      /\ UNCHANGED <<slot, ret>>
      /\ todo' = Tail(todo) \/ todo' = <<[Top EXCEPT !.s = s + 1]>> \o Tail(todo)
      /\ todo' # Tail(todo) => s + 1 \in Sector
  BY <1>2, <1>3, <1>4, Zenon DEF LoadSector, Stay, Return
<1>6. \A k \in Key : kv'[k] \in {kv[k]} \cup [addr : Seen, val : Value, stored : {TRUE}]
  <2> SUFFICES ASSUME NEW k \in Key
               PROVE  kv'[k] \in {kv[k]} \cup [addr : Seen, val : Value, stored : {TRUE}]
    OBVIOUS
  <2> DEFINE j == Max(LiveOf(s, k))
  <2>1. kv'[k] = IF LiveOf(s, k) = {} THEN kv[k]
                 ELSE [addr |-> <<s, j>>, val |-> slot[s][j].val, stored |-> TRUE]
    BY <1>2 DEF LoadSector
  <2>2. ASSUME LiveOf(s, k) # {} PROVE <<s, j>> \in Seen /\ slot[s][j].val \in Value
    <3>1. LiveOf(s, k) \subseteq Visible
      BY DEF LiveOf, LiveIn, Scanned
    <3>2. Visible \subseteq 0..Slots
      BY Sizes DEF Visible
    <3>3. j \in Visible
      BY <2>2, <3>1, <3>2, MaxNat, Sizes
    <3>4. slot[s][j] \in Record
      BY <1>1, <3>3, SlotIs, Ranges
    <3> QED
      BY <3>3, <3>4, SeenIs DEF Record
  <2> HIDE DEF j
  <2> QED
    BY <2>1, <2>2
<1>7. Steady
  <2>1. Rank(Top) = 1 /\ Top.pc \notin Formats \cup {"init"} \cup Swapping
    BY <1>1, Ranks DEF Formats, Swapping
  <2> QED
    BY <2>1, NowSteady
<1>8. SameRoles
  <2>1. \A x \in Sector : hdr'[x].magic = hdr[x].magic /\ RoleOf(x)' = RoleOf(x)
    <3>1. CASE hdr' = hdr
      BY <3>1 DEF RoleOf
    <3>2. CASE hdr' = SetSectorStatus(hdr, s, st)
      BY <1>1, <3>2, StatusHeader, RoleNumbers
    <3> QED
      BY <1>5, <3>1, <3>2
  <2>2. AttrOf(s).role = RoleOf(s) /\ [AttrOf(s) EXCEPT !.status = st].role = AttrOf(s).role
    BY DEF AttrOf, RoleOf
  <2>3. \A x \in Sector : attr'[x].role = IF x = s THEN RoleOf(s) ELSE attr[x].role
    BY <1>1, <1>5, <2>2 DEF DescOK
  <2> QED
    BY <1>7, <2>1, <2>3 DEF SameRoles, Steady, Sane
<1>9. \A x \in Sector : used'[x] = IF x = s THEN n ELSE used[x]
  BY <1>1, <1>5 DEF DescOK
<1>10. Spacious'
  BY <1>3, <1>5, <1>9 DEF NInv, Spacious
<1>11. Spared
  <2>1. Empty(s) => n = 0
    <3>1. Empty(s) => Scanned(s) = {}
      <4>1. ASSUME Empty(s), NEW j \in Scanned(s)
            PROVE  FALSE
        <5>1. j \in Visible /\ j \in Slot /\ j \in Nat
          BY <4>1, Sizes DEF Scanned, Visible, Slot
        <5>2. slot[s][j] = Erased
          BY <4>1, <5>1 DEF Empty
        <5>3. j < j
          BY <4>1, <5>1, <5>2 DEF Scanned
        <5> QED
          BY <5>1, <5>3
      <4> QED
        BY <4>1
    <3> QED
      BY <1>3, <3>1, FS_EmptySet
  <2> QED
    BY <1>5, <1>9, <2>1 DEF Spared, Reserve, Empty
<1>12. Within'
  BY <1>5, <1>6, SeenIs DEF NInv, Within, Near
<1>13. Top.pc \notin Formats \cup {"init"} \cup Swapping \cup Writer
  BY <1>1 DEF Formats, Swapping, Writer
<1>14. CASE todo' = Tail(todo)
  BY <1>1, <1>8, <1>10, <1>11, <1>12, <1>13, <1>14, UncutBack
<1>15. CASE todo' # Tail(todo)
  <2> DEFINE f == [Top EXCEPT !.s = s + 1]
  <2>1. f \in Frame /\ f.pc = "load"
    BY <1>1, <1>5, <1>15 DEF Frame
  <2>2. todo' = <<f>> \o Tail(todo)
    BY <1>5, <1>15
  <2> HIDE DEF f
  <2>3. /\ Rank(Top) = 1 /\ Rank(f) = 1
        /\ f.pc \notin Busy \cup Formats \cup {"init"} \cup Swapping
    BY <1>1, <2>1, Ranks DEF Formats, Swapping, Busy, MigPc, Setters
  <2> QED
    BY <1>1, <1>8, <1>10, <1>11, <1>12, <1>13, <2>1, <2>2, <2>3, UncutOn
<1> QED
  BY <1>14, <1>15

-----------------------------------------------------------------------------
(* Formatting *)

(* A function of rank 5 or lower goes on, and no collection waits below it. *)
LEMMA LadderStay ==
    ASSUME IInv, NInv, todo # <<>>, Rank(Top) <= 5,
           NEW f \in Frame, Rank(f) = Rank(Top), todo' = <<f>> \o Tail(todo)
    PROVE  /\ Ladder(todo') /\ todo' # <<>> /\ Top' = f
           /\ Swaps(todo)' = IF f.pc \in Swapping THEN {f} ELSE {}
<1>1. StackOK /\ Ladder(todo)
  BY DEF IInv, TInv, NInv
<1>2. PICK q \in Seq(Frame) : q = Tail(todo)
  BY <1>1, Stack
<1>3. Ladder(q) /\ Below(q, Rank(Top)) /\ Rank(Top) < 8
  BY <1>1, <1>2, LadderPop
<1>4. Swaps(q) = {}
  BY <1>3, NoSwaps, Ranks
<1>5. Ladder(<<f>> \o q) /\ Swaps(<<f>> \o q) = IF f.pc \in Swapping THEN {f} ELSE {}
  BY <1>2, <1>3, <1>4, LadderPush, SwapsPush
<1>6. todo' = <<f>> \o q /\ todo' # <<>> /\ Top' = f
  BY <1>2, NewTop
<1> QED
  BY <1>5, <1>6

LEMMA FormatOn ==
    ASSUME IInv, NInv, todo # <<>>, Top.pc \in Formats,
           NEW f \in Frame, f.pc \in Formats, todo' = <<f>> \o Tail(todo),
           Format(f)', Spacious', Within'
    PROVE  NInv'
<1>1. Rank(Top) <= 5 /\ Rank(f) = Rank(Top)
  <2>1. Rank(Top) = 3 /\ Rank(f) = 3
    BY Ranks
  <2> QED
    BY <2>1
<1>2. Ladder(todo') /\ todo' # <<>> /\ Top' = f
  BY <1>1, LadderStay
<1>3. f.pc \notin Busy \cup {"init"}
  BY DEF Busy, Formats, MigPc, Setters
<1>4. Layout'
  BY <1>2, <1>3 DEF Layout, At
<1>5. todo' # <<>> => Fits' /\ Handed'
  BY <1>2, <1>3, Idles
<1> QED
  BY <1>2, <1>4, <1>5 DEF NInv

LEMMA Formatting ==
    ASSUME NInv, todo # <<>>, Top.pc \in Formats
    PROVE  Format(Top)
BY DEF NInv, Layout, At, Formats

LEMMA FourFrames ==
    ASSUME NEW f \in Frame, NEW d \in Frame, NEW l \in Frame, NEW i \in Frame, NEW c,
           c = <<f, d, l>> \o <<i>>, Rank(f) = 3, Rank(d) = 2, Rank(l) = 1, Rank(i) = 0
    PROVE  /\ Ladder(c) /\ c # <<>> /\ Head(c) = f
           /\ \A n \in 1..Len(c) : c[n] \in {f, d, l, i} /\ 2 \in 1..Len(c) /\ c[2] = d
<1> DEFINE q == <<f, d, l>>
<1>1. q \in Seq(Frame) /\ Len(q) = 3 /\ q[1] = f /\ q[2] = d /\ q[3] = l
  OBVIOUS
<1>2. <<i>> \in Seq(Frame) /\ Len(<<i>>) = 1 /\ <<i>>[1] = i /\ c = q \o <<i>>
  OBVIOUS
<1> HIDE DEF q
<1>3. c \in Seq(Frame) /\ Len(c) = 4 /\ c[1] = f /\ c[2] = d /\ c[3] = l /\ c[4] = i
  BY <1>1, <1>2
<1>4. \A n \in 1..4 : Rank(c[n]) = 4 - n
  BY <1>3
<1> QED
  BY <1>3, <1>4 DEF Ladder, Below

(* The first start-up formats the flash.                                   *)
LEMMA InitClassifyUncut == IInv /\ NInv /\ InitClassify => NInv'
<1> SUFFICES ASSUME IInv, NInv, InitClassify PROVE NInv'
  OBVIOUS
<1>1. /\ At("init") /\ attr' = ReadHeaders /\ UNCHANGED <<hdr, slot, used, kv, ret>>
  BY DEF InitClassify, flash
<1>2. \A x \in Sector : Empty(x) /\ ~hdr[x].magic
  BY <1>1 DEF NInv, Layout
<1>3. IsFirstPowerOn /\ ~IsNormal
  BY <1>2, Ranges DEF IsFirstPowerOn, IsNormal
<1>4. Spacious' /\ Within'
  BY <1>1, SameKv, Resting
<1>5. PICK f \in Frame, d \in Frame, l \in Frame, i \in Frame :
        /\ f = Call0("format") /\ d = Call0("defaults")
        /\ l = Call0("load") /\ i = Call0("init_done")
        /\ f.pc = "format" /\ d.pc = "defaults" /\ l.pc = "load" /\ i.pc = "init_done"
  BY Frames DEF Pc
<1>6. todo' = <<f, d, l>> \o <<i>>
  BY <1>3, <1>5, Zenon DEF InitClassify
<1>7. Rank(f) = 3 /\ Rank(d) = 2 /\ Rank(l) = 1 /\ Rank(i) = 0
  BY <1>5, Ranks DEF Formats, Lower, Fillers, Roots
<1>8. Ladder(todo') /\ todo' # <<>> /\ Head(todo') = f
  BY <1>6, <1>7, FourFrames
<1>9. Top' = f
  BY <1>8 DEF Top
<1>10. Format(f)'
  <2>1. f.s = 0
    BY <1>5 DEF Call0
  <2>2. \A x \in Sector : Empty(x)'
    BY <1>1, <1>2 DEF Empty
  <2> QED
    BY <1>5, <2>1, <2>2, Ranges DEF Format
<1>11. Layout'
  BY <1>5, <1>8, <1>9, <1>10 DEF Layout, At, Formats
<1>12. todo' # <<>> => Fits' /\ Handed'
  BY <1>5, <1>9, Idles DEF Busy, MigPc, Setters
<1> QED
  BY <1>4, <1>8, <1>11, <1>12 DEF NInv

LEMMA FormatEraseUncut == IInv /\ NInv /\ FormatErase => NInv'
<1> SUFFICES ASSUME IInv, NInv, FormatErase PROVE NInv'
  OBVIOUS
<1>1. /\ At("format") /\ todo # <<>> /\ Top.pc = "format" /\ Top \in Frame
      /\ FlashOK /\ DescOK /\ Top.pc \in Formats
  BY Running DEF FormatErase, Formats
<1>2. PICK f \in Frame : f = [Top EXCEPT !.pc = "format_role"]
  BY <1>1 DEF Frame, Pc
<1>3. PICK s \in Sector : s = Top.s /\ s = f.s /\ f.pc = "format_role" /\ f.pc \in Formats
  BY <1>1, <1>2 DEF Frame, Formats
<1>4. EraseSector(s) /\ todo' = <<f>> \o Tail(todo) /\ UNCHANGED <<kv, ret>>
  BY <1>2, <1>3 DEF FormatErase, Goto, Stay
<1>5. /\ \A x \in Sector : Empty(x)
      /\ \A x \in Sector : x < s => hdr[x].magic /\ RoleOf(x) = Final(x) /\ Sane(x)
  BY <1>1, <1>3, Formatting DEF Format
<1>6. /\ \A x \in Sector \ {s} : hdr'[x] = hdr[x] /\ RoleOf(x)' = RoleOf(x)
      /\ hdr'[s].words = {}
      /\ \A x \in Sector : attr'[x].role = attr[x].role
      /\ \A x \in Sector : Empty(x) => Empty(x)'
  BY <1>1, <1>4, ErasedHeader
<1>7. Format(f)'
  <2>1. ASSUME NEW x \in Sector, x < s PROVE hdr'[x].magic /\ RoleOf(x)' = Final(x) /\ Sane(x)'
    <3>1. x # s
      BY <2>1, Ranges
    <3> QED
      BY <1>5, <1>6, <2>1, <3>1 DEF Sane
  <2> QED
    BY <1>3, <1>5, <1>6, <2>1 DEF Format, Final
<1>8. Spacious' /\ Within'
  <2>1. \A x \in Sector : used'[x] < Slots /\ slot'[x][Slots] = Erased
    BY <1>5, <1>6, Sizes DEF Empty, Slot
  <2> QED
    BY <1>4, <2>1 DEF Spacious, Within, Near, NInv
<1> QED
  BY <1>1, <1>3, <1>7, <1>8, <1>4, FormatOn

LEMMA FormatRoleUncut == IInv /\ NInv /\ FormatRole => NInv'
<1> SUFFICES ASSUME IInv, NInv, FormatRole PROVE NInv'
  OBVIOUS
<1>1. /\ At("format_role") /\ todo # <<>> /\ Top.pc = "format_role" /\ Top \in Frame
      /\ FlashOK /\ DescOK /\ Top.pc \in Formats
  BY Running DEF FormatRole, Formats
<1>2. PICK f \in Frame : f = [Top EXCEPT !.pc = "format_magic"]
  BY <1>1 DEF Frame, Pc
<1>3. PICK s \in Sector : s = Top.s /\ s = f.s /\ f.pc = "format_magic" /\ f.pc \in Formats
  BY <1>1, <1>2 DEF Frame, Formats
<1>4. PICK r \in GC..DATA_GCING : r = Final(s)
  BY RoleNumbers DEF Final
<1>5. /\ hdr' = SetSectorRole(hdr, s, r) /\ attr' = [attr EXCEPT ![s].role = r]
      /\ todo' = <<f>> \o Tail(todo) /\ UNCHANGED <<slot, used, kv, ret>>
  BY <1>2, <1>3, <1>4 DEF FormatRole, Goto, Stay, Final
<1>6. /\ hdr[s].words = {} /\ \A x \in Sector : Empty(x)
      /\ \A x \in Sector : x < s => hdr[x].magic /\ RoleOf(x) = Final(x) /\ Sane(x)
  BY <1>1, <1>3, Formatting DEF Format
<1>7. /\ \A x \in Sector : hdr'[x].magic = hdr[x].magic /\ (x # s => RoleOf(x)' = RoleOf(x))
      /\ RoleOf(s)' = r
  <2>1. RoleOf(s) = 0
    BY <1>6, RoleNumbers DEF RoleOf
  <2> QED
    BY <1>1, <1>5, <2>1, RoleHeader, RoleNumbers
<1>8. \A x \in Sector : attr'[x].role = IF x = s THEN r ELSE attr[x].role
  <2>1. DescOK /\ attr' = [attr EXCEPT ![s].role = r]
    BY <1>1, <1>5
  <2> QED
    BY <2>1, AttrRole
<1>9. Format(f)'
  <2>1. ASSUME NEW x \in Sector, x < s PROVE hdr'[x].magic /\ RoleOf(x)' = Final(x) /\ Sane(x)'
    <3>1. x # s
      BY <2>1, Ranges
    <3> QED
      BY <1>6, <1>7, <1>8, <2>1, <3>1 DEF Sane
  <2>2. \A x \in Sector : Empty(x)'
    BY <1>5, <1>6 DEF Empty
  <2> QED
    BY <1>3, <1>4, <1>7, <1>8, <2>1, <2>2 DEF Format, Final, Sane
<1>10. Spacious' /\ Within'
  BY <1>5, SameKv, Resting
<1> QED
  BY <1>1, <1>3, <1>5, <1>9, <1>10, FormatOn

(* The last header is that of the GC sector.                               *)
LEMMA FormatMagicUncut == IInv /\ NInv /\ FormatMagic => NInv'
<1> SUFFICES ASSUME IInv, NInv, FormatMagic PROVE NInv'
  OBVIOUS
<1>1. /\ At("format_magic") /\ todo # <<>> /\ Top.pc = "format_magic" /\ Top \in Frame
      /\ FlashOK /\ DescOK /\ Top.pc \in Formats /\ StackOK /\ Chain(todo)
  BY Running DEF FormatMagic, Formats
<1>2. PICK s \in Sector : s = Top.s
  BY <1>1 DEF Frame
<1>3. /\ hdr' = SetMagic(hdr, s) /\ UNCHANGED <<slot, attr, used, kv, ret>>
      /\ IF s + 1 \in Sector
         THEN todo' = <<[Top EXCEPT !.s = s + 1, !.pc = "format"]>> \o Tail(todo)
         ELSE todo' = Tail(todo)
  BY <1>2 DEF FormatMagic, Stay, Return, desc
<1>4. /\ \A x \in Sector : Empty(x)
      /\ \A x \in Sector : x < s => hdr[x].magic /\ RoleOf(x) = Final(x) /\ Sane(x)
      /\ RoleOf(s) = Final(s) /\ Sane(s)
  BY <1>1, <1>2, Formatting DEF Format
<1>5. \A x \in Sector : (hdr'[x].magic <=> x = s \/ hdr[x].magic) /\ RoleOf(x)' = RoleOf(x)
  BY <1>1, <1>3, MagicHeader
<1>6. /\ \A x \in Sector : Empty(x)'
      /\ \A x \in Sector : x <= s => hdr'[x].magic /\ RoleOf(x)' = Final(x) /\ Sane(x)'
  <2>1. \A x \in Sector : x <= s => x = s \/ x < s
    BY Ranges
  <2> QED
    BY <1>3, <1>4, <1>5, <2>1 DEF Sane, Empty
<1>7. Spacious' /\ Within'
  BY <1>3, SameKv, Resting
<1>8. CASE s + 1 \in Sector
  <2>1. PICK f \in Frame : f = [Top EXCEPT !.s = s + 1, !.pc = "format"]
    BY <1>1, <1>8 DEF Frame, Pc
  <2>2. f.s = s + 1 /\ f.pc = "format" /\ f.pc \in Formats /\ todo' = <<f>> \o Tail(todo)
    BY <1>1, <1>3, <1>8, <2>1 DEF Frame, Formats
  <2>3. \A x \in Sector : x < s + 1 => x <= s
    BY Ranges
  <2>4. Format(f)'
    BY <1>6, <2>2, <2>3 DEF Format, Final
  <2> QED
    BY <1>1, <1>7, <2>2, <2>4, FormatOn
<1>9. CASE s + 1 \notin Sector
  <2>1. s = NumSectors - 1 /\ \A x \in Sector : x <= s
    BY <1>9, Sizes DEF Sector
  <2>2. Reserve(s)' /\ \A x \in Sector : x # s => Data(x)'
    BY <1>6, <2>1 DEF Reserve, Data, Final
  <2>3. Steady'
    BY <1>6, <2>1, <2>2 DEF Steady
  <2>4. Ladder(todo') /\ Swaps(todo') = {}
    <3>1. Ladder(Tail(todo)) /\ Below(Tail(todo), Rank(Top)) /\ Rank(Top) = 3
      BY <1>1, LadderPop, Ranks DEF NInv
    <3>2. Ladder(todo') /\ Below(todo', 3)
      BY <1>3, <1>9, <3>1
    <3>3. 3 \in Int /\ 3 <= 5
      OBVIOUS
    <3> QED
      BY <3>2, <3>3, NoSwaps
  <2>5. todo' # <<>> => Top'.pc \in Plain \cap Suspended
    BY <1>1, <1>3, <1>9, PopPlain DEF Rooted, MigPc, Writer
  <2>6. todo' # <<>> => Top'.pc \notin Busy \cup Formats \cup {"init"}
    BY <2>5 DEF Busy, Formats, Plain, MigPc, Setters
  <2>7. Layout'
    BY <2>3, <2>4, <2>6, Arrange
  <2>8. todo' # <<>> => Fits' /\ Handed'
    BY <2>6, Idles
  <2> QED
    BY <1>7, <2>4, <2>7, <2>8 DEF NInv
<1> QED
  BY <1>8, <1>9

-----------------------------------------------------------------------------
(* Garbage collection *)

LEMMA SwapsOn ==
    ASSUME IInv, NInv, todo # <<>>, Rank(Top) = 5, NEW f \in Frame, f.pc \in Swapping,
           todo' = <<f>> \o Tail(todo), Swap(f)', Spacious', Within'
    PROVE  NInv'
<1>1. Rank(Top) <= 5 /\ Rank(f) = Rank(Top)
  <2>1. Rank(f) = 5
    BY Ranks
  <2> QED
    BY <2>1
<1>2. Ladder(todo') /\ todo' # <<>> /\ Top' = f /\ Swaps(todo)' = {f}
  BY <1>1, LadderStay
<1>3. f.pc \notin Busy \cup Formats \cup {"init"}
  BY DEF Busy, Formats, MigPc, Setters, Swapping
<1>4. Layout'
  BY <1>2, <1>3, Arrange
<1>5. todo' # <<>> => Fits' /\ Handed'
  BY <1>2, <1>3, Idles
<1> QED
  BY <1>2, <1>4, <1>5 DEF NInv

(* The collection that runs.                                               *)
LEMMA Collecting ==
    ASSUME IInv, NInv, todo # <<>>, Top.pc \in Swapping
    PROVE  /\ Rank(Top) = 5 /\ Swap(Top) /\ Swaps(Tail(todo)) = {}
           /\ Ladder(Tail(todo))
<1>1. StackOK /\ Ladder(todo)
  BY DEF IInv, TInv, NInv
<1>2. Rank(Top) = 5
  BY Ranks
<1>3. Ladder(Tail(todo)) /\ Below(Tail(todo), Rank(Top))
  BY <1>1, LadderPop
<1>4. Below(Tail(todo), 5) /\ 5 \in Int /\ 5 <= 5
  BY <1>2, <1>3
<1>5. Swaps(Tail(todo)) = {}
  BY <1>4, NoSwaps
<1>6. Top \in Swaps(todo)
  BY <1>1, SwapsTop
<1>7. Top.pc \notin Formats \cup {"init"}
  BY DEF Swapping, Formats
<1>8. Swap(Top)
  BY <1>6, <1>7, Arranged DEF NInv
<1> QED
  BY <1>2, <1>3, <1>5, <1>8

(* The GC sector is found.                                                 *)
LEMMA GcSector ==
    ASSUME Steady
    PROVE  \E g \in Sector : /\ Reserve(g) /\ \A x \in Sector : x # g => Data(x)
                             /\ FindSectorRole(GC) = g
<1>1. PICK g \in Sector : Reserve(g) /\ \A x \in Sector : x # g => Data(x)
  BY DEF Steady
<1>2. \A x \in Sector : attr[x].role = IF x = g THEN GC ELSE DATA
  BY <1>1 DEF Steady, Sane, Reserve, Data
<1>3. {x \in Sector : attr[x].role = GC} = {g}
  BY <1>2, RoleNumbers
<1>4. Min({g}) = g
  BY <1>1, Ranges DEF Min
<1>5. FindSectorRole(GC) = g
  BY <1>3, <1>4, Zenon DEF FindSectorRole
<1> QED
  BY <1>1, <1>5

LEMMA GcSteady ==
    ASSUME IInv, NInv, At("gc") \/ At("gc_find")
    PROVE  Steady /\ IsNormal
<1>1. Top.pc \in {"gc", "gc_find"} /\ Rank(Top) = 5
  BY Ranks DEF At
<1>2. Rank(Top) <= 5 /\ Top.pc \notin Formats \cup {"init"} \cup Swapping
  BY <1>1 DEF Formats, Swapping
<1> QED
  BY <1>2, NowSteady, SteadyIsNormal

(* The sector after the GC sector is another.                              *)
LEMMA GcFindUncut == IInv /\ NInv /\ GcFind => NInv'
<1> SUFFICES ASSUME IInv, NInv, GcFind PROVE NInv'
  OBVIOUS
<1>1. /\ At("gc_find") /\ todo # <<>> /\ Top.pc = "gc_find" /\ Top \in Frame /\ FlashOK /\ DescOK
      /\ UNCHANGED <<slot, used, kv, ret>>
  BY Running DEF GcFind
<1>2. Rank(Top) = 5
  BY <1>1, Ranks
<1>3. Steady
  BY <1>1, GcSteady
<1>4. PICK g \in Sector : /\ Reserve(g) /\ \A x \in Sector : x # g => Data(x)
                         /\ FindSectorRole(GC) = g
  BY <1>3, GcSector
<1>5. PICK t \in Sector : t = (g + 1) % NumSectors /\ t # g
  BY Sizes DEF Sector
<1>6. PICK f \in Frame : f = [Top EXCEPT !.pc = "gc_gcing", !.s = g, !.t = t]
  BY <1>1 DEF Frame, Pc
<1>7. f.pc = "gc_gcing" /\ f.pc \in Swapping /\ f.s = g /\ f.t = t
  BY <1>1, <1>6 DEF Frame, Swapping
<1>8. /\ hdr' = SetSectorRole(hdr, g, GC_TEMP)
      /\ attr' = [attr EXCEPT ![g].role = GC_TEMP]
      /\ todo' = <<f>> \o Tail(todo)
  <2>1. ~(g < 0)
    BY Ranges
  <2> QED
    BY <1>4, <1>5, <1>6, <2>1, Zenon DEF GcFind, Stay
<1>9. /\ \A x \in Sector : hdr'[x].magic = hdr[x].magic /\ (x # g => RoleOf(x)' = RoleOf(x))
       /\ RoleOf(g)' = GC_TEMP
  BY <1>1, <1>4, <1>8, RoleHeader, RoleNumbers DEF Reserve
<1>10. \A x \in Sector : attr'[x].role = IF x = g THEN GC_TEMP ELSE attr[x].role
  <2>1. DescOK /\ attr' = [attr EXCEPT ![g].role = GC_TEMP]
    BY <1>1, <1>8
  <2> QED
    BY <2>1, AttrRole
<1>11. Swap(f)'
  <2>1. \A x \in Sector : x # g => Data(x)'
    BY <1>4, <1>9 DEF Data
  <2>2. \A x \in Sector : Sane(x)'
    BY <1>3, <1>9, <1>10 DEF Steady, Sane
  <2>3. Empty(g)' /\ hdr'[g].magic
    BY <1>1, <1>4, <1>9 DEF Reserve, Empty
  <2> QED
    BY <1>5, <1>7, <1>9, <2>1, <2>2, <2>3 DEF Swap
<1>12. Spacious' /\ Within'
  BY <1>1, SameKv, Resting
<1> QED
  BY <1>1, <1>2, <1>7, <1>8, <1>11, <1>12, SwapsOn

(* The migration starts with an empty target.                              *)
LEMMA GcMigrateUncut == IInv /\ NInv /\ GcMigrate => NInv'
<1> SUFFICES ASSUME IInv, NInv, GcMigrate PROVE NInv'
  OBVIOUS
<1>1. /\ At("gc_gcing") /\ todo # <<>> /\ Top.pc = "gc_gcing" /\ Top \in Frame /\ FlashOK /\ DescOK
      /\ StackOK /\ UNCHANGED <<slot, used, kv, ret>> /\ Top.pc \in Swapping
  BY Running DEF GcMigrate, Swapping
<1>2. PICK s \in Sector, t \in Sector : s = Top.s /\ t = Top.t
  BY <1>1 DEF Frame
<1>3. PICK f \in Frame : f = [Top EXCEPT !.pc = "gc_erase"]
  BY <1>1 DEF Frame, Pc
<1>4. f.pc = "gc_erase" /\ f.s = s /\ f.t = t
  BY <1>1, <1>2, <1>3 DEF Frame
<1>5. PICK m \in Frame : m = MigrateFrame(t, s)
  BY MigrateFrameType, QuietIsFrame
<1>6. m.pc = "mig_enter" /\ m.t = s /\ m.i = 0
  BY <1>5 DEF MigrateFrame, Call0
<1>7. /\ hdr' = SetSectorRole(hdr, t, DATA_GCING)
      /\ attr' = [attr EXCEPT ![t].role = DATA_GCING]
      /\ todo' = <<m, f>> \o Tail(todo)
  BY <1>2, <1>3, <1>5 DEF GcMigrate, Call
<1>8. Swap(Top) /\ Rank(Top) = 5 /\ Swaps(Tail(todo)) = {} /\ Ladder(Tail(todo))
  BY <1>1, Collecting
<1>9. /\ s # t /\ hdr[s].magic /\ RoleOf(s) = GC_TEMP /\ Data(t) /\ Empty(s)
      /\ \A x \in Sector : x # s /\ x # t => Data(x)
      /\ \A x \in Sector : Sane(x)
  BY <1>1, <1>2, <1>8 DEF Swap
<1>10. /\ \A x \in Sector : hdr'[x].magic = hdr[x].magic /\ (x # t => RoleOf(x)' = RoleOf(x))
       /\ RoleOf(t)' = DATA_GCING
  BY <1>1, <1>7, <1>9, RoleHeader, RoleNumbers DEF Data
<1>11. \A x \in Sector : attr'[x].role = IF x = t THEN DATA_GCING ELSE attr[x].role
  <2>1. DescOK /\ attr' = [attr EXCEPT ![t].role = DATA_GCING]
    BY <1>1, <1>7
  <2> QED
    BY <2>1, AttrRole
<1>12. Swap(f)'
  <2>1. \A x \in Sector : x # s /\ x # t => Data(x)'
    BY <1>9, <1>10 DEF Data
  <2>2. \A x \in Sector : Sane(x)'
    BY <1>9, <1>10, <1>11 DEF Sane
  <2> QED
    BY <1>4, <1>9, <1>10, <2>1, <2>2 DEF Swap
<1>13. Ladder(todo') /\ Swaps(todo)' = {f} /\ todo' # <<>> /\ Top' = m
  <2>1. PICK q \in Seq(Frame) : q = Tail(todo)
    BY <1>1, Stack
  <2>2. Rank(f) = 5 /\ Rank(m) = 6 /\ f.pc \in Swapping /\ m.pc \notin Swapping
    BY <1>4, <1>6, Ranks DEF Swapping, MigPc
  <2>3. Below(q, Rank(f)) /\ Ladder(q) /\ Swaps(q) = {}
    BY <1>1, <1>8, <2>1, <2>2, LadderPop DEF NInv
  <2>4. Ladder(<<f>> \o q) /\ Below(<<f>> \o q, Rank(f) + 1) /\ Swaps(<<f>> \o q) = {f}
    BY <2>2, <2>3, LadderPush, SwapsPush
  <2>5. PICK p \in Seq(Frame) : p = <<f>> \o q
    BY TwoFrames
  <2>6. Below(p, Rank(m))
    BY <2>2, <2>4, <2>5, RaiseTo
  <2>7. Ladder(<<m>> \o p) /\ Swaps(<<m>> \o p) = {f}
    <3>1. Ladder(p) /\ Swaps(p) = {f} /\ Rank(m) < 8
      BY <2>2, <2>4, <2>5
    <3>2. Ladder(<<m>> \o p)
      BY <2>6, <3>1, LadderPush
    <3> QED
      BY <2>2, <3>1, <3>2, SwapsPush
  <2>8. todo' = <<m>> \o p
    BY <1>7, <2>1, <2>5, TwoFrames
  <2>9. todo' # <<>> /\ Top' = m
    BY <2>8, NewTop
  <2> QED
    BY <2>7, <2>8, <2>9
<1>14. Layout'
  BY <1>6, <1>12, <1>13, Arrange DEF Formats
<1>15. Fits' /\ Handed'
  <2>1. used'[m.t] <= m.i /\ RoleOf(m.t)' # GC
    BY <1>1, <1>6, <1>9, <1>10, RoleNumbers DEF Empty
  <2> QED
    BY <1>6, <1>13, <2>1 DEF Fits, Handed, Awaiting, Movers
<1>16. Spacious' /\ Within'
  BY <1>1, SameKv, Resting
<1> QED
  BY <1>13, <1>14, <1>15, <1>16 DEF NInv

LEMMA GcEraseUncut == IInv /\ NInv /\ GcErase => NInv'
<1> SUFFICES ASSUME IInv, NInv, GcErase PROVE NInv'
  OBVIOUS
<1>1. /\ At("gc_erase") /\ todo # <<>> /\ Top.pc = "gc_erase" /\ Top \in Frame /\ FlashOK /\ DescOK
      /\ UNCHANGED <<kv, ret>> /\ Top.pc \in Swapping
  BY Running DEF GcErase, Swapping
<1>2. PICK s \in Sector, t \in Sector : s = Top.s /\ t = Top.t
  BY <1>1 DEF Frame
<1>3. PICK f \in Frame : f = [Top EXCEPT !.pc = "gc_role"]
  BY <1>1 DEF Frame, Pc
<1>4. f.pc = "gc_role" /\ f.s = s /\ f.t = t /\ f.pc \in Swapping
  BY <1>1, <1>2, <1>3 DEF Frame, Swapping
<1>5. EraseSector(t) /\ todo' = <<f>> \o Tail(todo)
  BY <1>2, <1>3 DEF GcErase, Goto, Stay
<1>6. Swap(Top) /\ Rank(Top) = 5
  BY <1>1, Collecting
<1>7. /\ s # t /\ hdr[s].magic /\ RoleOf(s) = GC_TEMP
      /\ \A x \in Sector : x # s /\ x # t => Data(x)
      /\ \A x \in Sector : Sane(x)
  BY <1>1, <1>2, <1>6 DEF Swap
<1>8. /\ \A x \in Sector \ {t} : hdr'[x] = hdr[x] /\ RoleOf(x)' = RoleOf(x)
      /\ hdr'[t].words = {} /\ Empty(t)'
      /\ \A x \in Sector : attr'[x].role = attr[x].role
  BY <1>1, <1>5, ErasedHeader
<1>9. Swap(f)'
  <2>1. \A x \in Sector : x # s /\ x # t => Data(x)'
    BY <1>7, <1>8 DEF Data
  <2>2. \A x \in Sector : x # t => Sane(x)'
    BY <1>7, <1>8 DEF Sane
  <2> QED
    BY <1>4, <1>7, <1>8, <2>1, <2>2 DEF Swap
<1>10. Spacious' /\ Within'
  <2>1. ASSUME NEW x \in Sector PROVE used'[x] < Slots /\ slot'[x][Slots] = Erased
    <3>1. /\ \A j \in Slot : slot'[x][j] = IF x = t THEN Erased ELSE slot[x][j]
          /\ used'[x] = IF x = t THEN 0 ELSE used[x]
      BY <1>1, <1>5, EraseIs
    <3> QED
      BY <3>1, Sizes DEF NInv, Spacious, Slot
  <2> QED
    BY <1>1, <2>1 DEF Spacious, Within, Near, NInv
<1> QED
  BY <1>1, <1>4, <1>5, <1>6, <1>9, <1>10, SwapsOn

LEMMA GcRoleUncut == IInv /\ NInv /\ GcRole => NInv'
<1> SUFFICES ASSUME IInv, NInv, GcRole PROVE NInv'
  OBVIOUS
<1>1. /\ At("gc_role") /\ todo # <<>> /\ Top.pc = "gc_role" /\ Top \in Frame /\ FlashOK /\ DescOK
      /\ UNCHANGED <<slot, used, kv, ret>> /\ Top.pc \in Swapping
  BY Running DEF GcRole, Swapping
<1>2. PICK s \in Sector, t \in Sector : s = Top.s /\ t = Top.t
  BY <1>1 DEF Frame
<1>3. PICK f \in Frame : f = [Top EXCEPT !.pc = "gc_magic"]
  BY <1>1 DEF Frame, Pc
<1>4. f.pc = "gc_magic" /\ f.s = s /\ f.t = t /\ f.pc \in Swapping
  BY <1>1, <1>2, <1>3 DEF Frame, Swapping
<1>5. /\ hdr' = SetSectorRole(hdr, t, GC) /\ attr' = [attr EXCEPT ![t].role = GC]
      /\ todo' = <<f>> \o Tail(todo)
  BY <1>2, <1>3 DEF GcRole, Goto, Stay
<1>6. Swap(Top) /\ Rank(Top) = 5
  BY <1>1, Collecting
<1>7. /\ s # t /\ hdr[s].magic /\ RoleOf(s) = GC_TEMP /\ hdr[t].words = {} /\ Empty(t)
      /\ \A x \in Sector : x # s /\ x # t => Data(x)
      /\ \A x \in Sector : x # t => Sane(x)
  BY <1>1, <1>2, <1>6 DEF Swap
<1>8. /\ \A x \in Sector : hdr'[x].magic = hdr[x].magic /\ (x # t => RoleOf(x)' = RoleOf(x))
      /\ RoleOf(t)' = GC
  <2>1. RoleOf(t) = 0
    BY <1>7, RoleNumbers DEF RoleOf
  <2> QED
    BY <1>1, <1>5, <2>1, RoleHeader, RoleNumbers
<1>9. \A x \in Sector : attr'[x].role = IF x = t THEN GC ELSE attr[x].role
  <2>1. DescOK /\ attr' = [attr EXCEPT ![t].role = GC]
    BY <1>1, <1>5
  <2> QED
    BY <2>1, AttrRole
<1>10. Swap(f)'
  <2>1. \A x \in Sector : x # s /\ x # t => Data(x)'
    BY <1>7, <1>8 DEF Data
  <2>2. \A x \in Sector : Sane(x)'
    BY <1>7, <1>8, <1>9 DEF Sane
  <2>3. Empty(t)'
    BY <1>1, <1>7 DEF Empty
  <2> QED
    BY <1>4, <1>7, <1>8, <2>1, <2>2, <2>3 DEF Swap
<1>11. Spacious' /\ Within'
  BY <1>1, SameKv, Resting
<1> QED
  BY <1>1, <1>4, <1>5, <1>6, <1>10, <1>11, SwapsOn

LEMMA GcMagicUncut == IInv /\ NInv /\ GcMagic => NInv'
<1> SUFFICES ASSUME IInv, NInv, GcMagic PROVE NInv'
  OBVIOUS
<1>1. /\ At("gc_magic") /\ todo # <<>> /\ Top.pc = "gc_magic" /\ Top \in Frame /\ FlashOK /\ DescOK
      /\ UNCHANGED <<slot, attr, used, kv, ret>> /\ Top.pc \in Swapping
  BY Running DEF GcMagic, Swapping, desc
<1>2. PICK s \in Sector, t \in Sector : s = Top.s /\ t = Top.t
  BY <1>1 DEF Frame
<1>3. PICK f \in Frame : f = [Top EXCEPT !.pc = "gc_data"]
  BY <1>1 DEF Frame, Pc
<1>4. f.pc = "gc_data" /\ f.s = s /\ f.t = t /\ f.pc \in Swapping
  BY <1>1, <1>2, <1>3 DEF Frame, Swapping
<1>5. hdr' = SetMagic(hdr, t) /\ todo' = <<f>> \o Tail(todo)
  BY <1>2, <1>3 DEF GcMagic, Goto, Stay
<1>6. Swap(Top) /\ Rank(Top) = 5
  BY <1>1, Collecting
<1>7. /\ s # t /\ hdr[s].magic /\ RoleOf(s) = GC_TEMP /\ RoleOf(t) = GC /\ Empty(t)
      /\ \A x \in Sector : x # s /\ x # t => Data(x)
      /\ \A x \in Sector : Sane(x)
  BY <1>1, <1>2, <1>6 DEF Swap
<1>8. \A x \in Sector : (hdr'[x].magic <=> x = t \/ hdr[x].magic) /\ RoleOf(x)' = RoleOf(x)
  BY <1>1, <1>5, MagicHeader
<1>9. Swap(f)'
  <2>1. \A x \in Sector : x # s /\ x # t => Data(x)'
    BY <1>7, <1>8 DEF Data
  <2>2. \A x \in Sector : Sane(x)'
    BY <1>1, <1>7, <1>8 DEF Sane
  <2>3. Empty(t)'
    BY <1>1, <1>7 DEF Empty
  <2> QED
    BY <1>4, <1>7, <1>8, <2>1, <2>2, <2>3 DEF Swap
<1>10. Spacious' /\ Within'
  BY <1>1, SameKv, Resting
<1> QED
  BY <1>1, <1>4, <1>5, <1>6, <1>9, <1>10, SwapsOn

(* The collected sector is the GC sector, and the former one holds data.   *)
LEMMA GcDataUncut == IInv /\ NInv /\ GcData => NInv'
<1> SUFFICES ASSUME IInv, NInv, GcData PROVE NInv'
  OBVIOUS
<1>1. /\ At("gc_data") /\ todo # <<>> /\ Top.pc = "gc_data" /\ Top \in Frame /\ FlashOK /\ DescOK
      /\ StackOK /\ Chain(todo) /\ UNCHANGED <<slot, kv, ret>> /\ Top.pc \in Swapping
  BY Running DEF GcData, Swapping
<1>2. PICK s \in Sector, t \in Sector : s = Top.s /\ t = Top.t
  BY <1>1 DEF Frame
<1>3. /\ hdr' = SetSectorRole(hdr, s, DATA) /\ attr' = [attr EXCEPT ![s].role = DATA]
      /\ used' = [used EXCEPT ![t] = 0] /\ todo' = Tail(todo)
  BY <1>2 DEF GcData, Return
<1>4. Swap(Top) /\ Swaps(Tail(todo)) = {} /\ Ladder(Tail(todo))
  BY <1>1, Collecting
<1>5. /\ s # t /\ hdr[s].magic /\ RoleOf(s) = GC_TEMP /\ RoleOf(t) = GC /\ Empty(t) /\ hdr[t].magic
      /\ \A x \in Sector : x # s /\ x # t => Data(x)
      /\ \A x \in Sector : Sane(x)
  BY <1>1, <1>2, <1>4 DEF Swap
<1>6. /\ \A x \in Sector : hdr'[x].magic = hdr[x].magic /\ (x # s => RoleOf(x)' = RoleOf(x))
      /\ RoleOf(s)' = DATA
  BY <1>1, <1>3, <1>5, RoleHeader, RoleNumbers
<1>7. \A x \in Sector : attr'[x].role = IF x = s THEN DATA ELSE attr[x].role
  <2>1. DescOK /\ attr' = [attr EXCEPT ![s].role = DATA]
    BY <1>1, <1>3
  <2> QED
    BY <2>1, AttrRole
<1>8. \A x \in Sector : used'[x] = IF x = t THEN 0 ELSE used[x]
  BY <1>1, <1>3 DEF DescOK
<1>9. Steady'
  <2>1. \A x \in Sector : x # t => Data(x)'
    BY <1>5, <1>6 DEF Data
  <2>2. \A x \in Sector : Sane(x)'
    BY <1>5, <1>6, <1>7 DEF Sane
  <2>3. Reserve(t)'
    BY <1>1, <1>5, <1>6, <1>8 DEF Reserve, Empty
  <2> QED
    BY <2>1, <2>2, <2>3 DEF Steady
<1>10. Spacious' /\ Within'
  BY <1>1, <1>8, Sizes DEF NInv, Spacious, Within, Near
<1>11. todo' # <<>> => Top'.pc \in Plain \cap Suspended
  BY <1>1, <1>3, PopPlain DEF Rooted, MigPc, Writer
<1>12. todo' # <<>> => Top'.pc \notin Busy \cup Formats \cup {"init"}
  BY <1>11 DEF Busy, Formats, Plain, MigPc, Setters
<1>13. Swaps(todo)' = {} /\ Ladder(todo')
  BY <1>3, <1>4
<1>14. Layout'
  BY <1>9, <1>12, <1>13, Arrange
<1>15. todo' # <<>> => Fits' /\ Handed'
  BY <1>12, Idles
<1> QED
  BY <1>10, <1>13, <1>14, <1>15 DEF NInv

-----------------------------------------------------------------------------
(* The invariant holds *)

LEMMA InitUncut == Init => NInv
<1> SUFFICES ASSUME Init PROVE NInv
  OBVIOUS
<1>1. PICK f \in Frame : f = Call0("init") /\ f.pc = "init"
  BY Frames DEF Pc
<1>2. /\ todo = <<f>> /\ Head(<<f>>) = f /\ <<f>> # <<>>
      /\ \A x \in Sector : used[x] = 0 /\ ~hdr[x].magic /\ \A j \in Slot : slot[x][j] = Erased
      /\ \A k \in Key : kv[k].addr = NoAddr /\ ~kv[k].stored
      /\ ret = NoAddr
  BY <1>1 DEF Init, ResetUsed, ResetKv
<1>3. Top = f /\ Top.pc = "init"
  BY <1>1, <1>2 DEF Top
<1>4. Ladder(todo)
  <2>1. <<>> \in Seq(Frame) /\ <<f>> \o <<>> = <<f>>
    OBVIOUS
  <2>2. Rank(f) < 8 /\ Below(<<>>, Rank(f)) /\ Ladder(<<>>)
    BY <1>1, LadderEmpty, Ranks DEF Roots
  <2>3. Ladder(<<f>> \o <<>>)
    BY <2>1, <2>2, LadderPush
  <2> QED
    BY <1>2, <2>1, <2>3
<1>5. Layout
  BY <1>2, <1>3 DEF Layout, At, Empty
<1>6. Spacious
  BY <1>2, Sizes DEF Spacious, Slot
<1>7. Within
  BY <1>2 DEF Within, Near
<1>8. Fits /\ Handed
  BY <1>3 DEF Fits, Handed, MigPc, Awaiting, Movers
<1> QED
  BY <1>4, <1>5, <1>6, <1>7, <1>8 DEF NInv

LEMMA StutterUncut == NInv /\ UNCHANGED vars => NInv'
<1> SUFFICES ASSUME NInv, UNCHANGED vars PROVE NInv'
  OBVIOUS
<1>1. UNCHANGED <<hdr, slot, attr, used, kv, todo, ret>>
  BY DEF vars
<1>2. \A x \in Sector : RoleOf(x)' = RoleOf(x) /\ (Sane(x)' <=> Sane(x)) /\ (Data(x)' <=> Data(x))
                         /\ (Empty(x)' <=> Empty(x)) /\ (Reserve(x)' <=> Reserve(x))
  BY <1>1 DEF Sane, RoleOf, Data, Empty, Reserve
<1>3. \A f : (Format(f) => Format(f)') /\ (Swap(f) => Swap(f)')
  BY <1>1 DEF Format, Swap, Final, Sane, RoleOf, Data, Empty
<1>4. Steady => Steady'
  BY <1>2 DEF Steady
<1>5. Top' = Top /\ Waits' = Waits /\ Swaps(todo)' = Swaps(todo)
  BY <1>1 DEF Top, Waits
<1>6. Layout'
  BY <1>1, <1>2, <1>3, <1>4, <1>5 DEF NInv, Layout, At
<1>7. Spacious' /\ Within' /\ Ladder(todo')
  BY <1>1 DEF NInv, Spacious, Within, Near
<1>8. todo' # <<>> => Fits' /\ Handed'
  BY <1>1, <1>5 DEF NInv, Fits, Handed, RoleOf
<1> QED
  BY <1>6, <1>7, <1>8 DEF NInv

LEMMA StepUncut == IInv /\ NInv /\ Step => NInv'
<1> SUFFICES ASSUME IInv, NInv, Step PROVE NInv'
  OBVIOUS
<1>1. CASE InitClassify \/ InitDone \/ LoadSector
  BY <1>1, InitClassifyUncut, InitDoneUncut, LoadSectorUncut
<1>2. CASE FormatErase \/ FormatRole \/ FormatMagic
  BY <1>2, FormatEraseUncut, FormatRoleUncut, FormatMagicUncut
<1>3. CASE Defaults \/ DefaultsCommit \/ Put \/ WriteRecord \/ WriteSectorStatus
  BY <1>3, DefaultsUncut, DefaultsCommitUncut, PutUncut, WriteRecordUncut, WriteSectorStatusUncut
<1>4. CASE MigrateEnter \/ Migrate \/ MigratePreDelete \/ MigrateCommit \/ MigrateDeleted
  BY <1>4, MigrateEnterUncut, MigrateUncut, MigratePreDeleteUncut, MigrateCommitUncut,
     MigrateDeletedUncut
<1>5. CASE RebuildStart \/ RebuildRound \/ RebuildErase \/ RebuildMagic \/ RebuildRole
  BY <1>5, NoRecovery
<1>6. CASE GcStart \/ GcFind \/ GcMigrate \/ GcErase \/ GcRole \/ GcMagic \/ GcData
  BY <1>6, GcStartUncut, GcFindUncut, GcMigrateUncut, GcEraseUncut, GcRoleUncut, GcMagicUncut,
     GcDataUncut
<1>7. CASE SetPreDelete \/ SetCommit \/ SetDeleted
  BY <1>7, SetPreDeleteUncut, SetCommitUncut, SetDeletedUncut
<1> QED
  BY <1>1, <1>2, <1>3, <1>4, <1>5, <1>6, <1>7 DEF Step

LEMMA NextUncut == IInv /\ NInv /\ [Next]_vars => NInv' \/ PowerCut
BY StepUncut, UpdateUncut, CollectUncut, DeleteUncut, StutterUncut DEF Next

(* At most one default is being written: the recoveries on the stack have  *)
(* different ranks.                                                        *)
LEMMA NotReentered == IInv /\ NInv => RecoveryNotReentered
<1> SUFFICES ASSUME IInv, NInv PROVE RecoveryNotReentered
  OBVIOUS
<1> DEFINE S == {j \in 1..Len(todo) : todo[j].pc = "defaults_commit"}
<1>1. \A i, j \in S : i = j
  <2> SUFFICES ASSUME NEW i \in S, NEW j \in S, i < j PROVE FALSE
    BY DEF IInv, TInv, StackOK
  <2>1. Rank(todo[i]) = 2 /\ Rank(todo[j]) = 2
    BY Ranks DEF Lower, Fillers
  <2>2. Rank(todo[i]) > Rank(todo[j])
    BY DEF NInv, Ladder
  <2> QED
    BY <2>1, <2>2
<1>2. Cardinality(S) <= 1
  <2>1. CASE S = {}
    BY <2>1, FS_EmptySet
  <2>2. CASE S # {}
    <3>1. PICK j : S = {j}
      BY <1>1, <2>2
    <3>2. Cardinality({j}) = 1
      BY FS_Singleton
    <3> HIDE DEF S
    <3> QED
      BY <3>1, <3>2
  <2> QED
    BY <2>1, <2>2
<1> QED
  BY <1>2 DEF RecoveryNotReentered, Recoveries

(* The crash counter never falls.                                          *)
LEMMA CrashesGrow ==
    ASSUME IInv, [Next]_vars
    PROVE  IF PowerCut THEN crashes' # 0 ELSE crashes' = crashes
<1>1. PowerCut => crashes' = crashes + 1 /\ crashes \in Nat
  BY Sizes DEF PowerCut, IInv, TInv, RestOK
<1>2. Step => crashes' = crashes
  BY DEF Step, InitClassify, InitDone, LoadSector, FormatErase, FormatRole, FormatMagic, Defaults,
     DefaultsCommit, Put, WriteRecord, WriteSectorStatus, MigrateEnter, Migrate, MigratePreDelete,
     MigrateCommit, MigrateDeleted, RebuildStart, RebuildRound, RebuildErase, RebuildMagic,
     RebuildRole, GcStart, GcFind, GcMigrate, GcErase, GcRole, GcMagic, GcData, SetPreDelete,
     SetCommit, SetDeleted
<1>3. Update \/ Collect \/ (\E k \in Key : Delete(k)) \/ UNCHANGED vars => crashes' = crashes
  BY DEF Update, Get, Set, Collect, Delete, vars
<1>4. PowerCut => crashes' # 0
  BY <1>1
<1> QED
  BY <1>2, <1>3, <1>4 DEF Next

UncutInv == crashes = 0 => NInv /\ UInv /\ VInv

LEMMA InitUncutInv == Init => UncutInv
BY InitUncut, InitLive, InitVal DEF UncutInv

LEMMA NextUncutInv == IInv /\ Headers /\ UncutInv /\ [Next]_vars => UncutInv'
<1> SUFFICES ASSUME IInv, Headers, UncutInv, [Next]_vars, crashes' = 0
             PROVE  NInv' /\ UInv' /\ VInv'
  BY DEF UncutInv
<1>1. ~PowerCut /\ crashes = 0
  BY CrashesGrow
<1>2. NInv /\ UInv /\ VInv
  BY <1>1 DEF UncutInv
<1> QED
  BY <1>1, <1>2, NextUncut, NotReentered, NextLive, NextVal

LEMMA AlwaysUncut == Spec => [](IInv /\ Headers /\ UncutInv)
BY AlwaysHeaders, InitUncutInv, NextUncutInv, PTL DEF Spec

-----------------------------------------------------------------------------
(* What it shows *)

(* As long as the power has never failed every call leaves exactly one GC  *)
(* sector and only data sectors besides: a collection always completes.    *)
THEOREM OneGcSector == Spec => []StaysNormal
<1>1. IInv /\ UncutInv => StaysNormal
  <2> SUFFICES ASSUME IInv, NInv, Ready PROVE IsNormal /\ CountRole(DATA) = NumSectors - 1
    BY DEF UncutInv, StaysNormal
  <2>1. Steady
    BY NowSteady DEF Ready
  <2> QED
    BY <2>1, SteadyIsNormal
<1> QED
  BY <1>1, AlwaysUncut, PTL

(* Until then recovery is not entered twice, for it is not entered at all. *)
THEOREM RecoveredOnce == Spec => [](crashes = 0 => RecoveryNotReentered)
<1>1. IInv /\ UncutInv => (crashes = 0 => RecoveryNotReentered)
  BY NotReentered DEF UncutInv
<1> QED
  BY <1>1, AlwaysUncut, PTL

(* Until then a record is only ever programmed into an erased slot of its  *)
(* sector, and that is never the last one.                                 *)
THEOREM UncutWrites == Spec => [](crashes = 0 => WritesHitErasedSlots)
<1>1. IInv /\ UncutInv => (crashes = 0 => WritesHitErasedSlots)
  <2> SUFFICES ASSUME IInv, NInv, At("append")
               PROVE  used[Top.s] < Slots /\ slot[Top.s][used[Top.s] + 1] = Erased
    BY DEF UncutInv, WritesHitErasedSlots
  <2>1. todo # <<>> /\ Top.pc = "append" /\ Top \in Frame /\ DescOK
    BY Running
  <2>2. PICK s \in Sector : s = Top.s
    BY <2>1 DEF Frame
  <2>3. used[s] \in Nat /\ used[s] < Slots - 1
    BY <2>1, <2>2, Sizes DEF NInv, Fits, DescOK
  <2>4. Filled(s)
    BY <2>1, AllKnown DEF Starting, IInv, SInv, Order
  <2>5. used[s] + 1 \in Visible /\ ~(used[s] + 1 <= used[s])
    BY <2>3, Sizes DEF Visible
  <2> QED
    BY <2>2, <2>3, <2>4, <2>5, Sizes DEF Filled
<1> QED
  BY <1>1, AlwaysUncut, PTL

(* The records of a key are then all ones that a scan can see.             *)
LEMMA LiveAreSeen ==
    ASSUME NInv, NEW k
    PROVE  LiveAt(k) \subseteq Seen
<1> SUFFICES ASSUME NEW a \in LiveAt(k) PROVE a \in Seen
  OBVIOUS
<1>1. a \in Addr /\ IsLive(SlotAt(a)) /\ a[1] \in Sector /\ a[2] \in Slot /\ a = <<a[1], a[2]>>
  BY SeenIs DEF LiveAt
<1>2. a[2] # Slots
  BY <1>1, Statuses DEF NInv, Spacious, SlotAt
<1>3. a[2] \in Visible
  BY <1>1, <1>2, Sizes DEF Slot, Visible
<1> QED
  BY <1>1, <1>3, SeenIs

(* Until then a key never has two live records, wherever they are.         *)
THEOREM UncutOneLive == Spec => [](crashes = 0 => AtMostOneLive)
<1>1. UncutInv => (crashes = 0 => AtMostOneLive)
  <2> SUFFICES ASSUME NInv, UInv, NEW k \in Key PROVE Cardinality(LiveAt(k)) <= 1
    BY DEF UncutInv, AtMostOneLive
  <2>1. \A a, b \in LiveAt(k) : a = b
    BY LiveAreSeen DEF UInv, Single, LiveAt, LiveOfKey
  <2> DEFINE L == LiveAt(k)
  <2>2. CASE L = {}
    BY <2>2, FS_EmptySet
  <2>3. CASE L # {}
    <3>1. PICK a : L = {a}
      BY <2>1, <2>3
    <3>2. Cardinality({a}) = 1
      BY FS_Singleton
    <3> QED
      BY <3>1, <3>2
  <2> QED
    BY <2>2, <2>3
<1> QED
  BY <1>1, AlwaysUncut, PTL

(* Until then the index is exact between calls, for the whole of the       *)
(* flash: a key that is stored has its only live record at its address,    *)
(* with its value, and any other key has none.                             *)
THEOREM UncutIndex == Spec => [](crashes = 0 => IndexMatchesFlash)
<1>1. IInv /\ UncutInv => (crashes = 0 => IndexMatchesFlash)
  <2> SUFFICES ASSUME IInv, NInv, UInv, VInv, Ready, NEW k \in Key
               PROVE  IF kv[k].stored
                      THEN LiveAt(k) = {kv[k].addr} /\ FlashVal(k) = kv[k].val
                      ELSE LiveAt(k) = {} /\ kv[k].addr = NoAddr
    BY DEF UncutInv, IndexMatchesFlash
  <2>1. ~Moving(k)
    BY DEF Moving, Ready
  <2>2. \A a \in LiveAt(k) : a \in Seen /\ kv[k].addr = a
    <3>1. \A a \in LiveAt(k) : a \in Seen /\ LiveOfKey(a, k)
      BY LiveAreSeen DEF LiveAt, LiveOfKey
    <3> QED
      BY <3>1, Found DEF Ready
  <2>3. CASE kv[k].stored
    <3>1. kv[k].addr \in Seen
      BY <2>3 DEF NInv, Within, Near
    <3>2. kv[k].addr \in LiveAt(k)
      BY <2>1, <3>1, SeenIs DEF IInv, SInv, Index, LiveAt
    <3>3. FlashVal(k) = kv[k].val
      BY <2>1, <3>1 DEF VInv, Values, Holds, FlashVal, SlotAt
    <3> QED
      BY <2>2, <2>3, <3>2, <3>3
  <2>4. CASE ~kv[k].stored
    <3>1. kv[k].addr = NoAddr
      BY <2>4 DEF UInv, Stored
    <3>2. LiveAt(k) = {}
      BY <2>2, <3>1, SeenIs
    <3> QED
      BY <2>4, <3>1, <3>2
  <2> QED
    BY <2>3, <2>4
<1> QED
  BY <1>1, AlwaysUncut, PTL

(* Without power cuts no live record is erased, in whatever slot it is.    *)
THEOREM UncutErasures == Spec /\ [](crashes = 0) => NeverEraseLive
<1>1. IInv /\ UncutInv /\ crashes = 0
        /\ [\A a \in Seen : IsLive(SlotAt(a)) => SlotAt(a)' # Erased]_vars
        => [\A a \in Addr : IsLive(SlotAt(a)) => SlotAt(a)' # Erased]_vars
  <2> SUFFICES ASSUME NInv, \A a \in Seen : IsLive(SlotAt(a)) => SlotAt(a)' # Erased,
                      NEW a \in Addr, IsLive(SlotAt(a))
               PROVE  SlotAt(a)' # Erased
    BY DEF UncutInv
  <2>1. a[2] \in Slot /\ a[1] \in Sector /\ a = <<a[1], a[2]>>
    BY SeenIs
  <2>2. a[2] # Slots
    BY <2>1, Statuses DEF NInv, Spacious, SlotAt
  <2>3. a \in Seen
    BY <2>1, <2>2, SeenIs, Sizes DEF Slot, Visible
  <2> QED
    BY <2>3
<1> QED
  BY <1>1, AlwaysUncut, NothingSeenErased, PTL DEF NeverEraseSeen, NeverEraseLive

-----------------------------------------------------------------------------
(* No function fails                                                       *)
(*                                                                         *)
(* With a client that never deletes every key is stored once its default   *)
(* value has been written, and a start-up writes the defaults in order.    *)

Storing  == Fillers \cup {"init"}
Stores(q) == {q[n] : n \in {m \in 1..Len(q) : q[m].pc \in Storing}}
Loading(f) ==
    /\ f.pc = "defaults" => \A k \in Key : k <= f.i => kv[k].stored
    /\ f.pc = "defaults_commit" => f.key = f.i /\ \A k \in Key : k < f.i => kv[k].stored
Loaded ==
    /\ \A f \in Stores(todo) : Loading(f)
    /\ Stores(todo) = {} => \A k \in Key : kv[k].stored

LInv == Loaded /\ NeverFails

LEMMA StoresEmpty == Stores(<<>>) = {}
BY DEF Stores

LEMMA StoresPush ==
    ASSUME NEW q \in Seq(Frame), NEW f
    PROVE  Stores(<<f>> \o q) = Stores(q) \cup (IF f.pc \in Storing THEN {f} ELSE {})
<1> DEFINE c == <<f>> \o q
           S == Frame \cup {f}
<1>1. q \in Seq(S) /\ <<f>> \in Seq(S) /\ Len(<<f>>) = 1 /\ <<f>>[1] = f
  OBVIOUS
<1> HIDE DEF S
<1>2. /\ Len(c) = Len(q) + 1 /\ Len(q) \in Nat /\ c[1] = f /\ 1 \in 1..Len(c)
      /\ \A n \in 2..Len(c) : c[n] = q[n - 1] /\ n - 1 \in 1..Len(q)
      /\ \A n \in 1..Len(q) : c[n + 1] = q[n] /\ n + 1 \in 1..Len(c)
  BY <1>1
<1>3. \A n \in 1..Len(c) : n = 1 \/ n \in 2..Len(c)
  BY <1>2
<1> HIDE DEF c
<1>4. \A g : g \in Stores(c) <=> \E n \in 1..Len(c) : c[n].pc \in Storing /\ g = c[n]
  BY DEF Stores
<1>5. \A g : g \in Stores(q) <=> \E n \in 1..Len(q) : q[n].pc \in Storing /\ g = q[n]
  BY DEF Stores
<1>6. \A g : g \in Stores(c) <=> g \in Stores(q) \/ (g = f /\ f.pc \in Storing)
  BY <1>2, <1>3, <1>4, <1>5
<1> QED
  BY <1>6 DEF c

LEMMA StoresCall ==
    ASSUME NEW q \in Seq(Frame), NEW f, NEW g
    PROVE  Stores(<<g, f>> \o q) = Stores(q) \cup {h \in {f, g} : h.pc \in Storing}
<1> DEFINE c == <<g, f>> \o q
           S == Frame \cup {f, g}
<1>1. q \in Seq(S) /\ <<g, f>> \in Seq(S) /\ Len(<<g, f>>) = 2 /\ <<g, f>>[1] = g /\ <<g, f>>[2] = f
  OBVIOUS
<1> HIDE DEF S
<1>2. /\ Len(c) = Len(q) + 2 /\ Len(q) \in Nat /\ c[1] = g /\ c[2] = f
      /\ 1 \in 1..Len(c) /\ 2 \in 1..Len(c)
      /\ \A n \in 3..Len(c) : c[n] = q[n - 2] /\ n - 2 \in 1..Len(q)
      /\ \A n \in 1..Len(q) : c[n + 2] = q[n] /\ n + 2 \in 1..Len(c)
  BY <1>1
<1>3. \A n \in 1..Len(c) : n = 1 \/ n = 2 \/ n \in 3..Len(c)
  BY <1>2
<1> HIDE DEF c
<1>4. \A h : h \in Stores(c) <=> \E n \in 1..Len(c) : c[n].pc \in Storing /\ h = c[n]
  BY DEF Stores
<1>5. \A h : h \in Stores(q) <=> \E n \in 1..Len(q) : q[n].pc \in Storing /\ h = q[n]
  BY DEF Stores
<1>6. ASSUME NEW h \in Stores(c) PROVE h \in Stores(q) \/ (h \in {f, g} /\ h.pc \in Storing)
  <2>1. PICK n \in 1..Len(c) : c[n].pc \in Storing /\ h = c[n]
    BY <1>4
  <2>2. CASE n = 1 \/ n = 2
    BY <1>2, <2>1, <2>2
  <2>3. CASE n \in 3..Len(c)
    <3>1. c[n] = q[n - 2] /\ n - 2 \in 1..Len(q)
      BY <1>2, <2>3
    <3> QED
      BY <1>5, <2>1, <3>1
  <2> QED
    BY <1>3, <2>2, <2>3
<1>7. ASSUME NEW h \in Stores(q) PROVE h \in Stores(c)
  <2>1. PICK n \in 1..Len(q) : q[n].pc \in Storing /\ h = q[n]
    BY <1>5
  <2>2. c[n + 2] = q[n] /\ n + 2 \in 1..Len(c)
    BY <1>2
  <2> QED
    BY <1>4, <2>1, <2>2
<1>8. \A h \in {f, g} : h.pc \in Storing => h \in Stores(c)
  BY <1>2, <1>4
<1> QED
  BY <1>6, <1>7, <1>8 DEF c

LEMMA StoresTop ==
    ASSUME StackOK, todo # <<>>
    PROVE  Stores(todo) = Stores(Tail(todo)) \cup (IF Top.pc \in Storing THEN {Top} ELSE {})
<1>1. Top \in Frame /\ Tail(todo) \in Seq(Frame) /\ todo = <<Top>> \o Tail(todo)
  BY Stack
<1>2. PICK f \in Frame, q \in Seq(Frame) : f = Top /\ q = Tail(todo)
  BY <1>1
<1>3. Stores(<<f>> \o q) = Stores(q) \cup (IF f.pc \in Storing THEN {f} ELSE {})
  BY StoresPush
<1> QED
  BY <1>1, <1>2, <1>3

(* No default is being written below another function of rank 2 or less.  *)
LEMMA NoStores ==
    ASSUME NEW q, NEW r \in Int, r <= 2, Below(q, r), \A n \in 1..Len(q) : q[n].pc # "init"
    PROVE  Stores(q) = {}
<1>1. \A n \in 1..Len(q) : q[n].pc \in Fillers => Rank(q[n]) = 2 /\ Rank(q[n]) < r
  BY Ranks DEF Below, Lower
<1> QED
  BY <1>1 DEF Stores, Storing

Stays(f) == f.pc \notin Storing
Grows    == \A k \in Key : kv[k].stored => kv'[k].stored

(* A call or return of a function that writes no default.                  *)
Moves ==
    \/ todo' = Tail(todo)
    \/ \E f : Stays(f) /\ todo' = <<f>> \o Tail(todo)
    \/ \E f, g : Stays(f) /\ Stays(g) /\ todo' = <<g, f>> \o Tail(todo)

LEMMA StoresSame ==
    ASSUME StackOK, todo # <<>>, Top.pc \notin Storing, Moves
    PROVE  Stores(todo)' = Stores(todo)
<1>1. PICK q \in Seq(Frame) : q = Tail(todo)
  BY Stack
<1>2. Stores(todo) = Stores(q)
  BY <1>1, StoresTop
<1>3. \A f : Stays(f) => Stores(<<f>> \o q) = Stores(q)
  BY StoresPush DEF Stays
<1>4. ASSUME NEW f, NEW g, Stays(f), Stays(g) PROVE Stores(<<g, f>> \o q) = Stores(q)
  <2>1. Stores(<<g, f>> \o q) = Stores(q) \cup {h \in {f, g} : h.pc \in Storing}
    BY StoresCall
  <2>2. {h \in {f, g} : h.pc \in Storing} = {}
    BY <1>4 DEF Stays
  <2> QED
    BY <2>1, <2>2
<1> QED
  BY <1>1, <1>2, <1>3, <1>4 DEF Moves

LEMMA LoadedOn ==
    ASSUME IInv, LInv, todo # <<>>, Top.pc \notin Storing, Moves, Grows, reply' # "err"
    PROVE  LInv'
<1>1. Stores(todo)' = Stores(todo)
  BY StoresSame DEF IInv, TInv
<1>2. \A f : Loading(f) => Loading(f)'
  BY DEF Loading, Grows
<1>3. Loaded'
  BY <1>1, <1>2 DEF LInv, Loaded, Grows
<1> QED
  BY <1>3 DEF LInv, NeverFails

(* The steps, as far as the stored keys and the return codes go.           *)
LEMMA StepMoves ==
    ASSUME IInv, NInv, LInv, Step, Top.pc \notin Storing
    PROVE  todo # <<>> /\ Moves /\ Grows /\ reply' # "err"
<1>1. todo # <<>> /\ Top \in Frame /\ RestOK /\ DescOK /\ reply # "err"
  <2>1. todo # <<>>
    BY DEF Step, InitClassify, InitDone, LoadSector, FormatErase, FormatRole, FormatMagic, Defaults,
       DefaultsCommit, Put, WriteRecord, WriteSectorStatus, MigrateEnter, Migrate, MigratePreDelete,
       MigrateCommit, MigrateDeleted, RebuildStart, RebuildRound, RebuildErase, RebuildMagic,
       RebuildRole, GcStart, GcFind, GcMigrate, GcErase, GcRole, GcMagic, GcData, SetPreDelete,
       SetCommit, SetDeleted, At
  <2> QED
    BY <2>1, Stack DEF IInv, TInv, LInv, NeverFails
<1>2. \A l \in Pc : [Top EXCEPT !.pc = l].pc = l
  BY <1>1 DEF Frame
<1>3. \A l \in Pc \ Storing : Goto(l) => Moves
  BY <1>2 DEF Goto, Stay, Moves, Stays
<1>4. Return => Moves
  BY DEF Return, Moves
<1>5. kv' = kv => Grows
  BY DEF Grows
<1>6. CASE InitDone
  BY <1>1, <1>4, <1>5, <1>6 DEF InitDone
<1>7. CASE LoadSector
  <2>1. Grows
    BY <1>7 DEF LoadSector, Grows
  <2>2. Moves
    <3>1. [Top EXCEPT !.s = Top.s + 1].pc = Top.pc
      BY <1>1 DEF Frame
    <3>2. Stay([Top EXCEPT !.s = Top.s + 1]) \/ Return
      BY <1>7, Zenon DEF LoadSector
    <3> QED
      BY <1>4, <3>1, <3>2 DEF Stay, Moves, Stays
  <2> QED
    BY <1>1, <1>7, <2>1, <2>2 DEF LoadSector
<1>8. CASE FormatErase \/ FormatRole
  BY <1>1, <1>3, <1>5, <1>8 DEF FormatErase, FormatRole, Pc, Storing, Fillers
<1>9. CASE FormatMagic
  <2>1. [Top EXCEPT !.s = Top.s + 1, !.pc = "format"].pc = "format"
    BY <1>1 DEF Frame
  <2>2. Stay([Top EXCEPT !.s = Top.s + 1, !.pc = "format"]) \/ Return
    BY <1>9, Zenon DEF FormatMagic
  <2>3. Moves
    BY <1>4, <2>1, <2>2 DEF Stay, Moves, Stays, Storing, Fillers
  <2> QED
    BY <1>1, <1>5, <1>9, <2>3 DEF FormatMagic
<1>10. CASE Put
  <2>1. [Top EXCEPT !.pc = "append", !.s = FindWritableDataSector].pc = "append"
    BY <1>1 DEF Frame
  <2>2. Call0("gc").pc = "gc"
    BY DEF Call0
  <2>3. Stay([Top EXCEPT !.pc = "append", !.s = FindWritableDataSector]) \/ Call(Top, Call0("gc"))
    BY <1>10, Zenon DEF Put
  <2>4. Moves
    BY <2>1, <2>2, <2>3 DEF Stay, Call, Moves, Stays, Storing, Fillers
  <2> QED
    BY <1>1, <1>5, <1>10, <2>4 DEF Put
<1>11. CASE WriteRecord \/ WriteSectorStatus
  BY <1>1, <1>3, <1>4, <1>5, <1>11 DEF WriteRecord, WriteSectorStatus, Pc, Storing, Fillers
<1>12. CASE MigrateEnter
  <2>1. used[Top.t] # Slots
    BY <1>1, Sizes DEF NInv, Spacious, Frame
  <2> QED
    BY <1>1, <1>3, <1>5, <1>12, <2>1 DEF MigrateEnter, Pc, Storing, Fillers
<1>13. CASE Migrate
  <2>1. used[Top.t] # Slots
    BY <1>1, Sizes DEF NInv, Spacious, Frame
  <2>2. todo' = Tail(todo) \/ \E f, g \in Frame :
            todo' = <<g, f>> \o Tail(todo) /\ f.pc = "mig_predelete" /\ g.pc = "append"
    BY <1>13, <2>1, MigrateCalls, Zenon
  <2>3. Moves
    BY <2>2 DEF Moves, Stays, Storing, Fillers
  <2>4. reply' = reply
    BY <1>13, <2>1, Zenon DEF Migrate
  <2> QED
    BY <1>1, <1>5, <1>13, <2>3, <2>4 DEF Migrate
<1>14. CASE MigratePreDelete \/ SetPreDelete
  <2>1. \A l \in Pc : [Top EXCEPT !.pc = l, !.new = ret].pc = l
    BY <1>1 DEF Frame
  <2>2. \E l \in {"mig_commit", "set_commit"} : Stay([Top EXCEPT !.pc = l, !.new = ret])
    BY <1>14 DEF MigratePreDelete, SetPreDelete
  <2>3. Moves
    BY <2>1, <2>2 DEF Stay, Moves, Stays, Storing, Fillers, Pc
  <2> QED
    BY <1>1, <1>5, <1>14, <2>3 DEF MigratePreDelete, SetPreDelete
<1>15. CASE MigrateCommit \/ SetCommit
  BY <1>1, <1>3, <1>5, <1>15 DEF MigrateCommit, SetCommit, Pc, Storing, Fillers
<1>16. CASE MigrateDeleted
  <2>1. Grows
    BY <1>1, <1>16 DEF MigrateDeleted, RestOK, Entry, Grows
  <2> QED
    BY <1>1, <1>3, <1>16, <2>1 DEF MigrateDeleted, Pc, Storing, Fillers
<1>17. CASE SetDeleted
  <2>1. Grows
    BY <1>1, <1>17 DEF SetDeleted, RestOK, Entry, Grows
  <2> QED
    BY <1>1, <1>4, <1>17, <2>1 DEF SetDeleted
<1>18. CASE RebuildStart \/ RebuildRound \/ RebuildErase \/ RebuildMagic \/ RebuildRole
  BY <1>18, NoRecovery
<1>19. CASE GcStart
  <2>1. IsNormal
    BY <1>19, GcSteady DEF GcStart
  <2>2. Goto("gc_find") /\ kv' = kv /\ reply' = reply
    BY <1>19, <2>1 DEF GcStart
  <2> QED
    BY <1>1, <1>3, <1>5, <2>2 DEF Pc, Storing, Fillers
<1>20. CASE GcFind
  <2>1. PICK g \in Sector : FindSectorRole(GC) = g
    BY <1>20, GcSteady, GcSector DEF GcFind
  <2>2. ~(g < 0)
    BY Ranges
  <2>3. \A s, t : [Top EXCEPT !.pc = "gc_gcing", !.s = s, !.t = t].pc = "gc_gcing"
    BY <1>1 DEF Frame
  <2>4. /\ \E s, t : Stay([Top EXCEPT !.pc = "gc_gcing", !.s = s, !.t = t])
        /\ kv' = kv /\ reply' = reply
    BY <1>20, <2>1, <2>2, Zenon DEF GcFind
  <2>5. Moves
    BY <2>3, <2>4 DEF Stay, Moves, Stays, Storing, Fillers
  <2> QED
    BY <1>1, <1>5, <2>4, <2>5
<1>21. CASE GcMigrate
  <2>1. /\ [Top EXCEPT !.pc = "gc_erase"].pc = "gc_erase"
        /\ MigrateFrame(Top.t, Top.s).pc = "mig_enter"
    BY <1>1 DEF Frame, MigrateFrame, Call0
  <2>2. Call([Top EXCEPT !.pc = "gc_erase"], MigrateFrame(Top.t, Top.s))
    BY <1>21 DEF GcMigrate
  <2>3. Moves
    BY <2>1, <2>2 DEF Call, Moves, Stays, Storing, Fillers
  <2> QED
    BY <1>1, <1>5, <1>21, <2>3 DEF GcMigrate
<1>22. CASE GcErase \/ GcRole \/ GcMagic
  BY <1>1, <1>3, <1>5, <1>22 DEF GcErase, GcRole, GcMagic, Pc, Storing, Fillers
<1>23. CASE GcData
  BY <1>1, <1>4, <1>5, <1>23 DEF GcData
<1>24. ~InitClassify /\ ~Defaults /\ ~DefaultsCommit
  BY DEF InitClassify, Defaults, DefaultsCommit, At, Storing, Fillers
<1> QED
  BY <1>6, <1>7, <1>8, <1>9, <1>10, <1>11, <1>12, <1>13, <1>14, <1>15, <1>16, <1>17, <1>18, <1>19,
     <1>20, <1>21, <1>22, <1>23, <1>24 DEF Step

(* The default values are written in the order of their keys.              *)
LEMMA StorePushed ==
    ASSUME IInv, NInv, todo # <<>>, Top.pc \in Fillers
    PROVE  Stores(Tail(todo)) = {} /\ Stores(todo) = {Top}
<1>1. StackOK /\ Ladder(todo)
  BY DEF IInv, TInv, NInv
<1>2. Rank(Top) = 2
  BY Ranks DEF Lower
<1>3. Below(Tail(todo), 2) /\ 2 \in Int /\ 2 <= 2
  BY <1>1, <1>2, LadderPop
<1>4. \A n \in 1..Len(Tail(todo)) : Tail(todo)[n].pc # "init"
  <2>1. Chain(todo) /\ todo \in Seq(Frame)
    BY DEF IInv, TInv, SInv, StackOK
  <2>2. ASSUME NEW n \in 1..Len(Tail(todo)) PROVE Tail(todo)[n].pc # "init"
    <3>1. /\ n \in 1..Len(todo) /\ n # Len(todo) /\ n + 1 \in 1..Len(todo)
          /\ Tail(todo)[n] = todo[n + 1]
      BY <2>1
    <3>2. todo[n + 1].pc \in Suspended
      BY <2>1, <3>1 DEF Chain, Link
    <3> QED
      BY <3>1, <3>2 DEF Suspended, Awaiting, Eraser
  <2> QED
    BY <2>2
<1>5. Stores(Tail(todo)) = {}
  BY <1>3, <1>4, NoStores
<1> QED
  BY <1>1, <1>5, StoresTop DEF Storing

LEMMA InitClassifyLoaded == IInv /\ NInv /\ LInv /\ InitClassify => LInv'
<1> SUFFICES ASSUME IInv, NInv, LInv, InitClassify PROVE LInv'
  OBVIOUS
<1>1. At("init") /\ reply' = reply
  BY DEF InitClassify
<1>2. IsFirstPowerOn /\ ~IsNormal
  <2>1. \A x \in Sector : ~hdr[x].magic
    BY <1>1 DEF NInv, Layout
  <2> QED
    BY <2>1, Ranges DEF IsFirstPowerOn, IsNormal
<1>3. PICK f \in Frame, d \in Frame, l \in Frame, i \in Frame :
        /\ f = Call0("format") /\ d = Call0("defaults")
        /\ l = Call0("load") /\ i = Call0("init_done")
        /\ f.pc = "format" /\ d.pc = "defaults" /\ l.pc = "load" /\ i.pc = "init_done"
  BY Frames DEF Pc
<1>4. todo' = <<f, d, l>> \o <<i>>
  BY <1>2, <1>3, Zenon DEF InitClassify
<1>5. Rank(f) = 3 /\ Rank(d) = 2 /\ Rank(l) = 1 /\ Rank(i) = 0
  BY <1>3, Ranks DEF Formats, Lower, Fillers, Roots
<1>6. \A n \in 1..Len(todo') : todo'[n] \in {f, d, l, i} /\ 2 \in 1..Len(todo') /\ todo'[2] = d
  BY <1>4, <1>5, FourFrames
<1>7. Len(todo') # 0
  BY <1>4
<1>8. Stores(todo') = {d}
  BY <1>3, <1>6, <1>7 DEF Stores, Storing, Fillers
<1>9. d.i = 0 /\ \A k \in Key : ~(k <= 0)
  BY <1>3 DEF Call0, Key
<1>10. Loaded'
  BY <1>3, <1>8, <1>9 DEF Loaded, Loading
<1> QED
  BY <1>1, <1>10 DEF LInv, NeverFails

LEMMA DefaultsLoaded == IInv /\ NInv /\ LInv /\ Defaults => LInv'
<1> SUFFICES ASSUME IInv, NInv, LInv, Defaults PROVE LInv'
  OBVIOUS
<1> DEFINE K == {k \in Key : k > Top.i /\ ~kv[k].stored}
<1>1. At("defaults") /\ UNCHANGED <<kv, reply>>
  BY DEF Defaults
<1>2. todo # <<>> /\ Top.pc = "defaults" /\ Top \in Frame /\ StackOK
  BY <1>1, Running
<1>3. Stores(Tail(todo)) = {} /\ Stores(todo) = {Top}
  BY <1>2, StorePushed DEF Fillers
<1>4. \A k \in Key : k <= Top.i => kv[k].stored
  BY <1>2, <1>3 DEF LInv, Loaded, Loading
<1>5. CASE K = {}
  <2>1. todo' = Tail(todo)
    BY <1>5 DEF Defaults, Return
  <2>2. \A k \in Key : kv[k].stored
    BY <1>2, <1>4, <1>5, Ranges DEF Frame
  <2> QED
    BY <1>1, <1>3, <2>1, <2>2 DEF LInv, Loaded, NeverFails
<1>6. CASE K # {}
  <2>1. PICK k \in Key : k = Min(K) /\ k \in K /\ \A x \in K : k <= x
    <3>1. K \subseteq Nat
      BY Ranges
    <3> QED
      BY <1>6, <3>1, MinNat
  <2> DEFINE e == [Top EXCEPT !.i = k, !.key = k, !.val = kv[k].val]
  <2>2. PICK f, g : /\ f = [e EXCEPT !.pc = "defaults_commit"]
                    /\ g = [e EXCEPT !.pc = "put"]
    OBVIOUS
  <2>3. f.pc = "defaults_commit" /\ f.i = k /\ f.key = k /\ g.pc = "put"
    BY <1>2, <2>2 DEF Frame
  <2>4. todo' = <<g, f>> \o Tail(todo)
    BY <1>6, <2>1, <2>2 DEF Defaults, Call
  <2>5. Stores(todo') = {f}
    <3>1. Tail(todo) \in Seq(Frame)
      BY <1>2, Stack
    <3>2. Stores(<<g, f>> \o Tail(todo)) = Stores(Tail(todo)) \cup {h \in {f, g} : h.pc \in Storing}
      BY <3>1, StoresCall
    <3>3. {h \in {f, g} : h.pc \in Storing} = {f}
      BY <2>3 DEF Storing, Fillers
    <3> QED
      BY <1>3, <2>4, <3>2, <3>3
  <2>6. \A x \in Key : x < k => kv[x].stored
    BY <1>2, <1>4, <2>1, Ranges DEF Frame
  <2> QED
    BY <1>1, <2>3, <2>5, <2>6 DEF LInv, Loaded, Loading, NeverFails
<1> QED
  BY <1>5, <1>6

LEMMA DefaultsCommitLoaded == IInv /\ NInv /\ LInv /\ DefaultsCommit => LInv'
<1> SUFFICES ASSUME IInv, NInv, LInv, DefaultsCommit PROVE LInv'
  OBVIOUS
<1>1. At("defaults_commit") /\ reply' = reply
  BY DEF DefaultsCommit
<1>2. todo # <<>> /\ Top.pc = "defaults_commit" /\ Top \in Frame /\ RestOK /\ StackOK
  BY <1>1, Running
<1>3. PICK f : f = [Top EXCEPT !.pc = "defaults"]
  OBVIOUS
<1>4. f.pc = "defaults" /\ f.i = Top.i /\ todo' = <<f>> \o Tail(todo)
  BY <1>2, <1>3 DEF Frame, DefaultsCommit, Goto, Stay
<1>5. Stores(todo') = {f}
  <2>1. Tail(todo) \in Seq(Frame)
    BY <1>2, Stack
  <2>2. Stores(Tail(todo)) = {}
    BY <1>2, StorePushed DEF Fillers
  <2>3. Stores(<<f>> \o Tail(todo)) = Stores(Tail(todo)) \cup (IF f.pc \in Storing THEN {f} ELSE {})
    BY <2>1, StoresPush
  <2> QED
    BY <1>4, <2>2, <2>3 DEF Storing, Fillers
<1>6. Top.key = Top.i /\ \A k \in Key : k < Top.i => kv[k].stored
  <2>1. Top \in Stores(todo)
    BY <1>2, StorePushed DEF Fillers
  <2> QED
    BY <1>2, <2>1 DEF LInv, Loaded, Loading
<1>7. \A k \in Key : k <= Top.i => kv'[k].stored
  <2>1. \A k \in Key : kv'[k].stored = IF k = Top.key THEN TRUE ELSE kv[k].stored
    BY <1>2 DEF DefaultsCommit, RestOK, Entry
  <2>2. Top.i \in Nat
    BY <1>2 DEF Frame
  <2>3. \A k \in Key : k <= Top.i => k = Top.i \/ k < Top.i
    BY <2>2, Ranges
  <2> QED
    BY <1>6, <2>1, <2>3
<1> QED
  BY <1>1, <1>4, <1>5, <1>7 DEF LInv, Loaded, Loading, NeverFails

(* Between calls every key can be read.                                    *)
LEMMA AllReadable ==
    ASSUME IInv, NInv, LInv, Ready, NEW k \in Key
    PROVE  Readable(k)
<1>1. kv[k].stored
  BY StoresEmpty DEF LInv, Loaded, Ready
<1>2. kv[k].addr \in Seen
  BY <1>1 DEF NInv, Within, Near
<1>3. IsLive(SlotAt(kv[k].addr))
  BY <1>2 DEF IInv, SInv, Index, Moving, Ready
<1> QED
  BY <1>2, <1>3, SeenIs DEF Readable, SlotAt

LEMMA UpdateLoaded == IInv /\ NInv /\ LInv /\ Update => LInv'
<1> SUFFICES ASSUME IInv, NInv, LInv, Update PROVE LInv'
  OBVIOUS
<1>1. Ready /\ \A k \in Key : kv[k].stored
  BY StoresEmpty DEF Update, Get, Set, LInv, Loaded, Ready
<1>2. reply' # "err" /\ \A k \in Key : kv'[k].stored
  <2>1. ASSUME NEW k \in Key, kv' = ReadBack(k) PROVE \A x \in Key : kv'[x].stored
    BY <1>1, <2>1 DEF ReadBack, IInv, TInv, RestOK, Entry
  <2>2. ASSUME NEW k \in Key, Get(k) PROVE reply' # "err"
    BY <1>1, <2>2, AllReadable DEF Get
  <2>3. ASSUME NEW k \in Key, NEW v \in Value, Set(k, v) PROVE reply' # "err"
    <3>1. Readable(k)
      BY <1>1, AllReadable
    <3>2. reply' \in {"ok", "none"}
      BY <2>3, <3>1, Zenon DEF Set
    <3> QED
      BY <3>2
  <2> QED
    BY <2>1, <2>2, <2>3 DEF Update, Get, Set
<1>3. Stores(todo') = {}
  <2>1. CASE todo' = <<>>
    BY <2>1, StoresEmpty
  <2>2. CASE todo' # <<>>
    <3>1. PICK k \in Key, v \in Value :
            todo' = <<[[Call0("set_written") EXCEPT !.key = k, !.val = v] EXCEPT !.pc = "put"],
                      [Call0("set_written") EXCEPT !.key = k, !.val = v]>>
      BY <1>1, <2>2, Zenon DEF Update, Get, Set, Ready
    <3>2. PICK f, g : /\ f = [Call0("set_written") EXCEPT !.key = k, !.val = v]
                      /\ g = [f EXCEPT !.pc = "put"]
      OBVIOUS
    <3>3. f.pc = "set_written" /\ g.pc = "put"
      BY <3>2 DEF Call0
    <3>4. todo' = <<g, f>>
      BY <3>1, <3>2
    <3>5. Len(<<g, f>>) = 2 /\ <<g, f>>[1] = g /\ <<g, f>>[2] = f
      OBVIOUS
    <3>6. \A n \in 1..2 : <<g, f>>[n].pc \notin Storing
      BY <3>3, <3>5 DEF Storing, Fillers
    <3> QED
      BY <3>4, <3>5, <3>6 DEF Stores
  <2> QED
    BY <2>1, <2>2
<1> QED
  BY <1>2, <1>3 DEF LInv, Loaded, NeverFails

LEMMA InitLoaded == Init => LInv
<1> SUFFICES ASSUME Init PROVE LInv
  OBVIOUS
<1>1. Call0("init").pc = "init"
  BY DEF Call0
<1>2. todo = <<Call0("init")>> /\ Len(todo) = 1 /\ todo[1].pc = "init" /\ reply = "none"
  BY <1>1 DEF Init
<1>3. Stores(todo) # {} /\ \A f \in Stores(todo) : f.pc = "init"
  BY <1>2 DEF Stores, Storing
<1> QED
  BY <1>2, <1>3 DEF LInv, Loaded, Loading, NeverFails

LEMMA NextLoaded == IInv /\ NInv /\ LInv /\ [KeepNext]_vars => LInv' \/ PowerCut
<1> SUFFICES ASSUME IInv, NInv, LInv, [KeepNext]_vars, ~PowerCut PROVE LInv'
  OBVIOUS
<1>1. CASE Step /\ Top.pc \notin Storing
  BY <1>1, StepMoves, LoadedOn
<1>2. CASE Step /\ Top.pc \in Storing
  <2>1. InitClassify \/ Defaults \/ DefaultsCommit
    BY <1>2 DEF Step, InitClassify, InitDone, LoadSector, FormatErase, FormatRole, FormatMagic,
       Defaults, DefaultsCommit, Put, WriteRecord, WriteSectorStatus, MigrateEnter, Migrate,
       MigratePreDelete, MigrateCommit, MigrateDeleted, RebuildStart, RebuildRound, RebuildErase,
       RebuildMagic, RebuildRole, GcStart, GcFind, GcMigrate, GcErase, GcRole, GcMagic, GcData,
       SetPreDelete, SetCommit, SetDeleted, At, Storing, Fillers
  <2> QED
    BY <2>1, InitClassifyLoaded, DefaultsLoaded, DefaultsCommitLoaded
<1>3. CASE Update
  BY <1>3, UpdateLoaded
<1>4. CASE UNCHANGED vars
  BY <1>4 DEF vars, LInv, Loaded, Loading, NeverFails, Stores
<1> QED
  BY <1>1, <1>2, <1>3, <1>4 DEF KeepNext

(* As long as the power has never failed no function of the engine ever    *)
(* reports an error to a client that reads and writes: every key can be    *)
(* read, a collection finds its GC sector and room for what it moves.      *)
THEOREM UncutNoFailure == KeepSpec => [](crashes = 0 => NeverFails)
<1> DEFINE Inv == IInv /\ Headers /\ UncutInv /\ (crashes = 0 => LInv)
<1>1. Init => Inv
  BY InitType, InitIndex, InitHeaders, InitUncutInv, InitLoaded DEF IInv
<1>2. Inv /\ [KeepNext]_vars => Inv'
  <2> SUFFICES ASSUME IInv, Headers, UncutInv, crashes = 0 => LInv, [KeepNext]_vars
               PROVE  Inv'
    OBVIOUS
  <2>1. [Next]_vars
    BY DEF KeepNext, Next
  <2>2. IInv' /\ Headers' /\ UncutInv'
    BY <2>1, NextKeeps, NextSafe, NextUncutInv
  <2>3. crashes' = 0 => ~PowerCut /\ crashes = 0
    BY <2>1, CrashesGrow
  <2>4. crashes' = 0 => LInv'
    BY <2>3, NextLoaded DEF UncutInv
  <2> QED
    BY <2>2, <2>4
<1>3. Inv => (crashes = 0 => NeverFails)
  BY DEF LInv
<1> QED
  BY <1>1, <1>2, <1>3, PTL DEF KeepSpec
=============================================================================
