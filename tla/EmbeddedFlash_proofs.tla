------------------------ MODULE EmbeddedFlash_proofs ------------------------
(***************************************************************************)
(* Type correctness of the engine, for every number of sectors, slots,     *)
(* keys, values and power cuts.  It is more than bookkeeping: a descriptor *)
(* never counts more records than a sector holds, a record is only ever    *)
(* programmed inside its sector, and no index computed from a role or a    *)
(* scan leaves the sector table.                                           *)
(*                                                                         *)
(* The strengthening says that only the running function can be about to   *)
(* program a record, and that its sector then has room for it.             *)
(***************************************************************************)
EXTENDS EmbeddedFlash, SequenceTheorems, FiniteSetTheorems, WellFoundedInduction, TLAPS

-----------------------------------------------------------------------------
(* Least and greatest elements of sets of naturals. *)

(* Min picks the least element of a nonempty set of naturals.              *)
LEMMA MinNat ==
    ASSUME NEW S, S \subseteq Nat, S # {}
    PROVE  Min(S) \in S /\ \A y \in S : Min(S) <= y
<1> DEFINE R == {p \in Nat \X Nat : p[1] < p[2]}
<1>1. IsWellFoundedOn(R, Nat)
  BY NatLessThanWellFounded DEF OpToRel
<1>2. \A a, b \in Nat : a < b => <<a, b>> \in R
  OBVIOUS
<1> HIDE DEF R
<1>3. PICK x \in S : \A y \in S : ~(<<y, x>> \in R)
  BY <1>1, WFMin
<1>4. ASSUME NEW y \in S PROVE x <= y
  <2>1. x \in Nat /\ y \in Nat
    OBVIOUS
  <2>2. ~(y < x)
    BY <1>2, <1>3, <2>1
  <2> QED
    BY <2>1, <2>2
<1> QED
  BY <1>4 DEF Min

(* Max picks the greatest element of a nonempty bounded set of naturals.   *)
LEMMA MaxNat ==
    ASSUME NEW n \in Nat, NEW S, S \subseteq 0..n, S # {}
    PROVE  Max(S) \in S /\ \A y \in S : Max(S) >= y
<1> DEFINE T == {n - y : y \in S}
<1>1. T \subseteq Nat /\ T # {}
  <2>1. \A y \in S : n - y \in Nat
    OBVIOUS
  <2> QED
    BY <2>1
<1>2. PICK x \in S : Min(T) = n - x
  BY <1>1, MinNat
<1>3. \A y \in S : n - x <= n - y
  BY <1>1, <1>2, MinNat
<1>4. \A y \in S : x >= y
  BY <1>3
<1> QED
  BY <1>4 DEF Max

-----------------------------------------------------------------------------
(* Status tables: a status that is written is the status that is read back *)
(* as long as statuses are written in increasing order, and a lower one    *)
(* never hides a higher one.                                               *)

StatusesSet(words, base, num) == {0} \cup {i \in 1..num : base + i - 1 \in words}

(* _get_status returns the greatest status set, or 0.                      *)
LEMMA GetStatusIsMax ==
    ASSUME NEW words, NEW base \in Nat, NEW num \in Nat
    PROVE  /\ GetStatus(words, base, num) \in StatusesSet(words, base, num)
           /\ \A i \in StatusesSet(words, base, num) : i <= GetStatus(words, base, num)
           /\ GetStatus(words, base, num) \in 0..num
<1> DEFINE S == StatusesSet(words, base, num)
<1>1. S \subseteq 0..num /\ S # {}
  BY DEF StatusesSet
<1>2. Max(S) \in S /\ \A i \in S : Max(S) >= i
  BY <1>1, MaxNat
<1>3. GetStatus(words, base, num) = Max(S)
  BY DEF GetStatus, StatusesSet
<1>4. \A i \in S : i <= Max(S)
  BY <1>1, <1>2
<1> QED
  BY <1>1, <1>2, <1>3, <1>4

(* _set_status then _get_status: writing a status makes the table read as  *)
(* that status, unless it already reads as a higher one; so the status of  *)
(* a header or record never goes back between two erases.                  *)
THEOREM StatusNeverGoesBack ==
    ASSUME NEW words, NEW base \in Nat, NEW num \in Nat, NEW i \in 1..num
    PROVE  GetStatus(SetStatus(words, base, i), base, num) =
               IF i > GetStatus(words, base, num) THEN i ELSE GetStatus(words, base, num)
<1> DEFINE old == GetStatus(words, base, num)
           new == GetStatus(SetStatus(words, base, i), base, num)
           S   == StatusesSet(words, base, num)
           T   == StatusesSet(SetStatus(words, base, i), base, num)
<1>1. T = S \cup {i}
  BY DEF StatusesSet, SetStatus
<1>2. old \in S /\ (\A j \in S : j <= old) /\ old \in 0..num
  BY GetStatusIsMax
<1>3. new \in T /\ (\A j \in T : j <= new) /\ new \in 0..num
  BY GetStatusIsMax
<1> HIDE DEF old, new, S, T
<1>4. new = IF i > old THEN i ELSE old
  BY <1>1, <1>2, <1>3
<1> QED
  BY <1>4 DEF old, new

(* The same for a role: the sector reads as the role just written when     *)
(* roles are written in the order GC, GC_TEMP, DATA, DATA_GCING.           *)
COROLLARY RoleNeverGoesBack ==
    ASSUME NEW words, NEW r \in GC..DATA_GCING
    PROVE  SectorRole(SetStatus(words, RoleBase, r)) =
               IF r > SectorRole(words) THEN r ELSE SectorRole(words)
BY StatusNeverGoesBack DEF SectorRole, RoleBase, SectorRoleNum, GC, DATA_GCING

(* A header that gets the role GC reads as a status that neither           *)
(* _find_writable_data_sector nor anything else accepts, because           *)
(* _get_status also reads the word after the table.                        *)
THEOREM GcRoleReadsAsStatus ==
    ASSUME NEW words
    PROVE  SectorStatus(SetStatus(words, RoleBase, GC)) = SectorStatusNum
<1> DEFINE w == SetStatus(words, RoleBase, GC)
<1>1. SectorStatusNum \in StatusesSet(w, StatusBase, SectorStatusNum)
  BY DEF StatusesSet, SetStatus, StatusBase, RoleBase, GC, SectorStatusNum
<1>2. /\ SectorStatus(w) \in 0..SectorStatusNum
      /\ SectorStatusNum <= SectorStatus(w)
  BY <1>1, GetStatusIsMax DEF SectorStatus, StatusBase, SectorStatusNum
<1> QED
  BY <1>2 DEF SectorStatusNum

-----------------------------------------------------------------------------
(* Types *)

QuietFrame == {f \in Frame : f.pc # "append"}

FlashOK == /\ hdr \in [Sector -> Header]
           /\ slot \in [Sector -> [Slot -> Record]]
DescOK  == /\ attr \in [Sector -> Attr]
           /\ used \in [Sector -> 0..Slots]
RestOK  == /\ kv \in [Key -> Entry]
           /\ ret \in Addr \cup {NoAddr}
           /\ reply \in {"none", "ok", "err"}
           /\ crashes \in 0..MaxCrashes
StackOK == /\ todo \in Seq(Frame)
           /\ todo # <<>> => Tail(todo) \in Seq(QuietFrame)
Room    == At("append") => used[Top.s] < Slots

TInv == FlashOK /\ DescOK /\ RestOK /\ StackOK /\ Room

-----------------------------------------------------------------------------
(* Constants *)

LEMMA Sizes ==
    /\ NumSectors \in Nat /\ NumSectors >= 2
    /\ Slots \in Nat /\ Slots >= 2
    /\ NumKeys \in Nat /\ NumKeys >= 1
    /\ MaxCrashes \in Nat
    /\ Default \in Value
BY SizeAssumption, DefaultAssumption DEF SizeAssumption, DefaultAssumption

LEMMA Ranges ==
    /\ 0 \in Sector /\ Sector \subseteq Nat
    /\ Slot \subseteq Nat /\ Visible \subseteq Slot
    /\ 1 \in Key /\ Key \subseteq Nat
    /\ \A a \in Nat : a % NumSectors \in Sector
BY Sizes DEF Sector, Slot, Visible, Key

LEMMA Frames == \A l \in Pc : Call0(l) \in Frame /\ Call0(l).pc = l
BY Sizes, Ranges DEF Call0, Frame

LEMMA Records ==
    /\ Erased \in Record /\ Torn \in Record
    /\ \A k \in Key : \A v \in Value : NewRecord(k, v) \in Record
BY Sizes DEF Erased, Torn, NewRecord, Record, Key, UNUSED, PRE_WRITE, DELETED

-----------------------------------------------------------------------------
(* Stacks *)

LEMMA QuietIsFrame == QuietFrame \subseteq Frame /\ Seq(QuietFrame) \subseteq Seq(Frame)
BY DEF QuietFrame

LEMMA Push ==
    ASSUME NEW q \in Seq(QuietFrame), NEW f \in QuietFrame
    PROVE  /\ <<f>> \o q \in Seq(QuietFrame)
           /\ \A g \in QuietFrame : <<g, f>> \o q \in Seq(QuietFrame)
OBVIOUS

LEMMA TopOK ==
    ASSUME StackOK, todo # <<>>
    PROVE  Top \in Frame /\ Tail(todo) \in Seq(QuietFrame)
BY DEF StackOK, Top

(* Any frame may be pushed on a quiet stack.                               *)
LEMMA PushFrame ==
    ASSUME NEW f \in Frame, NEW q \in Seq(QuietFrame), todo' = <<f>> \o q
    PROVE  StackOK' /\ Top' = f
<1>1. q \in Seq(Frame)
  BY QuietIsFrame
<1>2. <<f>> \o q \in Seq(Frame)
  BY <1>1
<1>3. Head(<<f>> \o q) = f /\ Tail(<<f>> \o q) = q
  BY <1>1
<1> QED
  BY <1>2, <1>3 DEF StackOK, Top

(* A call or return that leaves a quiet stack keeps the stack invariant.   *)
LEMMA QuietStack == todo' \in Seq(QuietFrame) => StackOK' /\ Room'
<1> SUFFICES ASSUME todo' \in Seq(QuietFrame) PROVE StackOK' /\ Room'
  OBVIOUS
<1>1. StackOK'
  BY QuietIsFrame DEF StackOK
<1>2. todo' # <<>> => Head(todo') \in QuietFrame
  OBVIOUS
<1> QED
  BY <1>1, <1>2 DEF Room, At, Top, QuietFrame

-----------------------------------------------------------------------------
(* Flash *)

HdrType  == [Sector -> Header]
SlotType == [Sector -> [Slot -> Record]]

LEMMA StatusRange ==
    /\ \A w : SectorStatus(w) \in 0..SectorStatusNum
    /\ \A w : SectorRole(w) \in UNASSIGNED..SectorRoleNum
BY GetStatusIsMax DEF SectorStatus, SectorRole, SectorStatusNum, SectorRoleNum,
                      StatusBase, RoleBase, UNASSIGNED

LEMMA SetStatusType ==
    ASSUME NEW w \in SUBSET TableWords
    PROVE  /\ \A st \in 0..SectorStatusNum : SetStatus(w, StatusBase, st) \in SUBSET TableWords
           /\ \A r \in UNASSIGNED..DATA_GCING : SetStatus(w, RoleBase, r) \in SUBSET TableWords
<1>1. \A st \in 0..SectorStatusNum : st # 0 => StatusBase + st - 1 \in TableWords
  BY DEF TableWords, StatusBase, SectorStatusNum
<1>2. \A r \in UNASSIGNED..DATA_GCING : r # 0 => RoleBase + r - 1 \in TableWords
  BY DEF TableWords, RoleBase, UNASSIGNED, DATA_GCING
<1> QED
  BY <1>1, <1>2 DEF SetStatus

LEMMA HeaderWrites ==
    ASSUME NEW h \in HdrType, NEW s
    PROVE  /\ \A st \in 0..SectorStatusNum : SetSectorStatus(h, s, st) \in HdrType
           /\ \A r \in UNASSIGNED..DATA_GCING : SetSectorRole(h, s, r) \in HdrType
           /\ SetMagic(h, s) \in HdrType
<1> USE DEF HdrType, Header
<1>1. ASSUME NEW st \in 0..SectorStatusNum PROVE SetSectorStatus(h, s, st) \in HdrType
  BY SetStatusType DEF SetSectorStatus
<1>2. ASSUME NEW r \in UNASSIGNED..DATA_GCING PROVE SetSectorRole(h, s, r) \in HdrType
  BY SetStatusType DEF SetSectorRole
<1>3. SetMagic(h, s) \in HdrType
  BY DEF SetMagic
<1> QED
  BY <1>1, <1>2, <1>3

LEMMA RecordWrites ==
    ASSUME NEW sl \in SlotType, NEW a
    PROVE  /\ \A st \in UNUSED..DELETED : SetKvStatus(sl, a, st) \in SlotType
           /\ \A r \in Record : PutRecord(sl, a, r) \in SlotType
<1>1. ASSUME NEW st \in UNUSED..DELETED PROVE SetKvStatus(sl, a, st) \in SlotType
  <2> DEFINE new(j) == [sl[a[1]][j] EXCEPT !.st = IF st > @ THEN st ELSE @]
  <2>1. ASSUME a[1] \in Sector, a[2] \in Slot PROVE new(a[2]) \in Record
    <3>1. sl[a[1]][a[2]] \in Record
      BY <2>1 DEF SlotType
    <3> QED
      BY <3>1 DEF Record
  <2>2. SetKvStatus(sl, a, st) =
          [sl EXCEPT ![a[1]] = [sl[a[1]] EXCEPT ![a[2]] = new(a[2])]]
    BY DEF SetKvStatus
  <2> HIDE DEF new
  <2>3. ASSUME a[1] \in Sector
        PROVE  [sl[a[1]] EXCEPT ![a[2]] = new(a[2])] \in [Slot -> Record]
    <3>1. sl[a[1]] \in [Slot -> Record]
      BY <2>3 DEF SlotType
    <3> QED
      BY <2>1, <2>3, <3>1
  <2> QED
    BY <2>2, <2>3 DEF SlotType
<1>2. ASSUME NEW r \in Record PROVE PutRecord(sl, a, r) \in SlotType
  BY DEF PutRecord, SlotType
<1> QED
  BY <1>1, <1>2

LEMMA EraseType ==
    ASSUME FlashOK, DescOK, NEW s \in Sector, EraseSector(s)
    PROVE  FlashOK' /\ DescOK'
<1>1. hdr' \in [Sector -> Header]
  BY DEF EraseSector, FlashOK, Header
<1>2. slot' \in [Sector -> [Slot -> Record]]
  BY Records DEF EraseSector, FlashOK
<1>3. attr' \in [Sector -> Attr]
  BY DEF EraseSector, DescOK, Attr, FREE, SectorStatusNum
<1>4. used' \in [Sector -> 0..Slots]
  BY Sizes DEF EraseSector, DescOK
<1> QED
  BY <1>1, <1>2, <1>3, <1>4 DEF FlashOK, DescOK

LEMMA HeaderReads ==
    ASSUME DescOK
    PROVE  (\A s \in Sector : AttrOf(s) \in Attr) /\ ReadHeaders \in [Sector -> Attr]
BY StatusRange DEF DescOK, AttrOf, Attr, ReadHeaders

LEMMA FindRole ==
    ASSUME NEW r
    PROVE  FindSectorRole(r) \in Sector \cup {-1}
BY Ranges, MinNat DEF FindSectorRole

LEMMA FindWritable ==
    ASSUME DescOK, FindWritableDataSector >= 0
    PROVE  /\ FindWritableDataSector \in Sector
           /\ used[FindWritableDataSector] < Slots
<1> DEFINE g == IF FindSectorRole(GC) < 0 THEN 0 ELSE FindSectorRole(GC)
           p(i) == (g + i) % NumSectors
           I == {i \in 1..(NumSectors - 1) : IsWritable(p(i))}
<1>1. g \in Nat
  <2>1. FindSectorRole(GC) \in Nat \cup {-1}
    BY FindRole, Ranges
  <2> QED
    BY <2>1
<1>2. I \subseteq Nat
  BY Sizes
<1>3. FindWritableDataSector = IF I = {} THEN -1 ELSE p(Min(I))
  BY DEF FindWritableDataSector
<1>4. I # {}
  BY <1>3
<1>5. Min(I) \in I
  BY <1>2, <1>4, MinNat
<1>6. IsWritable(p(Min(I)))
  BY <1>5
<1>7. p(Min(I)) \in Sector
  <2>1. g + Min(I) \in Nat
    BY <1>1, <1>2, <1>5
  <2> HIDE DEF g, I
  <2> QED
    BY <2>1, Ranges
<1>8. FindWritableDataSector = p(Min(I))
  BY <1>3, <1>4
<1>9. \A s \in Sector : IsWritable(s) => used[s] < Slots
  BY Sizes DEF IsWritable, DescOK
<1> HIDE DEF p
<1> QED
  BY <1>6, <1>7, <1>8, <1>9

-----------------------------------------------------------------------------
(* Steps that leave a quiet stack *)

Quiet == Pc \ {"append"}

LEMMA QuietStep ==
    ASSUME FlashOK', DescOK', RestOK', todo' \in Seq(QuietFrame)
    PROVE  TInv'
BY QuietStack DEF TInv

LEMMA QuietCall0 == \A l \in Quiet : Call0(l) \in QuietFrame
BY Frames DEF QuietFrame, Quiet

LEMMA ReturnQuiet == ASSUME StackOK, todo # <<>>, Return PROVE todo' \in Seq(QuietFrame)
BY DEF StackOK, Return

LEMMA StayQuiet ==
    ASSUME StackOK, todo # <<>>, NEW f \in QuietFrame, Stay(f)
    PROVE  todo' \in Seq(QuietFrame)
BY TopOK, Push DEF Stay

LEMMA CallQuiet ==
    ASSUME StackOK, todo # <<>>, NEW f \in QuietFrame, NEW g \in QuietFrame, Call(f, g)
    PROVE  todo' \in Seq(QuietFrame)
BY TopOK, Push DEF Call

LEMMA GotoQuiet ==
    ASSUME StackOK, todo # <<>>, NEW l \in Quiet, Goto(l)
    PROVE  todo' \in Seq(QuietFrame)
<1>1. [Top EXCEPT !.pc = l] \in QuietFrame
  BY TopOK DEF QuietFrame, Frame, Quiet
<1> QED
  BY <1>1, StayQuiet DEF Goto

LEMMA RecoverQuiet == RecoverFrames \in Seq(QuietFrame)
<1>1. {"load", "rebuild", "defaults"} \subseteq Quiet
  BY DEF Quiet, Pc
<1> QED
  BY <1>1, QuietCall0 DEF RecoverFrames

(* Fail unwinds to a caller that waits, or to nothing.                     *)
LEMMA FailQuiet ==
    ASSUME StackOK, todo # <<>>, reply \in {"none", "ok", "err"}, Fail
    PROVE  todo' \in Seq(QuietFrame) /\ reply' \in {"none", "ok", "err"}
<1>1. CASE Handlers = {}
  BY <1>1 DEF Fail
<1>2. CASE Handlers # {}
  <2> DEFINE j == Min(Handlers)
  <2>1. j \in 2..Len(todo)
    <3>1. Handlers \subseteq 2..Len(todo) /\ Handlers \subseteq Nat
      BY DEF Handlers, StackOK
    <3> QED
      BY <1>2, <3>1, MinNat
  <2>2. Len(todo) \in Nat
    BY DEF StackOK
  <2>3. \A n \in j..Len(todo) : todo[n] \in QuietFrame
    <3>1. \A n \in 1..Len(Tail(todo)) : Tail(todo)[n] \in QuietFrame
      BY DEF StackOK
    <3>2. Len(Tail(todo)) = Len(todo) - 1
      BY HeadTailProperties DEF StackOK
    <3>3. \A n \in 1..Len(Tail(todo)) : Tail(todo)[n] = todo[n + 1]
      BY HeadTailProperties DEF StackOK
    <3> SUFFICES ASSUME NEW n \in j..Len(todo) PROVE todo[n] \in QuietFrame
      OBVIOUS
    <3>4. n - 1 \in 1..Len(Tail(todo)) /\ (n - 1) + 1 = n
      BY <2>1, <2>2, <3>2
    <3> QED
      BY <3>1, <3>3, <3>4
  <2>4. SubSeq(todo, j, Len(todo)) \in Seq(QuietFrame)
    BY <2>1, <2>2, <2>3, SubSeqProperties
  <2>5. <<Call0("init_failed")>> \in Seq(QuietFrame)
    <3>1. Call0("init_failed") \in QuietFrame
      BY QuietCall0 DEF Quiet, Pc
    <3> QED
      BY <3>1
  <2>6. todo' \in {SubSeq(todo, j, Len(todo)), <<Call0("init_failed")>>, <<>>}
    BY <1>2 DEF Fail
  <2>7. reply' \in {reply, "err"}
    BY <1>2 DEF Fail
  <2>8. <<>> \in Seq(QuietFrame)
    OBVIOUS
  <2>9. todo' \in Seq(QuietFrame)
    BY <2>4, <2>5, <2>6, <2>8
  <2>10. reply' \in {"none", "ok", "err"}
    BY <2>7
  <2> QED
    BY <2>9, <2>10
<1> QED
  BY <1>1, <1>2

-----------------------------------------------------------------------------
(* Initialisation *)

LEMMA AttrWrites ==
    ASSUME DescOK, NEW s
    PROVE  /\ \A st \in 0..SectorStatusNum : [attr EXCEPT ![s].status = st] \in [Sector -> Attr]
           /\ \A r \in UNASSIGNED..SectorRoleNum : [attr EXCEPT ![s].role = r] \in [Sector -> Attr]
BY DEF DescOK, Attr

LEMMA Same ==
    /\ FlashOK /\ UNCHANGED flash => FlashOK'
    /\ DescOK /\ UNCHANGED desc => DescOK'
    /\ RestOK /\ UNCHANGED <<kv, ret, reply, crashes>> => RestOK'
BY DEF FlashOK, DescOK, RestOK, flash, desc

LEMMA InitClassifyType == TInv /\ InitClassify => TInv'
<1> SUFFICES ASSUME TInv, InitClassify PROVE TInv'
  OBVIOUS
<1>1. FlashOK' /\ RestOK'
  BY Same DEF TInv, InitClassify
<1>2. DescOK'
  BY HeaderReads DEF TInv, InitClassify, DescOK
<1>3. todo' \in Seq(QuietFrame)
  <2>1. {"load", "defaults", "format", "init_done"} \subseteq Quiet
    BY DEF Quiet, Pc
  <2>2. \A l \in {"load", "defaults", "format", "init_done"} : Call0(l) \in QuietFrame
    BY <2>1, QuietCall0
  <2>3. <<Call0("load"), Call0("defaults")>> \in Seq(QuietFrame)
    BY <2>2
  <2>4. <<Call0("format"), Call0("defaults"), Call0("load")>> \in Seq(QuietFrame)
    BY <2>2
  <2>5. <<Call0("init_done")>> \in Seq(QuietFrame)
    BY <2>2
  <2>6. PICK q \in Seq(QuietFrame) : todo' = q \o <<Call0("init_done")>>
    BY <2>3, <2>4, RecoverQuiet DEF InitClassify
  <2> QED
    BY <2>5, <2>6
<1> QED
  BY <1>1, <1>2, <1>3, QuietStep

LEMMA InitDoneType == TInv /\ InitDone => TInv'
<1> SUFFICES ASSUME TInv, InitDone PROVE TInv'
  OBVIOUS
<1>1. FlashOK' /\ DescOK'
  BY Same DEF TInv, InitDone
<1>2. RestOK'
  BY DEF TInv, RestOK, InitDone
<1>3. todo' \in Seq(QuietFrame)
  BY ReturnQuiet DEF TInv, InitDone, At
<1> QED
  BY <1>1, <1>2, <1>3, QuietStep

LEMMA FormatEraseType == TInv /\ FormatErase => TInv'
<1> SUFFICES ASSUME TInv, FormatErase PROVE TInv'
  OBVIOUS
<1>1. Top.s \in Sector
  BY TopOK DEF TInv, FormatErase, At, Frame
<1>2. FlashOK' /\ DescOK'
  BY <1>1, EraseType DEF TInv, FormatErase
<1>3. RestOK'
  BY DEF TInv, RestOK, FormatErase
<1>4. todo' \in Seq(QuietFrame)
  BY GotoQuiet DEF TInv, FormatErase, At, Quiet, Pc
<1> QED
  BY <1>2, <1>3, <1>4, QuietStep

LEMMA FormatRoleType == TInv /\ FormatRole => TInv'
<1> SUFFICES ASSUME TInv, FormatRole PROVE TInv'
  OBVIOUS
<1> DEFINE r == IF Top.s = NumSectors - 1 THEN GC ELSE DATA
<1>1. r \in UNASSIGNED..DATA_GCING /\ r \in UNASSIGNED..SectorRoleNum
  BY DEF UNASSIGNED, GC, DATA, DATA_GCING, SectorRoleNum
<1>2. hdr' = SetSectorRole(hdr, Top.s, r) /\ attr' = [attr EXCEPT ![Top.s].role = r]
  BY DEF FormatRole
<1> HIDE DEF r
<1>3. FlashOK'
  <2>1. hdr \in HdrType
    BY DEF TInv, FlashOK, HdrType
  <2>2. SetSectorRole(hdr, Top.s, r) \in HdrType
    BY <1>1, <2>1, HeaderWrites
  <2> QED
    BY <1>2, <2>2 DEF TInv, FlashOK, FormatRole, HdrType
<1>4. DescOK'
  BY <1>1, <1>2, AttrWrites DEF TInv, DescOK, FormatRole
<1>5. RestOK'
  BY DEF TInv, RestOK, FormatRole
<1>6. todo' \in Seq(QuietFrame)
  BY GotoQuiet DEF TInv, FormatRole, At, Quiet, Pc
<1> QED
  BY <1>3, <1>4, <1>5, <1>6, QuietStep

LEMMA FormatMagicType == TInv /\ FormatMagic => TInv'
<1> SUFFICES ASSUME TInv, FormatMagic PROVE TInv'
  OBVIOUS
<1>1. FlashOK'
  BY HeaderWrites DEF TInv, FlashOK, FormatMagic, HdrType
<1>2. DescOK' /\ RestOK'
  BY Same DEF TInv, FormatMagic
<1>3. todo' \in Seq(QuietFrame)
  <2>1. todo # <<>> /\ StackOK
    BY DEF TInv, FormatMagic, At
  <2>2. CASE Top.s + 1 \in Sector
    <3>1. [Top EXCEPT !.s = @ + 1, !.pc = "format"] \in QuietFrame
      BY <2>1, <2>2, TopOK DEF QuietFrame, Frame, Pc
    <3> QED
      BY <2>1, <2>2, <3>1, StayQuiet DEF FormatMagic
  <2>3. CASE Top.s + 1 \notin Sector
    BY <2>1, <2>3, ReturnQuiet DEF FormatMagic
  <2> QED
    BY <2>2, <2>3
<1> QED
  BY <1>1, <1>2, <1>3, QuietStep

LEMMA DefaultsType == TInv /\ Defaults => TInv'
<1> SUFFICES ASSUME TInv, Defaults PROVE TInv'
  OBVIOUS
<1>1. FlashOK' /\ DescOK' /\ RestOK'
  BY Same DEF TInv, Defaults
<1>2. todo' \in Seq(QuietFrame)
  <2> DEFINE K == {k \in Key : k > Top.i /\ ~kv[k].stored}
             k == Min(K)
             f == [Top EXCEPT !.i = k, !.key = k, !.val = kv[k].val]
  <2>1. todo # <<>> /\ StackOK
    BY DEF TInv, Defaults, At
  <2>2. CASE K = {}
    BY <2>1, <2>2, ReturnQuiet DEF Defaults
  <2>3. CASE K # {}
    <3>1. k \in Key
      BY <2>3, Ranges, MinNat
    <3>2. k \in Nat /\ kv[k].val \in Value
      BY <3>1, Ranges DEF TInv, RestOK, Entry
    <3>3. Call([f EXCEPT !.pc = "defaults_commit"], [f EXCEPT !.pc = "put"])
      BY <2>3 DEF Defaults
    <3> HIDE DEF k
    <3>4. f \in Frame
      BY <2>1, <3>1, <3>2, TopOK DEF Frame
    <3> HIDE DEF f
    <3>5. [f EXCEPT !.pc = "defaults_commit"] \in QuietFrame
      BY <3>4 DEF QuietFrame, Frame, Pc
    <3>6. [f EXCEPT !.pc = "put"] \in QuietFrame
      BY <3>4 DEF QuietFrame, Frame, Pc
    <3> QED
      BY <2>1, <3>3, <3>5, <3>6, CallQuiet
  <2> QED
    BY <2>2, <2>3
<1> QED
  BY <1>1, <1>2, QuietStep

LEMMA DefaultsCommitType == TInv /\ DefaultsCommit => TInv'
<1> SUFFICES ASSUME TInv, DefaultsCommit PROVE TInv'
  OBVIOUS
<1>1. FlashOK'
  BY RecordWrites DEF TInv, FlashOK, DefaultsCommit, SlotType, WRITE, UNUSED, DELETED
<1>2. DescOK'
  BY Same DEF TInv, DefaultsCommit
<1>3. RestOK'
  BY DEF TInv, RestOK, DefaultsCommit, Entry
<1>4. todo' \in Seq(QuietFrame)
  BY GotoQuiet DEF TInv, DefaultsCommit, At, Quiet, Pc
<1> QED
  BY <1>1, <1>2, <1>3, <1>4, QuietStep

(* A scan counts at most the slots of the sector it reads.                 *)
LEMMA ScanCount == \A s : Cardinality(Scanned(s)) \in 0..Slots
<1> SUFFICES ASSUME NEW s PROVE Cardinality(Scanned(s)) \in 0..Slots
  OBVIOUS
<1>1. Scanned(s) \subseteq 1..Slots
  BY Ranges DEF Scanned, Slot
<1>2. IsFiniteSet(1..Slots) /\ Cardinality(1..Slots) = Slots
  BY Sizes, FS_Interval
<1>3. /\ IsFiniteSet(Scanned(s))
      /\ Cardinality(Scanned(s)) <= Slots
  BY <1>1, <1>2, FS_Subset
<1>4. Cardinality(Scanned(s)) \in Nat
  BY <1>3, FS_CardinalityType
<1> QED
  BY Sizes, <1>3, <1>4

LEMMA LoadSectorType == TInv /\ LoadSector => TInv'
<1> SUFFICES ASSUME TInv, LoadSector PROVE TInv'
  OBVIOUS
<1> DEFINE s  == Top.s
           n  == Cardinality(Scanned(s))
           st == IF \E j \in Scanned(s) : slot[s][j].key # 0 THEN USING ELSE FREE
<1>1. StackOK /\ todo # <<>> /\ s \in Sector
  BY TopOK DEF TInv, LoadSector, At, Frame
<1>2. st \in 0..SectorStatusNum
  BY DEF USING, FREE, SectorStatusNum
<1>3. /\ used' = [used EXCEPT ![s] = n]
      /\ attr' = [attr EXCEPT ![s] = [AttrOf(s) EXCEPT !.status = st]]
      /\ hdr' \in {SetSectorStatus(hdr, s, st), hdr}
      /\ slot' = slot
  BY DEF LoadSector
<1>4. n \in 0..Slots
  BY ScanCount
<1>5. FlashOK'
  <2>1. hdr \in HdrType
    BY DEF TInv, FlashOK, HdrType
  <2>2. SetSectorStatus(hdr, s, st) \in HdrType
    BY <1>2, <2>1, HeaderWrites
  <2> QED
    BY <1>3, <2>1, <2>2 DEF TInv, FlashOK, HdrType
<1>6. DescOK'
  <2>1. AttrOf(s) \in Attr
    BY <1>1, HeaderReads DEF TInv
  <2> HIDE DEF st, n
  <2>2. [AttrOf(s) EXCEPT !.status = st] \in Attr
    BY <1>2, <2>1 DEF Attr
  <2> HIDE DEF s
  <2> QED
    BY <1>3, <1>4, <2>2 DEF TInv, DescOK
<1>7. RestOK'
  <2> DEFINE entry(k) == IF LiveOf(s, k) = {} THEN kv[k]
                         ELSE LET j == Max(LiveOf(s, k))
                              IN [addr |-> <<s, j>>, val |-> slot[s][j].val, stored |-> TRUE]
  <2>1. kv' = [k \in Key |-> entry(k)] /\ UNCHANGED <<ret, reply, crashes>>
    BY DEF LoadSector
  <2>2. ASSUME NEW k \in Key PROVE entry(k) \in Entry
    <3>1. CASE LiveOf(s, k) = {}
      BY <3>1 DEF TInv, RestOK
    <3>2. CASE LiveOf(s, k) # {}
      <4>1. LiveOf(s, k) \subseteq 1..Slots
        BY Ranges DEF LiveOf, LiveIn, Scanned, Slot
      <4>2. Max(LiveOf(s, k)) \in 1..Slots
        <5>1. LiveOf(s, k) \subseteq 0..Slots
          BY <4>1
        <5> QED
          BY <3>2, <4>1, <5>1, Sizes, MaxNat
      <4> DEFINE j == Max(LiveOf(s, k))
      <4>3. <<s, j>> \in Addr
        BY <1>1, <4>2 DEF Addr, Slot
      <4>4. slot[s][j].val \in Value
        BY <1>1, <4>2 DEF TInv, FlashOK, Slot, Record
      <4> QED
        BY <3>2, <4>3, <4>4 DEF Entry
    <3> QED
      BY <3>1, <3>2
  <2> HIDE DEF entry
  <2> QED
    BY <2>1, <2>2 DEF TInv, RestOK
<1>8. todo' \in Seq(QuietFrame)
  <2>1. CASE s + 1 \in Sector
    <3>1. [Top EXCEPT !.s = s + 1] \in QuietFrame
      BY <1>1, <2>1, TopOK DEF QuietFrame, Frame, LoadSector, At
    <3> QED
      BY <1>1, <2>1, <3>1, StayQuiet DEF LoadSector
  <2>2. CASE s + 1 \notin Sector
    BY <1>1, <2>2, ReturnQuiet DEF LoadSector
  <2> QED
    BY <2>1, <2>2
<1> QED
  BY <1>5, <1>6, <1>7, <1>8, QuietStep

-----------------------------------------------------------------------------
(* Writing a record *)

LEMMA PutType == TInv /\ Put => TInv'
<1> SUFFICES ASSUME TInv, Put PROVE TInv'
  OBVIOUS
<1>1. FlashOK' /\ DescOK' /\ RestOK'
  BY Same DEF TInv, Put
<1>2. StackOK /\ todo # <<>> /\ Top.pc = "put"
  BY DEF TInv, Put, At
<1>3. CASE FindWritableDataSector >= 0
  <2> DEFINE f == [Top EXCEPT !.pc = "append", !.s = FindWritableDataSector]
  <2>1. /\ FindWritableDataSector \in Sector
        /\ used[FindWritableDataSector] < Slots
    BY <1>3, FindWritable DEF TInv
  <2>2. todo' = <<f>> \o Tail(todo)
    BY <1>3 DEF Put, Stay
  <2>3. f \in Frame /\ f.s = FindWritableDataSector
    BY <1>2, <2>1, TopOK DEF Frame, Pc
  <2> HIDE DEF f
  <2>4. Tail(todo) \in Seq(QuietFrame)
    BY <1>2, TopOK
  <2>5. StackOK' /\ Top' = f
    BY <2>2, <2>3, <2>4, PushFrame
  <2>6. Room'
    BY <2>1, <2>3, <2>5 DEF Room, Put, desc
  <2> QED
    BY <1>1, <2>5, <2>6 DEF TInv
<1>4. CASE ~(FindWritableDataSector >= 0)
  <2>1. Top \in QuietFrame
    BY <1>2, TopOK DEF QuietFrame
  <2>2. Call0("gc") \in QuietFrame
    BY QuietCall0 DEF Quiet, Pc
  <2>3. todo' \in Seq(QuietFrame)
    BY <1>2, <1>4, <2>1, <2>2, CallQuiet DEF Put
  <2> QED
    BY <1>1, <2>3, QuietStep
<1> QED
  BY <1>3, <1>4

LEMMA WriteRecordType == TInv /\ WriteRecord => TInv'
<1> SUFFICES ASSUME TInv, WriteRecord PROVE TInv'
  OBVIOUS
<1> DEFINE s  == Top.s
           a  == <<s, used[s] + 1>>
           st == IF used[s] + 1 = Slots THEN FULL ELSE USING
<1>1. StackOK /\ todo # <<>> /\ Top \in Frame /\ s \in Sector
  BY TopOK DEF TInv, WriteRecord, At, Frame
<1>2. used[s] \in Nat /\ used[s] < Slots
  BY <1>1, Sizes DEF TInv, DescOK, Room, WriteRecord
<1>3. used[s] + 1 \in 1..Slots
  BY <1>2, Sizes
<1>4. st \in 0..SectorStatusNum
  BY DEF FULL, USING, SectorStatusNum
<1>5. /\ slot' = PutRecord(slot, a, NewRecord(Top.key, Top.val))
      /\ ret' = a
      /\ used' = [used EXCEPT ![s] = @ + 1]
      /\ attr' = [attr EXCEPT ![s].status = st]
      /\ UNCHANGED <<hdr, kv, reply, crashes>>
  BY DEF WriteRecord
<1>6. todo' \in Seq(QuietFrame)
  <2>1. Goto("append_status") \/ Return
    BY DEF WriteRecord
  <2>2. "append_status" \in Quiet
    BY DEF Quiet, Pc
  <2> QED
    BY <1>1, <2>1, <2>2, GotoQuiet, ReturnQuiet
<1>7. FlashOK'
  <2>1. NewRecord(Top.key, Top.val) \in Record
    BY <1>1, Records DEF Frame
  <2>2. slot \in SlotType
    BY DEF TInv, FlashOK, SlotType
  <2> HIDE DEF a
  <2>3. PutRecord(slot, a, NewRecord(Top.key, Top.val)) \in SlotType
    BY <2>1, <2>2, RecordWrites
  <2> QED
    BY <1>5, <2>3 DEF TInv, FlashOK, SlotType
<1>8. DescOK'
  <2> HIDE DEF st, s
  <2>1. attr' \in [Sector -> Attr]
    BY <1>4, <1>5, AttrWrites DEF TInv
  <2>2. used' \in [Sector -> 0..Slots]
    BY <1>1, <1>3, <1>5 DEF TInv, DescOK
  <2> QED
    BY <2>1, <2>2 DEF DescOK
<1>9. RestOK'
  BY <1>1, <1>3, <1>5 DEF TInv, RestOK, Addr, Slot
<1> QED
  BY <1>6, <1>7, <1>8, <1>9, QuietStep

LEMMA WriteSectorStatusType == TInv /\ WriteSectorStatus => TInv'
<1> SUFFICES ASSUME TInv, WriteSectorStatus PROVE TInv'
  OBVIOUS
<1>1. attr[Top.s].status \in 0..SectorStatusNum
  BY TopOK DEF TInv, DescOK, WriteSectorStatus, At, Frame, Attr
<1>2. FlashOK'
  <2>1. hdr \in HdrType
    BY DEF TInv, FlashOK, HdrType
  <2>2. SetSectorStatus(hdr, Top.s, attr[Top.s].status) \in HdrType
    BY <1>1, <2>1, HeaderWrites
  <2> QED
    BY <2>2 DEF TInv, FlashOK, WriteSectorStatus, HdrType
<1>3. DescOK' /\ RestOK'
  BY Same DEF TInv, WriteSectorStatus
<1>4. todo' \in Seq(QuietFrame)
  BY ReturnQuiet DEF TInv, WriteSectorStatus, At
<1> QED
  BY <1>2, <1>3, <1>4, QuietStep

-----------------------------------------------------------------------------
(* Migration *)

(* The frame that a caller pushes for a migration is a quiet one.          *)
LEMMA MigrateFrameType == \A s, t \in Sector : MigrateFrame(s, t) \in QuietFrame
<1>1. Call0("mig_enter") \in QuietFrame
  BY QuietCall0 DEF Quiet, Pc
<1> QED
  BY <1>1 DEF MigrateFrame, QuietFrame, Frame

LEMMA KvStatusType ==
    ASSUME FlashOK, NEW a, NEW st \in UNUSED..DELETED
    PROVE  SetKvStatus(slot, a, st) \in SlotType
BY RecordWrites DEF FlashOK, SlotType

LEMMA MigrateEnterType == TInv /\ MigrateEnter => TInv'
<1> SUFFICES ASSUME TInv, MigrateEnter PROVE TInv'
  OBVIOUS
<1>1. FlashOK' /\ DescOK'
  BY Same DEF TInv, MigrateEnter
<1>2. StackOK /\ todo # <<>> /\ reply \in {"none", "ok", "err"}
  BY DEF TInv, MigrateEnter, At, RestOK
<1>3. todo' \in Seq(QuietFrame) /\ reply' \in {"none", "ok", "err"}
  <2>1. CASE Fail
    BY <1>2, <2>1, FailQuiet
  <2>2. CASE Goto("migrate") /\ UNCHANGED reply
    BY <1>2, <2>2, GotoQuiet DEF Quiet, Pc
  <2> QED
    BY <2>1, <2>2 DEF MigrateEnter
<1>4. RestOK'
  BY <1>3 DEF TInv, RestOK, MigrateEnter
<1> QED
  BY <1>1, <1>3, <1>4, QuietStep

LEMMA MigrateType == TInv /\ Migrate => TInv'
<1> SUFFICES ASSUME TInv, Migrate PROVE TInv'
  OBVIOUS
<1> DEFINE J == {j \in LiveIn(Top.s) : j > Top.i}
           j == Min(J)
           r == slot[Top.s][j]
           f == [Top EXCEPT !.pc = "mig_predelete", !.i = j, !.key = r.key]
           g == [Call0("append") EXCEPT !.s = Top.t, !.key = r.key, !.val = r.val]
<1>1. StackOK /\ todo # <<>> /\ reply \in {"none", "ok", "err"}
  BY DEF TInv, Migrate, At, RestOK
<1>2. Top \in Frame /\ Top.s \in Sector /\ Top.t \in Sector /\ Tail(todo) \in Seq(QuietFrame)
  BY <1>1, TopOK DEF Frame
<1>3. FlashOK' /\ DescOK'
  BY Same DEF TInv, Migrate
<1>4. CASE J = {}
  <2>1. Return /\ UNCHANGED <<kv, ret, reply, crashes>>
    BY <1>4 DEF Migrate
  <2> QED
    BY <1>1, <1>3, <2>1, Same, ReturnQuiet, QuietStep DEF TInv
<1>5. CASE J # {} /\ used[Top.t] = Slots
  <2>1. Fail /\ UNCHANGED <<kv, ret, crashes>>
    BY <1>5 DEF Migrate
  <2>2. todo' \in Seq(QuietFrame) /\ reply' \in {"none", "ok", "err"}
    BY <1>1, <2>1, FailQuiet
  <2>3. RestOK'
    BY <2>1, <2>2 DEF TInv, RestOK
  <2> QED
    BY <1>3, <2>2, <2>3, QuietStep
<1>6. CASE J # {} /\ used[Top.t] # Slots
  <2>1. Call(f, g) /\ UNCHANGED <<used, kv, ret, reply, crashes>>
    BY <1>6 DEF Migrate, desc
  <2>2. j \in J
    <3>1. J \subseteq Nat
      BY Ranges DEF LiveIn, Scanned
    <3> QED
      BY <1>6, <3>1, MinNat
  <2>3. j \in Slot /\ j \in Nat /\ IsLive(r)
    BY <2>2, Ranges DEF LiveIn, Scanned
  <2>4. r.key \in Key /\ r.val \in Value
    <3>1. r \in Record
      BY <1>2, <2>3 DEF TInv, FlashOK
    <3> QED
      BY <2>3, <3>1, Sizes DEF Record, IsLive, Key
  <2>5. used[Top.t] < Slots
    BY <1>2, <1>6, Sizes DEF TInv, DescOK
  <2> HIDE DEF j, r
  <2>6. f \in QuietFrame
    BY <1>2, <2>3, <2>4 DEF QuietFrame, Frame, Pc
  <2>7. g \in Frame /\ g.s = Top.t
    <3>1. Call0("append") \in Frame
      BY Frames DEF Pc
    <3> QED
      BY <1>2, <2>4, <3>1 DEF Frame
  <2> HIDE DEF f, g
  <2>8. <<f>> \o Tail(todo) \in Seq(QuietFrame)
    BY <1>2, <2>6
  <2>9. todo' = <<g>> \o (<<f>> \o Tail(todo))
    <3>1. todo' = <<g, f>> \o Tail(todo)
      BY <2>1 DEF Call
    <3> QED
      BY <1>2, <2>6, <2>7, <3>1, QuietIsFrame
  <2>10. StackOK' /\ Top' = g
    BY <2>7, <2>8, <2>9, PushFrame
  <2>11. Room'
    BY <2>1, <2>5, <2>7, <2>10 DEF Room
  <2>12. RestOK'
    BY <2>1, Same DEF TInv
  <2> QED
    BY <1>3, <2>10, <2>11, <2>12 DEF TInv
<1> QED
  BY <1>4, <1>5, <1>6

LEMMA MigratePreDeleteType == TInv /\ MigratePreDelete => TInv'
<1> SUFFICES ASSUME TInv, MigratePreDelete PROVE TInv'
  OBVIOUS
<1>1. FlashOK'
  BY KvStatusType DEF TInv, FlashOK, MigratePreDelete, SlotType, PRE_DELETE, UNUSED, DELETED
<1>2. DescOK' /\ RestOK'
  BY Same DEF TInv, MigratePreDelete
<1>3. todo' \in Seq(QuietFrame)
  <2>1. StackOK /\ todo # <<>> /\ ret \in Addr \cup {NoAddr}
    BY DEF TInv, MigratePreDelete, At, RestOK
  <2>2. [Top EXCEPT !.pc = "mig_commit", !.new = ret] \in QuietFrame
    BY <2>1, TopOK DEF QuietFrame, Frame, Pc
  <2> QED
    BY <2>1, <2>2, StayQuiet DEF MigratePreDelete
<1> QED
  BY <1>1, <1>2, <1>3, QuietStep

LEMMA MigrateCommitType == TInv /\ MigrateCommit => TInv'
<1> SUFFICES ASSUME TInv, MigrateCommit PROVE TInv'
  OBVIOUS
<1>1. FlashOK'
  BY KvStatusType DEF TInv, FlashOK, MigrateCommit, SlotType, WRITE, UNUSED, DELETED
<1>2. DescOK' /\ RestOK'
  BY Same DEF TInv, MigrateCommit
<1>3. todo' \in Seq(QuietFrame)
  BY GotoQuiet DEF TInv, MigrateCommit, At, Quiet, Pc
<1> QED
  BY <1>1, <1>2, <1>3, QuietStep

LEMMA MigrateDeletedType == TInv /\ MigrateDeleted => TInv'
<1> SUFFICES ASSUME TInv, MigrateDeleted PROVE TInv'
  OBVIOUS
<1>1. FlashOK'
  BY KvStatusType DEF TInv, FlashOK, MigrateDeleted, SlotType, UNUSED, DELETED
<1>2. DescOK'
  BY Same DEF TInv, MigrateDeleted
<1>3. RestOK'
  <2>1. Top.new \in Addr \cup {NoAddr}
    BY TopOK DEF TInv, MigrateDeleted, At, Frame
  <2> QED
    BY <2>1 DEF TInv, RestOK, MigrateDeleted, Entry
<1>4. todo' \in Seq(QuietFrame)
  BY GotoQuiet DEF TInv, MigrateDeleted, At, Quiet, Pc
<1> QED
  BY <1>1, <1>2, <1>3, <1>4, QuietStep

-----------------------------------------------------------------------------
(* Rebuilding *)

LEMMA RebuildStartType == TInv /\ RebuildStart => TInv'
<1> SUFFICES ASSUME TInv, RebuildStart PROVE TInv'
  OBVIOUS
<1>1. FlashOK' /\ RestOK'
  BY Same DEF TInv, RebuildStart
<1>2. DescOK'
  BY HeaderReads DEF TInv, RebuildStart, DescOK
<1>3. todo' \in Seq(QuietFrame)
  <2>1. StackOK /\ todo # <<>>
    BY DEF TInv, RebuildStart, At
  <2>2. PICK s \in Sector : Stay([Top EXCEPT !.pc = "reb_round", !.s = s])
    <3> DEFINE V == {s \in Sector : hdr[s].magic}
               E == {s \in V : used[s] < Slots /\ \A x \in V : used[s] <= used[x]}
    <3>1. E # {} => Min(E) \in Sector
      BY Ranges, MinNat
    <3> QED
      BY <3>1, Ranges DEF RebuildStart
  <2>3. [Top EXCEPT !.pc = "reb_round", !.s = s] \in QuietFrame
    BY <2>1, TopOK DEF QuietFrame, Frame, Pc
  <2> QED
    BY <2>1, <2>2, <2>3, StayQuiet
<1> QED
  BY <1>1, <1>2, <1>3, QuietStep

LEMMA RebuildRoundType == TInv /\ RebuildRound => TInv'
<1> SUFFICES ASSUME TInv, RebuildRound PROVE TInv'
  OBVIOUS
<1> DEFINE n == (Top.s + Top.i + 1) % NumSectors
<1>1. FlashOK' /\ DescOK' /\ RestOK'
  BY Same DEF TInv, RebuildRound
<1>2. StackOK /\ todo # <<>> /\ Top \in Frame /\ Top.s \in Sector
  BY TopOK DEF TInv, RebuildRound, At, Frame
<1>3. n \in Sector
  <2>1. Top.s \in Nat /\ Top.i \in Nat
    BY <1>2, Ranges DEF Frame
  <2>2. Top.s + Top.i + 1 \in Nat
    BY <2>1
  <2> QED
    BY <2>2, Ranges
<1>4. Call([Top EXCEPT !.pc = "reb_erase", !.s = n], MigrateFrame(n, Top.s))
  BY DEF RebuildRound
<1> HIDE DEF n
<1>5. [Top EXCEPT !.pc = "reb_erase", !.s = n] \in QuietFrame
  BY <1>2, <1>3 DEF QuietFrame, Frame, Pc
<1>6. MigrateFrame(n, Top.s) \in QuietFrame
  BY <1>2, <1>3, MigrateFrameType
<1>7. todo' \in Seq(QuietFrame)
  BY <1>2, <1>4, <1>5, <1>6, CallQuiet
<1> QED
  BY <1>1, <1>7, QuietStep

LEMMA RebuildEraseType == TInv /\ RebuildErase => TInv'
<1> SUFFICES ASSUME TInv, RebuildErase PROVE TInv'
  OBVIOUS
<1>1. Top.s \in Sector
  BY TopOK DEF TInv, RebuildErase, At, Frame
<1>2. FlashOK' /\ DescOK'
  BY <1>1, EraseType DEF TInv, RebuildErase
<1>3. RestOK'
  BY DEF TInv, RestOK, RebuildErase
<1>4. todo' \in Seq(QuietFrame)
  BY GotoQuiet DEF TInv, RebuildErase, At, Quiet, Pc
<1> QED
  BY <1>2, <1>3, <1>4, QuietStep

LEMMA RebuildMagicType == TInv /\ RebuildMagic => TInv'
<1> SUFFICES ASSUME TInv, RebuildMagic PROVE TInv'
  OBVIOUS
<1>1. FlashOK'
  BY HeaderWrites DEF TInv, FlashOK, RebuildMagic, HdrType
<1>2. DescOK' /\ RestOK'
  BY Same DEF TInv, RebuildMagic
<1>3. todo' \in Seq(QuietFrame)
  BY GotoQuiet DEF TInv, RebuildMagic, At, Quiet, Pc
<1> QED
  BY <1>1, <1>2, <1>3, QuietStep

LEMMA RebuildRoleType == TInv /\ RebuildRole => TInv'
<1> SUFFICES ASSUME TInv, RebuildRole PROVE TInv'
  OBVIOUS
<1> DEFINE r == IF Top.i = NumSectors - 1 THEN GC ELSE DATA
           h == SetSectorRole(hdr, Top.s, r)
           refreshed(x) == IF h[x].magic THEN [status |-> SectorStatus(h[x].words),
                                               role |-> SectorRole(h[x].words)]
                           ELSE attr[x]
<1>1. /\ hdr' = h
      /\ attr' = [x \in Sector |-> refreshed(x)]
      /\ UNCHANGED <<slot, used, kv, ret, reply, crashes>>
  BY DEF RebuildRole
<1>2. FlashOK'
  <2>1. hdr \in HdrType
    BY DEF TInv, FlashOK, HdrType
  <2>2. r \in UNASSIGNED..DATA_GCING
    BY DEF UNASSIGNED, GC, DATA, DATA_GCING
  <2> HIDE DEF r
  <2>3. h \in HdrType
    BY <2>1, <2>2, HeaderWrites
  <2> QED
    BY <1>1, <2>3 DEF TInv, FlashOK, HdrType
<1>3. DescOK'
  <2> HIDE DEF h
  <2>1. \A x \in Sector : refreshed(x) \in Attr
    BY StatusRange DEF Attr, TInv, DescOK
  <2> HIDE DEF refreshed
  <2> QED
    BY <1>1, <2>1 DEF TInv, DescOK
<1>4. RestOK'
  BY <1>1, Same DEF TInv
<1>5. todo' \in Seq(QuietFrame)
  <2>1. StackOK /\ todo # <<>> /\ Top \in Frame
    BY TopOK DEF TInv, RebuildRole, At
  <2>2. Return \/ Stay([Top EXCEPT !.pc = "reb_round", !.i = @ + 1])
    BY DEF RebuildRole
  <2>3. [Top EXCEPT !.pc = "reb_round", !.i = @ + 1] \in QuietFrame
    <3>1. Top.i + 1 \in Nat
      BY <2>1 DEF Frame
    <3>2. \A m \in Nat : [Top EXCEPT !.pc = "reb_round", !.i = m] \in QuietFrame
      BY <2>1 DEF QuietFrame, Frame, Pc
    <3> QED
      BY <3>1, <3>2
  <2> QED
    BY <2>1, <2>2, <2>3, ReturnQuiet, StayQuiet
<1> QED
  BY <1>2, <1>3, <1>4, <1>5, QuietStep

-----------------------------------------------------------------------------
(* Garbage collection *)

(* Writing role r into the header of s, in flash and in RAM.               *)
LEMMA RoleWrite ==
    ASSUME FlashOK, DescOK, NEW s, NEW r \in UNASSIGNED..DATA_GCING,
           hdr' = SetSectorRole(hdr, s, r), slot' = slot,
           attr' = [attr EXCEPT ![s].role = r], used' \in [Sector -> 0..Slots]
    PROVE  FlashOK' /\ DescOK'
<1>1. hdr \in HdrType
  BY DEF FlashOK, HdrType
<1>2. SetSectorRole(hdr, s, r) \in HdrType
  BY <1>1, HeaderWrites
<1>3. r \in UNASSIGNED..SectorRoleNum
  BY DEF UNASSIGNED, DATA_GCING, SectorRoleNum
<1>4. attr' \in [Sector -> Attr]
  BY <1>3, AttrWrites
<1> QED
  BY <1>2, <1>4 DEF FlashOK, HdrType, DescOK

LEMMA Roles == {GC, GC_TEMP, DATA, DATA_GCING} \subseteq UNASSIGNED..DATA_GCING
BY DEF UNASSIGNED, GC, GC_TEMP, DATA, DATA_GCING

LEMMA GcStartType == TInv /\ GcStart => TInv'
<1> SUFFICES ASSUME TInv, GcStart PROVE TInv'
  OBVIOUS
<1>1. FlashOK' /\ RestOK'
  BY Same DEF TInv, GcStart
<1>2. DescOK'
  BY HeaderReads DEF TInv, GcStart, DescOK
<1>3. todo' \in Seq(QuietFrame)
  <2>1. StackOK /\ todo # <<>> /\ "gc_find" \in Quiet
    BY DEF TInv, GcStart, At, Quiet, Pc
  <2>2. CASE IsNormal
    BY <2>1, <2>2, GotoQuiet DEF GcStart
  <2>3. CASE ~IsNormal
    <3>1. [Top EXCEPT !.pc = "gc_find"] \in QuietFrame
      BY <2>1, TopOK DEF QuietFrame, Frame, Pc
    <3>2. <<[Top EXCEPT !.pc = "gc_find"]>> \o Tail(todo) \in Seq(QuietFrame)
      BY <2>1, <3>1, TopOK, Push
    <3>3. todo' = RecoverFrames \o <<[Top EXCEPT !.pc = "gc_find"]>> \o Tail(todo)
      BY <2>3 DEF GcStart
    <3>4. <<[Top EXCEPT !.pc = "gc_find"]>> \in Seq(QuietFrame) /\ Tail(todo) \in Seq(QuietFrame)
      BY <2>1, <3>1, TopOK
    <3> QED
      BY <3>3, <3>4, RecoverQuiet
  <2> QED
    BY <2>2, <2>3
<1> QED
  BY <1>1, <1>2, <1>3, QuietStep

LEMMA GcFindType == TInv /\ GcFind => TInv'
<1> SUFFICES ASSUME TInv, GcFind PROVE TInv'
  OBVIOUS
<1> DEFINE g == FindSectorRole(GC)
<1>1. StackOK /\ todo # <<>> /\ reply \in {"none", "ok", "err"}
  BY DEF TInv, GcFind, At, RestOK
<1>2. CASE g < 0
  <2>1. Fail /\ UNCHANGED <<hdr, attr, slot, used, kv, ret, crashes>>
    BY <1>2 DEF GcFind
  <2>2. todo' \in Seq(QuietFrame) /\ reply' \in {"none", "ok", "err"}
    BY <1>1, <2>1, FailQuiet
  <2>3. FlashOK' /\ DescOK'
    BY <2>1, Same DEF TInv, flash, desc
  <2>4. RestOK'
    BY <2>1, <2>2 DEF TInv, RestOK
  <2> QED
    BY <2>2, <2>3, <2>4, QuietStep
<1>3. CASE ~(g < 0)
  <2>1. /\ hdr' = SetSectorRole(hdr, g, GC_TEMP)
        /\ attr' = [attr EXCEPT ![g].role = GC_TEMP]
        /\ Stay([Top EXCEPT !.pc = "gc_gcing", !.s = g, !.t = (g + 1) % NumSectors])
        /\ UNCHANGED <<slot, used, kv, ret, reply, crashes>>
    BY <1>3 DEF GcFind
  <2>2. g \in Sector
    BY <1>3, FindRole
  <2> HIDE DEF g
  <2>3. (g + 1) % NumSectors \in Sector
    <3>1. g + 1 \in Nat
      BY <2>2, Ranges
    <3> QED
      BY <3>1, Ranges
  <2>4. FlashOK' /\ DescOK'
    BY <2>1, Roles, RoleWrite DEF TInv, DescOK
  <2>5. RestOK'
    BY <2>1, Same DEF TInv
  <2>6. [Top EXCEPT !.pc = "gc_gcing", !.s = g, !.t = (g + 1) % NumSectors] \in QuietFrame
    BY <1>1, <2>2, <2>3, TopOK DEF QuietFrame, Frame, Pc
  <2>7. todo' \in Seq(QuietFrame)
    BY <1>1, <2>1, <2>6, StayQuiet
  <2> QED
    BY <2>4, <2>5, <2>7, QuietStep
<1> QED
  BY <1>2, <1>3

LEMMA GcMigrateType == TInv /\ GcMigrate => TInv'
<1> SUFFICES ASSUME TInv, GcMigrate PROVE TInv'
  OBVIOUS
<1>1. StackOK /\ todo # <<>> /\ Top \in Frame /\ Top.s \in Sector /\ Top.t \in Sector
  BY TopOK DEF TInv, GcMigrate, At, Frame
<1>2. FlashOK' /\ DescOK'
  BY Roles, RoleWrite DEF TInv, DescOK, GcMigrate
<1>3. RestOK'
  BY Same DEF TInv, GcMigrate
<1>4. [Top EXCEPT !.pc = "gc_erase"] \in QuietFrame
  BY <1>1 DEF QuietFrame, Frame, Pc
<1>5. MigrateFrame(Top.t, Top.s) \in QuietFrame
  BY <1>1, MigrateFrameType
<1>6. todo' \in Seq(QuietFrame)
  BY <1>1, <1>4, <1>5, CallQuiet DEF GcMigrate
<1> QED
  BY <1>2, <1>3, <1>6, QuietStep

LEMMA GcEraseType == TInv /\ GcErase => TInv'
<1> SUFFICES ASSUME TInv, GcErase PROVE TInv'
  OBVIOUS
<1>1. Top.t \in Sector
  BY TopOK DEF TInv, GcErase, At, Frame
<1>2. FlashOK' /\ DescOK'
  BY <1>1, EraseType DEF TInv, GcErase
<1>3. RestOK'
  BY DEF TInv, RestOK, GcErase
<1>4. todo' \in Seq(QuietFrame)
  BY GotoQuiet DEF TInv, GcErase, At, Quiet, Pc
<1> QED
  BY <1>2, <1>3, <1>4, QuietStep

LEMMA GcRoleType == TInv /\ GcRole => TInv'
<1> SUFFICES ASSUME TInv, GcRole PROVE TInv'
  OBVIOUS
<1>1. FlashOK' /\ DescOK'
  BY Roles, RoleWrite DEF TInv, DescOK, GcRole
<1>2. RestOK'
  BY Same DEF TInv, GcRole
<1>3. todo' \in Seq(QuietFrame)
  BY GotoQuiet DEF TInv, GcRole, At, Quiet, Pc
<1> QED
  BY <1>1, <1>2, <1>3, QuietStep

LEMMA GcMagicType == TInv /\ GcMagic => TInv'
<1> SUFFICES ASSUME TInv, GcMagic PROVE TInv'
  OBVIOUS
<1>1. FlashOK'
  BY HeaderWrites DEF TInv, FlashOK, GcMagic, HdrType
<1>2. DescOK' /\ RestOK'
  BY Same DEF TInv, GcMagic
<1>3. todo' \in Seq(QuietFrame)
  BY GotoQuiet DEF TInv, GcMagic, At, Quiet, Pc
<1> QED
  BY <1>1, <1>2, <1>3, QuietStep

LEMMA GcDataType == TInv /\ GcData => TInv'
<1> SUFFICES ASSUME TInv, GcData PROVE TInv'
  OBVIOUS
<1>1. used' \in [Sector -> 0..Slots]
  <2>1. used' = [used EXCEPT ![Top.t] = 0] /\ used \in [Sector -> 0..Slots]
    BY DEF TInv, DescOK, GcData
  <2>2. 0 \in 0..Slots
    BY Sizes
  <2>3. \A x : [used EXCEPT ![x] = 0] \in [Sector -> 0..Slots]
    BY <2>1, <2>2, Zenon
  <2> QED
    BY <2>1, <2>3
<1>2. DATA \in UNASSIGNED..DATA_GCING
  BY Roles
<1>3. /\ hdr' = SetSectorRole(hdr, Top.s, DATA) /\ slot' = slot
      /\ attr' = [attr EXCEPT ![Top.s].role = DATA]
  BY DEF GcData
<1>4. FlashOK /\ DescOK
  BY DEF TInv
<1>5. FlashOK' /\ DescOK'
  BY <1>1, <1>2, <1>3, <1>4, RoleWrite
<1>6. RestOK'
  BY DEF TInv, RestOK, GcData
<1>7. todo' \in Seq(QuietFrame)
  BY ReturnQuiet DEF TInv, GcData, At
<1> QED
  BY <1>5, <1>6, <1>7, QuietStep

-----------------------------------------------------------------------------
(* The API *)

LEMMA ReadBackType == \A k \in Key : FlashOK /\ RestOK => ReadBack(k) \in [Key -> Entry]
<1> SUFFICES ASSUME NEW k \in Key, FlashOK, RestOK PROVE ReadBack(k) \in [Key -> Entry]
  OBVIOUS
<1>1. kv[k].addr \in Addr \cup {NoAddr} /\ kv \in [Key -> Entry]
  BY DEF RestOK, Entry
<1>2. CASE Readable(k)
  <2>1. kv[k].addr \in Addr
    BY <1>1, <1>2 DEF Readable
  <2>2. kv[k].addr[1] \in Sector /\ kv[k].addr[2] \in Slot
    BY <2>1 DEF Addr
  <2>3. FlashVal(k) \in Value
    BY <2>2 DEF FlashOK, FlashVal, Record
  <2> QED
    BY <1>1, <1>2, <2>3 DEF ReadBack, Entry
<1>3. CASE ~Readable(k)
  BY <1>1, <1>3 DEF ReadBack
<1> QED
  BY <1>2, <1>3

LEMMA ReadyStack == Ready => todo \in Seq(QuietFrame)
BY DEF Ready

LEMMA GetType == \A k \in Key : TInv /\ Get(k) => TInv'
<1> SUFFICES ASSUME NEW k \in Key, TInv, Get(k) PROVE TInv'
  OBVIOUS
<1>1. FlashOK' /\ DescOK'
  BY Same DEF TInv, Get
<1>2. RestOK'
  BY ReadBackType DEF TInv, RestOK, Get
<1>3. todo' \in Seq(QuietFrame)
  BY ReadyStack DEF Get
<1> QED
  BY <1>1, <1>2, <1>3, QuietStep

LEMMA SetType == \A k \in Key : \A v \in Value : TInv /\ Set(k, v) => TInv'
<1> SUFFICES ASSUME NEW k \in Key, NEW v \in Value, TInv, Set(k, v) PROVE TInv'
  OBVIOUS
<1> DEFINE f == [Call0("set_written") EXCEPT !.key = k, !.val = v]
<1>1. FlashOK' /\ DescOK'
  BY Same DEF TInv, Set
<1>2. kv' = ReadBack(k) /\ UNCHANGED <<ret, crashes>> /\ reply' \in {"none", "ok", "err"}
  BY DEF Set
<1>3. RestOK'
  BY <1>2, ReadBackType DEF TInv, RestOK
<1>4. todo' \in Seq(QuietFrame)
  <2>1. UNCHANGED todo \/ todo' = <<[f EXCEPT !.pc = "put"], f>>
    BY DEF Set
  <2>2. Call0("set_written") \in QuietFrame
    BY QuietCall0 DEF Quiet, Pc
  <2>3. f \in QuietFrame
    BY <2>2 DEF QuietFrame, Frame
  <2> HIDE DEF f
  <2>4. [f EXCEPT !.pc = "put"] \in QuietFrame
    BY <2>3 DEF QuietFrame, Frame, Pc
  <2>5. <<[f EXCEPT !.pc = "put"], f>> \in Seq(QuietFrame)
    BY <2>3, <2>4
  <2> QED
    BY <2>1, <2>5, ReadyStack DEF Set
<1> QED
  BY <1>1, <1>3, <1>4, QuietStep

LEMMA SetPreDeleteType == TInv /\ SetPreDelete => TInv'
<1> SUFFICES ASSUME TInv, SetPreDelete PROVE TInv'
  OBVIOUS
<1>1. FlashOK'
  BY KvStatusType DEF TInv, FlashOK, SetPreDelete, SlotType, PRE_DELETE, UNUSED, DELETED
<1>2. DescOK' /\ RestOK'
  BY Same DEF TInv, SetPreDelete
<1>3. todo' \in Seq(QuietFrame)
  <2>1. StackOK /\ todo # <<>> /\ ret \in Addr \cup {NoAddr}
    BY DEF TInv, SetPreDelete, At, RestOK
  <2>2. [Top EXCEPT !.pc = "set_commit", !.new = ret] \in QuietFrame
    BY <2>1, TopOK DEF QuietFrame, Frame, Pc
  <2> QED
    BY <2>1, <2>2, StayQuiet DEF SetPreDelete
<1> QED
  BY <1>1, <1>2, <1>3, QuietStep

LEMMA SetCommitType == TInv /\ SetCommit => TInv'
<1> SUFFICES ASSUME TInv, SetCommit PROVE TInv'
  OBVIOUS
<1>1. FlashOK'
  BY KvStatusType DEF TInv, FlashOK, SetCommit, SlotType, WRITE, UNUSED, DELETED
<1>2. DescOK' /\ RestOK'
  BY Same DEF TInv, SetCommit
<1>3. todo' \in Seq(QuietFrame)
  BY GotoQuiet DEF TInv, SetCommit, At, Quiet, Pc
<1> QED
  BY <1>1, <1>2, <1>3, QuietStep

LEMMA SetDeletedType == TInv /\ SetDeleted => TInv'
<1> SUFFICES ASSUME TInv, SetDeleted PROVE TInv'
  OBVIOUS
<1>1. FlashOK'
  BY KvStatusType DEF TInv, FlashOK, SetDeleted, SlotType, UNUSED, DELETED
<1>2. DescOK'
  BY Same DEF TInv, SetDeleted
<1>3. RestOK'
  <2>1. [addr |-> Top.new, val |-> Top.val, stored |-> TRUE] \in Entry
    BY TopOK DEF TInv, SetDeleted, At, Frame, Entry
  <2> QED
    BY <2>1 DEF TInv, RestOK, SetDeleted
<1>4. todo' \in Seq(QuietFrame)
  BY ReturnQuiet DEF TInv, SetDeleted, At
<1> QED
  BY <1>1, <1>2, <1>3, <1>4, QuietStep

LEMMA DeleteType == \A k \in Key : TInv /\ Delete(k) => TInv'
<1> SUFFICES ASSUME NEW k \in Key, TInv, Delete(k) PROVE TInv'
  OBVIOUS
<1>1. slot' \in SlotType
  <2>1. SetKvStatus(slot, kv[k].addr, DELETED) \in SlotType
    BY KvStatusType DEF TInv, UNUSED, DELETED
  <2> QED
    BY <2>1 DEF TInv, FlashOK, SlotType, Delete
<1>2. FlashOK'
  BY <1>1 DEF TInv, FlashOK, SlotType, Delete
<1>3. DescOK'
  BY Same DEF TInv, Delete
<1>4. RestOK'
  BY DEF TInv, RestOK, Delete, Entry
<1>5. todo' \in Seq(QuietFrame)
  <2>1. Call0("hung") \in QuietFrame
    BY QuietCall0 DEF Quiet, Pc
  <2>2. <<Call0("hung")>> \in Seq(QuietFrame)
    BY <2>1
  <2>3. todo' = todo \/ todo' = <<Call0("hung")>>
    BY DEF Delete
  <2>4. todo \in Seq(QuietFrame)
    BY ReadyStack DEF Delete
  <2> QED
    BY <2>2, <2>3, <2>4
<1> QED
  BY <1>2, <1>3, <1>4, <1>5, QuietStep

LEMMA CollectType == TInv /\ Collect => TInv'
<1> SUFFICES ASSUME TInv, Collect PROVE TInv'
  OBVIOUS
<1>1. FlashOK' /\ DescOK'
  BY Same DEF TInv, Collect
<1>2. RestOK'
  BY DEF TInv, RestOK, Collect
<1>3. todo' \in Seq(QuietFrame)
  <2>1. Call0("gc") \in QuietFrame
    BY QuietCall0 DEF Quiet, Pc
  <2> QED
    BY <2>1 DEF Collect
<1> QED
  BY <1>1, <1>2, <1>3, QuietStep

-----------------------------------------------------------------------------
(* Reset, and the theorem *)

LEMMA ResetTypes ==
    /\ ResetAttr \in [Sector -> Attr] /\ ResetUsed \in [Sector -> 0..Slots]
    /\ ResetKv \in [Key -> Entry]
    /\ <<Call0("init")>> \in Seq(QuietFrame)
<1>1. ResetAttr \in [Sector -> Attr]
  BY DEF ResetAttr, Attr, FREE, SectorStatusNum, UNASSIGNED, SectorRoleNum
<1>2. ResetUsed \in [Sector -> 0..Slots]
  BY Sizes DEF ResetUsed
<1>3. ResetKv \in [Key -> Entry]
  BY Sizes DEF ResetKv, Entry
<1>4. Call0("init") \in QuietFrame
  BY QuietCall0 DEF Quiet, Pc
<1> QED
  BY <1>1, <1>2, <1>3, <1>4

LEMMA PowerCutType == TInv /\ PowerCut => TInv'
<1> SUFFICES ASSUME TInv, PowerCut PROVE TInv'
  OBVIOUS
<1>1. FlashOK'
  <2>1. slot \in SlotType
    BY DEF TInv, FlashOK, SlotType
  <2>2. \A a : PutRecord(slot, a, Torn) \in SlotType
    BY <2>1, Records, RecordWrites
  <2>3. slot' \in SlotType
    BY <2>1, <2>2 DEF PowerCut
  <2> QED
    BY <2>3 DEF TInv, FlashOK, SlotType, PowerCut
<1>2. DescOK'
  BY ResetTypes DEF DescOK, PowerCut
<1>3. RestOK'
  BY ResetTypes, Sizes DEF TInv, RestOK, PowerCut
<1>4. todo' \in Seq(QuietFrame)
  BY ResetTypes DEF PowerCut
<1> QED
  BY <1>1, <1>2, <1>3, <1>4, QuietStep

LEMMA InitType == Init => TInv
<1> SUFFICES ASSUME Init PROVE TInv
  OBVIOUS
<1>1. FlashOK
  BY Records DEF Init, FlashOK, Header
<1>2. DescOK
  BY ResetTypes DEF Init, DescOK
<1>3. RestOK
  BY ResetTypes, Sizes DEF Init, RestOK
<1>4. StackOK /\ Room
  <2>1. todo = <<Call0("init")>> /\ Call0("init") \in Frame /\ Call0("init").pc # "append"
    BY Frames DEF Init, Pc
  <2>2. Tail(todo) = <<>> /\ Head(todo) = Call0("init")
    BY <2>1
  <2>3. todo \in Seq(Frame) /\ Tail(todo) \in Seq(QuietFrame)
    BY <2>1, <2>2
  <2> QED
    BY <2>1, <2>2, <2>3 DEF StackOK, Room, At, Top
<1> QED
  BY <1>1, <1>2, <1>3, <1>4 DEF TInv

LEMMA StepType == TInv /\ Step => TInv'
<1> SUFFICES ASSUME TInv, Step PROVE TInv'
  OBVIOUS
<1>1. CASE InitClassify \/ InitDone \/ LoadSector
  BY <1>1, InitClassifyType, InitDoneType, LoadSectorType
<1>2. CASE FormatErase \/ FormatRole \/ FormatMagic \/ Defaults \/ DefaultsCommit
  BY <1>2, FormatEraseType, FormatRoleType, FormatMagicType, DefaultsType, DefaultsCommitType
<1>3. CASE Put \/ WriteRecord \/ WriteSectorStatus
  BY <1>3, PutType, WriteRecordType, WriteSectorStatusType
<1>4. CASE MigrateEnter \/ Migrate \/ MigratePreDelete \/ MigrateCommit \/ MigrateDeleted
  BY <1>4, MigrateEnterType, MigrateType, MigratePreDeleteType, MigrateCommitType,
     MigrateDeletedType
<1>5. CASE RebuildStart \/ RebuildRound \/ RebuildErase \/ RebuildMagic \/ RebuildRole
  BY <1>5, RebuildStartType, RebuildRoundType, RebuildEraseType, RebuildMagicType,
     RebuildRoleType
<1>6. CASE GcStart \/ GcFind \/ GcMigrate \/ GcErase \/ GcRole \/ GcMagic \/ GcData
  BY <1>6, GcStartType, GcFindType, GcMigrateType, GcEraseType, GcRoleType, GcMagicType,
     GcDataType
<1>7. CASE SetPreDelete \/ SetCommit \/ SetDeleted
  BY <1>7, SetPreDeleteType, SetCommitType, SetDeletedType
<1> QED
  BY <1>1, <1>2, <1>3, <1>4, <1>5, <1>6, <1>7 DEF Step

LEMMA NextType == TInv /\ [Next]_vars => TInv'
<1> SUFFICES ASSUME TInv, [Next]_vars PROVE TInv'
  OBVIOUS
<1>1. CASE Step
  BY <1>1, StepType
<1>2. CASE Update
  BY <1>2, GetType, SetType DEF Update
<1>3. CASE Collect
  BY <1>3, CollectType
<1>4. CASE \E k \in Key : Delete(k)
  BY <1>4, DeleteType
<1>5. CASE PowerCut
  BY <1>5, PowerCutType
<1>6. CASE UNCHANGED vars
  <2>1. FlashOK' /\ DescOK' /\ RestOK'
    BY <1>6 DEF TInv, FlashOK, DescOK, RestOK, vars
  <2>2. StackOK' /\ Room'
    BY <1>6 DEF TInv, StackOK, Room, At, Top, vars
  <2> QED
    BY <2>1, <2>2 DEF TInv
<1> QED
  BY <1>1, <1>2, <1>3, <1>4, <1>5, <1>6 DEF Next

LEMMA TInvImpliesTypeOK == TInv => TypeOK
BY DEF TInv, FlashOK, DescOK, RestOK, StackOK, TypeOK

(* The engine keeps every part of its state in range whatever clients ask  *)
(* and wherever power fails: see the head of this module.                  *)
THEOREM TypeCorrect == Spec => []TypeOK
<1>1. Spec => []TInv
  BY InitType, NextType, PTL DEF Spec
<1> QED
  BY <1>1, TInvImpliesTypeOK, PTL

(* A record is only programmed into a sector that has room for it, so its  *)
(* address never leaves the sector that was chosen for it: a fact about    *)
(* _write_kv_record_to_sector, which does not check it, and its callers.   *)
THEOREM RoomForEveryWrite == Spec => []Room
<1>1. TInv => Room
  BY DEF TInv
<1> QED
  BY <1>1, InitType, NextType, PTL DEF Spec
=============================================================================
