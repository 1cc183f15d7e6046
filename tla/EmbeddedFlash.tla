--------------------------- MODULE EmbeddedFlash ---------------------------
(***************************************************************************)
(* The key-value engine of src/APP/flash/EmbeddedFlash.c on a NOR flash    *)
(* that can lose power between any two flash operations.                   *)
(*                                                                         *)
(* Flash is divided into sectors (pages).  A sector has a header (status   *)
(* and role tables, magic word) and Slots record slots.  RAM holds, per    *)
(* sector, its attributes and the number of slots used (free_space counts  *)
(* the others) and, per key, where its record is, its value and whether    *)
(* the value is still the compiled-in default.                             *)
(*                                                                         *)
(* The C call stack is `todo': its head is the running function, with the  *)
(* locals it needs later; a call pushes a frame, a return pops it and      *)
(* leaves the returned address in `ret'.  A step performs at most one      *)
(* flash program or erase, so that PowerCut, which discards the RAM and    *)
(* the call stack, can fall between any two of them.                       *)
(***************************************************************************)
EXTENDS StatusTable, Sequences

CONSTANTS
    NumSectors,   \* KV_SECTOR_COUNT
    Slots,        \* records that fit a sector: 63 of 32 bytes
    NumKeys,      \* m_kv_list_num
    Value,        \* values (with their type and length) a key can take
    Default,      \* the compiled-in default value
    MaxCrashes    \* bound: power cuts in a behaviour

ASSUME SizeAssumption ==
    /\ NumSectors \in Nat /\ NumSectors >= 2
    /\ Slots \in Nat /\ Slots >= 2
    /\ NumKeys \in Nat \ {0}
    /\ MaxCrashes \in Nat
ASSUME DefaultAssumption == Default \in Value

Sector == 0..(NumSectors - 1)
Slot   == 1..Slots
Key    == 1..NumKeys

(* Every scan stops while scan_addr + 32 < end: it never reads the last    *)
(* slot of a sector.                                                       *)
Visible == 1..(Slots - 1)

(* Record addresses; address 0 stands for "no record".                    *)
Addr   == Sector \X Slot
NoAddr == <<0, 0>>

(***************************************************************************)
(* Records.  Key 0: no valid payload, either because the slot is erased or *)
(* because power failed while the record was programmed.                   *)
(***************************************************************************)
Record == [key : 0..NumKeys, val : Value, st : UNUSED..DELETED]
Erased == [key |-> 0, val |-> Default, st |-> UNUSED]
Torn   == [key |-> 0, val |-> Default, st |-> PRE_WRITE]
NewRecord(k, v) == [key |-> k, val |-> v, st |-> PRE_WRITE]

IsLive(r) == r.key # 0 /\ r.st = WRITE

VARIABLES
    hdr,      \* flash: [words, magic] of each sector header
    slot,     \* flash: the records of each sector
    attr,     \* RAM: m_sector_desc_list[s].attr
    used,     \* RAM: slots of the sector that free_space does not count
    kv,       \* RAM: mp_kv_list
    todo,     \* call stack, running function first
    ret,      \* address returned by the last record write
    reply,    \* return code of the last API call
    crashes   \* power cuts so far

flash == <<hdr, slot>>
desc  == <<attr, used>>
vars  == <<hdr, slot, attr, used, kv, todo, ret, reply, crashes>>

Header == [words : SUBSET TableWords, magic : BOOLEAN]
Attr   == [status : 0..SectorStatusNum, role : UNASSIGNED..SectorRoleNum]
Entry  == [addr : Addr \cup {NoAddr}, val : Value, stored : BOOLEAN]

Pc == {"init", "init_done", "init_failed", "load",
       "format", "format_role", "format_magic",
       "defaults", "defaults_commit", "put", "append", "append_status",
       "mig_enter", "migrate", "mig_predelete", "mig_commit", "mig_deleted",
       "rebuild", "reb_round", "reb_erase", "reb_magic", "reb_role",
       "gc", "gc_find", "gc_gcing", "gc_erase", "gc_role", "gc_magic", "gc_data",
       "set_written", "set_commit", "set_deleted", "hung"}

(* A frame: pc, two sectors, a loop counter, a record and its address.    *)
Frame == [pc : Pc, s : Sector, t : Sector, i : Nat,
          key : Key, val : Value, new : Addr \cup {NoAddr}]
Call0(pc) == [pc |-> pc, s |-> 0, t |-> 0, i |-> 0,
              key |-> 1, val |-> Default, new |-> NoAddr]

TypeOK ==
    /\ hdr \in [Sector -> Header]
    /\ slot \in [Sector -> [Slot -> Record]]
    /\ attr \in [Sector -> Attr]
    /\ used \in [Sector -> 0..Slots]
    /\ kv \in [Key -> Entry]
    /\ todo \in Seq(Frame)
    /\ ret \in Addr \cup {NoAddr}
    /\ reply \in {"none", "ok", "err"}
    /\ crashes \in 0..MaxCrashes

-----------------------------------------------------------------------------
(* Flash operations *)

(* flash_port_write of a status word of record a.  The words of lower      *)
(* statuses stay cleared, so the record reads as the highest one written.  *)
SetKvStatus(sl, a, st) ==
    [sl EXCEPT ![a[1]][a[2]].st = IF st > @ THEN st ELSE @]

SetSectorStatus(h, s, st) == [h EXCEPT ![s].words = SetStatus(@, StatusBase, st)]
SetSectorRole(h, s, r)    == [h EXCEPT ![s].words = SetStatus(@, RoleBase, r)]
SetMagic(h, s)            == [h EXCEPT ![s].magic = TRUE]

(* flash_port_write of a whole record.  On a slot that is not erased every *)
(* word reports FLASH_ERROR_PG, is skipped, and the call returns EF_OK.    *)
PutRecord(sl, a, r) ==
    [sl EXCEPT ![a[1]][a[2]] = IF @ = Erased THEN r ELSE @]

(* _erase_sector; RAM keeps the role of the sector.                        *)
EraseSector(s) ==
    /\ hdr'  = [hdr EXCEPT ![s] = [words |-> {}, magic |-> FALSE]]
    /\ slot' = [slot EXCEPT ![s] = [j \in Slot |-> Erased]]
    /\ attr' = [attr EXCEPT ![s].status = FREE]
    /\ used' = [used EXCEPT ![s] = 0]

-----------------------------------------------------------------------------
(* Call stack *)

Top   == Head(todo)
At(l) == todo # <<>> /\ Top.pc = l
Stay(f)    == todo' = <<f>> \o Tail(todo)
Goto(l)    == Stay([Top EXCEPT !.pc = l])
Call(f, g) == todo' = <<g, f>> \o Tail(todo)     \* f waits for g
Return     == todo' = Tail(todo)

RecoverFrames == <<Call0("load"), Call0("rebuild"), Call0("load"), Call0("defaults")>>

(* An error return.  Every caller passes it on except embedded_flash_gc,   *)
(* which ignores the result of the recovery it called, and the API calls.  *)
Handlers == {j \in 2..Len(todo) : todo[j].pc \in {"gc_find", "set_written", "init_done"}}
Fail ==
    IF Handlers = {}
    THEN todo' = <<>> /\ reply' = "err"
    ELSE LET j == Min(Handlers) IN
         CASE todo[j].pc = "gc_find"   -> todo' = SubSeq(todo, j, Len(todo)) /\ UNCHANGED reply
           [] todo[j].pc = "init_done" -> todo' = <<Call0("init_failed")>> /\ reply' = "err"
           [] OTHER                    -> todo' = <<>> /\ reply' = "err"

-----------------------------------------------------------------------------
(* Sector headers *)

(* _sector_header_read on every sector: attributes of valid headers only.  *)
AttrOf(s)   == [status |-> SectorStatus(hdr[s].words), role |-> SectorRole(hdr[s].words)]
ReadHeaders == [s \in Sector |-> IF hdr[s].magic THEN AttrOf(s) ELSE attr[s]]

(* The classification of embedded_flash_get_attr_status, as far as its     *)
(* callers tell the results apart.                                         *)
CountRole(r) == Cardinality({s \in Sector : hdr[s].magic /\ SectorRole(hdr[s].words) = r})
IsFirstPowerOn == \A s \in Sector : ~hdr[s].magic
IsNormal ==
    /\ \A s \in Sector : hdr[s].magic
    /\ CountRole(GC) = 1 /\ CountRole(GC_TEMP) = 0
    /\ CountRole(DATA) >= 1 /\ CountRole(DATA_GCING) = 0

(* _find_sector_role: the first sector with that role in RAM, or -1.      *)
FindSectorRole(r) ==
    LET S == {s \in Sector : attr[s].role = r} IN IF S = {} THEN -1 ELSE Min(S)

(* _find_writable_data_sector: starting after the GC sector, in a ring; a  *)
(* slot is always left over because the test is free_space > 32.           *)
IsWritable(s) ==
    /\ used[s] < Slots - 1
    /\ attr[s].status \in {FREE, USING}
    /\ attr[s].role = DATA
FindWritableDataSector ==
    LET g    == IF FindSectorRole(GC) < 0 THEN 0 ELSE FindSectorRole(GC)
        p(i) == (g + i) % NumSectors
        I    == {i \in 1..(NumSectors - 1) : IsWritable(p(i))}
    IN  IF I = {} THEN -1 ELSE p(Min(I))

-----------------------------------------------------------------------------
(* Scans *)

(* Slots of sector s that a scan reads before the first erased one.        *)
ScannedIntact(s) ==    \* mutant: a scan also stops at a torn record
    LET E == {j \in Visible : slot[s][j].key = 0}
    IN  {j \in Visible : \A e \in E : j < e}
Scanned(s) ==
    LET E == {j \in Visible : slot[s][j] = Erased}
    IN  {j \in Visible : \A e \in E : j < e}
LiveInReadable(s) == {j \in Scanned(s) : slot[s][j].key # 0}    \* mutant: any status
LiveIn(s)     == {j \in Scanned(s) : IsLive(slot[s][j])}
LiveOf(s, k)  == {j \in LiveIn(s) : slot[s][j].key = k}

(* _load_kv_record for sector s (_iteration with its callback): recompute  *)
(* the descriptor, index the live records (the last one wins), and record  *)
(* a changed status in the header, even in one without magic.              *)
LoadSector ==
    /\ At("load")
    /\ LET s  == Top.s
           n  == Cardinality(Scanned(s))
           st == IF \E j \in Scanned(s) : slot[s][j].key # 0 THEN USING ELSE FREE
       IN  /\ used' = [used EXCEPT ![s] = n]
           /\ attr' = [attr EXCEPT ![s] = [AttrOf(s) EXCEPT !.status = st]]
           /\ kv' = [k \in Key |->
                        IF LiveOf(s, k) = {} THEN kv[k]
                        ELSE LET j == Max(LiveOf(s, k))
                             IN [addr |-> <<s, j>>, val |-> slot[s][j].val, stored |-> TRUE]]
           /\ hdr' = IF st # AttrOf(s).status THEN SetSectorStatus(hdr, s, st) ELSE hdr
           /\ IF s + 1 \in Sector THEN Stay([Top EXCEPT !.s = s + 1]) ELSE Return
    /\ UNCHANGED <<slot, ret, reply, crashes>>

-----------------------------------------------------------------------------
(* Initialisation *)

(* What a reset leaves: embedded_flash_init's descriptors, the compiled-in *)
(* key list, and embedded_flash_init about to classify the flash.          *)
ResetAttr == [s \in Sector |-> [status |-> FREE, role |-> UNASSIGNED]]
ResetUsed == [s \in Sector |-> 0]
ResetKv   == [k \in Key |-> [addr |-> NoAddr, val |-> Default, stored |-> FALSE]]

Init ==
    /\ hdr = [s \in Sector |-> [words |-> {}, magic |-> FALSE]]
    /\ slot = [s \in Sector |-> [j \in Slot |-> Erased]]
    /\ attr = ResetAttr /\ used = ResetUsed /\ kv = ResetKv
    /\ todo = <<Call0("init")>>
    /\ ret = NoAddr
    /\ reply = "none"
    /\ crashes = 0

InitClassify ==
    /\ At("init")
    /\ attr' = ReadHeaders
    /\ todo' = (CASE IsNormal -> <<Call0("load"), Call0("defaults")>>
                  [] IsFirstPowerOn ->
                        <<Call0("format"), Call0("defaults"), Call0("load")>>
                  [] OTHER -> RecoverFrames) \o <<Call0("init_done")>>
    /\ UNCHANGED <<flash, used, kv, ret, reply, crashes>>

InitDone ==
    /\ At("init_done")
    /\ Return
    /\ reply' = "ok"
    /\ UNCHANGED <<flash, desc, kv, ret, crashes>>

(* _init_all_sector_attr: erase, role, magic, sector after sector; the     *)
(* magic word commits a header.                                            *)
FormatErase ==
    /\ At("format")
    /\ EraseSector(Top.s)
    /\ Goto("format_role")
    /\ UNCHANGED <<kv, ret, reply, crashes>>

FormatRole ==
    /\ At("format_role")
    /\ LET r == IF Top.s = NumSectors - 1 THEN GC ELSE DATA
       IN  /\ hdr' = SetSectorRole(hdr, Top.s, r)
           /\ attr' = [attr EXCEPT ![Top.s].role = r]
    /\ Goto("format_magic")
    /\ UNCHANGED <<slot, used, kv, ret, reply, crashes>>

FormatMagic ==
    /\ At("format_magic")
    /\ hdr' = SetMagic(hdr, Top.s)
    /\ IF Top.s + 1 \in Sector
       THEN Stay([Top EXCEPT !.s = @ + 1, !.pc = "format"]) ELSE Return
    /\ UNCHANGED <<slot, desc, kv, ret, reply, crashes>>

(* _init_all_kv_record: write the RAM value of every key that is still     *)
(* marked as default; i keys are already handled.                          *)
Defaults ==
    /\ At("defaults")
    /\ LET K == {k \in Key : k > Top.i /\ ~kv[k].stored}
       IN  IF K = {} THEN Return
           ELSE LET k == Min(K)
                    f == [Top EXCEPT !.i = k, !.key = k, !.val = kv[k].val]
                IN  Call([f EXCEPT !.pc = "defaults_commit"], [f EXCEPT !.pc = "put"])
    /\ UNCHANGED <<flash, desc, kv, ret, reply, crashes>>

DefaultsCommit ==
    /\ At("defaults_commit")
    /\ slot' = SetKvStatus(slot, ret, WRITE)
    /\ kv' = [kv EXCEPT ![Top.key].addr = ret, ![Top.key].stored = TRUE]
    /\ Goto("defaults")
    /\ UNCHANGED <<hdr, desc, ret, reply, crashes>>

-----------------------------------------------------------------------------
(* Writing a record *)

(* _write_kv_record: find a sector, or collect garbage and look again.    *)
Put ==
    /\ At("put")
    /\ IF FindWritableDataSector >= 0
       THEN Stay([Top EXCEPT !.pc = "append", !.s = FindWritableDataSector])
       ELSE Call(Top, Call0("gc"))
    /\ UNCHANGED <<flash, desc, kv, ret, reply, crashes>>

(* _write_kv_record_to_sector: the record, the descriptor, and the header  *)
(* status if it changed.                                                   *)
WriteRecordKeepsStatus ==    \* mutant: attr.status is not set to USING
    /\ At("append")
    /\ LET s  == Top.s
           a  == <<s, used[s] + 1>>
       IN  /\ slot' = PutRecord(slot, a, NewRecord(Top.key, Top.val))
           /\ ret' = a
           /\ used' = [used EXCEPT ![s] = @ + 1]
           /\ attr' = [attr EXCEPT ![s].status = IF used[s] + 1 = Slots THEN FULL ELSE @]
    /\ Return
    /\ UNCHANGED <<hdr, kv, reply, crashes>>

WriteRecord ==
    /\ At("append")
    /\ LET s  == Top.s
           a  == <<s, used[s] + 1>>
           st == IF used[s] + 1 = Slots THEN FULL ELSE USING
       IN  /\ slot' = PutRecord(slot, a, NewRecord(Top.key, Top.val))
           /\ ret' = a
           /\ used' = [used EXCEPT ![s] = @ + 1]
           /\ attr' = [attr EXCEPT ![s].status = st]
           /\ IF st # attr[s].status THEN Goto("append_status") ELSE Return
    /\ UNCHANGED <<hdr, kv, reply, crashes>>

WriteSectorStatus ==
    /\ At("append_status")
    /\ hdr' = SetSectorStatus(hdr, Top.s, attr[Top.s].status)
    /\ Return
    /\ UNCHANGED <<slot, desc, kv, ret, reply, crashes>>

-----------------------------------------------------------------------------
(* Moving the live records of sector s to sector t: _migrate_sector_data.  *)
MigrateFrameFrom1(s, t) ==    \* mutant: starts after the first record
    [Call0("mig_enter") EXCEPT !.s = s, !.t = t, !.i = 1]
MigrateFrame(s, t) == [Call0("mig_enter") EXCEPT !.s = s, !.t = t]

MigrateEnter ==
    /\ At("mig_enter")
    /\ IF used[Top.t] = Slots
       THEN Fail
       ELSE Goto("migrate") /\ UNCHANGED reply
    /\ UNCHANGED <<flash, desc, kv, ret, crashes>>

(* The next live record after slot i, if any, is appended to t.           *)
Migrate ==
    /\ At("migrate")
    /\ LET J == {j \in LiveIn(Top.s) : j > Top.i}
           j == Min(J)
           r == slot[Top.s][j]
       IN  CASE J = {} -> Return /\ UNCHANGED reply
             [] J # {} /\ used[Top.t] = Slots -> Fail
             [] OTHER ->
                  /\ Call([Top EXCEPT !.pc = "mig_predelete", !.i = j, !.key = r.key],
                          [Call0("append") EXCEPT !.s = Top.t, !.key = r.key, !.val = r.val])
                  /\ UNCHANGED reply
    /\ UNCHANGED <<flash, desc, kv, ret, crashes>>

MigratePreDelete ==
    /\ At("mig_predelete")
    /\ slot' = SetKvStatus(slot, <<Top.s, Top.i>>, PRE_DELETE)
    /\ Stay([Top EXCEPT !.pc = "mig_commit", !.new = ret])
    /\ UNCHANGED <<hdr, desc, kv, ret, reply, crashes>>

MigrateCommit ==
    /\ At("mig_commit")
    /\ slot' = SetKvStatus(slot, Top.new, WRITE)
    /\ Goto("mig_deleted")
    /\ UNCHANGED <<hdr, desc, kv, ret, reply, crashes>>

MigrateDeletedOnly ==    \* mutant: the RAM index keeps the old address
    /\ At("mig_deleted")
    /\ slot' = SetKvStatus(slot, <<Top.s, Top.i>>, DELETED)
    /\ Goto("migrate")
    /\ UNCHANGED <<hdr, desc, kv, ret, reply, crashes>>

MigrateDeleted ==
    /\ At("mig_deleted")
    /\ slot' = SetKvStatus(slot, <<Top.s, Top.i>>, DELETED)
    /\ kv' = [kv EXCEPT ![Top.key].addr = Top.new, ![Top.key].stored = TRUE]
    /\ Goto("migrate")
    /\ UNCHANGED <<hdr, desc, ret, reply, crashes>>

-----------------------------------------------------------------------------
(* _rebuild_sector: starting at the emptiest sector, move the next sector  *)
(* into it, erase that one, continue from there.                           *)
RebuildStartAtZero ==    \* mutant: sector 0, however full, is the first target
    /\ At("rebuild")
    /\ attr' = ReadHeaders
    /\ Stay([Top EXCEPT !.pc = "reb_round", !.s = 0])
    /\ UNCHANGED <<flash, used, kv, ret, reply, crashes>>

RebuildStart ==
    /\ At("rebuild")
    /\ attr' = ReadHeaders
    /\ LET V == {s \in Sector : hdr[s].magic}
           E == {s \in V : used[s] < Slots /\ \A x \in V : used[s] <= used[x]}
       IN  Stay([Top EXCEPT !.pc = "reb_round", !.s = IF E = {} THEN 0 ELSE Min(E)])
    /\ UNCHANGED <<flash, used, kv, ret, reply, crashes>>

(* Round i: `start' itself moves, so the next sector is start + i + 1.    *)
RebuildRound ==
    /\ At("reb_round")
    /\ LET n == (Top.s + Top.i + 1) % NumSectors
       IN  Call([Top EXCEPT !.pc = "reb_erase", !.s = n], MigrateFrame(n, Top.s))
    /\ UNCHANGED <<flash, desc, kv, ret, reply, crashes>>

RebuildErase ==
    /\ At("reb_erase")
    /\ EraseSector(Top.s)
    /\ Goto("reb_magic")
    /\ UNCHANGED <<kv, ret, reply, crashes>>

RebuildMagic ==
    /\ At("reb_magic")
    /\ hdr' = SetMagic(hdr, Top.s)
    /\ Goto("reb_role")
    /\ UNCHANGED <<slot, desc, kv, ret, reply, crashes>>

(* The role word, then _read_all_sector_status refreshes the attributes.  *)
RebuildRole ==
    /\ At("reb_role")
    /\ LET last == Top.i = NumSectors - 1
           h    == SetSectorRole(hdr, Top.s, IF last THEN GC ELSE DATA)
       IN  /\ hdr' = h
           /\ attr' = [s \in Sector |->
                         IF h[s].magic THEN [status |-> SectorStatus(h[s].words),
                                             role |-> SectorRole(h[s].words)]
                         ELSE attr[s]]
           /\ IF last THEN Return
              ELSE Stay([Top EXCEPT !.pc = "reb_round", !.i = @ + 1])
    /\ UNCHANGED <<slot, used, kv, ret, reply, crashes>>

-----------------------------------------------------------------------------
(* embedded_flash_gc: s is the GC sector, t the data sector after it.     *)
GcStart ==
    /\ At("gc")
    /\ attr' = ReadHeaders
    /\ IF IsNormal
       THEN Goto("gc_find")
       ELSE todo' = RecoverFrames \o <<[Top EXCEPT !.pc = "gc_find"]>> \o Tail(todo)
    /\ UNCHANGED <<flash, used, kv, ret, reply, crashes>>

GcFindNoWrap ==    \* mutant: the sector after the last one does not wrap
    /\ At("gc_find")
    /\ LET g == FindSectorRole(GC)
       IN  /\ g >= 0
           /\ hdr' = SetSectorRole(hdr, g, GC_TEMP)
           /\ attr' = [attr EXCEPT ![g].role = GC_TEMP]
           /\ Stay([Top EXCEPT !.pc = "gc_gcing", !.s = g, !.t = g + 1])
    /\ UNCHANGED <<slot, used, kv, ret, reply, crashes>>

GcFind ==
    /\ At("gc_find")
    /\ LET g == FindSectorRole(GC)
       IN  IF g < 0
           THEN Fail /\ UNCHANGED <<hdr, attr>>
           ELSE /\ hdr' = SetSectorRole(hdr, g, GC_TEMP)
                /\ attr' = [attr EXCEPT ![g].role = GC_TEMP]
                /\ Stay([Top EXCEPT !.pc = "gc_gcing", !.s = g, !.t = (g + 1) % NumSectors])
                /\ UNCHANGED reply
    /\ UNCHANGED <<slot, used, kv, ret, crashes>>

GcMigrate ==
    /\ At("gc_gcing")
    /\ hdr' = SetSectorRole(hdr, Top.t, DATA_GCING)
    /\ attr' = [attr EXCEPT ![Top.t].role = DATA_GCING]
    /\ Call([Top EXCEPT !.pc = "gc_erase"], MigrateFrame(Top.t, Top.s))
    /\ UNCHANGED <<slot, used, kv, ret, reply, crashes>>

GcErase ==
    /\ At("gc_erase")
    /\ EraseSector(Top.t)
    /\ Goto("gc_role")
    /\ UNCHANGED <<kv, ret, reply, crashes>>

GcRole ==
    /\ At("gc_role")
    /\ hdr' = SetSectorRole(hdr, Top.t, GC)
    /\ attr' = [attr EXCEPT ![Top.t].role = GC]
    /\ Goto("gc_magic")
    /\ UNCHANGED <<slot, used, kv, ret, reply, crashes>>

GcMagic ==
    /\ At("gc_magic")
    /\ hdr' = SetMagic(hdr, Top.t)
    /\ Goto("gc_data")
    /\ UNCHANGED <<slot, desc, kv, ret, reply, crashes>>

GcDataInRam ==    \* mutant: the new role is not written to flash
    /\ At("gc_data")
    /\ attr' = [attr EXCEPT ![Top.s].role = DATA]
    /\ used' = [used EXCEPT ![Top.t] = 0]
    /\ Return
    /\ reply' = IF Tail(todo) = <<>> THEN "ok" ELSE reply
    /\ UNCHANGED <<flash, kv, ret, crashes>>

GcData ==
    /\ At("gc_data")
    /\ hdr' = SetSectorRole(hdr, Top.s, DATA)
    /\ attr' = [attr EXCEPT ![Top.s].role = DATA]
    /\ used' = [used EXCEPT ![Top.t] = 0]
    /\ Return
    /\ reply' = IF Tail(todo) = <<>> THEN "ok" ELSE reply
    /\ UNCHANGED <<slot, kv, ret, crashes>>

-----------------------------------------------------------------------------
(* The API, called when no call is in progress *)

Ready == todo = <<>>

(* embedded_flash_get: succeeds iff the key's address holds a live record  *)
(* (of whatever key); flash overrides a differing RAM value.               *)
Readable(k) == kv[k].addr # NoAddr /\ IsLive(slot[kv[k].addr[1]][kv[k].addr[2]])
FlashVal(k) == slot[kv[k].addr[1]][kv[k].addr[2]].val
ReadBack(k) == IF Readable(k) THEN [kv EXCEPT ![k].val = FlashVal(k)] ELSE kv

Get(k) ==
    /\ Ready
    /\ kv' = ReadBack(k)
    /\ reply' = IF Readable(k) THEN "ok" ELSE "err"
    /\ UNCHANGED <<flash, desc, todo, ret, crashes>>

(* embedded_flash_set reads the key back first: a duplicate is done; a     *)
(* record that cannot be read is an error, unless there is none.           *)
Set(k, v) ==
    /\ Ready
    /\ kv' = ReadBack(k)
    /\ LET f == [Call0("set_written") EXCEPT !.key = k, !.val = v]
       IN  CASE Readable(k) /\ FlashVal(k) = v ->
                    reply' = "ok" /\ UNCHANGED todo
             [] ~Readable(k) /\ kv[k].addr # NoAddr ->
                    reply' = "err" /\ UNCHANGED todo
             [] OTHER ->
                    reply' = "none" /\ todo' = <<[f EXCEPT !.pc = "put"], f>>
    /\ UNCHANGED <<flash, desc, ret, crashes>>

(* The old record is pre-deleted before the new one is committed.         *)
Old(k) == kv[k].addr
SetPreDeleteSkipped ==    \* mutant: the old record stays WRITE
    /\ At("set_written")
    /\ Stay([Top EXCEPT !.pc = "set_commit", !.new = ret])
    /\ UNCHANGED <<flash, desc, kv, ret, reply, crashes>>

SetPreDelete ==
    /\ At("set_written")
    /\ slot' = IF Old(Top.key) \notin {NoAddr, ret}
               THEN SetKvStatus(slot, Old(Top.key), PRE_DELETE) ELSE slot
    /\ Stay([Top EXCEPT !.pc = "set_commit", !.new = ret])
    /\ UNCHANGED <<hdr, desc, kv, ret, reply, crashes>>

SetCommit ==
    /\ At("set_commit")
    /\ slot' = SetKvStatus(slot, Top.new, WRITE)
    /\ Goto("set_deleted")
    /\ UNCHANGED <<hdr, desc, kv, ret, reply, crashes>>

SetDeleted ==
    /\ At("set_deleted")
    /\ slot' = IF Old(Top.key) \notin {NoAddr, Top.new}
               THEN SetKvStatus(slot, Old(Top.key), DELETED) ELSE slot
    /\ kv' = [kv EXCEPT ![Top.key] = [addr |-> Top.new, val |-> Top.val, stored |-> TRUE]]
    /\ reply' = "ok"
    /\ Return
    /\ UNCHANGED <<hdr, desc, ret, crashes>>

(* embedded_flash_delete: with no record the status write is rejected and  *)
(* EFLASH_ASSERT(0) loops forever.                                         *)
Delete(k) ==
    /\ Ready
    /\ \/ /\ kv[k].addr = NoAddr
          /\ todo' = <<Call0("hung")>>
          /\ reply' = "none"
          /\ UNCHANGED <<slot, kv>>
       \/ /\ kv[k].addr # NoAddr
          /\ slot' = SetKvStatus(slot, kv[k].addr, DELETED)
          /\ kv' = [kv EXCEPT ![k].addr = NoAddr, ![k].stored = FALSE]
          /\ reply' = "ok"
          /\ UNCHANGED todo
    /\ UNCHANGED <<hdr, desc, ret, crashes>>

(* embedded_flash_gc is exported too.                                     *)
Collect ==
    /\ Ready
    /\ todo' = <<Call0("gc")>>
    /\ reply' = "none"
    /\ UNCHANGED <<flash, desc, kv, ret, crashes>>

-----------------------------------------------------------------------------
(* A power cut: RAM and call stack are lost; a record being programmed may *)
(* be left torn.                                                           *)
PowerCut ==
    /\ crashes < MaxCrashes
    /\ crashes' = crashes + 1
    /\ \/ UNCHANGED slot
       \/ /\ At("append")
          /\ slot' = PutRecord(slot, <<Top.s, used[Top.s] + 1>>, Torn)
    /\ attr' = ResetAttr /\ used' = ResetUsed /\ kv' = ResetKv
    /\ todo' = <<Call0("init")>>
    /\ ret' = NoAddr
    /\ reply' = "none"
    /\ UNCHANGED hdr

Step ==
    \/ InitClassify \/ InitDone \/ LoadSector
    \/ FormatErase \/ FormatRole \/ FormatMagic
    \/ Defaults \/ DefaultsCommit
    \/ Put \/ WriteRecord \/ WriteSectorStatus
    \/ MigrateEnter \/ Migrate \/ MigratePreDelete \/ MigrateCommit \/ MigrateDeleted
    \/ RebuildStart \/ RebuildRound \/ RebuildErase \/ RebuildMagic \/ RebuildRole
    \/ GcStart \/ GcFind \/ GcMigrate \/ GcErase \/ GcRole \/ GcMagic \/ GcData
    \/ SetPreDelete \/ SetCommit \/ SetDeleted

Update == \E k \in Key : Get(k) \/ \E v \in Value : Set(k, v)

Next == Step \/ Update \/ Collect \/ (\E k \in Key : Delete(k)) \/ PowerCut

(* The processor keeps running the call in progress; clients and power     *)
(* cuts are free to come or not.                                           *)
Spec == Init /\ [][Next]_vars /\ WF_vars(Step)

(* The same engine under clients that ask less of it: one that only reads  *)
(* and writes, and one that may also force a collection and delete a key   *)
(* it has.                                                                 *)
KeepNext == Step \/ Update \/ PowerCut
KeepSpec == Init /\ [][KeepNext]_vars /\ WF_vars(Step)

DeletePresent == \E k \in Key : kv[k].addr # NoAddr /\ Delete(k)
CarefulNext   == KeepNext \/ Collect \/ DeletePresent
CarefulSpec   == Init /\ [][CarefulNext]_vars /\ WF_vars(Step)

-----------------------------------------------------------------------------
(* Properties that hold *)

SlotAt(a)    == slot[a[1]][a[2]]
LiveAt(k)    == {a \in Addr : IsLive(SlotAt(a)) /\ SlotAt(a).key = k}

(* A scan indexes the last live record it meets, in sector order and not   *)
(* in order of age, so a key must never have two, whatever step of a set,  *)
(* a migration or a recovery a power cut interrupts.                       *)
AtMostOneLive == \A k \in Key : Cardinality(LiveAt(k)) <= 1

(* A record is only ever programmed into an erased slot: the write         *)
(* position rebuilt by a scan takes torn records into account.  (On any    *)
(* other slot flash_port_write stores nothing and returns EF_OK.)          *)
WritesHitErasedSlots ==
    At("append") =>
        used[Top.s] < Slots /\ slot[Top.s][used[Top.s] + 1] = Erased

(* No sector is erased while it holds a live record: garbage collection    *)
(* and rebuilding have moved all of them first, from whatever state power  *)
(* cuts left.  It holds for one key; with more, a rebuild can fill a       *)
(* sector to its last slot, which the next one does not see (last_slot).   *)
NeverEraseLive ==
    [][\A a \in Addr : IsLive(SlotAt(a)) => SlotAt(a)' # Erased]_vars

(* Nor, with any number of keys, while it holds a live record that a scan  *)
(* can see, and the flash is formatted only when it holds none at all.     *)
Seen == Sector \X Visible
NeverEraseSeen ==
    [][\A a \in Seen : IsLive(SlotAt(a)) => SlotAt(a)' # Erased]_vars

(* Between calls the RAM index is exact: a key with an address has there   *)
(* its only live record, with the value the client reads; a key without    *)
(* has none.                                                               *)
IndexMatchesFlash ==
    Ready => \A k \in Key :
        IF kv[k].stored
        THEN LiveAt(k) = {kv[k].addr} /\ FlashVal(k) = kv[k].val
        ELSE LiveAt(k) = {} /\ kv[k].addr = NoAddr

(* The same of the records that a scan can see, with any number of keys    *)
(* and whatever the client deletes, as long as recovery is not re-entered. *)
AtMostOneSeen == \A k \in Key : \A a, b \in LiveAt(k) \cap Seen : a = b
IndexMatchesSeen ==
    Ready => \A k \in Key : /\ LiveAt(k) \cap Seen = {kv[k].addr} \cap Seen
                            /\ kv[k].addr \in Seen => FlashVal(k) = kv[k].val

(* embedded_flash_gc recovers, recovery writes defaults, and writing a     *)
(* default may call embedded_flash_gc: with four sectors that circle is    *)
(* never entered twice.                                                    *)
Recoveries == Cardinality({j \in 1..Len(todo) : todo[j].pc = "defaults_commit"})
RecoveryNotReentered == Recoveries <= 1

(* With room for the keys and no deletes, no start-up, no set and no get   *)
(* ever fails: after any power cut recovery finds a GC sector and the      *)
(* space to move the records, and every key is readable.                   *)
NeverFails == reply # "err"

(* As long as the power has never failed every call leaves exactly one GC  *)
(* sector, the others being data sectors.                                  *)
StaysNormal ==
    Ready /\ crashes = 0 => IsNormal /\ CountRole(DATA) = NumSectors - 1

(* Every call returns, and every start-up completes, when the client never *)
(* deletes and there are at least two keys but fewer than a scan can see   *)
(* in one sector: a write finds room after finitely many collections.      *)
CallsReturn == ~Ready ~> Ready

-----------------------------------------------------------------------------
(* Claims of the comments that the code does not meet *)

Caller == todo[Len(todo)].pc

(* The recovery of embedded_flash_init is safe against power cuts: a       *)
(* start-up completes.                                                     *)
StartUpCompletes == (~Ready /\ Caller \in {"init", "init_done"}) ~> Ready
=============================================================================
