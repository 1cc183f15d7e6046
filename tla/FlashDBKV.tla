------------------------------ MODULE FlashDBKV ------------------------------
(***************************************************************************)
(* The key-value database of FlashDB (src/APP/FlashDB/src/fdb_kvdb.c).     *)
(*                                                                         *)
(* Calls never overlap (db_lock), so a call is a function of the database  *)
(* it starts from; what interleaves with it is the loss of power.  Each C  *)
(* function that changes the database is an operator from a database       *)
(* record d to a record; d.log collects the flash after every single       *)
(* program or erase operation on the way.  A call either takes effect as a *)
(* whole, or is cut: the flash is then one member of that log and RAM is   *)
(* gone.                                                                   *)
(*                                                                         *)
(* Sizes are in units of a record header.  A record of `len' units starts  *)
(* at an offset of its sector; address a is <<sector, offset>>.            *)
(***************************************************************************)
EXTENDS Integers, Sequences, FiniteSets, FiniteSetsExt, SequencesExt, TLC

CONSTANTS
    NumSectors,   \* SECTOR_NUM
    Size,         \* units for records in a sector
    Threshold,    \* FDB_SEC_REMAIN_THRESHOLD, in units
    Key, Value, Absent,
    Big,          \* values whose record takes two units, not one
    Factory,      \* default_kvs: keys written with FactoryValue
    FactoryValue,
    MaxCuts       \* bound: power cuts

ASSUME FdbAssumption ==
    /\ NumSectors \in Nat /\ NumSectors >= 2    \* _fdb_init_ex
    /\ Size \in Nat \ {0} /\ Threshold \in Nat
    /\ Big \subseteq Value /\ Factory \subseteq Key /\ FactoryValue \in Value

Sector == 0..(NumSectors - 1)
Units(v) == IF v \in Big THEN 2 ELSE 1

(* Status tables read as the highest status written (_fdb_get_status).     *)
UNUSED == 0
PRE_WRITE == 1      \* of a record
WRITE == 2
PRE_DELETE == 3
DELETED == 4
ERR_HDR == 5
EMPTY == 1          \* store of a sector
USING == 2
FULL == 3
CLEAN == 1          \* dirty of a sector
DIRTY == 2
GC == 3
EmptySecThreshold == 1   \* FDB_GC_EMPTY_SEC_THRESHOLD

(* How much of a record has been programmed: the status word; the magic    *)
(* word a scan looks for; the length; all that the CRC covers.             *)
STATUS == 0
MAGIC == 1
LENGTH == 2
WHOLE == 3

None == <<>>      \* no address
Lost == "lost"    \* the contents of a deleted or torn record
Blank == [st |-> UNUSED, part |-> STATUS, key |-> Lost, val |-> Lost, len |-> 1]

VARIABLES
    flash,   \* per sector: magic, store, dirty, and the records by offset
    ram,     \* struct fdb_kvdb
    power,   \* "on", "off", or "hung" in a start-up that does not end
    cuts,    \* history: power cuts so far
    call,    \* history: the last call and how it ended
    view,    \* history: what can be read now, or after the next start-up
    misled   \* history: power was lost when sector 0 was not the oldest

vars == <<flash, ram, power, cuts, call, view, misled>>

Erased == [magic |-> FALSE, store |-> UNUSED, dirty |-> UNUSED, at |-> <<>>]

(* A sector's entry in sector_cache_table; empty is the offset of the next *)
(* record, Unknown (FAILED_ADDR) when only the header has been read.       *)
Unknown == -1
NotCached == [in |-> FALSE, store |-> UNUSED, dirty |-> UNUSED, remain |-> 0, empty |-> 0]
ZeroEntry == [NotCached EXCEPT !.in = TRUE]

(* Static memory after reset: every entry of the zeroed sector cache has   *)
(* address 0, so it seems to hold sector 0 already.                        *)
PowerUpRam ==
    [oldest |-> 0, gc_request |-> FALSE, in_recovery |-> FALSE, last_del |-> FALSE,
     kv_cache |-> [k \in Key |-> None],
     sec_cache |-> [s \in Sector |-> IF s = 0 THEN ZeroEntry ELSE NotCached]]

Database(f, r) == r @@ [flash |-> f, log |-> <<f>>, hung |-> FALSE]
Db == Database(flash, ram)
RamOf(d) == [f \in DOMAIN PowerUpRam |-> d[f]]

-----------------------------------------------------------------------------
(* Flash *)

Program(d, f) == [d EXCEPT !.flash = f, !.log = Append(@, f)]

SetStore(d, s, st) == Program(d, [d.flash EXCEPT ![s].store = st])
SetDirty(d, s, st) == Program(d, [d.flash EXCEPT ![s].dirty = st])

RecordAt(d, a) ==
    LET at == d.flash[a[1]].at IN IF a[2] \in DOMAIN at THEN at[a[2]] ELSE Blank
PutRecord(d, a, r) == Program(d, [d.flash EXCEPT ![a[1]].at = (a[2] :> r) @@ @])

(* _fdb_write_status of a record.                                         *)
SetStatus(d, a, st) ==
    LET r == RecordAt(d, a) IN
    PutRecord(d, a, [r EXCEPT !.st = IF st > @ THEN st ELSE @,
                              !.val = IF st >= DELETED THEN Lost ELSE @])

(* Units taken up physically, and the end of what is not blank.           *)
Extent(r) == IF r.part < LENGTH THEN 1 ELSE r.len
UsedEnd(sec) == IF sec.at = <<>> THEN 0
                ELSE Max({o + Extent(sec.at[o]) : o \in DOMAIN sec.at})

(* The writes of one record: its first status, magic, length, name and     *)
(* value, then the commit.                                                 *)
WriteBody(d, a, r) ==
    FoldLeft(LAMBDA e, p : PutRecord(e, a, [r EXCEPT !.part = p, !.st = PRE_WRITE]),
             d, <<STATUS, MAGIC, LENGTH, WHOLE>>)
WriteRecord(d, a, k, v, len) ==
    SetStatus(WriteBody(d, a, [st |-> PRE_WRITE, part |-> STATUS, key |-> k, val |-> v,
                               len |-> len]), a, WRITE)

-----------------------------------------------------------------------------
(* Reading.  Operators that read return [d, ...]: reading a record whose   *)
(* length was never written marks it, and reading a sector fills a cache.  *)
(* With names a result that is looked at several times.                    *)

With(x, Rest(_)) == Rest(x)

(* read_kv.                                                               *)
ReadKv(d, a) ==
    With(RecordAt(d, a), LAMBDA r :
       LET Kv(st, len) == [a |-> a, st |-> st, ok |-> r.part = WHOLE, key |-> r.key,
                           val |-> r.val, len |-> len]
       IN  IF r.part >= LENGTH THEN [d |-> d, kv |-> Kv(r.st, r.len)]
           ELSE [d  |-> IF r.st = ERR_HDR THEN d ELSE SetStatus(d, a, ERR_HDR),
                 kv |-> Kv(ERR_HDR, 1)])

(* get_next_kv_addr: the next magic word after kv, unless kv ends where    *)
(* the cache says the sector does.                                         *)
NextKv(d, kv) ==
    LET s     == kv.a[1]
        from  == kv.a[2] + IF kv.ok THEN kv.len ELSE 1
        at    == d.flash[s].at
        found == {o \in DOMAIN at : o >= from /\ at[o].part >= MAGIC}
        cache == d.sec_cache[s]
    IN  IF (cache.in /\ kv.ok /\ from = cache.empty) \/ found = {}
        THEN Unknown ELSE Min(found)

ReadNext(d, a) ==
    With(ReadKv(d, a), LAMBDA r : [d |-> r.d, kv |-> r.kv, nx |-> NextKv(r.d, r.kv)])

(* The traversal in read_sector_info: where the records it sees end, and   *)
(* then where the blank flash behind them begins.                          *)
RECURSIVE Measure(_, _, _, _)
Measure(d, s, o, empty) ==
    With(ReadNext(d, <<s, o>>), LAMBDA r :
       IF r.nx # Unknown THEN Measure(r.d, s, r.nx, empty + r.kv.len)
       ELSE [d |-> r.d, empty |-> Max({empty + r.kv.len, UsedEnd(r.d.flash[s])})])

CacheSector(d, s, i) == [d EXCEPT !.sec_cache[s] = i]

(* read_sector_info; with deep the records are traversed.                 *)
SectorInfo(d, s, deep) ==
    LET sec   == d.flash[s]
        cache == d.sec_cache[s]
        Read(e, empty, remain) ==
           LET i == [in |-> TRUE, store |-> sec.store, dirty |-> sec.dirty, remain |-> remain,
                     empty |-> empty]
           IN  [d |-> CacheSector(e, s, i), ok |-> TRUE, info |-> i]
    IN  IF cache.in /\ (~deep \/ cache.empty # Unknown) THEN [d |-> d, ok |-> TRUE, info |-> cache]
        ELSE IF ~sec.magic THEN [d |-> d, ok |-> FALSE, info |-> NotCached]
        ELSE IF ~deep THEN Read(d, Unknown, 0)
        ELSE IF sec.store # USING THEN Read(d, 0, IF sec.store = EMPTY THEN Size ELSE 0)
        ELSE With(Measure(d, s, 0, 0), LAMBDA m : Read(m.d, m.empty, Size - m.empty))

(* Sectors are visited in turn from the oldest one.                       *)
Nth(d, n) == (d.oldest + n) % NumSectors
Turn(d) == [i \in 1..NumSectors |-> Nth(d, i - 1)]

(* sector_iterator that only counts: all headers are read and cached.     *)
ReadHeaders(d) == FoldLeft(LAMBDA e, s : SectorInfo(e, s, FALSE).d, d, Turn(d))
Holding(d, st) == {s \in Sector : \E i \in {SectorInfo(d, s, FALSE)} : i.ok /\ i.info.store = st}

(* find_kv_no_cache: kv_iterator with find_kv_cb, from record o of the     *)
(* n-th sector on.                                                         *)
Scanned(i) == i.ok /\ i.info.store \in {USING, FULL}
Matches(kv, k) == kv.ok /\ kv.st = WRITE /\ kv.key = k
RECURSIVE FindFrom(_, _, _, _)
FindFrom(d, k, n, o) ==
    IF n = NumSectors THEN [d |-> d, found |-> FALSE]
    ELSE With(SectorInfo(d, Nth(d, n), FALSE), LAMBDA i :
       IF ~Scanned(i) THEN FindFrom(i.d, k, n + 1, 0)
       ELSE With(ReadNext(i.d, <<Nth(d, n), o>>), LAMBDA r :
          IF Matches(r.kv, k) THEN [d |-> r.d, found |-> TRUE, kv |-> r.kv]
          ELSE IF r.nx = Unknown THEN FindFrom(r.d, k, n + 1, 0)
          ELSE FindFrom(r.d, k, n, r.nx)))

(* find_kv: a cached address is taken if the key's name is there, whatever *)
(* the record's status.                                                    *)
FindKv(d, k) ==
    LET a == d.kv_cache[k] IN
    IF a # None /\ RecordAt(d, a).key = k
    THEN With(ReadKv(d, a), LAMBDA r : [d |-> r.d, found |-> TRUE, kv |-> r.kv])
    ELSE With(FindFrom(d, k, 0, 0), LAMBDA f :
            IF f.found THEN [f EXCEPT !.d.kv_cache[k] = f.kv.a] ELSE f)

-----------------------------------------------------------------------------
(* Space *)

(* format_sector.                                                         *)
Blanked(d, s) ==
    With(SetDirty(SetStore(Program(d, [d.flash EXCEPT ![s] = Erased]), s, EMPTY), s, CLEAN),
         LAMBDA e : Program(e, [e.flash EXCEPT ![s].magic = TRUE]))
(* As if the sector's cache entry were kept.                              *)
FormatKeepsCache(d, s) == Blanked(d, s)
Format(d, s) == CacheSector(Blanked(d, s), s, NotCached)

(* update_sec_status; a sector becomes full when little would remain.     *)
UseSector(d, s, i, len) ==
    LET st == IF i.store = EMPTY THEN USING
              ELSE IF i.store = USING /\ (i.remain < Threshold \/ i.remain - len < Threshold)
              THEN FULL ELSE i.store
    IN  IF st = i.store THEN d
        ELSE [SetStore(d, s, st) EXCEPT
                 !.sec_cache[s].store = IF d.sec_cache[s].in THEN st ELSE @]

(* update_sector_empty_addr_cache.                                        *)
MoveEnd(d, s, end) ==
    IF d.sec_cache[s].in
    THEN [d EXCEPT !.sec_cache[s].empty = end, !.sec_cache[s].remain = Size - end] ELSE d

(* alloc_kv_cb.                                                           *)
HasRoom(d, i, len) ==
    /\ i.remain > len + Threshold
    /\ i.dirty = CLEAN \/ (i.dirty = DIRTY /\ ~d.gc_request)

(* The first sector in state st, from the n-th on, that has room.         *)
RECURSIVE AllocFrom(_, _, _, _)
AllocFrom(d, st, len, n) ==
    IF n = NumSectors THEN [d |-> d, found |-> FALSE]
    ELSE With(SectorInfo(d, Nth(d, n), FALSE), LAMBDA h :
       IF ~h.ok \/ h.info.store # st THEN AllocFrom(h.d, st, len, n + 1)
       ELSE With(SectorInfo(h.d, Nth(d, n), TRUE), LAMBDA i :
          IF ~HasRoom(i.d, i.info, len) THEN AllocFrom(i.d, st, len, n + 1)
          ELSE [d |-> i.d, found |-> TRUE, a |-> <<Nth(d, n), i.info.empty>>, info |-> i.info]))

(* As if the last empty sector were given out like any other.             *)
AllocLast(d, len) ==
    With(AllocFrom(ReadHeaders(d), USING, len, 0), LAMBDA u :
       IF u.found THEN u ELSE AllocFrom(u.d, EMPTY, len, 0))
(* alloc_kv: the last empty sector is kept for collection, unless this is  *)
(* the collection.                                                         *)
Alloc(d, len) ==
    With(ReadHeaders(d), LAMBDA e :
    With(Cardinality(Holding(e, EMPTY)), LAMBDA spare :
    With(AllocFrom(e, USING, len, 0), LAMBDA u :
       IF u.found \/ spare = 0 THEN u
       ELSE IF spare > EmptySecThreshold \/ d.gc_request THEN AllocFrom(u.d, EMPTY, len, 0)
       ELSE [u EXCEPT !.d.gc_request = TRUE])))

(* del_kv of the record kv: prepare to delete, or delete.  The sector is   *)
(* marked dirty after the record.                                          *)
MarkKv(d, kv, complete) ==
    IF ~complete THEN [SetStatus(d, kv.a, PRE_DELETE) EXCEPT !.last_del = TRUE]
    ELSE [SetStatus(d, kv.a, DELETED) EXCEPT
             !.kv_cache[kv.key] = IF d.last_del THEN @ ELSE None,
             !.last_del = FALSE]
MarkDirty(d, s) ==
    IF d.flash[s].dirty # CLEAN THEN d
    ELSE [SetDirty(d, s, DIRTY) EXCEPT
             !.sec_cache[s].dirty = IF d.sec_cache[s].in THEN DIRTY ELSE @]
(* As if the old record were not prepared for deletion; as if the sector  *)
(* were not marked.                                                        *)
DelKvNotPrepared(d, kv, complete) ==
    IF complete THEN MarkDirty(MarkKv(d, kv, TRUE), kv.a[1]) ELSE [d EXCEPT !.last_del = TRUE]
DelKvNotDirty(d, kv, complete) == MarkKv(d, kv, complete)
DelKv(d, kv, complete) == MarkDirty(MarkKv(d, kv, complete), kv.a[1])

CopyKv(d, kv, al) ==
    LET e == WriteRecord(UseSector(d, al.a[1], al.info, kv.len), al.a, kv.key, kv.val, kv.len)
    IN  [MoveEnd(e, al.a[1], al.a[2] + kv.len) EXCEPT !.kv_cache[kv.key] = al.a]

(* move_kv; a start-up that finds the new value in place only deletes the  *)
(* old one.                                                                *)
MoveKv(d, kv) ==
    With(Alloc(IF kv.st = WRITE THEN DelKv(d, kv, FALSE) ELSE d, kv.len), LAMBDA al :
       IF ~al.found THEN [d |-> al.d, ok |-> FALSE]
       ELSE With(IF d.in_recovery /\ kv.st = PRE_DELETE THEN FindFrom(al.d, kv.key, 0, 0)
                 ELSE [d |-> al.d, found |-> FALSE], LAMBDA f :
          [d |-> DelKv(IF f.found THEN f.d ELSE CopyKv(f.d, kv, al), kv, TRUE), ok |-> TRUE]))

(* The records of the sector that do_gc collects.                         *)
RECURSIVE Evacuate(_, _, _)
Evacuate(d, s, o) ==
    With(ReadKv(d, <<s, o>>), LAMBDA r :
    With(IF r.kv.ok /\ r.kv.st \in {WRITE, PRE_DELETE} THEN MoveKv(r.d, r.kv).d ELSE r.d, LAMBDA e :
    With(NextKv(e, r.kv), LAMBDA nx :
       IF nx = Unknown THEN e ELSE Evacuate(e, s, nx))))

(* do_gc over the sectors from s on, n of them to go: a dirty one is       *)
(* evacuated and formatted, moved or not, until the sector collected       *)
(* before it has the space asked for.                                      *)
RECURSIVE Collect(_, _, _, _, _)
Collect(d, s, n, last, space) ==
    LET nx == (s + 1) % NumSectors IN
    IF n = 0 THEN d
    ELSE With(SectorInfo(d, s, FALSE), LAMBDA i :
       IF ~i.ok \/ i.info.dirty \notin {DIRTY, GC} THEN Collect(i.d, nx, n - 1, last, space)
       ELSE With([Format(Evacuate(SetDirty(i.d, s, GC), s, 0), s) EXCEPT !.oldest = nx], LAMBDA e :
            With(SectorInfo(e, last, TRUE), LAMBDA l :
               IF l.ok /\ l.info.remain > space THEN l.d
               ELSE Collect(l.d, nx, n - 1, s, space))))

(* gc_collect_by_free_size.                                               *)
GcCollect(d, space) ==
    With(ReadHeaders(d), LAMBDA e :
    With(SelectSeq(Turn(d), LAMBDA s : s \in Holding(e, EMPTY)), LAMBDA spare :
       [IF Len(spare) > EmptySecThreshold THEN e
        ELSE Collect(e, d.oldest, NumSectors, IF spare = <<>> THEN 0 ELSE Last(spare), space)
        EXCEPT !.gc_request = FALSE]))
Everything == NumSectors * Size    \* db_max_size: gc_collect never stops early

-----------------------------------------------------------------------------
(* Calls *)

(* new_kv: when there is no room, collect and try once more.              *)
NewKv(d, len) ==
    With(Alloc(d, len), LAMBDA al :
       IF al.found \/ ~al.d.gc_request THEN al
       ELSE With(Alloc(GcCollect(al.d, len), len), LAMBDA re :
          IF re.found THEN re ELSE [re EXCEPT !.d.gc_request = FALSE]))

(* create_kv_blob, in the sector that NewKv has found.                    *)
CreateKv(al, k, v) ==
    LET s == al.a[1] IN
    With(WriteRecord(UseSector(al.d, s, al.info, Units(v)), al.a, k, v, Units(v)), LAMBDA e :
    With(e.flash[s].store = FULL, LAMBDA is_full :
       [IF is_full THEN e ELSE MoveEnd(e, s, al.a[2] + Units(v)) EXCEPT
           !.kv_cache[k] = al.a, !.gc_request = @ \/ is_full]))

GcIfAsked(d, space) == IF d.gc_request THEN GcCollect(d, space) ELSE d

(* As if the old record were deleted before the new one is written.       *)
SetKvDeleteFirst(d, k, v) ==
    With(NewKv(d, Units(v)), LAMBDA al :
       IF ~al.found THEN [d |-> al.d, res |-> "full"]
       ELSE With(FindKv(al.d, k), LAMBDA old :
            With(IF old.found THEN DelKv(old.d, old.kv, TRUE) ELSE old.d, LAMBDA e :
               [d |-> GcIfAsked(CreateKv([al EXCEPT !.d = e], k, v), Units(v)), res |-> "ok"])))

(* set_kv: room first, then the old record is prepared to be deleted, the  *)
(* new one written, the old one deleted.                                   *)
SetKv(d, k, v) ==
    With(NewKv(d, Units(v)), LAMBDA al :
       IF ~al.found THEN [d |-> al.d, res |-> "full"]
       ELSE With(FindKv(al.d, k), LAMBDA old :
            With(IF old.found THEN DelKv(old.d, old.kv, FALSE) ELSE old.d, LAMBDA e :
            With(CreateKv([al EXCEPT !.d = e], k, v), LAMBDA n :
               [d   |-> GcIfAsked(IF old.found THEN DelKv(n, old.kv, TRUE) ELSE n, Units(v)),
                res |-> "ok"]))))

(* fdb_kv_del.                                                            *)
RemoveKv(d, k) ==
    With(FindKv(d, k), LAMBDA old :
       IF old.found THEN [d |-> DelKv(old.d, old.kv, TRUE), res |-> "ok"]
       ELSE [d |-> old.d, res |-> "absent"])

(* fdb_kv_set_default.                                                    *)
SetDefault(d) ==
    LET d1 == [d EXCEPT !.kv_cache = [k \in Key |-> None]]
        d2 == FoldLeft(Format, d1, [i \in 1..NumSectors |-> i - 1])
    IN  [FoldLeft(LAMBDA e, k :
                     With(NewKv(e, Units(FactoryValue)), LAMBDA al :
                        IF al.found THEN CreateKv(al, k, FactoryValue) ELSE al.d),
                  d2, SetToSeq(Factory)) EXCEPT !.oldest = 0]

-----------------------------------------------------------------------------
(* Start-up *)

(* check_oldest_addr_cb over all sectors: the last one in use that follows *)
(* an empty one.  On the zeroed cache the search stays in sector 0 (its    *)
(* entry says that 0 sectors are combined).                                *)
OldestOf(f) ==
    LET st(s)  == IF f[s].magic THEN f[s].store ELSE UNUSED
        starts == {s \in Sector \ {0} : st(s - 1) = EMPTY /\ st(s) \in {USING, FULL}}
    IN  IF starts = {} THEN 0 ELSE Max(starts)
FindOldest(d) == IF d.sec_cache[0] = ZeroEntry THEN 0 ELSE OldestOf(d.flash)

(* check_sec_hdr_cb: sectors without a good header are formatted.         *)
RepairHeaders(d) ==
    FoldLeft(LAMBDA e, s : With(SectorInfo(e, s, FALSE), LAMBDA i :
                              IF i.ok THEN i.d ELSE Format(i.d, s)), d, Turn(d))

(* check_and_recovery_gc_cb: an interrupted collection is resumed.        *)
ResumeGc(d) ==
    FoldLeft(LAMBDA e, s : With(SectorInfo(e, s, FALSE), LAMBDA i :
                              IF i.ok /\ i.info.dirty = GC
                              THEN GcCollect([i.d EXCEPT !.gc_request = TRUE], Everything)
                              ELSE i.d), d, Turn(d))

(* check_and_recovery_kv_cb: a record that was about to be deleted is      *)
(* moved; the iteration ends at one that cannot be, or at one that was     *)
(* being written.                                                          *)
RecoverKv(d, kv) ==
    IF kv.ok /\ kv.st = PRE_DELETE THEN MoveKv(d, kv)
    ELSE IF kv.st = PRE_WRITE THEN [d |-> SetStatus(d, kv.a, ERR_HDR), ok |-> FALSE]
    ELSE [d  |-> IF kv.ok /\ kv.st = WRITE THEN [d EXCEPT !.kv_cache[kv.key] = kv.a] ELSE d,
          ok |-> TRUE]

(* kv_iterator with that callback, from record o of the n-th sector on.    *)
RECURSIVE RecoverFrom(_, _, _)
RecoverFrom(d, n, o) ==
    IF n = NumSectors THEN d
    ELSE With(SectorInfo(d, Nth(d, n), FALSE), LAMBDA i :
       IF ~Scanned(i) THEN RecoverFrom(i.d, n + 1, 0)
       ELSE With(ReadKv(i.d, <<Nth(d, n), o>>), LAMBDA r :
            With(RecoverKv(r.d, r.kv), LAMBDA m :
               IF ~m.ok THEN m.d
               ELSE With(NextKv(m.d, r.kv), LAMBDA nx :
                  IF nx = Unknown THEN RecoverFrom(m.d, n + 1, 0)
                  ELSE RecoverFrom(m.d, n, nx)))))

(* The retry loop of _fdb_kv_load.  A round that has written nothing and   *)
(* still asks for a collection will be repeated for ever.                  *)
RECURSIVE RecoverKvs(_)
RecoverKvs(d) ==
    With(RecoverFrom(d, 0, 0), LAMBDA r :
       IF ~r.gc_request THEN r
       ELSE With(GcCollect(r, Everything), LAMBDA c :
          IF c.log = d.log THEN [c EXCEPT !.hung = TRUE] ELSE RecoverKvs(c)))

(* fdb_kvdb_init and _fdb_kv_load, on the RAM it finds.                   *)
Load(d) ==
    LET d1  == [d EXCEPT !.gc_request = FALSE, !.in_recovery = TRUE, !.oldest = FindOldest(d),
                         !.kv_cache = [k \in Key |-> None],
                         !.sec_cache = [s \in Sector |-> NotCached]]
        bad == {s \in Sector : ~d.flash[s].magic}
    IN  With(RepairHeaders(d1), LAMBDA e :
        With(ResumeGc(IF bad = Sector THEN SetDefault(e) ELSE e), LAMBDA f :
           [RecoverKvs(f) EXCEPT !.in_recovery = FALSE]))

-----------------------------------------------------------------------------
FactoryMap == [k \in Key |-> IF k \in Factory THEN FactoryValue ELSE Absent]

Init ==
    /\ flash = [s \in Sector |-> Erased]
    /\ ram = PowerUpRam
    /\ power = "off"
    /\ cuts = 0 /\ misled = FALSE
    /\ view = FactoryMap
    /\ call = [op |-> "start", key |-> Absent, val |-> Absent, res |-> "cut"]

View(d) ==
    [k \in Key |-> With(FindKv(d, k), LAMBDA f : IF f.found THEN f.kv.val ELSE Absent)]

(* A call has been made and led from Db to d.                             *)
Complete(d, c) ==
    /\ flash' = d.flash /\ ram' = RamOf(d)
    /\ power' = IF d.hung THEN "hung" ELSE "on"
    /\ call' = c
    /\ view' = View(d)
    /\ UNCHANGED <<cuts, misled>>

CutShort(d, c) ==
    /\ cuts < MaxCuts /\ cuts' = cuts + 1
    /\ \E i \in 1..Len(d.log) :
          /\ flash' = d.log[i]
          /\ \E e \in {Load(Database(d.log[i], PowerUpRam))} : view' = View(e)
          /\ misled' = (misled \/ OldestOf(d.log[i]) # 0)
    /\ ram' = PowerUpRam
    /\ power' = "off"
    /\ call' = [c EXCEPT !.res = "cut"]

Do(d, op, k, v, res) ==
    LET c == [op |-> op, key |-> k, val |-> v, res |-> res]
    IN  Complete(d, c) \/ CutShort(d, c)

Set(k, v) ==
    /\ power = "on"
    /\ \E r \in {SetKv(Db, k, v)} : Do(r.d, "set", k, v, r.res)

Del(k) ==
    /\ power = "on"
    /\ \E r \in {RemoveKv(Db, k)} : Do(r.d, "del", k, Absent, r.res)

(* fdb_kv_get_blob, and fdb_kv_get_obj.                                   *)
Get(k) ==
    /\ power = "on"
    /\ \E f \in {FindKv(Db, k)} :
          Do(f.d, "get", k, IF f.found THEN f.kv.val ELSE Absent, "ok")

(* fdb_kv_iterate to its end, fdb_kv_print, fdb_kvdb_check: all is read.  *)
Scan ==
    /\ power = "on"
    /\ \E f \in {FindFrom(Db, Absent, 0, 0)} : Do(f.d, "scan", Absent, Absent, "ok")

Reset ==
    /\ power = "on"
    /\ \E d \in {SetDefault(Db)} : Do(d, "reset", Absent, Absent, "ok")

(* fdb_kvdb_init after a reset, and after fdb_kvdb_deinit.                *)
StartUp ==
    /\ power \in {"off", "on"}
    /\ \E d \in {Load(Db)} : Do(d, "start", Absent, Absent, "ok")

(* A reset between two calls.                                             *)
PowerDown ==
    /\ power = "on"
    /\ power' = "off" /\ ram' = PowerUpRam
    /\ call' = [op |-> "start", key |-> Absent, val |-> Absent, res |-> "cut"]
    /\ \E e \in {Load(Database(flash, PowerUpRam))} : view' = View(e)
    /\ misled' = (misled \/ OldestOf(flash) # 0)
    /\ UNCHANGED <<flash, cuts>>

Next ==
    \/ Scan \/ Reset \/ StartUp \/ PowerDown
    \/ \E k \in Key : Del(k) \/ Get(k) \/ \E v \in Value : Set(k, v)

Spec == Init /\ [][Next]_vars

(* What the next step depends on: call only reports the last one.         *)
Memory == <<flash, ram, power, cuts, view, misled>>

(* Keys are interchangeable when none has a factory value, values when     *)
(* their records also have the same size.                                  *)
Symmetry == {p @@ q : p \in Permutations(Key), q \in Permutations(Value)}

-----------------------------------------------------------------------------
(* Properties *)

(* When RAM was lost while sector 0 was not the oldest sector, the next    *)
(* start-up searches and collects from the wrong end (FindOldest), and a   *)
(* call cut short by a power loss may then lose or restore a value.        *)
Astray == misled /\ cuts > 0

Map == INSTANCE AtomicMap WITH
          map <- view, Defaults <- FactoryMap

(* The database is a map that only its calls change, and a call cut short  *)
(* by a power loss has taken effect or has not (README.md "Power-off       *)
(* protection").                                                           *)
IsAtomicMap == Map!Spec

(* The same, as long as start-up begins at the oldest sector or no call is *)
(* cut short: collecting, moving and recovering records through any cut    *)
(* neither loses a value, nor brings an old one back, nor mixes keys.      *)
IsAtomicMapUnlessAstray == [][~Astray' => Map!Next]_<<view, call>>

(* The retry loop of _fdb_kv_load comes to an end.                        *)
StartUpEnds == power # "hung"

(* What the caches say of a sector is what is in flash, and a key's cached *)
(* address holds its live record, through collection, moves and deletes:   *)
(* find_kv trusts that address whatever the status of the record there.    *)
CacheIsExact ==
    power = "on" =>
       /\ \A s \in Sector : LET c == ram.sec_cache[s] IN
             c.in => /\ flash[s].magic /\ c.store = flash[s].store /\ c.dirty = flash[s].dirty
                     /\ c.empty # Unknown => c.empty = UsedEnd(flash[s]) /\ c.remain = Size - c.empty
       /\ \A k \in Key : LET a == ram.kv_cache[k] IN
             a # None => LET r == RecordAt(Db, a) IN r.part = WHOLE /\ r.st = WRITE /\ r.key = k

(* Collection always finds an empty sector to move records to: no call,    *)
(* and no cut in the middle of a collection, uses the last one up.         *)
SpareSector == power = "on" => \E s \in Sector : flash[s].store = EMPTY

(* At most one record of a key is live, so no old value waits to be found  *)
(* first once the order of the sectors has changed.                        *)
Live(k) == {a \in Sector \X (0..(Size - 1)) : Matches(ReadKv(Db, a).kv, k)}
OneLive == power = "on" /\ ~Astray => \A k \in Key : Cardinality(Live(k)) <= 1
=============================================================================
