------------------------------ MODULE FlashDBTS ------------------------------
(***************************************************************************)
(* The time series database of FlashDB (src/APP/FlashDB/src/fdb_tsdb.c).   *)
(*                                                                         *)
(* As in FlashDBKV a call is a function of the database record d, d.log    *)
(* collects the flash after every program or erase operation, and a power  *)
(* loss leaves one member of that log.                                     *)
(*                                                                         *)
(* The unit of size is an index entry; a sector is a header of one unit,   *)
(* then entries from the top and payloads from the bottom.  Addresses are  *)
(* absolute, as in the code.                                               *)
(***************************************************************************)
EXTENDS Integers, Sequences, FiniteSets, FiniteSetsExt, SequencesExt, TLC

CONSTANTS
    NumSectors,   \* db_max_size / db_sec_size
    Size,         \* units of a sector behind its header
    MaxLen,       \* max_len, in units; no payload is longer
    MaxTime,      \* bound: timestamps are 1..MaxTime
    UserStatus,   \* statuses the application gives: 3 user 1, 4 deleted, 5 user 2
    Garbage,      \* bound: times an uninitialized stack variable may hold
    ZeroPayload,  \* payload bytes are 0: as a status table, written (else 0xFF: unused)
    MaxCuts       \* bound: power cuts

ASSUME TsAssumption ==
    /\ NumSectors \in Nat /\ NumSectors >= 2         \* _fdb_init_ex
    /\ MaxLen \in Nat \ {0} /\ Size \in Nat /\ MaxLen < Size
    /\ MaxTime \in Nat /\ UserStatus \subseteq 3..5 /\ Garbage \subseteq Nat

Time == 1..MaxTime
Sector == 0..(NumSectors - 1)
SecSize == Size + 1
DbSize == NumSectors * SecSize
AddrMod == 65536                  \* addresses are unsigned: 2^32 in the code
FDB_DATA_UNUSED == AddrMod - 1

UNUSED == 0
EMPTY == 1        \* store of a sector
USING == 2
FULL == 3
PRE_WRITE == 1    \* of an entry
WRITE == 2
USER_STATUS2 == 5

(* One unit: an index entry, or a piece of the payload logged at time of.  *)
Blank == [st |-> UNUSED, time |-> 0, len |-> 0, log |-> FDB_DATA_UNUSED, of |-> 0]
Payload(t) == [Blank EXCEPT !.st = IF ZeroPayload THEN USER_STATUS2 ELSE UNUSED, !.of = t]

NoEnd == [st |-> UNUSED, time |-> 0, idx |-> 0]
Erased == [magic |-> FALSE, store |-> UNUSED, start |-> 0, end |-> <<NoEnd, NoEnd>>,
           at |-> <<>>]

VARIABLES
    flash,   \* per sector: header and units by address
    ram,     \* struct fdb_tsdb: cur_sec, oldest_addr, last_time, rollover
    power,   \* "on", "off", "lost" (no current sector) or "hung" (assertion)
    cuts,    \* history: power cuts so far
    call,    \* history: the last call and how it ended
    log,     \* history: what an iteration delivers now, or after start-up
    misled   \* history: a cut left no sector in use that still takes entries,
             \* or a reset found every sector full

vars == <<flash, ram, power, cuts, call, log, misled>>

ZeroSec == [ok |-> FALSE, status |-> UNUSED, addr |-> 0, start |-> 0, end_time |-> 0,
            end_idx |-> 0, stat |-> <<UNUSED, UNUSED>>, remain |-> 0, empty_idx |-> 0,
            empty_data |-> 0, assert |-> FALSE]
PowerUpRam == [cur |-> ZeroSec, oldest |-> 0, last_time |-> 0, rollover |-> FALSE]

Database(f, r) == r @@ [flash |-> f, log |-> <<f>>]
Db == Database(flash, ram)
RamOf(d) == [x \in DOMAIN PowerUpRam |-> d[x]]

-----------------------------------------------------------------------------
(* Flash *)

SectorAt(a) == a \div SecSize
Program(d, f) == [d EXCEPT !.flash = f, !.log = Append(@, f)]
SetStore(d, a, st) == Program(d, [d.flash EXCEPT ![SectorAt(a)].store = st])
SetEnd(d, a, e, info) == Program(d, [d.flash EXCEPT ![SectorAt(a)].end[e] = info])

UnitAt(f, a) ==
    LET at == f[SectorAt(a)].at IN IF a \in DOMAIN at THEN at[a] ELSE Blank
PutEntry(d, a, u) == Program(d, [d.flash EXCEPT ![SectorAt(a)].at = (a :> u) @@ @])

(* What is programmed twice without being erased is neither value.        *)
Mixed == -1
PutPayload(d, as, t) ==
    Program(d, [d.flash EXCEPT ![SectorAt(Min(as))].at =
       [a \in as |-> Payload(IF UnitAt(d.flash, a) = Blank THEN t ELSE Mixed)] @@ @])

(* As if an entry that was not finished took up one unit.                 *)
ReadTslShort(f, a) ==
    LET u == UnitAt(f, a) IN
    IF u.st \in {UNUSED, PRE_WRITE}
    THEN [st |-> u.st, time |-> 0, len |-> 1, log |-> FDB_DATA_UNUSED, idx |-> a]
    ELSE [st |-> u.st, time |-> u.time, len |-> u.len, log |-> u.log, idx |-> a]

(* read_tsl; an entry that was not finished may have any length.          *)
ReadTsl(f, a) ==
    LET u == UnitAt(f, a) IN
    IF u.st \in {UNUSED, PRE_WRITE}
    THEN [st |-> u.st, time |-> 0, len |-> MaxLen, log |-> FDB_DATA_UNUSED, idx |-> a]
    ELSE [st |-> u.st, time |-> u.time, len |-> u.len, log |-> u.log, idx |-> a]

(* With names a result that is looked at several times.                    *)
With(x, Rest(_)) == Rest(x)

(* The traversal in read_sector_info.                                     *)
RECURSIVE Traverse(_, _)
Traverse(f, i) ==
    With(ReadTsl(f, i.empty_idx), LAMBDA t :
    With([i EXCEPT !.end_time = IF t.st # PRE_WRITE THEN t.time ELSE @,
                   !.end_idx = i.empty_idx,
                   !.empty_idx = @ + 1, !.empty_data = @ - t.len,
                   !.remain = IF @ > 1 + t.len THEN @ - (1 + t.len) ELSE 0], LAMBDA next :
       IF t.st = UNUSED THEN i
       ELSE IF i.remain > 1 + t.len THEN Traverse(f, next) ELSE next))

(* read_sector_info into a variable that held old: without a header the    *)
(* rest is left alone, without end information so is the end.              *)
ReadSector(f, a, traversal, old) ==
    IF a >= DbSize \/ ~f[SectorAt(a)].magic THEN [old EXCEPT !.ok = FALSE, !.addr = a]
    ELSE With(f[SectorAt(a)], LAMBDA sec :
         With({e \in 1..2 : sec.end[e].st = WRITE}, LAMBDA ends :
         With([old EXCEPT
                 !.ok = TRUE, !.addr = a, !.status = sec.store, !.start = sec.start,
                 !.stat = [e \in 1..2 |-> sec.end[e].st],
                 !.end_time = IF ends = {} THEN @ ELSE sec.end[Min(ends)].time,
                 !.end_idx = IF ends = {} THEN @ ELSE sec.end[Min(ends)].idx,
                 !.assert = \A e \in 1..2 : sec.end[e].st = PRE_WRITE,
                 !.empty_idx = a + 1, !.empty_data = a + SecSize, !.remain = Size], LAMBDA info :
            IF traversal /\ sec.store = USING THEN Traverse(f, info) ELSE info)))

(* format_sector.                                                         *)
Format(d, a) ==
    With(SetStore(Program(d, [d.flash EXCEPT ![SectorAt(a)] = Erased]), a, EMPTY),
         LAMBDA e : Program(e, [e.flash EXCEPT ![SectorAt(a)].magic = TRUE]))

-----------------------------------------------------------------------------
(* Appending *)

(* The end of the sector is recorded in the first unused slot.            *)
RecordEnd(d) ==
    LET c     == d.cur
        free  == {e \in 1..2 : c.stat[e] = UNUSED}
        end(st, t, i) == [st |-> st, time |-> t, idx |-> i]
        d1    == SetEnd(d, c.addr, Min(free), end(PRE_WRITE, 0, 0))
        d2    == SetEnd(d1, c.addr, Min(free), end(PRE_WRITE, d.last_time, 0))
        d3    == SetEnd(d2, c.addr, Min(free), end(PRE_WRITE, d.last_time, c.empty_idx - 1))
    IN  IF free = {} THEN d
        ELSE SetEnd(d3, c.addr, Min(free), end(WRITE, d.last_time, c.empty_idx - 1))

(* Then the sector is full; a mutant forgets to say so.                   *)
CloseSectorInUse(d) == [RecordEnd(d) EXCEPT !.cur.status = FULL]
CloseSector(d) == [SetStore(RecordEnd(d), d.cur.addr, FULL) EXCEPT !.cur.status = FULL]

NextAddr(a) == IF a + SecSize < DbSize THEN a + SecSize ELSE 0

(* As if the oldest sector stayed the oldest when it is used again.       *)
SwitchSectorOldest(d) ==
    LET new == NextAddr(d.cur.addr) IN
    With([d EXCEPT !.cur = ReadSector(d.flash, new, FALSE, @)], LAMBDA e :
       IF e.cur.status = EMPTY THEN e
       ELSE With(Format(e, new), LAMBDA f :
               [f EXCEPT !.cur = ReadSector(f.flash, new, FALSE, @)]))

(* The sector that follows, emptied if need be, becomes the current one.   *)
SwitchSector(d) ==
    LET new == NextAddr(d.cur.addr) IN
    With([d EXCEPT !.cur = ReadSector(d.flash, new, FALSE, @)], LAMBDA e :
       IF e.cur.status = EMPTY THEN e
       ELSE With(Format([e EXCEPT !.oldest = NextAddr(new)], new), LAMBDA f :
               [f EXCEPT !.cur = ReadSector(f.flash, new, FALSE, @)]))

(* The first entry of a sector marks it.                                  *)
OpenSector(d, t) ==
    LET a  == d.cur.addr
        d1 == SetStore(d, a, USING)
        d2 == Program(d1, [d1.flash EXCEPT ![SectorAt(a)].start = t])
    IN  IF d.cur.status # EMPTY THEN d
        ELSE [d2 EXCEPT !.cur.status = USING, !.cur.start = t]

(* update_sec_status.                                                     *)
MakeRoom(d, len, t) ==
    IF d.cur.status = USING /\ d.cur.remain < 1 + len
    THEN With(CloseSector(d), LAMBDA e :
            IF d.cur.addr + SecSize >= DbSize /\ ~d.rollover THEN [d |-> e, ok |-> FALSE]
            ELSE [d |-> OpenSector(SwitchSector(e), t), ok |-> TRUE])
    ELSE [d |-> OpenSector(d, t), ok |-> d.cur.status # FULL]

(* write_tsl.                                                             *)
WriteTsl(d, len, t) ==
    LET a    == d.cur.empty_idx
        l    == d.cur.empty_data - len
        info == [Blank EXCEPT !.time = t, !.len = len, !.log = l]
        d1   == PutEntry(d, a, [Blank EXCEPT !.st = PRE_WRITE])
        d2   == PutEntry(d1, a, [info EXCEPT !.st = PRE_WRITE])
        d3   == PutPayload(d2, l..(l + len - 1), t)
    IN  PutEntry(d3, a, [info EXCEPT !.st = WRITE])

(* tsl_append.                                                            *)
TslAppend(d, len, t) ==
    IF len > MaxLen \/ t <= d.last_time THEN [d |-> d, res |-> "err"]
    ELSE With(MakeRoom(d, len, t), LAMBDA room :
       IF ~room.ok THEN [d |-> room.d, res |-> "full"]
       ELSE With(WriteTsl(room.d, len, t), LAMBDA e :
          [d   |-> [e EXCEPT !.cur.end_idx = e.cur.empty_idx, !.cur.end_time = t,
                             !.cur.empty_idx = @ + 1, !.cur.empty_data = @ - len,
                             !.cur.remain = @ - (1 + len), !.last_time = t],
           res |-> "ok"]))

(* fdb_tsl_set_status.                                                    *)
TslSetStatus(d, a, st) ==
    LET u == UnitAt(d.flash, a) IN PutEntry(d, a, [u EXCEPT !.st = IF st > @ THEN st ELSE @])

(* tsl_format_all.                                                        *)
FormatAll(d) ==
    With(FoldLeft(Format, d, [i \in 1..NumSectors |-> (i - 1) * SecSize]), LAMBDA e :
       [e EXCEPT !.oldest = 0, !.last_time = 0,
                 !.cur = ReadSector(e.flash, 0, FALSE, [@ EXCEPT !.addr = 0])])

-----------------------------------------------------------------------------
(* Reading.  The sector in use is read from cur_sec.                      *)

InTurn(d, n) == (d.oldest + n * SecSize) % DbSize
Backwards(d, n) == (d.cur.addr + DbSize - n * SecSize) % DbSize

SectorInfo(d, a) ==
    With(ReadSector(d.flash, a, FALSE, ZeroSec), LAMBDA i :
       IF i.ok /\ i.status = USING THEN d.cur ELSE i)
HasTsl(i) == i.ok /\ i.status \in {USING, FULL}

(* Addresses of entries, the first one whatever end_idx is.               *)
Upwards(i) == [n \in 1..Max({1, i.end_idx - i.addr}) |-> i.addr + n]
DownwardsShort(i) == [n \in 1..Max({1, i.end_idx - i.addr - 1}) |-> i.end_idx - n + 1]
Downwards(i) == [n \in 1..Max({1, i.end_idx - i.addr}) |-> i.end_idx - n + 1]

ReadAll(f, as) == [m \in DOMAIN as |-> ReadTsl(f, as[m])]

(* fdb_tsl_iter and fdb_tsl_iter_reverse, with what they deliver.         *)
Iter(d) ==
    FoldLeft(LAMBDA out, n : With(SectorInfo(d, InTurn(d, n - 1)), LAMBDA i :
                IF HasTsl(i) THEN out \o ReadAll(d.flash, Upwards(i)) ELSE out),
             <<>>, [n \in 1..NumSectors |-> n])

RECURSIVE IterReverse(_, _)
IterReverse(d, n) ==
    IF n = NumSectors THEN <<>>
    ELSE With(SectorInfo(d, Backwards(d, n)), LAMBDA i :
       IF HasTsl(i) THEN ReadAll(d.flash, Downwards(i)) \o IterReverse(d, n + 1)
       ELSE IF i.ok THEN <<>> ELSE IterReverse(d, n + 1))

(* search_start_tsl_addr: where the search ends, and the search; a mutant  *)
(* does not step back for a reverse iteration.                             *)
SearchEndStays(f, start, from, to) == start
SearchEnd(f, start, from, to) ==
    IF from > to /\ ReadTsl(f, start).time > from THEN start - 1 ELSE start

RECURSIVE SearchStart(_, _, _, _, _)
SearchStart(f, start, end, from, to) ==
    LET mid == start + (end - start + 1) \div 2 IN
    With(ReadTsl(f, mid).time, LAMBDA t :
    With(IF t < from THEN mid + 1 ELSE start, LAMBDA start2 :
    With(IF t > from THEN mid - 1 ELSE end, LAMBDA end2 :
       IF t = from THEN mid
       ELSE IF start2 <= end2 THEN SearchStart(f, start2, end2, from, to)
       ELSE SearchEnd(f, start2, from, to))))

(* fdb_tsl_iter_by_time inside one sector, from entry a on: it ends at the *)
(* first entry that is out of range.                                       *)
RECURSIVE InRange(_, _, _, _, _)
InRange(f, i, a, from, to) ==
    LET more == IF from <= to THEN a + 1 <= i.end_idx ELSE a >= i.addr + 2
        next == IF from <= to THEN a + 1 ELSE a - 1
    IN  With(ReadTsl(f, a), LAMBDA t :
           LET this == IF t.st = UNUSED THEN <<>> ELSE <<t>>
           IN  IF t.st # UNUSED /\ ~(Min({from, to}) <= t.time /\ t.time <= Max({from, to}))
               THEN [out |-> <<>>, stop |-> TRUE]
               ELSE IF ~more THEN [out |-> this, stop |-> FALSE]
               ELSE [InRange(f, i, next, from, to) EXCEPT !.out = this \o @])

(* fdb_tsl_iter_by_time from the n-th sector on.                          *)
RECURSIVE IterByTime(_, _, _, _, _)
IterByTime(d, from, to, n, found) ==
    LET fwd == from <= to
        Starts(i) == \/ found
                     \/ fwd /\ ((n = 0 /\ from <= i.start) \/ from <= i.end_time)
                     \/ ~fwd /\ ((n = 0 /\ from >= i.end_time) \/ from >= i.start)
    IN  IF n = NumSectors THEN <<>>
        ELSE With(SectorInfo(d, IF fwd THEN InTurn(d, n) ELSE Backwards(d, n)), LAMBDA i :
           IF i.ok /\ i.status = EMPTY THEN <<>>
           ELSE IF ~HasTsl(i) \/ ~Starts(i) THEN IterByTime(d, from, to, n + 1, found)
           ELSE With(InRange(d.flash, i, SearchStart(d.flash, i.addr + 1, i.end_idx, from, to),
                             from, to), LAMBDA r :
              IF r.stop THEN r.out ELSE r.out \o IterByTime(d, from, to, n + 1, TRUE)))

-----------------------------------------------------------------------------
(* Start-up *)

(* check_sec_hdr_cb of the sector i, when none is current yet or one is.   *)
CheckHeader(c, i, none) ==
    IF ~i.ok \/ (i.status = USING /\ ~none) THEN [c EXCEPT !.failed = TRUE]
    ELSE IF i.status = USING THEN [c EXCEPT !.cur = i]
    ELSE IF i.status = EMPTY
    THEN [c EXCEPT !.empties = @ + 1, !.empty = i.addr,
                   !.cur = IF c.empties = 0 /\ none THEN i ELSE @]
    ELSE c

(* That over the sectors in turn, until a check fails; sec is              *)
(* the variable on the stack that all headers are read into.               *)
CheckHeaders(d, g) ==
    FoldLeft(LAMBDA c, n :
                IF c.failed THEN c
                ELSE With(ReadSector(d.flash, (n - 1) * SecSize, TRUE, c.sec), LAMBDA i :
                     CheckHeader([c EXCEPT !.sec = i], i, c.cur.addr = FDB_DATA_UNUSED)),
             [sec |-> [ZeroSec EXCEPT !.end_time = g], failed |-> FALSE, empties |-> 0,
              empty |-> 0, cur |-> [d.cur EXCEPT !.addr = FDB_DATA_UNUSED]],
             [n \in 1..NumSectors |-> n])

(* fdb_tsdb_init on the RAM it finds.                                     *)
Load(d, g) ==
    With(CheckHeaders(d, g), LAMBDA c :
    With(((IF c.empties > 0 THEN c.empty ELSE c.cur.addr) + SecSize) % AddrMod, LAMBDA after :
    With(IF c.failed THEN FormatAll([d EXCEPT !.cur = c.cur])
         ELSE [d EXCEPT !.cur = c.cur, !.oldest = IF after >= DbSize THEN 0 ELSE after], LAMBDA e :
    With(ReadSector(e.flash, e.cur.addr, TRUE, e.cur), LAMBDA cur :
    With(IF cur.addr = 0 THEN DbSize - SecSize ELSE cur.addr - SecSize, LAMBDA before :
       [e EXCEPT !.rollover = TRUE, !.cur = cur,
                 !.last_time = IF cur.status = USING THEN cur.end_time
                               ELSE IF cur.status = EMPTY /\ e.oldest # cur.addr
                               THEN ReadSector(e.flash, before, FALSE,
                                               [ZeroSec EXCEPT !.end_time = g]).end_time
                               ELSE @])))))

(* How a start-up ends.                                                   *)
PowerOf(d) == IF d.cur.assert THEN "hung" ELSE IF d.cur.addr >= DbSize THEN "lost" ELSE "on"

-----------------------------------------------------------------------------
Entry(t) == [time |-> t.time, len |-> t.len, st |-> t.st]
Committed(t) == t.st >= WRITE
Entries(ts) == [n \in DOMAIN ts |-> Entry(ts[n])]
Log(d) == Entries(SelectSeq(Iter(d), Committed))
LogAfter(d) == IF PowerOf(d) = "on" THEN Log(d) ELSE <<>>

NoCall == [op |-> "start", time |-> 0, res |-> "cut"]

Init ==
    /\ flash = [s \in Sector |-> Erased]
    /\ ram = PowerUpRam
    /\ power = "off"
    /\ cuts = 0 /\ misled = FALSE
    /\ log = <<>>
    /\ call = NoCall

(* A sector in use that holds an entry and was not being closed: after a   *)
(* cut that leaves one, start-up finds its way.                            *)
Settled(f) ==
    \E s \in Sector :
       /\ f[s].store = USING /\ f[s].end[1] = NoEnd /\ f[s].end[2] = NoEnd
       /\ \E a \in DOMAIN f[s].at : f[s].at[a].of = 0 /\ f[s].at[a].st >= WRITE

Complete(d, c) ==
    /\ flash' = d.flash /\ ram' = RamOf(d)
    /\ power' = PowerOf(d)
    /\ call' = c
    /\ log' = LogAfter(d)
    /\ UNCHANGED <<cuts, misled>>

CutShort(d, c) ==
    /\ cuts < MaxCuts /\ cuts' = cuts + 1
    /\ \E n \in 1..Len(d.log), g \in Garbage :
          /\ flash' = d.log[n]
          /\ log' = LogAfter(Load(Database(d.log[n], PowerUpRam), g))
          /\ misled' = (misled \/ ~Settled(d.log[n]))
    /\ ram' = PowerUpRam
    /\ power' = "off"
    /\ call' = [c EXCEPT !.res = "cut"]

Do(d, op, t, res) ==
    LET c == [op |-> op, time |-> t, res |-> res] IN Complete(d, c) \/ CutShort(d, c)

(* fdb_tsl_append and fdb_tsl_append_with_ts.                             *)
Append_(t, len) ==
    /\ power = "on"
    /\ \E r \in {TslAppend(Db, len, t)} : Do(r.d, "append", t, r.res)

(* fdb_tsl_set_status, of an entry that an iteration has delivered.       *)
SetStatus(st) ==
    /\ power = "on"
    /\ \E t \in {ts \in Range(Iter(Db)) : Committed(ts)} :
          Do(TslSetStatus(Db, t.idx, st), "set_status", 0, "ok")

(* fdb_tsl_clean.                                                         *)
Clean ==
    /\ power = "on"
    /\ Do(FormatAll(Db), "clean", 0, "ok")

(* FDB_TSDB_CTRL_SET_ROLLOVER.                                            *)
SetRollover ==
    /\ power = "on"
    /\ \E b \in BOOLEAN : Complete([Db EXCEPT !.rollover = b], NoCall)

(* fdb_tsdb_init after a reset, and after fdb_tsdb_deinit.                *)
StartUp ==
    /\ power \in {"off", "on"}
    /\ \E g \in Garbage : Do(Load(Db, g), "start", 0, "ok")

(* A reset between two calls.                                             *)
PowerDown ==
    /\ power = "on"
    /\ power' = "off" /\ ram' = PowerUpRam /\ call' = NoCall
    /\ \E g \in Garbage : log' = LogAfter(Load(Database(flash, PowerUpRam), g))
    /\ misled' = (misled \/ \A s \in Sector : flash[s].store = FULL)
    /\ UNCHANGED <<flash, cuts>>

Next ==
    \/ \E t \in Time, len \in 1..(MaxLen + 1) : Append_(t, len)
    \/ \E st \in UserStatus : SetStatus(st)
    \/ Clean \/ SetRollover \/ StartUp \/ PowerDown

Spec == Init /\ [][Next]_vars

(* What the next step depends on: call only reports the last one.         *)
Memory == <<flash, ram, power, cuts, log, misled>>

-----------------------------------------------------------------------------
(* Properties *)

(* An entry takes at least two units of a sector.                         *)
Series == INSTANCE TimeLog WITH
             Length <- 1..MaxLen, Status <- UserStatus, MaxDrop <- Size \div 2

(* The log keeps the order of its times and loses only its oldest entries, *)
(* a sector at a time, whatever power losses cut calls short (README.md    *)
(* "Power-off protection"); a restart changes nothing.  This fails.        *)
IsTimeLog == Series!Spec

(* The same, unless power was lost while a sector was being closed, opened *)
(* or erased, or the database is opened again when every sector is full    *)
(* (which takes rollover to be off, and loses the log without any cut):    *)
(* torn entries, rollover, clearing and all other restarts leave nothing   *)
(* out of place.                                                           *)
IsTimeLogUnlessMisled == [][~misled' /\ power' # "lost" => Series!Next]_<<log, call>>

(* No payload runs into another or into the entries, although the space of *)
(* an entry that a cut left unfinished is only estimated (read_tsl).       *)
PayloadIntact ==
    \A s \in Sector : \A a \in DOMAIN flash[s].at :
       LET u == flash[s].at[a] IN
       (u.of = 0 /\ u.st >= WRITE) =>
          \A x \in u.log..(u.log + u.len - 1) : UnitAt(flash, x).of = u.time

(* At most one sector is in use at any time and after any cut: start-up    *)
(* formats the whole database if it finds two (check_sec_hdr_cb).          *)
OneSectorInUse == Cardinality({s \in Sector : flash[s].magic /\ flash[s].store = USING}) <= 1

Torn == \E s \in Sector : \E a \in DOMAIN flash[s].at :
           flash[s].at[a].of = 0 /\ flash[s].at[a].st = PRE_WRITE
Matching(from, to) ==
    SelectSeq(log, LAMBDA e : Min({from, to}) <= e.time /\ e.time <= Max({from, to}))
Expected(from, to) ==
    IF from <= to THEN Matching(from, to) ELSE Reverse(Matching(from, to))
Delivered(from, to) == Entries(IterByTime(Db, from, to, 0, FALSE))

(* A sector is full to the last unit, and its last entry is older than the *)
(* time a backward query starts from: the search ends behind that entry    *)
(* and takes a piece of payload for an entry, which ends the query.        *)
Tight(from, to) ==
    \E s \in Sector : \E a \in DOMAIN flash[s].at :
       /\ flash[s].at[a].of = 0 /\ UnitAt(flash, a + 1).of # 0
       /\ to <= flash[s].at[a].time /\ flash[s].at[a].time < from

(* A query by time delivers the entries of the range in order, backwards   *)
(* if the range is given backwards ("the TSDB iterator for each TSL by     *)
(* timestamp"), although it searches sectors by the times in their headers *)
(* and entries by bisection.  It gives up at an unfinished entry, so       *)
(* without one; and in a Tight case it may give up early, and the rest of  *)
(* the range, or all of it, is missing.  In every other case it is exact.  *)
QueryIsExactUnlessTight ==
    power = "on" /\ ~misled /\ ~Torn =>
       \A from, to \in Time :
          /\ IsPrefix(Delivered(from, to), Expected(from, to))
          /\ Tight(from, to) \/ Delivered(from, to) = Expected(from, to)

(* The reverse iteration starts from the current sector, not the oldest,   *)
(* and still delivers what the iteration does, backwards.                  *)
ReverseIsReverse ==
    power = "on" /\ ~misled => IterReverse(Db, 0) = Reverse(Iter(Db))
=============================================================================
