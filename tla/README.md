# EmbeddedFlash: a verification development

This directory keeps TLA+ models of the stateful software of this repository, the
TLC runs that check them on small instances, and proofs, checked by TLAPS, of
theorems that hold for every size.

The repository is a firmware for an STM32F103 board. It holds three programs with
a state worth the name: *EmbeddedFlash*, its own key-value store in the last pages
of the on-chip flash (`src/APP/flash`); *FlashDB* (`src/APP/FlashDB`), a key-value
and a time series database; and *SEGGER RTT* (`src/APP/SEGGER`), the channel to the
debug probe behind every `printf`, with the event recorder *SystemView* on top of
it. The first two must survive a power cut at any moment; the third is shared by the
main program, interrupts and a probe that reads memory while the processor runs. The
rest is drivers, vendor code and tests.

## 1. Inventory

### EmbeddedFlash engine - `EmbeddedFlash.c`, `.h`, `_def.h`, `_config.h`

*State in flash.* `KV_SECTOR_COUNT` pages of 2 KB. Each begins with a 32-byte
header: a table of two sector-status words, a table of four role words, a magic
word and a reserved one; then 63 record slots of 32 bytes. A record is a table of four status
words (PRE_WRITE, WRITE, PRE_DELETE, DELETED) followed by key, type, length, value
and CRC. A "status" is never overwritten: a state is entered by clearing one more
word of a table.

*State in RAM.* `m_sector_desc_list` (attributes and free space of every sector) and
`mp_kv_list` (per key: address of its record, value, and whether the value is
stored or only the compiled-in default).

*Operations.* `embedded_flash_init`, `_set` (with its typed wrappers), `_get`,
`_delete`, `_gc`. Internally: classify the headers, format, scan a sector, write a
record, migrate a sector, rebuild the ring, write missing defaults.

*Hard behaviour.* No concurrency: a single main loop calls the library and no
interrupt handler does. The difficulty is entirely in *power cuts between any two
flash operations*, and in the calls that nest: a write may collect garbage, a
collection that meets an abnormal state recovers, recovery writes defaults, which
again may collect.

*Correct when* a key never has two live records; no live record is erased; a
record only goes into an erased slot; after any cut start-up succeeds with values
that were really stored; the RAM index agrees with the flash; every call returns.

### Status tables - `_set_status`, `_get_status`

Pure functions over words that can only be cleared. *Correct when* a status, once
written, never reads as a lower one whatever order the words are cleared in.

### Flash port - `EmbeddedFlash_port.c` over `stm32f10x_flash.c`

`flash_port_read/write/erase` with argument checks, unlock, a loop over words or
pages, verification, lock. The controller programs half-words and refuses to
program one that is not erased (PGERR). *Hard behaviour:* power cuts and controller
errors between half-words, and PGERR being taken for "already written". *Correct
when* a write of erased flash stores the data or a prefix of it and nothing else.

### SEGGER RTT - `SEGGER_RTT.c`, `SEGGER_RTT_printf.c`

*State.* Per up-buffer a ring in RAM with `WrOff`, `RdOff` and a mode; one byte of
the ring stays unused. `_ActiveTerminal`, and the identifier of the control block
that says whether it has been initialised.

*Operations.* `Write`, `WriteString`, `WriteSkipNoLock`, `PutChar`, `SetTerminal`,
`TerminalOut`, `printf`, `SetFlagsUpBuffer`, and the implicit initialisation that
each of them begins with. The reader is the probe (`SEGGER_RTT_ReadUpBufferNoLock`
"does the same operation that J-Link does").

*Hard behaviour.* Three concurrent parties. Interrupts preempt the main program
outside the lock; the probe is never masked. A writer looks at `RdOff` once, copies,
and publishes `WrOff`; the probe does the mirror image. Five functions compute the
room, each in its own way. Three modes: skip, trim, block (with interrupts masked).

*Correct when* the probe receives exactly the accepted bytes, in order, each on the
terminal it was written for; nobody overruns it; and nobody waits but for it, and
only in blocking mode.

### SEGGER SystemView - `SEGGER_SYSVIEW.c`

*State.* `_SYSVIEW_Globals`: `EnableState` (off, on, dropping), `RecursionCnt`,
`LastTxTimeStamp`, `DisabledEvents`; the list of modules; an up-buffer of RTT for packets
and a down-buffer for the host's commands.

*Operations.* `Record*`, `On*`, `Print` and `Name*` encode one event and hand it to
`_SendPacket`, which stores it or drops it and then looks for a command; `Start`,
`Stop`, `EnableEvents`, `DisableEvents`, `RegisterModule`, `IsStarted`.

*Hard behaviour.* Every packet polls for a command, commands are answered with
packets, and those poll again; `IsStarted` polls outside the lock; interrupts record
between any two steps outside the lock; a START or STOP of the host is handled in
the middle of whatever call is running. Times are sent as differences to the last
packet that was *stored*, and a full buffer drops packets.

*Correct when* the sum of the differences is the time of each packet; a loss is
followed by a packet that shows it; every command byte is consumed once, by one
handler at a time; and the last Start or Stop decides whether recording is on.

### FlashDB key-value database - `fdb_kvdb.c`, `fdb_utils.c`

*State in flash.* Sectors with a header (magic word; a store status EMPTY, USING,
FULL; a dirty status CLEAN, DIRTY, GC) and records of any length in a row, each with a status table
(PRE_WRITE, WRITE, PRE_DELETE, DELETED, ERR_HDR). *State in RAM.* `struct fdb_kvdb`
with a cache of record addresses, a cache of sector descriptions, the address of
the oldest sector and the flags `gc_request`, `in_recovery_check` and, static in
`del_kv`, `last_is_complete_del`.

*Operations.* `fdb_kvdb_init`, `_deinit`, `fdb_kv_set(_blob)`, `_get(_blob, _obj)`, `_del`,
`_set_default`, `_print`, `_iterate`, `fdb_kvdb_check`. *Hard behaviour:* power cuts
inside a set (up to fourteen flash operations), inside a collection, and inside the
start-up that repairs them; two caches that must follow. *Correct when* it is a map
that only its calls change, atomically.

### FlashDB time series database - `fdb_tsdb.c`

*State in flash.* Sectors with a header (magic, store status, start time, two slots
for end time and end index), index entries growing up and payloads growing down.
*State in RAM.* `cur_sec`, `oldest_addr`, `last_time`, `rollover`. *Operations.* `init`,
`append`, `set_status`, `clean`, iteration forwards, backwards and by time, the
rollover option. *Hard behaviour:* the switch from one sector to the next is seven
flash operations; queries bisect entries and skip sectors by the times in their
headers. *Correct when* entries stay in the order of their times, only the oldest
are dropped, payloads never overlap, and all iterations agree.

### How they interact

    main loop --set/get/delete/gc--> EmbeddedFlash --read/write/erase--> flash port --> controller
        |                              |  status tables (pure)
        |--printf--> fputc --> RTT ring <-- reads, moves RdOff -- debug probe
        |                       ^   ^
        |              interrupts   '--packets-- SystemView <--commands-- host
        '--(application)--> FlashDB KV / TS --> FAL --> flash

EmbeddedFlash calls go downwards only; there are no callbacks except the
`_iteration` helper's, which are inlined where they are used. FlashDB's callbacks
(`sector_iterator`, `kv_iterator`) likewise become the operator they are used for.
FlashDB and EmbeddedFlash share no state. FlashDB is in the tree with its
configuration (`fdb_cfg.h`: FAL mode, 32-bit write granularity, both caches on) but
not in the Keil project's file list.

### Parts that are not modelled, or only in part

| Part | Status | Why |
|---|---|---|
| typed setters (`embedded_flash_set_uint8` ...) | not modelled | they pass a type and a length to `embedded_flash_set`; type and length are part of `Value` |
| erase statistics | not modelled | compiled out (`EFLASH_ENABLE_ERASE_COUNTER` is 0) |
| record CRC (`crc16_x25.h`) | not modelled | a checksum over payload bytes; that it detects a torn record is assumed (section 6) |
| log and assert macros | partly | only `EFLASH_ASSERT`, which loops forever (`hung`) |
| RTT down-buffers, `WriteWithOverwriteNoLock`, buffer allocation, formatting of `printf` | not modelled | the ring again with the roles exchanged (reading a down-buffer is in `SystemView`); a reader's own move of `RdOff` that nothing here calls; set-up that runs once; text |
| SystemView: encoding of parameters, text formatting, post-mortem mode, FreeRTOS adaptation | not modelled | data inside packets; not configured; tables of names |
| `fdb.c`, `fdb_file.c`, FAL | not modelled | checks of constants; file mode is not configured; a constant table of partitions |
| manual tests, Unity | not modelled | read as statements of intent; the power-loss cases are empty |
| board drivers, main loop, SysTick, USART | not modelled | hold no state that another part reads; read to establish who calls what |
| CMSIS and the other peripheral drivers | not modelled | vendor code |

### Not modelled: how much of the tree that is

The implementation files count about 64 600 lines, of which some 50 000 are vendor
headers and peripheral drivers (`stm32f10x.h`, `core_cm3.h`, `StdPeriph_Driver`),
Unity and test code. They consist of register definitions, straight
writes of registers and text output; they have no state of their own that any other
part depends on. A model of them would restate each assignment. The stateful code
is that of the seven modelled parts, some 13 000 lines with its comments and its
logging; the definitions here map the lines of it that change state or decide. A
large share of the tree in the map is therefore not attainable without claiming
lines that nothing translates.

## 2. Modules

| Module | Models | Kind |
|---|---|---|
| `StatusTable` | `_set_status`, `_get_status` and where the tables of a header lie | operators |
| `EmbeddedFlash` | the engine, over a flash whose operations are atomic | state machine |
| `KVStore` | what the engine promises a client | abstract specification |
| `EmbeddedFlashKV` | refinement mapping from the engine to `KVStore` | composition |
| `FlashPort` | port and controller, half-word by half-word | state machine |
| `SeggerRtt` | an RTT up-buffer: main program, interrupts, probe | state machine |
| `SystemView` | the event recorder: main program, interrupts, host | state machine |
| `FlashDBKV` | FlashDB's key-value database with power cuts | state machine |
| `AtomicMap` | what that database promises | abstract specification |
| `FlashDBTS` | FlashDB's time series database with power cuts | state machine |
| `TimeLog` | what that database promises | abstract specification |
| `EmbeddedFlash_proofs`, `FlashPort_proofs`, `SeggerRtt_proofs`, `SystemView_proofs` | theorems | proofs |
| `EmbeddedFlash_index_proofs`, `EmbeddedFlash_live_proofs`, `EmbeddedFlash_uncut_proofs` | the engine's write order and erasures, its live records, and what it does while the power holds, each on top of the last | proofs |
| `EmbeddedFlashKV_proofs` | the engine implements `KVStore` | proofs |

### How `EmbeddedFlash` corresponds to the code

The C call stack is the variable `todo`, a sequence of frames; the head is the
running function, a call pushes, a return pops. A frame holds the locals that are
used after a flash operation. **Each step contains at most one flash program or
erase**, with all the RAM changes up to the next one, so `PowerCut` (enabled in
every state, until the bound) separates any two flash operations exactly as on the
device. Nothing else can interleave, which is what a single-threaded caller means.

| Code | Actions |
|---|---|
| `embedded_flash_init` | `InitClassify`, `InitDone` |
| `_init_all_sector_attr` | `FormatErase`, `FormatRole`, `FormatMagic` |
| `_load_kv_record`, `_iteration` | `LoadSector` |
| `_init_all_kv_record` | `Defaults`, `DefaultsCommit` |
| `_write_kv_record`, `_write_kv_record_to_sector` | `Put`, `WriteRecord`, `WriteSectorStatus` |
| `_migrate_sector_data` | `MigrateEnter`, `Migrate`, `MigratePreDelete`, `MigrateCommit`, `MigrateDeleted` |
| `_rebuild_sector` | `RebuildStart`, `RebuildRound`, `RebuildErase`, `RebuildMagic`, `RebuildRole` |
| `embedded_flash_gc` | `Collect` (the client calls it), `GcStart` ... `GcData` |
| `embedded_flash_set`, `_get`, `_delete` | `Set` with `SetPreDelete`, `SetCommit`, `SetDeleted`; `Get`; `Delete` |
| reset | `PowerCut` |

Details that matter and are kept: the strict scan bound, which leaves the last
slot of a sector unread; the status decoder that starts one word too high, so a
sector that was GC reads as status 3; attributes in RAM that keep their old value
when a header is invalid; the rebuild loop that both moves its start index and
adds the round number to it; the recovery result that `embedded_flash_gc` ignores;
a delete of a key without record that ends in an endless assertion; a program of a
slot that is not erased, which stores nothing and reports success.

### How `FlashPort` corresponds to the code

One action per half-word program (`ProgramLow`, `ProgramHigh`), per verification,
per page erase, plus the controller's errors (`ProgramFault`, `EraseFault`) and
`PowerCut`. `before` is a history variable: the flash when the call began. The
build defines `STM32F10X_HD`, so the `#else` branches of the driver apply: one
bank.

### How `SeggerRtt` corresponds to the code

`call[c]` is the call in progress in context `c` ("main" or "isr") with its program
counter; "isr" starts a call at any point of "main" that is not under the lock and
ends it before "main" moves. A step contains at most one access to `RdOff` or `WrOff`
that the probe could notice:

| Code | Actions |
|---|---|
| `INIT()`, `_DoInit` | `Start` (the test), `DoInit`, `DoInitIdent` |
| `SEGGER_RTT_WriteNoLock` (`Write`, `WriteString`, `printf`'s `_StoreChar`) | `EnterWrite` |
| `WriteSkipNoLock`, `PutChar`, `SetTerminal`, `TerminalOut` | `EnterSkip`, `EnterPutChar` and `SpinPutChar`, `EnterSetTerminal`, `EnterTerminalOut` |
| `_WriteBlocking` | `BlockingChunk`, `Copy`, `Publish`, once per chunk |
| `_WriteNoCheck` | `Copy`, `Publish` |
| `SetFlagsUpBuffer` | `SetFlags` |
| the probe (`ReadUpBufferNoLock`) | `HostLook`, `HostTake` |

A byte is text for a terminal, numbered so that a lost or doubled one shows, or one
half of the pair that switches terminals. `pending` (accepted, not yet taken) and
`shown` (the terminal the host is on) are history. Details kept: initialisation
tests outside the lock. The lock raises BASEPRI to SEGGER_RTT_MAX_INTERRUPT_PRIORITY
(`Config/SEGGER_RTT_Conf.h:145`); interrupts more urgent than that, which it does not
mask, are taken as not using RTT (the rule that file states).
`TerminalOut` uses the blocking write in every mode after reserving its room, and a
string longer than its room is cut in trim mode.

### How `SystemView` corresponds to the code

`todo[c]` is the work context `c` ("main" or "isr") has left. A step replaces the head
of it by the steps it consists of, so that a handler that runs inside a packet
inside a Start stands in front of the rest of that Start, as on the C stack.
`unlock` in `todo[c]` means that `c` holds the lock; "isr" begins only outside it and
ends before "main" moves.

| Code | Actions |
|---|---|
| `Record*`, `On*`, `Print`, `Name*`, `SendTaskInfo` (two packets) | `Record`, `SendAgain`, `Unlock` |
| `_SendPacket` | `Dispatch`, then `TrySendOverflow`, `StorePacket`, `Poll`, `Claim`, `Look` and `Take`, `Release` |
| `_TrySendOverflowPacket` | `TrySendOverflow` |
| `_HandleIncomingPacket`, over `SEGGER_RTT_ReadNoLock` | `Look` (offsets and byte), `Take` (new `RdOff`) with `Handle`, `SendModule` |
| `SEGGER_SYSVIEW_Start` | `Start`: `Enable`, `Sync`, the start event, the system's description |
| `SEGGER_SYSVIEW_Stop` | `Stop`, `SwitchOff` |
| `IsStarted` | `Poll` without `unlock` |
| `EnableEvents`, `DisableEvents`; `RegisterModule` | `MaskEvents`; `RegisterModule` |
| the host | `HostRead`, `HostSend` |

`LastTxTimeStamp`'s counterpart on the other side is the history `seen`: the clock that
the host keeps by adding up differences, and the time that the last packet really
has. `gap` says that events were dropped since the last packet stored ("open"), or that
besides the start event of a Start since then was disabled ("muted"); `asked` which of
Start and Stop came last, or that it is a Start inside a Stop ("undone"); `inbox` what
the host has sent. Events are of five kinds, of which a module's own, whose ids begin at 32,
cannot be disabled; `Mask` lists the sets of the others that `MaskEvents` chooses from.

### How `FlashDBKV` and `FlashDBTS` correspond to the code

Their calls hold `db_lock`, so nothing interleaves with them but the loss of power.
A call is therefore a *function* of the database record `d` (RAM and flash), one
operator per C function, in the same order; every program or erase operation
appends the flash it leaves to `d.log`. An action then chooses: the call completes
(`Complete`), or power fails in it (`CutShort`), and the flash is any member of the
log while RAM is what a reset leaves. This has the same behaviours as a step per
flash operation, in far fewer states. C loops over sectors are folds or recursive
operators; `With(x, LAMBDA y : ...)` names a result used several times, as a C
local would.

| Code, `fdb_kvdb.c` | Operators |
|---|---|
| `read_kv`, `get_next_kv_addr`, `read_sector_info`, `find_kv`(`_no_cache`) | `ReadKv`, `NextKv`, `SectorInfo` with `Measure`, `FindKv`, `FindFrom` |
| `format_sector`, `update_sec_status`, `alloc_kv`, `del_kv`, `move_kv` | `Format`, `UseSector`, `Alloc`, `DelKv`, `MoveKv` |
| `gc_collect_by_free_size`, `do_gc` | `GcCollect`, `Collect`, `Evacuate` |
| `new_kv`, `create_kv_blob`, `set_kv`, `fdb_kv_del`, `fdb_kv_set_default` | `NewKv`, `CreateKv`, `SetKv`, `RemoveKv`, `SetDefault` |
| `fdb_kvdb_init`, `_fdb_kv_load` and its callbacks | `Load`, `FindOldest`, `RepairHeaders`, `ResumeGc`, `RecoverFrom`, `RecoverKvs` |

| Code, `fdb_tsdb.c` | Operators |
|---|---|
| `read_tsl`, `read_sector_info`, `format_sector` | `ReadTsl`, `ReadSector` with `Traverse`, `Format` |
| `update_sec_status`, `write_tsl`, `tsl_append`, `fdb_tsl_set_status`, `tsl_format_all` | `MakeRoom` (`CloseSector`, `SwitchSector`, `OpenSector`), `WriteTsl`, `TslAppend`, `TslSetStatus`, `FormatAll` |
| `fdb_tsl_iter`, `_reverse`, `_by_time`, `search_start_tsl_addr` | `Iter`, `IterReverse`, `IterByTime` with `InRange`, `SearchStart` |
| `fdb_tsdb_init`, `check_sec_hdr_cb` | `Load`, `CheckHeaders`, `CheckHeader` |

Two history variables carry the correctness statements. `view` (`log` in the time
series) is what a client can read now or, when power is off, after the next
start-up; the abstract specifications are about it. `misled` records that power was
lost in the situation that finding `fdb_kv_cut` is about; in the time series, that it was lost while a
sector was being closed, opened or erased, or that the program restarted with every sector
full (`fdb_ts_full`). Everything *else* can so still be checked.

## 3. Runs

Sizes of EmbeddedFlash runs are sectors / slots / keys / power cuts. A slot count of
3 stands for 63: 2 that a scan sees and the last that it does not.

### Passing

| Run | Instance | Checks | Shows |
|---|---|---|---|
| `api` | `Spec` 3/3/1/2; 1 043 332 states | `TypeOK`, `AtMostOneLive`, `WritesHitErasedSlots`, `StaysNormal`, `IndexMatchesSeen`, `NeverEraseLive`, `ImplementsKVStore` | under every sequence of API calls and two cuts anywhere a key never has two live records, writes go to erased slots, no live record is erased, the RAM index is exact, no old value comes back |
| `two_keys` | `KeepSpec` 3/4/2/1; 695 208 states | `IndexMatchesFlash`, `RecoveryNotReentered`, `NeverFails`, `CallsReturn`, `NeverEraseSeen`, `ImplementsKVStore` | with two keys competing for sectors the RAM index is exact between calls, no live record that a scan sees is erased, recovery does not nest, nothing fails or runs for ever, and a key never disturbs the other |
| `flash_port` | 2 words, 2 pages, 3 contents, 1 fault | `TypeOK`, `FreshWriteStores`, `FreshWriteIsPrefix`, `RewriteSucceeds` | what a write of erased flash leaves at each moment, after each error |
| `rtt` | ring of 6, strings of 1-2 bytes, 2 terminals; interrupts write, switch the terminal and write to another one; 2 801 039 states | `TypeOK`, `HostSeesStream`, `RightTerminal`, `CopyFits`, `NonBlocking`, `WaitsOnlyForHost` | every call of the main program in every mode against interrupts and a probe that may look and take at any time; whichever of two contexts switches terminals between the other's calls, each text appears where it belongs |
| `fdb_kv` | 3 sectors of 4 units, 2 keys, 2 values, 1 cut; 32 941 states | `StartUpEnds`, `CacheIsExact`, `SpareSector`, `OneLive`, `IsAtomicMapUnlessAstray` | the database refines an atomic map unless a start-up begins at the wrong sector; caches are exact; collection always has a spare sector |
| `fdb_ts` | 3 sectors of 4 units, times 1-4, payloads of 1-2 units, 1 cut; 95 387 states | `PayloadIntact`, `OneSectorInUse`, `QueryIsExactUnlessTight`, `ReverseIsReverse`, `IsTimeLogUnlessMisled` | the log keeps its order and drops only its oldest entries, unless a cut hits a sector switch or a full database is restarted; iterations agree, but that a query backwards through a sector without a unit left may stop early |
| `sysview` | up-buffer of 2 packets, down-buffer of 3 bytes, START, STOP and GET_MODULE, 1 module, timestamps modulo 2, all events enabled or all that can be disabled; 2 489 040 states | `TypeOK`, `HostClockRight`, `GapsMarkedUnlessMuted`, `CommandsOnce`, `RecursesOnce`, `LastRequestWinsUnlessUndone` | recording from main program and interrupts, with starts, stops, commands and dropped packets in every order, and events disabled at any time, the start event included |

Each property has a mutant, a plausible bug next to the definition it changes
(marked `\* mutant`, or introduced by "As if ..."), under which the same run reports
a violation of it.

### Violations

Each shows, on a behaviour of the code, that a sentence of the repository does not
hold.

| Run | Claim | What happens |
|---|---|---|
| `start_up` | recovery is safe against power cuts (file header of `EmbeddedFlash.c`) | one key, a cut between pre-delete and commit: the next start-up never ends; a further reset, which scans the emptied sectors again, gets out of it |
| `last_slot` | the same | two cuts and two keys: a rebuild moves a record to the last slot of a sector, which no scan reads, and the next round erases it |
| `fdb_kv_cut` | "Power-off protection" (FlashDB's README) | start-up looks for the oldest sector in a cache that it clears only afterwards and that a reset has zeroed, so it always finds sector 0; collection and recovery then begin at the wrong end, and a set cut short loses or restores a value |
| `fdb_kv_hang` | the same | a cut set of a key whose record takes two units: start-up asks for a collection, which finds no dirty sector, and tries again for ever |
| `fdb_ts_full` | after start-up `cur_sec` "is the latest sector" (`fdb_tsdb.c:972`) | no cut: rollover is switched off, the database fills up and the program restarts. Start-up has just set rollover (`:943`) when it asks whether it is off (`:965`), so the branch meant for this case (`:967-969`) is dead; there is no current sector and the log is gone |

In the liveness counterexample `start_up` the fairness below is assumed and every
step of the lasso is a step of the running call.

### Observations without a run

Found while modelling or by earlier or wider instances; each can be seen by
reading the line.

EmbeddedFlash
- `EmbeddedFlash.c:1612`: the old record is pre-deleted *before* the new one is
  committed, so for one step no record of the key is in force, where the comments at
  `:1565` and `:1596` promise one; a cut there is the situation of `start_up`.
- `:1173`, `:1184`: the rounds of a rebuild skip sectors and visit others twice, and it can end
  without exactly one GC sector, its purpose at `:1153`.
- `:1260`: with two sectors, which `EmbeddedFlash_config.h:38` allows, collection,
  recovery and writing of defaults call each other without bound.
- `:1762`: a delete of a key without record ends in `EFLASH_ASSERT(0)`. `:1768`: after a delete the
  key counts as default while RAM still holds the deleted value.
- A sector that was ever GC reads as status 3, so `_find_writable_data_sector` passes
  it over while it is empty. Theorem `GcRoleReadsAsStatus` is the cause, `start_up`
  the consequence.
- `EmbeddedFlash_port.c`: PGERR is taken for "duplicate data" without comparing, so a
  write over other data reports EF_OK and stores nothing; `WritesHitErasedSlots`
  shows that the engine does not do that.

SEGGER RTT
- `SEGGER_RTT.c:310`: INIT tests outside the lock. An interrupt that makes the very first call
  between the main program's test and its `_DoInit` has its bytes discarded, where the note
  at `:307` speaks of "INIT() to avoid overriding settings". With `EarlyIsr = TRUE` the `rtt` run
  violates `HostSeesStream` in nine states; with FALSE the main program makes the first call.
- `SEGGER_RTT.c:2099`: when the data wraps (RdOff > WrOff) `GetBytesInBuffer` subtracts
  WrOff - RdOff, so its result exceeds the buffer's size. Nothing in the tree calls it.
- `SEGGER_RTT_printf.c:459`: `_StoreChar` (`:118`) has counted the characters still in the
  buffer, and the final flush counts them again, whether or not it stored them. A text longer than its buffer is several writes,
  between which an interrupt may write.

SystemView
- `SEGGER_SYSVIEW.c:865`: the packet that finds the buffer full is not counted; `DropCount`
  grows only when an overflow packet cannot be stored either (`:634`). The overflow
  packet after a single lost packet reports no loss, where `:592-593` promises "the
  number of dropped packets".
- `:1891`: Stop sends its stop event before it switches recording off; a START of the
  host that this `_SendPacket` handles is undone with it: the last request was to
  record, and nothing is recorded. `LastRequestWinsUnlessUndone` names this case and says that there is no other.
- `:751`: Start ends the dropping (`:1834`) and relies on its sync sequence, skipped if the buffer
  is full, and its start event, skipped if it is disabled (`SEGGER_SYSVIEW.h:150`). In that case the
  next packet is stored and nothing tells the host of the gap, where `:700-701` promises
  overflow packets "when necessary". `GapsMarkedUnlessMuted` names this case and says that there is no other.
- `:570`: if the parameter of GET_MODULE has not arrived when its id is read, it is
  later taken for a command. The model sends both together.
- `:1838-1841`: the sync sequence of a START, and its first packets, are skipped when the
  buffer is full.
- `:621-623`: with fewer than 32 timestamp bits, which is not configured, the overflow
  packet's difference would be sign-extended.
- `:2837-2845`: `RecordModuleDescription` dereferences a null pointer when no module is
  registered; in the model, as intended, only a module's callback calls it.
- A pause of more than 2^32 cycles between two packets loses a multiple of it.

FlashDB key-value
- A sector's status never becomes FULL: `alloc_kv` only gives out a sector that keeps
  more than the threshold. `do_gc` formats a sector even if a record could not be
  moved out of it (`fdb_kvdb.c:1126-1133`); `SpareSector` is why that does not happen.
- A first format that is cut short leaves some good headers, so the default values are never
  written (`:1667`).
- Recovery stops at the first PRE_WRITE record and leaves the rest to the next
  start-up (`:1637`).
- With two cuts, or one cut and records of two sizes, `IsAtomicMapUnlessAstray` fails even with
  the search for the oldest sector put right; without cuts records of two sizes
  satisfy everything (77 336 states).

FlashDB time series
- Two cuts in the closing of the same sector leave both end slots half written, which
  is an assertion at every start-up (`fdb_tsdb.c:229`).
- `last_time` may be taken from an uninitialised variable (`:927`, `:988`); `Garbage`
  stands for what it held.
- `:599`: when two entries fill a sector to its last unit, a query backwards from a time behind them
  takes payload for an entry. Unless all its status bits are 1 it reads as written, its time is out
  of range, and the query ends (`:685`) without delivering anything, with no cut involved.
  `QueryIsExactUnlessTight` names this case (`Tight`), says that there is no other and that what is delivered
  even then is the beginning of what should be.
- `:346`: a sector is marked FULL before the next one is erased and labelled (`:359-366`). A cut in between
  leaves all sectors FULL, and start-up finds no current one, or leaves a sector without header,
  for which it formats the database: either way the log is gone. With `MaxCuts = 1` `IsTimeLog`
  fails in six states; `misled` has these cuts.
- An entry torn by a cut has time 0 and ends every query by time that reaches it
  (`:685`). `max_len` is only asserted (`:947`).
- `fdb_tsl_set_status` takes no lock (`:744`) and iterations read `oldest_addr` before
  they take it (`:498`): harmless with a single caller.

### Clients

`Spec` of EmbeddedFlash offers the whole API. Two weaker clients exist because some
promises hold only for them:

- `KeepSpec`: reads and writes only. After a *delete* the old value is still in RAM
  and a recovery of the same session writes it back; a delete of an absent key hangs.
- `CarefulSpec`: also deletes of keys that have a record, and forced collections.

The promises have limits of capacity, found by widening the runs:

- If a client forces collections while each sector is full of live records (4/3/2)
  and power fails in one, a rebuild can run out of room: `NeverFails` and
  `NeverEraseLive` do not hold there.
- With two keys of the three that a scan sees, one power cut is harmless but a
  second one in the recovery is not: run `last_slot`. This is why `api` has one key. On the device
  the corresponding limit for two cuts is about half a sector of keys: the dead
  records of one interrupted rebuild and the live ones of the next share a sector.
- `CallsReturn` needs at least two keys after a power cut (run `start_up`), and fewer
  keys than a scan sees in a sector.

### Bounds, and why they are enough

- *EmbeddedFlash sectors.* 3 is the least with which nothing nests without bound;
  `api` also passes at 4/3/1/2 and `two_keys`' safety at 4/3/2/1, with the
  configuration's 4 sectors; `start_up` uses 4.
- *Slots.* 3 makes each second or third write collect garbage, so that each path of
  `Put` and of the collection is taken from each shape of the ring; 4 leaves a key
  less than a scan sees.
- *Keys and values.* Two keys let records of different keys compete for a sector and
  be half moved; keys interact in no other way. Two values distinguish the current
  value from an older one that must not come back.
- *Power cuts.* One cut reaches each intermediate state of each call; the second
  falls in the recovery from the first, at each of its steps, or in later calls. It
  is the only artificial bound of the EmbeddedFlash and FlashDB models but for
  `MaxTime`.
- *Port.* Two words are enough for a call that crosses a page and one that does not;
  `Half` has the two special contents 0xFFFF and 0x0000 and one other.
- *RTT.* A ring of 6 holds a whole `TerminalOut` (two pairs and one byte) and no more, so each
  call meets each amount of room, exact fits included, before and across the wrap; strings of 2
  with a `printf` buffer of 1 make writes of several pieces. `Serials` 2 tells neighbours apart.
  Interrupts make the calls that differ in what they do to the stream: a write, a switch of the
  terminal, and three segments in one call. The proofs remove these bounds.
- *SystemView.* Two packets fill the up-buffer, and the host may empty it at any time, so
  that every packet meets a full and a free buffer. The down-buffer of 3 holds one
  command with a parameter or two without, read across the wrap. START and STOP are the
  commands that change state; GET_MODULE has a parameter and a module to describe. The
  other commands only send packets, like GET_MODULE's answer. With every
  event disabled, then none, each packet and in particular each start event is met in both cases; the
  proofs are for all masks.
- *FlashDB.* Three sectors are one current, one spare and one to collect. Four units let
  a sector hold a live, a dead and a torn record or two entries of the log. Times 1-4
  are two sectors of entries, a rollover, and times between and outside them. `ZeroPayload` says
  what a payload reads as where an index entry is expected: bytes that are not all 0xFF read as a
  written entry (TRUE, in all runs), for a status is taken from single bits; only a payload
  of 0xFF reads as no entry.

`SYMMETRY` in `fdb_kv` is sound because keys and values occur only in comparisons
(with `Factory` empty and no value in `Big`) and the run has no liveness property.
`VIEW Memory` in the FlashDB runs leaves out `call`, which no action reads: the
states it identifies have the same successors. No *invariant* reads `call`, and each
step's `call'` is evaluated before the view applies. The `VIEW` of `rtt` leaves out
what a call that is copying has no more use for (its kind, terminal and length, once its
segments are decided), and keeps of the probe's copy of `WrOff` only the bytes that it is
about to take, which is all that is ever read of either. The `VIEW` of `sysview` leaves
out the cells of the down-buffer that hold bytes already consumed: `Look` reads only the
cell at `RdOff` of a buffer that is not empty, and `HostSend` overwrites the others first.
It has times as distances from `now`; the model uses only differences of times, modulo
`TimeMod`.

### Deadlock

It is checked except in `api`, `rtt` and the FlashDB runs. In `api` the client may
delete an absent key, after which the firmware loops in the assertion. In RTT a writer
in blocking mode waits while the interrupts are masked, for a probe that need not
come. FlashDB may end in the state "hung" or "lost". In SystemView time can always pass.

### Fairness

`WF_vars(Step)` in `EmbeddedFlash` only: the processor goes on executing the call in
progress, which is what a single-threaded main loop gives. Nothing is assumed of
clients, of power or of the probe: what RTT promises about waiting is therefore the
safety property `WaitsOnlyForHost` (a waiting writer always finds room if the ring is
empty), not that the probe comes.

## 4. Proofs

Proved with TLAPS for *every* value of the constants that the assumptions of the
modules allow (`SizeAssumption`, `PortAssumption`, `RttSizeAssumption`,
`SystemViewAssumption`, `MaskAssumption`; all evaluated by TLC in the runs).

- `EmbeddedFlash_proofs!TypeCorrect`: `Spec => []TypeOK`. All addresses, statuses,
  roles and frames stay in range; in particular `free_space` never goes below zero.
- `EmbeddedFlash_proofs!RoomForEveryWrite`: `Spec => []Room`. Whenever a record is
  about to be programmed, by a set, a default or a migration, during any recovery,
  the sector has a slot left. With it `TypeCorrect` is inductive, and neither is
  without the other: `used + 1` is a slot only because the tests at the entry of
  `Put` and of `Migrate` still hold when the write takes place. The strengthening
  (`TInv`) adds that only the *running* function can be about to write, so every
  frame beneath it is quiet. There is one lemma per action.
- `EmbeddedFlash_index_proofs!WritesInOrder`: a record is programmed into an erased
  slot (`WritesHitErasedSlots`) unless it is the last slot of its sector;
  `IndexPointsHome`: between calls an address in the RAM index is that of a live
  record of its key.
- `EmbeddedFlash_index_proofs!NothingSeenErased`: `Spec => NeverEraseSeen`. No
  collection, rebuild or formatting erases a live record that a scan can see.
- `EmbeddedFlash_live_proofs!OneLiveSeen`: a key never has two live records that a
  scan can see; `IndexExact`: `IndexMatchesSeen`, between calls the RAM index has
  the address and the value of the one that it has. Both for behaviours in which
  recovery is not entered from within itself.

- `EmbeddedFlash_uncut_proofs`: what is true of *all* slots as long as the power has
  never failed, under every sequence of calls: `OneGcSector` (`StaysNormal`),
  `RecoveredOnce` (`RecoveryNotReentered`), `UncutWrites` (`WritesHitErasedSlots`),
  `UncutOneLive` (`AtMostOneLive`), `UncutIndex` (`IndexMatchesFlash`), `UncutErasures`
  (`NeverEraseLive`), and for clients that do not delete `UncutNoFailure` (`NeverFails`).
- `EmbeddedFlashKV_proofs!Refinement`: the engine implements `KVStore`
  (`ImplementsKVStore`) under every sequence of calls and with power cuts anywhere, if
  recovery is not entered from within itself and the last slot of each sector stays
  erased (`LastSlotsFree`); `UncutRefinement`: it does so outright as long as the power
  has never failed.

Why of the slots that a *scan* sees (`Seen`): no scan reads the last slot, but a
migration after a power cut may fill it. Of that slot nothing of the above is true (run
`last_slot`); of every other slot it is true for any number of sectors, slots, keys
and power cuts; and without a power cut no record ever gets there.

The argument for the engine has seven invariants, each on top of the ones before.

1. `IInv` (index): `Chain` says which function may run above which, and which locals
   of the two agree; the C code has this from its text, the model must prove it.
   `Order`: in each sector whatever is not erased comes first, and the RAM write position is
   just behind it, for every sector that the current start-up has scanned
   (`Known`). `Index`: an address in RAM is that of a record of its key, live unless
   it is being replaced (`Moving`). `Stage`: what the running function found earlier
   and uses now, such as that a migration has left no live record behind it
   (`Cleared`) or that a new record lies ahead of it (`Beyond`; source and
   target of a migration may be one sector). Order needs `Stage` (a sector is
   erased only after its migration), `Stage` needs `Chain` (the frame that waits is
   the one that called), and `Index` both.
2. `Headers` (index): erasing at start-up is decided by magic words, so no live record
   may be seen while no header has one (`Blank`). A header loses its magic word when
   its sector is erased, hence whenever one is about to be erased another must be
   there (`Spare`). That holds because there are two (`Two`), except early in a
   recovery (`Early`), where the sector that records move to is another one, and in the
   middle of an erasure (`Halfway`).
3. `UInv` (live): `Single`, one live record per key, needs `Complete`: the RAM index knows
   every live record of the sectors scanned so far, for a set kills the old record
   where the index says it is. `Pending`: a key whose default is being written has no live
   record; this must hold of *every* such write on the call stack, since a
   recovery may run in the middle of one. When two of them are for one key the first commit
   makes the second a duplicate: that is the hypothesis `[]RecoveryNotReentered`. It is not
   vacuous, for `two_keys` checks it, and not superfluous: with 5 sectors of 2 slots
   and 3 keys it fails.
4. `VInv` (live): the value in RAM is that of the record (`Values`), which needs what a write
   in progress carries (`Carried`) and that a default being written, by whichever call
   on the stack, is still the value in RAM (`Defaulted`).
5. `NInv` (uncut): `Layout` says which sector has which role at each step of a formatting
   or a collection (`Format`, `Swap`) and that otherwise one GC sector is empty and the
   others hold data (`Steady`). So `IsNormal` is true when a collection asks, and no
   recovery begins; `Ladder` has this as an order: each function on the call stack has a
   higher `Rank` than its caller, and the functions of a recovery have none to have.
   `Fits`: a migration starts with an empty target and has never written more records
   than it has read, and a scan reads all slots but the last; so the last slots stay
   erased (`Spacious`) and every address is one that a scan sees (`Within`, `Handed`).
   With that, what 1 to 4 say of `Seen` is said of everything, and the hypothesis of 3
   is a theorem (`NotReentered`), since with no recovery on the stack one default at a
   time is written. `Layout` needs `Spacious`, because the collected sector is erased as
   a whole, and `Spacious` needs `Layout`, because the target must be empty.
6. `LInv` (uncut): the keys before the default being written are stored already
   (`Loaded`), so once a start-up is over every get and set finds its record.
7. `BInv` (refinement): `Placed`, every address in the RAM index, and the one that a write
   hands back, is one that scans see, and `Based`, which functions are called by the client and which
   on behalf of a running call, so that a return is the end of a call exactly where
   `KVStore` lets one end. `Exact` follows from 3 and 4: while no record is being
   replaced, the durable value of a key is its value in RAM.

The proof of `Refinement` has one lemma per action. `SetPreDelete` and `MigratePreDelete`
are `Withdraw`; `SetCommit`, `MigrateCommit` and `DefaultsCommit` are `Commit`, of the value
asked for, of the value withdrawn, and of the one in RAM; `LoadSector` is `Learn`; the last
step of a call or a start-up is `Finish`, an error return `GiveUp`; everything else,
all of formatting, rebuilding and collection included, changes nothing that `KVStore`
sees. Rebuilding and collection are hidden because a sector is erased only when
1 and 2 say that no live record is left in it.

Both hypotheses of `Refinement` restrict the behaviours after a power cut, and behaviours
with power cuts satisfy them: both hold in every state of the runs `api` (two cuts) and
`two_keys` (one cut). Neither is true of every geometry: in `last_slot` a value
reaches a last slot and is lost, and with 5 sectors of 2 slots and 3 keys recovery is
entered from within itself. `UncutRefinement` needs neither, by 5.

- `EmbeddedFlash_proofs!StatusNeverGoesBack`: clearing the word of any status never
  makes a table read lower than before. `GcRoleReadsAsStatus`: once a header's GC
  role word is cleared, its status reads as 3 whatever its status words are; this is
  the root of the `start_up` run, for all contents.
- `FlashPort_proofs!TypeCorrect`, `WritesArePrefixes`, `WritesStore`,
  `RewritesSucceed`: the four invariants of the run for every flash size, data and
  number of faults. The inductive invariant `WInv` says, relative to `before`, what
  the words behind, at and ahead of the write position hold for each `pc`; `RInv`
  that a write of what is already there has neither changed nor refused anything.
- `SeggerRtt_proofs!TypeCorrect`, and for a system in which the main program makes
  the first call (`~EarlyIsr`): `StreamIsSeen`, `WritersFit`, `NeverWaits`,
  `TerminalsRight`, which are `HostSeesStream`, `CopyFits`, `NonBlocking` and
  `RightTerminal` for a ring of any size, strings of any length, any number of terminals
  and any interleaving, terminal calls in interrupts included.

The argument for the ring: `QueueInv` is the types and `Queue`, which says that
whoever is under the lock is alone (`Alone`); that until initialisation is over
nobody else has begun and the ring is empty (`Booted`); that what the probe has seen
is still there (`Reader`: its copy of `RdOff` is exact and its copy of `WrOff` not
ahead); that a copy fits although `RdOff` was read earlier (`CopyFits`); that it is
complete before it is published (`Copied`); and that the bytes from `RdOff` to
`WrOff` are the accepted ones (`Fifo`). None of them is inductive without the others:
`Copy` keeps `Fifo` because it fits, `Publish` because it is `Copied`, the probe's step
because of `Reader`. The arithmetic is in lemmas about `Wrap`, `Distance` and `Avail`
(`FreeApart`: free places and occupied ones are different; `WriterMoves`,
`ReaderMoves`). `NeverWaits` adds `Served`: outside blocking mode the bytes that a call has *still*
to store in its up to three segments fit, which each publication preserves because
it takes as much from the one as from the other. `TerminalsRight` adds `Guided`: what
has been accepted, followed by all that the call under the lock has still to store
(`Flat`), is shown where it belongs and leaves the host on `_ActiveTerminal`.
`RightTerminal` alone is not inductive: it says nothing of the segments that
`TerminalOut` has yet to store, which must bring the host back, nor of the terminal
that the next call relies on. A publication moves bytes from the one part to the other,
the probe takes a beginning and follows it, and a call that drops its bytes has not
touched `_ActiveTerminal`; `ShownConcat` and `RightConcat` say that being shown right is
a property of the parts and of what joins them. `~EarlyIsr` is a hypothesis of these
theorems because with an earlier interrupt initialisation discards accepted bytes (section 3).

- `SystemView_proofs!TypeCorrect`, `ClockRight`, `RecursionBounded`, `LossesShow`,
  `RequestsCount`, `BytesConsumedOnce`: all six properties of the `sysview` run,
  for buffers and packets of any size, any commands, any masks and any number of modules.

The argument for the recorder: the work left in a context is a sequence of any
length, since commands are handled inside packets and send packets themselves. `TInv`
says what such a sequence looks like (`Shape`): a packet, a claim or a byte being taken
stands in front only, and what is under the lock has its unlock behind it, what is
read has the reset of the counter behind it, and part of a Start has the start event
behind it. Replacing the head keeps this if the new steps fit (`Joins`), so each
action needs a lemma about its own steps only. `Order` adds that whoever holds the
lock is alone and that a packet is stored only in the `EnableState` for which it was
dispatched; `Busy` that `RecursionCnt` is exact, although it is tested and set in
different steps and, in `IsStarted`, outside the lock. `Shape` carries `Busy`: a
release is the only one in its context. On top of `TInv` come four
small invariants: `Clock` (the host's sum is `LastTxTimeStamp`), `Marked` (a loss
not yet shown leaves the recorder off, dropping, restarting, or restarted with the start
event disabled), `Request` (a switch-off
still ahead belongs to a Stop, and no other context runs while it is) and `Commands` (a
byte being taken is the first unread one; two contexts cannot both take). The
arithmetic of the down-buffer is in `UnreadTail` and `UnreadMore`.

Only model-checked: the engine's properties of last slots and `RecoveryNotReentered`
*after* a power cut (they are false in general; the runs show for which geometries they
hold), `NeverFails` after a power cut,
that the engine implements `KVStore` after a power cut without the two hypotheses above,
`WaitsOnlyForHost` (it contains ENABLED), all of FlashDB, its two
refinements included (its operators are recursive, which is outside the prover's reach),
and all liveness.

## 5. The abstract specifications

- `KVStore` has one durable value per key. A set withdraws the old value and commits
  the new one; a collection or a start-up withdraws and re-commits the same one, and only
  one that RAM holds, so that a start-up has to learn a value before it moves it (`Withdraw`); a return requires
  that the client's copy of every key is its durable value (`Settled`); a call that fails
  is seen to fail (`reply`) and leaves what the client reads; a power cut forgets RAM only. What it
  *excludes*: an older value coming back, a value that nobody asked for, a call
  returning before its value is durable, a value lost without a power cut in its
  gap. `EmbeddedFlashKV` maps `db` to the value of the live record of each key (`Durable`),
  `want` to the frame at the bottom of the stack (`Asked`) and `reply` to what the last
  call returned. Run by TLC and proved (section 4).
- `AtomicMap` is stricter, because FlashDB claims more: a call that returns "ok" has taken
  effect, a call cut short has or has not, and nothing else changes the map. The
  mapping is `map <- view`. A start-up, an iteration or a collection must be invisible.
- `TimeLog` is a sequence of entries in the order of their times. An append adds one
  at the end and may drop the oldest, at most what a sector holds. The mapping is the
  history `log`.

## 6. Abstractions

EmbeddedFlash and port
- A page erase is atomic, and so is a status word: its high half-word stays 0xFFFF,
  so only one half-word is programmed. A page erase interrupted by a cut leaves
  undefined contents; the model does not have it (a hazard without a property).
- A record interrupted by a cut is `Torn`: not erased, not valid. This assumes that
  the CRC detects it; `FreshWriteIsPrefix` shows that it is a prefix.
- A torn magic word is not a magic word, which the model has as "not programmed".
- The engine's flash returns no errors other than the skipped PGERR. Controller
  errors are in `FlashPort`.
- Reads never fail; arguments out of range and writes of size 0 are left out of
  `FlashPort`, for both calls return before touching the controller.
- Data type and length belong to `Value`; a get that finds another value takes it.
- `init_failed` and `hung` are left only by a power cut.

SystemView
- The up-buffer is a FIFO in which a packet is stored whole or not at all, and a number
  of bytes is all that is kept of it: that the bytes arrive in order is what
  `HostSeesStream` says of RTT (proved for every size).
- Packets have any of the sizes `PacketBytes`; what is encoded in them is left out, but
  for the time difference. `DropCount` and the modules' event offsets are such data.
- An event mask disables kinds of events: start, stop, what describes the system, and
  all others of SystemView; ids of one kind are disabled together. Ids from 32 on cannot
  be masked in the code.
- The event mask is changed by the main program, between its other calls.
- One task and one description string; one level of interrupts, as for RTT.
- `SEGGER_SYSVIEW_Init` has run: the run begins with the state it leaves.

RTT
- The interrupt context is one level; nested interrupts that use RTT exclude each
  other through the lock as main and interrupt do.
- A copy is one step: nobody else writes there (`Copied`, `FreeApart`), and the probe
  reads only what is published. The bytes that the probe has acknowledged are
  overwritten with `Stale`, so that a second reading would show.
- `_WriteBlocking`'s round without room stores the same `WrOff` again and is no step.
- How a host follows terminals (`ShownAfter`) is external code, modelled from the
  pairs that `SetTerminal` and `TerminalOut` send.

FlashDB
- Sizes are units: a record header in `FlashDBKV`, an index entry in `FlashDBTS`.
  Values are atoms with a size of one or two units; payloads are one or two units.
- A status word, a magic word, a length, and a name with its value are one operation each; a record can
  be cut between any two. An erase is atomic; an erase of a sector of several
  blocks is taken as one.
- A value that ends in 0xFF bytes, which the end of a sector is mistaken for, has no
  counterpart (a hazard without a property). `get_kv_from_cache` compares the name
  over the length of the name asked for (`fdb_kvdb.c:258`); names are atoms here.
- What was programmed twice without an erase is `Mixed`, neither value.
- Addresses of the time series are unsigned: `FDB_DATA_UNUSED` plus a sector size
  wraps round (`AddrMod`).
- Factory values are a parameter; the runs have none, so `Reset` empties the map.

## 7. Hazards

`PROJECT.json` lists them with their lines. Those without a property are: a page
erase cut short; a header status that cannot be written after the record was; a
delete that hangs; the RAM value that survives a delete; the read-back that compares
as many bytes as RAM believes in; a value that ends in 0xFF; the assertion after two
cuts in the closing of the same log sector; the initialisation of RTT that an interrupt
overtakes, which is known to go wrong (section 3); and, of SystemView, the dropped packet
that is not counted and the parameter that arrives late. Each has a note that says why.

## 8. Plan

Done: EmbeddedFlash with its port and abstract store, RTT and SystemView, both FlashDB databases with
their abstract specifications; proofs of the engine's safety invariants and of its refinement of `KVStore`, of the port,
of the ring and of the recorder.

Next, modelling:

1. Flash errors in the engine (a status write that fails after the record is
   written, a failed erase), with the error paths of every caller.
2. Interrupted page erases, as a choice among contents.
3. Lengths of values in EmbeddedFlash: the read-back comparison by RAM length.
4. `WriteWithOverwriteNoLock` of RTT.

Next, proofs:

1. `Refinement` from conditions on the geometry, number of keys and of power cuts in
   place of its two hypotheses.
2. FlashDB's databases, whose operators first have to be written as functions.
