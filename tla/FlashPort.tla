----------------------------- MODULE FlashPort -----------------------------
(***************************************************************************)
(* src/APP/flash/EmbeddedFlash_port.c over the STM32F10x flash controller. *)
(* The controller programs half-words.  FLASH_ProgramWord programs the low *)
(* half of a word, then the high half, and stops at the first that fails;  *)
(* flash_port_write does so word after word.  Power can fail between any   *)
(* two half-words.                                                         *)
(*                                                                         *)
(* Addresses are word indices, so they are aligned; calls with arguments   *)
(* out of range return EF_ERR_PARAM before touching the controller and are *)
(* not modelled.                                                           *)
(***************************************************************************)
EXTENDS Integers

CONSTANTS
    NumWords,    \* words of flash
    PageWords,   \* words of a page
    Half,        \* half-word contents
    FF, ZERO,    \* 0xFFFF (erased) and 0x0000
    MaxFaults    \* bound: controller errors in a behaviour

ASSUME PortAssumption ==
    /\ NumWords \in Nat \ {0} /\ PageWords \in Nat \ {0}
    /\ NumWords % PageWords = 0
    /\ {FF, ZERO} \subseteq Half /\ FF # ZERO
    /\ MaxFaults \in Nat

Address == 0..(NumWords - 1)
Word    == [lo : Half, hi : Half]
Blank   == [lo |-> FF, hi |-> FF]

VARIABLES
    mem,       \* the flash
    locked,    \* the LOCK bit of FLASH_CR
    pc,        \* where the running call is
    addr,      \* its first word
    buf,       \* write: the words still to be stored, by address
    i,         \* the word being programmed (or the page being erased)
    end,       \* the word after the last one
    result,    \* its EF_ErrCode
    before,    \* history: the flash when the call started
    faults

vars == <<mem, locked, pc, addr, buf, i, end, result, before, faults>>
call == <<addr, buf, end, before>>

Pcs == {"idle", "erase", "lo", "hi", "verify", "lock"}
Results == {"EF_OK", "EF_ERR_WRITE", "EF_ERR_ERASE"}

TypeOK ==
    /\ mem \in [Address -> Word] /\ before \in [Address -> Word]
    /\ locked \in BOOLEAN
    /\ pc \in Pcs
    /\ addr \in Address /\ i \in 0..NumWords /\ end \in 0..NumWords
    /\ buf \in [Address -> Word]
    /\ result \in Results
    /\ faults \in 0..MaxFaults

BlankFlash == [a \in Address |-> Blank]

Init ==
    /\ mem = BlankFlash /\ before = BlankFlash /\ buf = BlankFlash
    /\ locked = TRUE
    /\ pc = "idle"
    /\ addr = 0 /\ i = 0 /\ end = 0
    /\ result = "EF_OK"
    /\ faults = 0

-----------------------------------------------------------------------------
(* The controller *)

(* A half-word can be programmed when it is erased, or to zero; otherwise  *)
(* PGERR is raised and it keeps its value.                                 *)
CanProgram(old, new) == old = FF \/ new = ZERO

(* A write-protection error or a timeout instead of a program or an erase. *)
Fault ==
    /\ faults < MaxFaults
    /\ faults' = faults + 1

-----------------------------------------------------------------------------
(* flash_port_write *)

(* The parameter check of both calls: size is at most end - addr + 1.     *)
FitsOffByOne(a, n) == a + n <= NumWords + 1    \* mutant
Fits(a, n)         == a + n <= NumWords

Write(a, n) ==
    /\ pc = "idle"
    /\ Fits(a, n)
    /\ \E w \in [a..(a + n - 1) -> Word] :
          buf' = [x \in Address |-> IF x \in DOMAIN w THEN w[x] ELSE Blank]
    /\ addr' = a /\ i' = a /\ end' = a + n
    /\ locked' = FALSE
    /\ result' = "EF_OK"
    /\ before' = mem
    /\ pc' = "lo"
    /\ UNCHANGED <<mem, faults>>

(* FLASH_ERROR_PG is taken for "already written": go on with the next word. *)
NextWordStride2 ==    \* mutant: the address advances twice
    /\ i' = IF i + 2 < end THEN i + 2 ELSE end
    /\ pc' = IF i + 2 < end THEN "lo" ELSE "lock"
NextWord ==
    /\ i' = i + 1
    /\ pc' = IF i + 1 = end THEN "lock" ELSE "lo"

ProgramHighFirst ==    \* mutant: the halves are swapped
    /\ pc = "lo"
    /\ mem' = [mem EXCEPT ![i].hi = buf[i].hi] /\ pc' = "hi"
    /\ UNCHANGED <<call, i, locked, result, faults>>
ProgramLow ==
    /\ pc = "lo"
    /\ IF CanProgram(mem[i].lo, buf[i].lo)
       THEN mem' = [mem EXCEPT ![i].lo = buf[i].lo] /\ pc' = "hi" /\ UNCHANGED i
       ELSE NextWord /\ UNCHANGED mem
    /\ UNCHANGED <<call, locked, result, faults>>

ProgramHighStrict ==    \* mutant: FLASH_ERROR_PG is an error like any other
    /\ pc = "hi"
    /\ IF CanProgram(mem[i].hi, buf[i].hi)
       THEN mem' = [mem EXCEPT ![i].hi = buf[i].hi] /\ pc' = "verify" /\ UNCHANGED result
       ELSE result' = "EF_ERR_WRITE" /\ pc' = "lock" /\ UNCHANGED mem
    /\ UNCHANGED <<call, i, locked, faults>>
ProgramHigh ==
    /\ pc = "hi"
    /\ IF CanProgram(mem[i].hi, buf[i].hi)
       THEN mem' = [mem EXCEPT ![i].hi = buf[i].hi] /\ pc' = "verify" /\ UNCHANGED i
       ELSE NextWord /\ UNCHANGED mem
    /\ UNCHANGED <<call, locked, result, faults>>

ProgramFault ==
    /\ pc \in {"lo", "hi"}
    /\ Fault
    /\ result' = "EF_ERR_WRITE"
    /\ pc' = "lock"
    /\ UNCHANGED <<call, mem, locked, i>>

Verify ==
    /\ pc = "verify"
    /\ IF mem[i] = buf[i]
       THEN NextWord /\ UNCHANGED result
       ELSE result' = "EF_ERR_WRITE" /\ pc' = "lock" /\ UNCHANGED i
    /\ UNCHANGED <<call, mem, locked, faults>>

-----------------------------------------------------------------------------
(* flash_port_erase: whole pages, from a page boundary *)

PageOf(a) == {x \in Address : x \div PageWords = a \div PageWords}

Erase(a, n) ==
    /\ pc = "idle"
    /\ a % PageWords = 0
    /\ Fits(a, n)
    /\ addr' = a /\ i' = a /\ end' = a + n
    /\ locked' = FALSE
    /\ result' = "EF_OK"
    /\ before' = mem
    /\ pc' = "erase"
    /\ UNCHANGED <<mem, buf, faults>>

ErasePage ==
    /\ pc = "erase"
    /\ mem' = [a \in Address |-> IF a \in PageOf(i) THEN Blank ELSE mem[a]]
    /\ IF i + PageWords >= end
       THEN pc' = "lock" /\ UNCHANGED i
       ELSE i' = i + PageWords /\ UNCHANGED pc
    /\ UNCHANGED <<call, locked, result, faults>>

EraseFault ==
    /\ pc = "erase"
    /\ Fault
    /\ result' = "EF_ERR_ERASE"
    /\ pc' = "lock"
    /\ UNCHANGED <<call, mem, locked, i>>

-----------------------------------------------------------------------------
(* Both calls lock the controller on their way out; their locals are gone. *)
EndCall ==
    /\ locked' = TRUE
    /\ pc' = "idle"
    /\ addr' = 0 /\ i' = 0 /\ end' = 0
    /\ buf' = BlankFlash /\ before' = BlankFlash
    /\ UNCHANGED <<mem, faults>>

Lock     == pc = "lock" /\ EndCall /\ UNCHANGED result
PowerCut == pc # "idle" /\ EndCall /\ result' = "EF_OK"

Next ==
    \/ \E a \in Address, n \in 1..NumWords : Write(a, n) \/ Erase(a, n)
    \/ ProgramLow \/ ProgramHigh \/ ProgramFault \/ Verify
    \/ ErasePage \/ EraseFault \/ Lock \/ PowerCut

Spec == Init /\ [][Next]_vars

-----------------------------------------------------------------------------
(* Properties *)

Range_    == addr..(end - 1)
InCall    == pc \in {"lo", "hi", "verify", "lock"}
WriteDone == pc = "lock" /\ i = end /\ result = "EF_OK"
Fresh     == \A a \in Range_ : before[a] = Blank

(* A write of a range that was erased leaves, at every moment and after an *)
(* error, a prefix of the data followed by erased words: a power cut or a  *)
(* fault can truncate a record, never mix it with something else           *)
(* (flash_port_write, FLASH_ProgramWord).                                  *)
FreshWriteIsPrefix ==
    (InCall /\ Fresh) =>
        \A a \in Range_ :
            /\ a < i => mem[a] = buf[a]
            /\ a > i => mem[a] = Blank
            /\ (a = i /\ mem[a].hi # FF) => mem[a].lo = buf[a].lo

(* EF_OK from a write of an erased range means that the data is there,     *)
(* although words that report FLASH_ERROR_PG are skipped.                  *)
FreshWriteStores ==
    (WriteDone /\ Fresh) =>
        \A a \in Range_ : mem[a] = buf[a]

(* Writing again what is already there succeeds and changes nothing: the   *)
(* engine rewrites status words that are already cleared.                  *)
RewriteSucceeds ==
    (pc = "lock" /\ addr # end /\ faults = 0 /\ buf # BlankFlash
                 /\ \A a \in Range_ : before[a] = buf[a]) =>
        result = "EF_OK" /\ mem = before
=============================================================================
