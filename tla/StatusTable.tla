---------------------------- MODULE StatusTable ----------------------------
(***************************************************************************)
(* The status tables of EmbeddedFlash.c.  A status is recorded by clearing *)
(* the first byte of one 32-bit word, never by rewriting one: NOR flash    *)
(* can only clear bits between two erases.  Status number i of a table     *)
(* that starts at word `base' owns word base + i - 1; status 0 owns none.  *)
(* A header or record is represented by `words', the set of its words      *)
(* whose first byte reads 0x00.                                            *)
(***************************************************************************)
EXTENDS Integers, FiniteSetsExt

(* Layout of sector_header_t: two words of sector status, four of role,   *)
(* then the magic word, whose low byte 0x5A never reads 0x00.             *)
StatusBase == 0
RoleBase   == 2
TableWords == 0..5

SectorStatusNum == 3
SectorRoleNum   == 5
KvStatusNum     == 5

(* Sector status, sector role and record status numbers. *)
FREE  == 0
USING == 1
FULL  == 2

UNASSIGNED  == 0
GC          == 1
GC_TEMP     == 2
DATA        == 3
DATA_GCING  == 4

UNUSED     == 0
PRE_WRITE  == 1
WRITE      == 2
PRE_DELETE == 3
DELETED    == 4

(* _set_status with _write_status: clear the word of status i.            *)
SetStatus(words, base, i) ==
    IF i = 0 THEN words ELSE words \cup {base + i - 1}

(* _get_status: the highest i in num..1 whose word is cleared.  The loop   *)
(* starts at num although the table has num - 1 words: it also reads the   *)
(* word that follows the table.                                            *)
GetStatus(words, base, num) ==
    Max({0} \cup {i \in 1..num : base + i - 1 \in words})

SectorStatus(words) == GetStatus(words, StatusBase, SectorStatusNum)
SectorRole(words)   == GetStatus(words, RoleBase, SectorRoleNum)
KvStatus(words)     == GetStatus(words, 0, KvStatusNum)
=============================================================================
