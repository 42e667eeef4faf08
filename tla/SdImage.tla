------------------------------ MODULE SdImage ------------------------------
(***************************************************************************)
(* Writing the downloaded image over /u-boot.bin on the SD card            *)
(* (write_image_to_sd): the set-up of the card (emmc_initialize.c), single *)
(* block commands (emmc_cmd.c), the partition and the walks over the FAT32 *)
(* directory and cluster chain (fs.c, fat32.c).                            *)
(*                                                                         *)
(* A command fails in the command or in the data phase and may leave the   *)
(* lines inhibited until they are reset.  emmc_do_issue_cmd then returns   *)
(* -1, which emmc_cmd_status_to_err uses as an index: what it returns is   *)
(* uninitialised and may be ERR_OK, so a transfer that never started may   *)
(* be taken for a good one ("inhibited" below).                            *)
(*                                                                         *)
(* Application commands index sd_acommands with bit 31 of the command      *)
(* still set.  The word is read 8 GiB behind the one meant: it is that one *)
(* where the bus has 32 address lines (the MMU is off), or the load aborts *)
(* (ReadOutside); so may the one with the index -1.                        *)
(*                                                                         *)
(* The content of a sector is 0 as long as it is what the card was         *)
(* formatted with, and i once it holds the i-th sector of the image.  How  *)
(* the card is formatted is decided when the boot sector is first read.    *)
(* (cluster_idx - 2) * sectors_per_cluster wraps in 32 bits and the sum is *)
(* cut to an int by emmc_write: the two cancel, and cluster -1 lies three  *)
(* clusters before the first.                                              *)
(***************************************************************************)
EXTENDS Integers, Sequences, FiniteSetsExt

CONSTANTS
  START,                \* first sector of the partition
  RESERVED,             \* num_reserved_sectors
  NUM_FATS,
  SECTORS_PER_FAT,      \* the 32-bit field of the boot sector
  ENTRIES_PER_SECTOR,   \* entries in a sector of the FAT
  SECTORS_PER_CLUSTER,
  CLUSTERS,             \* data clusters of the partition
  FILE_CLUSTERS,        \* bound on the clusters of the file
  DENTRIES,             \* directory slots in a sector
  IMAGE,                \* sectors of the image
  MAX_FAULTS,           \* bound on the commands that fail
  MAX_BOOTS             \* bound on restarts

ASSUME SdImageAssumption ==
  /\ {START, RESERVED, NUM_FATS, SECTORS_PER_FAT, ENTRIES_PER_SECTOR,
      SECTORS_PER_CLUSTER, FILE_CLUSTERS, IMAGE} \subseteq Nat \ {0}
  /\ CLUSTERS \in Nat \ {0, 1} /\ DENTRIES \in Nat \ {0, 1}
  /\ SECTORS_PER_FAT < 65536      \* what sectors_per_fat leaves as it is
  /\ CLUSTERS + 2 <= SECTORS_PER_FAT * ENTRIES_PER_SECTOR
  /\ MAX_FAULTS \in Nat /\ MAX_BOOTS \in Nat \ {0}

FIRST_CLUSTER == 2      \* FAT32_DATA_FIRST_CLUSTER
EOC == -2               \* FAT32_ENTRY_END_OF_CHAIN, and its alternative
ERR == -1               \* a read error taken for a cluster number

(* fat32_get_sectors_per_fat: 16 bits of the field.                        *)
sectors_per_fat == SECTORS_PER_FAT % 65536

(* fat32_get_data_start_sector.                                            *)
DataStart == RESERVED + NUM_FATS * sectors_per_fat
Sectors == 0..(START + DataStart + CLUSTERS * SECTORS_PER_CLUSTER - 1)
DataClusters == FIRST_CLUSTER..(CLUSTERS + 1)

VARIABLES
  at,                   \* the step write_image_to_sd is at
  card,                 \* state of the card: idle, ready, ident, stby or tran
  width4,               \* [host, card] -> does it use four data lines
  line,                 \* CMD and DAT lines: "free" or "inhibited"
  format,               \* how the card is formatted, Unread before it is looked at
  disk,                 \* content of each sector
  cluster,              \* ci.cluster_idx of the walk
  sector,               \* csi.sector_idx, counted from the start of the cluster
  left,                 \* size_sectors
  src,                  \* the sector of the image to be written next
  fatbuf,               \* sector of the FAT that fatbuf holds, -1 for zeros
  result,               \* what write_image_to_sd returns
  lost,                 \* history: what went wrong unnoticed since the start
  faults,               \* commands that have failed
  boots                 \* times the kernel was started

hardware == <<card, width4>>
walk == <<cluster, sector, left, src, fatbuf>>
vars == <<at, card, width4, line, format, disk, cluster, sector, left, src,
          fatbuf, result, lost, faults, boots>>

----------------------------------------------------------------------------
(* The card as it was formatted: the chain and the slots of the root       *)
(* directory, the chain and the size in sectors of the file.               *)

Chains(clusters, n) ==
  {c \in [1..n -> clusters] : \A i, j \in 1..n : i # j => c[i] # c[j]}

(* n entries, then the file, whose name takes a long name slot; or an      *)
(* empty or a full directory without the file.                             *)
Layouts(total) ==
  {[i \in 1..total |-> CASE i <= n -> "other" [] i = n + 1 -> "lfn"
                          [] i = n + 2 -> "target" [] OTHER -> "free"] : n \in 0..(total - 2)}
    \cup {[i \in 1..total |-> slot] : slot \in {"free", "other"}}

Unread == [dir |-> << >>, slots |-> << >>, file |-> << >>, size |-> 0]

Formats ==
  UNION {[dir : {dir}, slots : Layouts(Len(dir) * SECTORS_PER_CLUSTER * DENTRIES),
          file : {file}, size : ((Len(file) - 1) * SECTORS_PER_CLUSTER + 1)..(Len(file) * SECTORS_PER_CLUSTER)] :
         dir \in {<<FIRST_CLUSTER>>, <<FIRST_CLUSTER, FIRST_CLUSTER + 1>>},
         file \in UNION {Chains((FIRST_CLUSTER + 2)..(CLUSTERS + 1), k) : k \in 1..FILE_CLUSTERS}}

Following(chain, c) ==
  LET i == CHOOSE j \in 1..Len(chain) : chain[j] = c
  IN  IF i = Len(chain) THEN EOC ELSE chain[i + 1]

(* The entries of the FAT: 0 and 1 are not used for data, 0 is free.       *)
Entry(c) ==
  CASE c \in {0, 1} -> EOC
    [] \E i \in 1..Len(format.dir) : format.dir[i] = c -> Following(format.dir, c)
    [] \E i \in 1..Len(format.file) : format.file[i] = c -> Following(format.file, c)
    [] OTHER -> 0

Entries == {EOC} \cup 0..(CLUSTERS + 1)

(* Mutant: the partition is taken to start at the first sector.            *)
SectorOfDisk(c, k) == DataStart + (c - FIRST_CLUSTER) * SECTORS_PER_CLUSTER + k

(* cl_sector_iter_init and partition_device_write: the k-th sector of a    *)
(* cluster on the card.                                                    *)
SectorOf(c, k) == START + DataStart + (c - FIRST_CLUSTER) * SECTORS_PER_CLUSTER + k

(* Where the i-th sector of the file lies.                                 *)
FileSector(i) ==
  START + DataStart
    + (format.file[(i - 1) \div SECTORS_PER_CLUSTER + 1] - FIRST_CLUSTER) * SECTORS_PER_CLUSTER
    + ((i - 1) % SECTORS_PER_CLUSTER)

----------------------------------------------------------------------------
(* emmc_cmd: a fault may hit the command or its data.                      *)

Lines == {"free", "inhibited"}
Fault == faults < MAX_FAULTS /\ faults' = faults + 1
Fine == UNCHANGED faults

(* emmc_cmd17 and emmc_cmd24 on sector s: whether it is reported as an     *)
(* error and whether the data were moved.                                  *)
Transfer(s, err, moved) ==
  \/ line = "free" /\ s \in Sectors /\ ~err /\ moved /\ Fine /\ UNCHANGED line
  \/ line = "free" /\ s \in Sectors /\ err /\ Fault /\ line' \in Lines
  \/ line = "free" /\ s \notin Sectors /\ err /\ ~moved /\ Fine /\ line' \in Lines
  \/ line = "inhibited" /\ ~moved /\ Fine /\ UNCHANGED line

(* What goes unnoticed: a transfer that was never started.                 *)
Unstarted(err, moved) == IF err \/ moved THEN {} ELSE {"inhibited"}
Lose(causes) == lost' = lost \cup causes

Return(r) == at' = "done" /\ result' = r
Goto(step) == at' = step /\ UNCHANGED result

States == {"idle", "ready", "ident", "stby", "tran"}
Widths == [{"host", "card"} -> BOOLEAN]

(* The boot ROM has used the card before the kernel starts.                *)
Init ==
  /\ at = "reset"
  /\ card \in States /\ width4 \in Widths /\ line \in Lines
  /\ cluster = 0 /\ sector = 0 /\ left = 0 /\ src = 1 /\ fatbuf = -1
  /\ result = "none" /\ lost = {}
  /\ format = Unread
  /\ disk = [s \in Sectors |-> 0]
  /\ faults = 0
  /\ boots = 1

----------------------------------------------------------------------------
(* emmc_reset.                                                             *)

(* Mutant: the width of the bus is not set back.                           *)
ResetControllerKeepsWidth ==
  /\ at = "reset"
  /\ \/ line' = "free" /\ Goto("CMD0") /\ Fine
     \/ Return("error") /\ Fault /\ UNCHANGED line
  /\ UNCHANGED <<card, width4, format, disk, walk, lost, boots>>

(* The controller is reset and clocked, or one of the two fails.           *)
ResetController ==
  /\ at = "reset"
  /\ \/ /\ line' = "free" /\ width4' = [width4 EXCEPT !["host"] = FALSE]
        /\ Goto("CMD0") /\ Fine
     \/ /\ Return("error") /\ Fault
        /\ width4' = [width4 EXCEPT !["host"] = FALSE] /\ UNCHANGED line
  /\ UNCHANGED <<card, format, disk, walk, lost, boots>>

(* Commands in the order they are sent, with the states of the card in     *)
(* which it answers and the state it moves to.                             *)
Commands ==
  [c \in {"CMD0", "CMD8", "ACMD41", "CMD2", "CMD3", "CMD7", "CMD13", "ACMD51", "ACMD6"} |->
     CASE c = "CMD0"   -> [from |-> States, to |-> "idle", next |-> "CMD8"]
       [] c = "CMD8"   -> [from |-> {"idle"}, to |-> "idle", next |-> "CMD5"]
       [] c = "ACMD41" -> [from |-> {"idle"}, to |-> "idle", next |-> "wait"]
       [] c = "CMD2"   -> [from |-> {"ready"}, to |-> "ident", next |-> "CMD3"]
       [] c = "CMD3"   -> [from |-> {"ident"}, to |-> "stby", next |-> "CMD7"]
       [] c = "CMD7"   -> [from |-> {"stby"}, to |-> "tran", next |-> "CMD13"]
       [] c = "CMD13"  -> [from |-> {"stby", "tran"}, to |-> card, next |-> "ACMD51"]
       [] c = "ACMD51" -> [from |-> {"tran"}, to |-> "tran", next |-> "ACMD6"]
       [] c = "ACMD6"  -> [from |-> {"tran"}, to |-> "tran", next |-> "mbr"]]

(* CMD0 puts the card back to one data line, ACMD6 both ends to four.      *)
WidthAfter(c) ==
  CASE c = "CMD0" -> [width4 EXCEPT !["card"] = FALSE]
    [] c = "ACMD6" -> [e \in {"host", "card"} |-> TRUE]
    [] OTHER -> width4

(* One command.  emmc_do_issue_cmd does not look at the error bit when it  *)
(* waits for the end of the busy state after CMD7.                         *)
Command ==
  /\ at \in DOMAIN Commands
  /\ line = "free"
  /\ LET c == Commands[at] IN
     \/ /\ card \in c.from
        /\ card' = c.to /\ width4' = WidthAfter(at)
        /\ Goto(c.next) /\ Fine /\ UNCHANGED line
     \/ /\ at = "ACMD6"                  \* the card has no four data lines
        /\ Goto(c.next) /\ Fine /\ UNCHANGED <<card, width4, line>>
     \/ /\ at = "CMD7" /\ card \in c.from  \* an error while the card is busy
        /\ card' = c.to /\ Goto(c.next)
        /\ Fault /\ line' \in Lines /\ UNCHANGED width4
     \/ /\ Fault /\ Return("error") /\ line' \in Lines
        /\ card' \in IF card \in c.from THEN {card, c.to} ELSE {card}
        /\ width4' \in {width4, [WidthAfter(at) EXCEPT !["host"] = width4["host"]]}
  /\ UNCHANGED <<format, disk, walk, lost, boots>>

(* A command that finds the lines inhibited is not sent, and its result is *)
(* uninitialised.  So is scr after ACMD51, which says whether ACMD6 comes  *)
(* next; after it the host alone goes to four data lines.                  *)
Unsent ==
  /\ at \in DOMAIN Commands
  /\ line = "inhibited"
  /\ \/ Return("error") /\ UNCHANGED width4
     \/ Goto(Commands[at].next) /\ UNCHANGED width4
     \/ at = "ACMD6" /\ Goto("mbr") /\ width4' = [width4 EXCEPT !["host"] = TRUE]
  /\ UNCHANGED <<card, line, faults, format, disk, walk, lost, boots>>

(* CMD5: a memory card does not answer, which is no fault but a timeout of *)
(* the command.                                                            *)
CheckSdio ==
  /\ at = "CMD5"
  /\ line' \in Lines
  /\ \/ Goto("SRST_CMD") /\ Fine
     \/ Return("error") /\ Fault
  /\ UNCHANGED <<hardware, format, disk, walk, lost, boots>>

(* emmc_reset_cmd.                                                         *)
ResetCommand ==
  /\ at = "SRST_CMD"
  /\ \/ Goto("ACMD41") /\ line' = "free" /\ Fine
     \/ Return("error") /\ Fault /\ UNCHANGED line
  /\ UNCHANGED <<hardware, format, disk, walk, lost, boots>>

(* The loop around the second ACMD41: its errors are not looked at.  After *)
(* one that leaves the lines inhibited no other command is sent, and when  *)
(* the answer that the card is ready is lost it does not answer again.     *)
CardBusy ==
  /\ at = "wait"
  /\ \/ Fine /\ UNCHANGED <<card, line>>
     \/ /\ line = "free" /\ card = "idle" /\ Fault
        /\ card' \in {"idle", "ready"} /\ line' \in Lines
     \/ line = "free" /\ card = "ready" /\ Fine /\ line' \in Lines /\ UNCHANGED card
  /\ UNCHANGED <<at, result, width4, format, disk, walk, lost, boots>>

(* Mutant: the voltage window is left out, as in the first ACMD41, and the *)
(* card is not asked to get ready.                                         *)
CardNotAsked ==
  /\ at = "wait" /\ line = "free" /\ card = "idle" /\ Fine
  /\ UNCHANGED <<at, result, hardware, line, format, disk, walk, lost, boots>>

(* The card is ready; then the clock is set to its normal rate.            *)
CardReady ==
  /\ at = "wait"
  /\ line = "free" /\ card = "idle"
  /\ \/ card' = "ready" /\ Goto("CMD2") /\ Fine
     \/ card' = "ready" /\ Return("error") /\ Fault
  /\ UNCHANGED <<width4, line, format, disk, walk, lost, boots>>

----------------------------------------------------------------------------
(* jtag_sd_card_init after emmc_init.                                      *)

(* The result of reading the MBR is not looked at: without its data there  *)
(* is no partition.                                                        *)
ReadMbr ==
  /\ at = "mbr"
  /\ \E err, moved \in BOOLEAN :
       /\ Transfer(0, err, moved)
       /\ Lose(Unstarted(err, moved))
       /\ IF moved THEN Goto("scratch") ELSE Return("error")
  /\ UNCHANGED <<hardware, format, disk, walk, boots>>

(* The first sector of the partition is read twice; the first result is    *)
(* not used at all.                                                        *)
ReadScratch ==
  /\ at = "scratch"
  /\ \E err, moved \in BOOLEAN : Transfer(START, err, moved)
  /\ Goto("open")
  /\ UNCHANGED <<hardware, format, disk, walk, lost, boots>>

(* fat32_open.  A boot sector of zeros has clusters and sectors of size 0: *)
(* nothing is found, nothing is written, and ERR_OK is returned.           *)
Open ==
  /\ at = "open"
  /\ \E err, moved \in BOOLEAN :
       /\ Transfer(START, err, moved)
       /\ Lose(Unstarted(err, moved))
       /\ IF ~err /\ moved
          THEN /\ format' \in IF format = Unread THEN Formats ELSE {format}
               /\ cluster' = FIRST_CLUSTER
               /\ Goto("dir")
          ELSE /\ Return(IF err THEN "error" ELSE "ok")
               /\ UNCHANGED <<format, cluster>>
  /\ UNCHANGED <<hardware, disk, sector, left, src, fatbuf, boots>>

----------------------------------------------------------------------------
(* The walk along a cluster chain.                                         *)

EntrySector(c) == RESERVED + c \div ENTRIES_PER_SECTOR

(* Mutant: the comparison is one sector off.                               *)
TooBigEarlier(c) == c < 0 \/ EntrySector(c) >= sectors_per_fat

(* fat32_get_next_cluster_num compares a sector counted from the start of  *)
(* the partition with the size of the FAT.                                 *)
TooBig(c) == c < 0 \/ EntrySector(c) > sectors_per_fat

(* The entry that offset o of a buffered sector of the FAT holds; a sector *)
(* that has been overwritten may hold anything.                            *)
EntryIn(buffer, o) ==
  CASE buffer = -1 -> {0}
    [] buffer # -1 /\ disk[START + buffer] # 0 -> Entries
    [] OTHER -> {Entry((buffer - RESERVED) * ENTRIES_PER_SECTOR + o)}

(* cluster_it_next: the number of the next cluster, or what is taken for   *)
(* it; unnoticed is what the caller loses besides.                         *)
NextCluster(next, unnoticed) ==
  \/ TooBig(cluster) /\ next = EOC /\ Fine /\ Lose(unnoticed) /\ UNCHANGED <<line, fatbuf>>
  \/ /\ ~TooBig(cluster)
     /\ \E err, moved \in BOOLEAN :
          /\ Transfer(START + EntrySector(cluster), err, moved)
          /\ Lose(unnoticed \cup Unstarted(err, moved) \cup IF err THEN {"fat_error"} ELSE {})
          /\ fatbuf' = IF moved THEN EntrySector(cluster) ELSE fatbuf
          /\ next \in IF err THEN {ERR} ELSE EntryIn(fatbuf', cluster % ENTRIES_PER_SECTOR)

----------------------------------------------------------------------------
(* fat32_lookup.                                                           *)

(* The slots of the sector that is being looked at; none if the walk has   *)
(* left the directory.                                                     *)
DirSlots ==
  LET i == {j \in 1..Len(format.dir) : format.dir[j] = cluster}
      n == ((Max(i) - 1) * SECTORS_PER_CLUSTER + sector) * DENTRIES
  IN  IF i = {} THEN << >> ELSE SubSeq(format.slots, n + 1, n + DENTRIES)

(* A name is compared in its long form only if both slots are in the same  *)
(* sector.                                                                 *)
Match(slots) == \E j \in 2..Len(slots) : slots[j - 1] = "lfn" /\ slots[j] = "target"

EndMark(slots) == \E j \in 2..Len(slots) : slots[j] = "free"

(* An absent name is reported with err = 0: write_image_to_sd goes on with *)
(* a directory entry that was never written.                               *)
NotFound ==
  /\ cluster' \in 0..(CLUSTERS + 2)
  /\ left' \in 0..2
  /\ sector' = 0
  /\ Goto("file")

(* fat32_iterate_directory, one sector.  The slot after the last one of a  *)
(* sector is memory behind the buffer and may look like an end mark.       *)
ReadDir ==
  /\ at = "dir"
  /\ \E err, moved \in BOOLEAN :
       LET slots == IF moved THEN DirSlots ELSE << >> IN
       /\ Transfer(SectorOf(cluster, sector), err, moved)
       /\ \/ /\ err
             /\ Return("error") /\ UNCHANGED <<cluster, sector, left, lost>>
          \/ /\ ~err /\ Match(slots)
             /\ cluster' = format.file[1] /\ left' = format.size /\ sector' = 0
             /\ Goto("file") /\ UNCHANGED lost
          \/ /\ ~err /\ ~Match(slots) /\ ~EndMark(slots)
             /\ sector' = (sector + 1) % SECTORS_PER_CLUSTER
             /\ Goto(IF sector' = 0 THEN "dirnext" ELSE "dir")
             /\ Lose(Unstarted(err, moved)) /\ UNCHANGED <<cluster, left>>
          \/ /\ ~err /\ ~Match(slots)
             /\ NotFound
             /\ Lose(Unstarted(err, moved) \cup {"not_found"})
  /\ UNCHANGED <<hardware, format, disk, src, fatbuf, boots>>

(* The next cluster of the directory, or the end of its chain.             *)
NextDir ==
  /\ at = "dirnext"
  /\ \E next \in Entries \cup {ERR} :
       /\ next # EOC
       /\ NextCluster(next, {})
       /\ cluster' = next /\ UNCHANGED <<sector, left>>
       /\ Goto("dir")
  /\ UNCHANGED <<hardware, format, disk, src, boots>>

EndDir ==
  /\ at = "dirnext"
  /\ NextCluster(EOC, {"not_found"})
  /\ NotFound
  /\ UNCHANGED <<hardware, format, disk, src, boots>>
----------------------------------------------------------------------------
(* fat32_iterate_file_sectors with write_image_per_sector.                 *)

InCluster == Min({left, SECTORS_PER_CLUSTER})

(* One sector of the file, as long as the image has any.                   *)
Write ==
  /\ at = "file" /\ left > 0 /\ src <= IMAGE
  /\ \E err, moved \in BOOLEAN :
       LET s == SectorOf(cluster, sector) IN
       /\ Transfer(s, err, moved)
       /\ Lose(Unstarted(err, moved))
       /\ disk' = IF moved THEN [disk EXCEPT ![s] = src] ELSE disk
       /\ \/ err /\ Return("error") /\ UNCHANGED <<sector, left, src>>
          \/ /\ ~err /\ sector + 1 < InCluster
             /\ sector' = sector + 1 /\ src' = src + 1
             /\ Goto("file") /\ UNCHANGED left
          \/ /\ ~err /\ sector + 1 = InCluster
             /\ sector' = 0 /\ src' = src + 1 /\ left' = left - InCluster
             /\ Goto("filenext")
  /\ UNCHANGED <<hardware, format, cluster, fatbuf, boots>>

(* The FAT is read after the last sector of the file as well.              *)
NextFile ==
  /\ at = "filenext"
  /\ \E next \in Entries \cup {ERR} :
       /\ NextCluster(next, {})
       /\ IF next = EOC THEN Return("ok") ELSE Goto("file")
       /\ cluster' = next
  /\ UNCHANGED <<hardware, format, disk, sector, left, src, boots>>

(* The file or the image has come to its end.                              *)
EndFile ==
  /\ at = "file" /\ (left = 0 \/ src > IMAGE)
  /\ Return("ok")
  /\ UNCHANGED <<hardware, line, format, disk, walk, lost, faults, boots>>

(* A word outside its table is read: that of an application command, or    *)
(* the error of a command that finds the lines inhibited.                  *)
ReadOutside ==
  /\ \/ at \in {"ACMD41", "wait", "ACMD51", "ACMD6"}
     \/ /\ line = "inhibited"
        /\ \/ at \in DOMAIN Commands \cup {"mbr", "scratch", "open", "dir"}
           \/ at \in {"dirnext", "filenext"} /\ ~TooBig(cluster)
           \/ at = "file" /\ left > 0 /\ src <= IMAGE
  /\ Goto("abort")
  /\ UNCHANGED <<hardware, line, format, disk, walk, lost, faults, boots>>

----------------------------------------------------------------------------
(* A sector of the image outside its place in the file.                    *)
Stray(s) == disk[s] # 0 /\ ~(disk[s] <= format.size /\ s = FileSector(disk[s]))

(* The board is switched off and on, or restarted after the call: the card *)
(* stays as it is.  Nothing is left behind by a call that has not written; *)
(* a card whose structures are damaged is not used again.                  *)
Restart ==
  /\ boots < MAX_BOOTS
  /\ at \in {"file", "filenext", "done", "abort"}
  /\ \A s \in Sectors : ~Stray(s)
  /\ at' = "reset"
  /\ cluster' = 0 /\ sector' = 0 /\ left' = 0 /\ src' = 1 /\ fatbuf' = -1
  /\ result' = "none" /\ lost' = {}
  /\ boots' = boots + 1
  /\ UNCHANGED <<hardware, line, format, disk, faults>>

Step ==
  \/ ResetController \/ Command \/ Unsent \/ CheckSdio \/ ResetCommand \/ CardBusy \/ CardReady
  \/ ReadMbr \/ ReadScratch \/ Open
  \/ ReadDir \/ NextDir \/ EndDir
  \/ Write \/ NextFile \/ EndFile

Next == Step \/ ReadOutside \/ Restart

Spec == Init /\ [][Next]_vars

(* The processor goes on, and a card that is asked often enough is ready.  *)
FairSpec == Spec /\ WF_vars(Step) /\ WF_vars(CardReady)

----------------------------------------------------------------------------
Steps == DOMAIN Commands \cup
  {"reset", "CMD5", "SRST_CMD", "wait", "mbr", "scratch", "open", "dir", "dirnext",
   "file", "filenext", "done", "abort"}

TypeOK ==
  /\ at \in Steps
  /\ card \in States
  /\ width4 \in Widths
  /\ line \in Lines
  /\ format = Unread \/ format.size \in 1..(FILE_CLUSTERS * SECTORS_PER_CLUSTER)
  /\ disk \in [Sectors -> 0..IMAGE]
  /\ cluster \in Entries \cup {ERR, CLUSTERS + 2}
  /\ sector \in 0..(SECTORS_PER_CLUSTER - 1)
  /\ left \in 0..Max({2, FILE_CLUSTERS * SECTORS_PER_CLUSTER})
  /\ src \in 1..(IMAGE + 1)
  /\ fatbuf \in {-1} \cup RESERVED..(RESERVED + sectors_per_fat - 1)
  /\ result \in {"none", "ok", "error"}
  /\ lost \subseteq {"inhibited", "fat_error", "not_found"}
  /\ faults \in 0..MAX_FAULTS
  /\ boots \in 1..MAX_BOOTS

(* Whatever state the boot ROM and earlier starts left the card and the    *)
(* controller in, blocks are read and written only after the card has been *)
(* selected and with the same number of data lines on both ends, although  *)
(* after an error of CMD7 the host may have gone to four lines alone: no   *)
(* block moves then (emmc_reset, emmc_reset_handle_scr).                   *)
SelectedBeforeData ==
  /\ at \in {"mbr", "scratch", "open", "dir", "dirnext", "file", "filenext"} =>
       card = "tran"
  /\ \/ at \in {"scratch", "open", "dir", "dirnext", "file", "filenext"}
     \/ at = "mbr" /\ line = "free"
     => width4["host"] = width4["card"]

(* Every command of the set-up up to CMD7 finds the lines free, the        *)
(* timeout of CMD5 notwithstanding: emmc_reset gives up after any other    *)
(* failed command.  After CMD7 it does not.                                *)
SetupFindsLinesFree ==
  at \in DOMAIN Commands \ {"CMD13", "ACMD51", "ACMD6"} => line = "free"

(* A sector of the image lands outside its place in the file only after    *)
(* an absent file was not noticed, or, in the three clusters before the    *)
(* first, after a failed read of the FAT was taken for a cluster number    *)
(* (fat32_lookup, fat32_get_next_cluster_num).                             *)
StrayOnlyWhenLost ==
  \A s \in Sectors : Stray(s) =>
    \/ "not_found" \in lost
    \/ "fat_error" \in lost /\ \E k \in 0..(SECTORS_PER_CLUSTER - 1) : s = SectorOf(ERR, k)

(* Until something goes unnoticed the image is written from its start,     *)
(* leaving nothing out, whatever an interrupted attempt left behind.       *)
WrittenFromStart ==
  lost = {} /\ at \in {"file", "filenext"} =>
    \A i \in 1..(src - 1) : disk[FileSector(i)] = i

(* The i-th sector of the file can be reached: the entries of the clusters *)
(* before it are not taken to be beyond the FAT.                           *)
Reachable(i) ==
  \A k \in 1..((i - 1) \div SECTORS_PER_CLUSTER) :
    RESERVED + format.file[k] \div ENTRIES_PER_SECTOR <= SECTORS_PER_FAT

(* ERR_OK with nothing unnoticed means that the file holds the image as    *)
(* far as the file and its reachable clusters go, and no further.          *)
OkMeansWritten ==
  result = "ok" /\ lost = {} =>
    \A i \in 1..Min({format.size, IMAGE}) : (disk[FileSector(i)] = i) <=> Reachable(i)

(* A file whose two slots are in the first sector of the directory is      *)
(* found, unless the sector was never read (fat32_iterate_directory).      *)
FirstSectorFound ==
  "not_found" \in lost /\ "inhibited" \notin lost =>
    ~\E j \in 2..DENTRIES : format.slots[j] = "target"

(* The call returns, or a load outside a table aborts, unless the card     *)
(* stops answering while it is asked whether it is ready: that loop has no *)
(* bound.                                                                  *)
ReturnsOrHangs ==
  at # "done" ~>
    \/ at \in {"done", "abort"}
    \/ at = "wait" /\ (line = "inhibited" \/ card = "ready")

(* The set-up brings card and controller from any state to one in which    *)
(* blocks can be moved (emmc_reset).                                       *)
SetupSound == TypeOK /\ SelectedBeforeData /\ SetupFindsLinesFree

(* As long as nothing goes unnoticed the file is found and the image is in *)
(* it from its start, and completely when ERR_OK is returned, as far as    *)
(* the chain is walked.                                                    *)
ImageWritten == FirstSectorFound /\ WrittenFromStart /\ OkMeansWritten
=============================================================================
