--------------------------- MODULE SdImageProofs ---------------------------
(***************************************************************************)
(* The invariants of SdImage proved for every geometry of the card whose   *)
(* FAT has fewer than 65536 sectors, and every length of file and image:   *)
(* the set-up reaches a card that can move blocks, sectors of the image    *)
(* land in the file unless something went wrong unnoticed, and ERR_OK      *)
(* means what ImageWritten says of it.                                     *)
(***************************************************************************)
EXTENDS SdImage, ListTheorems

----------------------------------------------------------------------------
(* The inductive invariant.                                                *)

Setup == DOMAIN Commands \cup {"reset", "CMD5", "SRST_CMD", "wait"}
InDir == {"dir", "dirnext"}
InFile == {"file", "filenext"}

(* How far the set-up has come when it is at each of its commands.         *)
SetupReached ==
  /\ at = "CMD0" => ~width4["host"]
  /\ at \in Setup \ {"reset", "CMD0"} => ~width4["host"] /\ ~width4["card"]
  /\ at \in {"CMD13", "ACMD51", "ACMD6"} => card = "tran"

(* The card is formatted once it was looked at, and blank before.          *)
FormatKnown ==
  /\ format = Unread \/ format \in Formats
  /\ at \in InDir \cup InFile => format \in Formats
  /\ format = Unread => \A s \in Sectors : disk[s] = 0

(* Nothing is lost before the directory is read, a lost transfer leaves    *)
(* the lines inhibited, and only a call that is over has a result.         *)
Bookkeeping ==
  /\ at \in Setup \cup {"mbr", "scratch", "open"} => lost = {} /\ sector = 0
  /\ "inhibited" \in lost => line = "inhibited"
  /\ at # "done" => result = "none"

(* Until the file is found nothing is written, and no attempt starts on a  *)
(* card with a stray sector.                                               *)
CleanStart ==
  at \notin InFile \cup {"done", "abort"} => src = 1 /\ \A s \in Sectors : ~Stray(s)

(* The first sector of the directory does not have the file.               *)
NotInFirstSector == ~\E j \in 2..DENTRIES : format.slots[j] = "target"

(* The walk over the directory starts in its first sector; a failed read   *)
(* of the FAT has taken it out of the directory for good.                  *)
DirWalk ==
  /\ at \in InDir => "not_found" \notin lost /\ ("fat_error" \in lost => cluster = ERR)
  /\ at = "dir" =>
       \/ cluster = FIRST_CLUSTER /\ sector = 0
       \/ NotInFirstSector
       \/ "inhibited" \in lost
  /\ at = "dirnext" => sector = 0 /\ (NotInFirstSector \/ "inhibited" \in lost)

(* The walk along the file is in its k-th cluster, in step with the image. *)
OnTrack(k) ==
  /\ k \in 1..Len(format.file)
  /\ cluster = format.file[k]
  /\ \A j \in 1..(k - 1) : EntrySector(format.file[j]) <= SECTORS_PER_FAT
  /\ at = "file" =>
       /\ src = (k - 1) * SECTORS_PER_CLUSTER + sector + 1
       /\ left = format.size - (k - 1) * SECTORS_PER_CLUSTER
       /\ sector < left
  /\ at = "filenext" =>
       /\ sector = 0
       /\ src <= k * SECTORS_PER_CLUSTER + 1
       /\ left = format.size - (src - 1)
       /\ left = 0 \/ src = k * SECTORS_PER_CLUSTER + 1

(* Where the walk is, when the file was found.                             *)
FileWalk ==
  at \in InFile =>
    \/ "not_found" \in lost
    \/ "fat_error" \in lost /\ cluster = ERR
    \/ "inhibited" \in lost
    \/ "fat_error" \notin lost /\ \E k \in 1..Len(format.file) : OnTrack(k)

(* No sector of the file has been written that cannot be reached.          *)
Unreached ==
  \A i \in 1..format.size : disk[FileSector(i)] = i => Reachable(i)

(* A walk that starts at a garbage cluster with a garbage size writes at   *)
(* most two sectors.  The second one is beyond what can be reached only if *)
(* the first one has damaged the FAT, and stays there.                     *)
Adrift ==
  "not_found" \in lost /\ at \in InFile =>
    /\ src - 1 - sector + left <= 2
    /\ sector = 0 \/ sector < left
    /\ at = "filenext" => sector = 0
    /\ src <= 2 => Unreached
    /\ at = "file" /\ src = 2 /\ SECTORS_PER_CLUSTER = 1 /\ line = "free" =>
         \/ format.size < 2 \/ Reachable(2) \/ cluster # format.file[2]
         \/ \E s \in Sectors : Stray(s) /\ s # SectorOf(cluster, 0)

(* What is not reachable was not written, unless the card is damaged.      *)
UnreachedUnlessStray ==
  Unreached \/ ("not_found" \in lost /\ \E s \in Sectors : Stray(s))

SetupInv == SetupSound /\ SetupReached /\ FormatKnown /\ Bookkeeping
WalkInv == CleanStart /\ DirWalk /\ FileWalk /\ StrayOnlyWhenLost /\ FirstSectorFound
ImageInv == Adrift /\ UnreachedUnlessStray /\ WrittenFromStart /\ OkMeansWritten

----------------------------------------------------------------------------
(* Arithmetic.                                                             *)

(* The smaller of two numbers.                                             *)
LEMMA MinOfTwo ==
  ASSUME NEW a \in Int, NEW b \in Int
  PROVE  Min({a, b}) = IF a <= b THEN a ELSE b
<1> DEFINE m == IF a <= b THEN a ELSE b
<1>1. m \in {a, b} /\ \A y \in {a, b} : m <= y
  OBVIOUS
<1>2. \A x \in {a, b} : (\A y \in {a, b} : x <= y) => x = m
  OBVIOUS
<1> QED BY <1>1, <1>2 DEF Min

(* The greater of two numbers.                                             *)
LEMMA MaxOfTwo ==
  ASSUME NEW a \in Int, NEW b \in Int
  PROVE  Max({a, b}) = IF a <= b THEN b ELSE a
<1> DEFINE m == IF a <= b THEN b ELSE a
<1>1. m \in {a, b} /\ \A y \in {a, b} : y <= m
  OBVIOUS
<1>2. \A x \in {a, b} : (\A y \in {a, b} : y <= x) => x = m
  OBVIOUS
<1> QED BY <1>1, <1>2 DEF Max

----------------------------------------------------------------------------
(* What the code knows of a formatted card.                                *)

(* What Formats says of the file: its clusters are different data          *)
(* clusters behind those of the directory, and its size fills them up to   *)
(* the last.                                                               *)
FileFits(f) ==
  /\ f.file \in Seq((FIRST_CLUSTER + 2)..(CLUSTERS + 1))
  /\ Len(f.file) \in 1..FILE_CLUSTERS
  /\ \A i, j \in 1..Len(f.file) : i # j => f.file[i] # f.file[j]
  /\ f.size \in Nat
  /\ (Len(f.file) - 1) * SECTORS_PER_CLUSTER + 1 <= f.size
  /\ f.size <= Len(f.file) * SECTORS_PER_CLUSTER

(* The assumptions on the geometry, one by one.                            *)
LEMMA Constants ==
  /\ SECTORS_PER_CLUSTER \in Nat \ {0} /\ ENTRIES_PER_SECTOR \in Nat \ {0}
  /\ SECTORS_PER_FAT \in Nat \ {0} /\ NUM_FATS \in Nat \ {0}
  /\ START \in Nat \ {0} /\ RESERVED \in Nat \ {0} /\ IMAGE \in Nat \ {0}
  /\ FILE_CLUSTERS \in Nat \ {0} /\ CLUSTERS \in Nat \ {0, 1}
  /\ DENTRIES \in Nat \ {0, 1} /\ MAX_FAULTS \in Nat /\ MAX_BOOTS \in Nat \ {0}
  /\ sectors_per_fat = SECTORS_PER_FAT
BY SdImageAssumption DEF sectors_per_fat

(* A function on 1..n is a sequence of length n.                           *)
LEMMA FunctionIsSeq ==
  ASSUME NEW T, NEW n \in Nat, NEW s \in [1..n -> T]
  PROVE  s \in Seq(T) /\ Len(s) = n
<1>1. s \in Seq(T)
  BY SeqDef
<1> QED BY <1>1, LenProperties

(* k clusters hold no more sectors than the greatest file.                 *)
LEMMA SizeBounded ==
  ASSUME NEW k \in 1..FILE_CLUSTERS
  PROVE  k * SECTORS_PER_CLUSTER <= FILE_CLUSTERS * SECTORS_PER_CLUSTER
         /\ FILE_CLUSTERS * SECTORS_PER_CLUSTER \in Nat /\ k * SECTORS_PER_CLUSTER \in Nat
<1>1. CASE k < FILE_CLUSTERS
  BY <1>1, Constants, Multiples
<1>2. CASE k = FILE_CLUSTERS
  BY <1>2, Constants
<1> QED BY <1>1, <1>2, Constants

(* The parts of a formatted card.                                          *)
LEMMA FormatFacts ==
  ASSUME NEW f \in Formats
  PROVE  /\ f.dir \in {<<FIRST_CLUSTER>>, <<FIRST_CLUSTER, FIRST_CLUSTER + 1>>}
         /\ f.slots \in Layouts(Len(f.dir) * SECTORS_PER_CLUSTER * DENTRIES)
         /\ FileFits(f)
         /\ f.size \in 1..(FILE_CLUSTERS * SECTORS_PER_CLUSTER)
         /\ f.file[1] \in (FIRST_CLUSTER + 2)..(CLUSTERS + 1)
         /\ f # Unread
<1> DEFINE S == (FIRST_CLUSTER + 2)..(CLUSTERS + 1)
<1> DEFINE D == {<<FIRST_CLUSTER>>, <<FIRST_CLUSTER, FIRST_CLUSTER + 1>>}
           C == UNION {Chains(S, k) : k \in 1..FILE_CLUSTERS}
           R(d, c) ==
             [dir : {d}, slots : Layouts(Len(d) * SECTORS_PER_CLUSTER * DENTRIES),
              file : {c}, size : ((Len(c) - 1) * SECTORS_PER_CLUSTER + 1)..(Len(c) * SECTORS_PER_CLUSTER)]
<1>0. Formats = UNION {R(d, c) : d \in D, c \in C}
  BY DEF Formats
<1>b. \E d \in D, c \in C : f \in R(d, c)
  <2> HIDE DEF R, D, C
  <2> QED BY <1>0
<1>1. PICK d \in D, c \in C : f \in R(d, c)
  BY <1>b
<1>2. f.dir = d /\ f.file = c /\ f.slots \in Layouts(Len(d) * SECTORS_PER_CLUSTER * DENTRIES)
      /\ f.size \in ((Len(c) - 1) * SECTORS_PER_CLUSTER + 1)..(Len(c) * SECTORS_PER_CLUSTER)
  BY <1>1
<1> PICK k \in 1..FILE_CLUSTERS : c \in Chains(S, k)
  BY <1>1
<1>3. c \in [1..k -> S] /\ \A i, j \in 1..k : i # j => c[i] # c[j]
  BY DEF Chains
<1>a. k \in Nat /\ k - 1 \in Nat /\ SECTORS_PER_CLUSTER \in Nat
  BY Constants
<1>4. c \in Seq(S) /\ Len(c) = k
  BY <1>3, <1>a, FunctionIsSeq
<1>6. k * SECTORS_PER_CLUSTER \in Nat /\ (k - 1) * SECTORS_PER_CLUSTER \in Nat
      /\ k * SECTORS_PER_CLUSTER <= FILE_CLUSTERS * SECTORS_PER_CLUSTER
      /\ FILE_CLUSTERS * SECTORS_PER_CLUSTER \in Nat
  BY <1>a, SizeBounded
<1>7. FileFits(f)
  BY <1>2, <1>3, <1>4, <1>6 DEF FileFits
<1>8. f.size \in 1..(FILE_CLUSTERS * SECTORS_PER_CLUSTER)
  BY <1>2, <1>4, <1>6
<1>9. f.file[1] \in S
  BY <1>2, <1>3, <1>a
<1>10. f # Unread
  BY <1>8, <1>6 DEF Unread
<1> QED BY <1>2, <1>7, <1>8, <1>9, <1>10

----------------------------------------------------------------------------
(* Commands.                                                               *)

Names == {"CMD0", "CMD8", "ACMD41", "CMD2", "CMD3", "CMD7", "CMD13", "ACMD51", "ACMD6"}

(* The table has the same commands in every state.                         *)
LEMMA CommandNames == DOMAIN Commands = Names /\ (DOMAIN Commands)' = Names
BY DEF Commands, Names

(* The rows of the table of commands.                                      *)
LEMMA CommandTable ==
  /\ Commands["CMD0"]   = [from |-> States, to |-> "idle", next |-> "CMD8"]
  /\ Commands["CMD8"]   = [from |-> {"idle"}, to |-> "idle", next |-> "CMD5"]
  /\ Commands["ACMD41"] = [from |-> {"idle"}, to |-> "idle", next |-> "wait"]
  /\ Commands["CMD2"]   = [from |-> {"ready"}, to |-> "ident", next |-> "CMD3"]
  /\ Commands["CMD3"]   = [from |-> {"ident"}, to |-> "stby", next |-> "CMD7"]
  /\ Commands["CMD7"]   = [from |-> {"stby"}, to |-> "tran", next |-> "CMD13"]
  /\ Commands["CMD13"]  = [from |-> {"stby", "tran"}, to |-> card, next |-> "ACMD51"]
  /\ Commands["ACMD51"] = [from |-> {"tran"}, to |-> "tran", next |-> "ACMD6"]
  /\ Commands["ACMD6"]  = [from |-> {"tran"}, to |-> "tran", next |-> "mbr"]
BY DEF Commands

(* What a block command may do: data move only to and from sectors of the  *)
(* card, and lines that are inhibited stay so.                             *)
LEMMA TransferFacts ==
  ASSUME TypeOK, NEW s, NEW err \in BOOLEAN, NEW moved \in BOOLEAN, Transfer(s, err, moved)
  PROVE  /\ line' \in Lines /\ faults' \in 0..MAX_FAULTS
         /\ moved => s \in Sectors /\ line = "free"
         /\ ~err /\ moved => line' = "free"
         /\ line = "inhibited" => ~moved /\ line' = "inhibited"
         /\ ~err /\ ~moved => line = "inhibited"
         /\ Unstarted(err, moved) \subseteq {"inhibited"}
         /\ "inhibited" \in Unstarted(err, moved) => line = "inhibited"
         /\ ~err /\ ~moved => Unstarted(err, moved) = {"inhibited"}
         /\ err \/ moved => Unstarted(err, moved) = {}
BY Constants DEF Transfer, Fine, Fault, Lines, TypeOK, Unstarted

(* The width of the bus after each command.                                *)
LEMMA WidthFacts ==
  ASSUME width4 \in Widths
  PROVE  /\ WidthAfter("CMD0") \in Widths /\ WidthAfter("CMD0")["card"] = FALSE
         /\ WidthAfter("CMD0")["host"] = width4["host"]
         /\ WidthAfter("ACMD6") \in Widths
         /\ WidthAfter("ACMD6")["host"] = WidthAfter("ACMD6")["card"]
         /\ \A c \in Names \ {"CMD0", "ACMD6"} : WidthAfter(c) = width4
<1>1. WidthAfter("CMD0") = [width4 EXCEPT !["card"] = FALSE]
  BY DEF WidthAfter
<1>2. WidthAfter("ACMD6") = [e \in {"host", "card"} |-> TRUE]
  BY DEF WidthAfter
<1>3. \A c \in Names \ {"CMD0", "ACMD6"} : WidthAfter(c) = width4
  BY DEF WidthAfter, Names
<1>4. [width4 EXCEPT !["card"] = FALSE] \in Widths
  BY Zenon DEF Widths
<1>5. [width4 EXCEPT !["card"] = FALSE]["card"] = FALSE
      /\ [width4 EXCEPT !["card"] = FALSE]["host"] = width4["host"]
  BY Zenon DEF Widths
<1> QED BY <1>1, <1>2, <1>3, <1>4, <1>5 DEF Widths

----------------------------------------------------------------------------
(* The set-up.                                                             *)

(* A step of the set-up leaves the card's content and the walk alone; it   *)
(* goes to another step of the set-up, to the first block, or gives up.    *)
LEMMA SetupStep ==
  ASSUME SetupInv, at \in Setup, UNCHANGED <<format, disk, walk, lost, boots>>,
         \/ at' \in Setup \cup {"mbr"} /\ result' = result
         \/ at' = "done" /\ result' = "error",
         card' \in States, width4' \in Widths, line' \in Lines, faults' \in 0..MAX_FAULTS,
         SetupReached', SelectedBeforeData', SetupFindsLinesFree'
  PROVE  SetupInv'
<1> USE DEF SetupInv, SetupSound
<1>1. TypeOK'
  <2>1. at' \in Steps' /\ result' \in {"none", "ok", "error"}
    BY CommandNames DEF Setup, Steps, TypeOK
  <2>2. Entries' = Entries /\ Sectors' = Sectors
    BY DEF Entries, Sectors
  <2> QED BY <2>1, <2>2 DEF TypeOK, walk
<1>2. FormatKnown'
  <2>1. at' \notin InDir \cup InFile
    BY CommandNames DEF Setup, InDir, InFile, Names
  <2> QED BY <2>1 DEF FormatKnown
<1>3. Bookkeeping'
  BY CommandNames DEF Bookkeeping, walk, Setup, Names
<1> QED BY <1>1, <1>2, <1>3

(* Steps that only Reset, CMD5 and its reset, and the wait for the card    *)
(* take: they are in the set-up and stay in it.                            *)
LEMMA OtherSetup ==
  ASSUME SetupInv, ResetController \/ CheckSdio \/ ResetCommand \/ CardBusy \/ CardReady
  PROVE  SetupInv'
<1> USE DEF SetupInv, SetupSound
<1>0. card \in States /\ width4 \in Widths /\ line \in Lines /\ faults \in 0..MAX_FAULTS
  BY DEF TypeOK
<1>1. \A f : Fault /\ faults' = f => f \in 0..MAX_FAULTS
  BY <1>0, Constants DEF Fault
<1>2. \A f : Fine /\ faults' = f => f \in 0..MAX_FAULTS
  BY <1>0 DEF Fine
<1>3. DOMAIN Commands = Names /\ DOMAIN Commands' = Names
  BY CommandNames
<1>4. CASE ResetController
  <2>1. at = "reset" /\ UNCHANGED <<card, format, disk, walk, lost, boots>>
        /\ line' \in Lines /\ faults' \in 0..MAX_FAULTS
        /\ \/ at' = "CMD0" /\ result' = result /\ line' = "free"
           \/ at' = "done" /\ result' = "error"
    BY <1>0, <1>1, <1>2, <1>4 DEF ResetController, Goto, Return, Lines
  <2>2. width4' = [width4 EXCEPT !["host"] = FALSE]
    BY <1>4 DEF ResetController
  <2>3. width4' \in Widths /\ width4'["host"] = FALSE
    BY <1>0, <2>2, Zenon DEF Widths
  <2>4. SetupReached' /\ SelectedBeforeData' /\ SetupFindsLinesFree'
    BY <1>3, <2>1, <2>3 DEF SetupReached, SelectedBeforeData, SetupFindsLinesFree, Setup, Names
  <2>5. at \in Setup /\ (at' \in Setup \cup {"mbr"} \/ at' = "done")
    BY <1>3, <2>1 DEF Setup, Names
  <2> QED BY <1>0, <2>1, <2>3, <2>4, <2>5, SetupStep
<1>5. CASE CheckSdio
  <2>1. at = "CMD5" /\ UNCHANGED <<card, width4, format, disk, walk, lost, boots>>
        /\ line' \in Lines /\ faults' \in 0..MAX_FAULTS
        /\ \/ at' = "SRST_CMD" /\ result' = result
           \/ at' = "done" /\ result' = "error"
    BY <1>1, <1>2, <1>5 DEF CheckSdio, Goto, Return, hardware
  <2>4. SetupReached' /\ SelectedBeforeData' /\ SetupFindsLinesFree'
    BY <1>3, <2>1 DEF SetupReached, SelectedBeforeData, SetupFindsLinesFree, Setup, Names
  <2>5. at \in Setup /\ (at' \in Setup \cup {"mbr"} \/ at' = "done")
    BY <1>3, <2>1 DEF Setup, Names
  <2> QED BY <1>0, <2>1, <2>4, <2>5, SetupStep
<1>6. CASE ResetCommand
  <2>1. at = "SRST_CMD" /\ UNCHANGED <<card, width4, format, disk, walk, lost, boots>>
        /\ line' \in Lines /\ faults' \in 0..MAX_FAULTS
        /\ \/ at' = "ACMD41" /\ result' = result /\ line' = "free"
           \/ at' = "done" /\ result' = "error"
    BY <1>0, <1>1, <1>2, <1>6 DEF ResetCommand, Goto, Return, hardware, Lines
  <2>4. SetupReached' /\ SelectedBeforeData' /\ SetupFindsLinesFree'
    BY <1>3, <2>1 DEF SetupReached, SelectedBeforeData, SetupFindsLinesFree, Setup, Names
  <2>5. at \in Setup /\ (at' \in Setup \cup {"mbr"} \/ at' = "done")
    BY <1>3, <2>1 DEF Setup, Names
  <2> QED BY <1>0, <2>1, <2>4, <2>5, SetupStep
<1>7. CASE CardBusy
  <2>1. at = "wait" /\ UNCHANGED <<at, result, width4, format, disk, walk, lost, boots>>
        /\ line' \in Lines /\ faults' \in 0..MAX_FAULTS /\ card' \in States
    BY <1>0, <1>1, <1>2, <1>7 DEF CardBusy, Lines, States
  <2>4. SetupReached' /\ SelectedBeforeData' /\ SetupFindsLinesFree'
    BY <1>3, <2>1 DEF SetupReached, SelectedBeforeData, SetupFindsLinesFree, Setup, Names
  <2>5. at \in Setup /\ (at' \in Setup \cup {"mbr"} \/ at' = "done")
    BY <1>3, <2>1 DEF Setup, Names
  <2> QED BY <1>0, <2>1, <2>4, <2>5, SetupStep
<1>8. CASE CardReady
  <2>1. at = "wait" /\ UNCHANGED <<width4, line, format, disk, walk, lost, boots>>
        /\ card' = "ready" /\ line = "free" /\ faults' \in 0..MAX_FAULTS
        /\ \/ at' = "CMD2" /\ result' = result
           \/ at' = "done" /\ result' = "error"
    BY <1>1, <1>2, <1>8 DEF CardReady, Goto, Return
  <2>4. SetupReached' /\ SelectedBeforeData' /\ SetupFindsLinesFree'
    BY <1>3, <2>1 DEF SetupReached, SelectedBeforeData, SetupFindsLinesFree, Setup, Names
  <2>5. at \in Setup /\ (at' \in Setup \cup {"mbr"} \/ at' = "done") /\ card' \in States
    BY <1>3, <2>1 DEF Setup, Names, States
  <2> QED BY <1>0, <2>1, <2>4, <2>5, SetupStep
<1> QED BY <1>4, <1>5, <1>6, <1>7, <1>8

(* A command of the set-up that is answered, or not.                       *)
LEMMA CommandSetup ==
  ASSUME SetupInv, Command
  PROVE  SetupInv'
<1> USE DEF SetupInv, SetupSound
<1>0. /\ card \in States /\ width4 \in Widths /\ line \in Lines
      /\ faults \in 0..MAX_FAULTS
  BY DEF TypeOK
<1>1. /\ DOMAIN Commands = Names /\ DOMAIN Commands' = Names
      /\ at \in Names /\ line = "free"
      /\ UNCHANGED <<format, disk, walk, lost, boots>>
  BY CommandNames DEF Command
<1> DEFINE c == Commands[at]
<1>2. at \in Setup
  BY <1>1 DEF Setup
<1>3. CASE Fault /\ Return("error") /\ line' \in Lines
           /\ card' \in (IF card \in c.from THEN {card, c.to} ELSE {card})
           /\ width4' \in {width4, [WidthAfter(at) EXCEPT !["host"] = width4["host"]]}
  <2>1. c.to \in States
    BY <1>0, <1>1, CommandTable DEF Names, States
  <2>2. WidthAfter(at) \in Widths
    BY <1>0, <1>1, WidthFacts DEF Names
  <2>3. [WidthAfter(at) EXCEPT !["host"] = width4["host"]] \in Widths
    BY <1>0, <2>2, Zenon DEF Widths
  <2>4. card' \in States /\ width4' \in Widths /\ faults' \in 0..MAX_FAULTS
    BY <1>0, <1>3, <2>1, <2>3, Constants DEF Fault
  <2>5. at' = "done" /\ result' = "error"
    BY <1>3 DEF Return
  <2>6. SetupReached' /\ SelectedBeforeData' /\ SetupFindsLinesFree'
    BY <1>1, <2>5 DEF SetupReached, SelectedBeforeData, SetupFindsLinesFree, Setup, Names
  <2> QED BY <1>1, <1>2, <1>3, <2>4, <2>5, <2>6, SetupStep
<1>4. CASE at = "ACMD6" /\ Goto(c.next) /\ Fine /\ UNCHANGED <<card, width4, line>>
  <2>1. at' = "mbr" /\ result' = result /\ faults' = faults
    BY <1>4, CommandTable DEF Goto, Fine
  <2>a. card = "tran" /\ ~width4["host"] /\ ~width4["card"]
    BY <1>1, <1>4 DEF SetupReached, Setup, Names
  <2>b. width4["host"] \in BOOLEAN /\ width4["card"] \in BOOLEAN
    BY <1>0 DEF Widths
  <2>2. card = "tran" /\ width4["host"] = width4["card"]
    BY <2>a, <2>b, Zenon
  <2>3. SetupReached' /\ SelectedBeforeData' /\ SetupFindsLinesFree'
    BY <1>1, <1>4, <2>1, <2>2 DEF SetupReached, SelectedBeforeData, SetupFindsLinesFree, Setup, Names
  <2> QED BY <1>0, <1>1, <1>2, <1>4, <2>1, <2>3, SetupStep
<1>5. CASE /\ card \in c.from /\ card' = c.to /\ width4' = WidthAfter(at)
           /\ Goto(c.next) /\ Fine /\ UNCHANGED line
  <2>1. at' = c.next /\ result' = result /\ faults' = faults /\ line' = "free"
    BY <1>1, <1>5 DEF Goto, Fine
  <2>2. card' \in States /\ width4' \in Widths
    BY <1>0, <1>1, <1>5, CommandTable, WidthFacts DEF Names, States
  <2>3. c.next \in Setup \cup {"mbr"}
    BY <1>1, CommandTable DEF Names, Setup
  <2>4. /\ at \in {"CMD7", "CMD13", "ACMD51", "ACMD6"} => card' = "tran"
        /\ at = "CMD0" => ~width4'["host"] /\ ~width4'["card"]
        /\ at = "ACMD6" => width4'["host"] = width4'["card"]
        /\ at \notin {"CMD0", "ACMD6"} => ~width4'["host"] /\ ~width4'["card"]
    <3>1. CASE at = "CMD0"
      BY <1>0, <1>1, <1>5, <3>1, WidthFacts DEF SetupReached
    <3>2. CASE at = "ACMD6"
      BY <1>0, <1>5, <3>2, WidthFacts, CommandTable
    <3>3. CASE at \notin {"CMD0", "ACMD6"}
      <4>1. width4' = width4
        BY <1>0, <1>1, <1>5, <3>3, WidthFacts
      <4>2. ~width4["host"] /\ ~width4["card"]
        BY <1>1, <3>3 DEF SetupReached, Setup, Names
      <4>3. at \in {"CMD7", "CMD13", "ACMD51"} => card' = "tran"
        BY <1>1, <1>5, CommandTable DEF SetupReached
      <4> QED BY <3>3, <4>1, <4>2, <4>3
    <3> QED BY <3>1, <3>2, <3>3
  <2>5. /\ c.next \in {"CMD13", "ACMD51", "ACMD6", "mbr"} => at \in {"CMD7", "CMD13", "ACMD51", "ACMD6"}
        /\ c.next = "mbr" <=> at = "ACMD6"
        /\ c.next # "CMD0"
    BY <1>1, CommandTable DEF Names
  <2>6. SetupReached'
    BY <1>1, <2>1, <2>3, <2>4, <2>5 DEF SetupReached, Setup, Names
  <2>7. SelectedBeforeData' /\ SetupFindsLinesFree'
    BY <1>1, <2>1, <2>3, <2>4, <2>5 DEF SelectedBeforeData, SetupFindsLinesFree, Setup, Names
  <2> QED BY <1>0, <1>1, <1>2, <2>1, <2>2, <2>3, <2>6, <2>7, SetupStep
<1>6. CASE /\ at = "CMD7" /\ card \in c.from /\ card' = c.to /\ Goto(c.next)
           /\ Fault /\ line' \in Lines /\ UNCHANGED width4
  <2>1. at' = "CMD13" /\ card' = "tran" /\ result' = result /\ faults' \in 0..MAX_FAULTS
    BY <1>0, <1>6, CommandTable, Constants DEF Goto, Fault
  <2>2. ~width4'["host"] /\ ~width4'["card"]
    BY <1>1, <1>6 DEF SetupReached, Setup, Names
  <2>3. SetupReached' /\ SelectedBeforeData' /\ SetupFindsLinesFree'
    BY <1>1, <2>1, <2>2 DEF SetupReached, SelectedBeforeData, SetupFindsLinesFree, Setup, Names
  <2>4. at' \in Setup \cup {"mbr"} /\ card' \in States
    BY <1>1, <2>1 DEF Setup, Names, States
  <2> QED BY <1>0, <1>1, <1>2, <1>6, <2>1, <2>3, <2>4, SetupStep
<1> QED BY <1>3, <1>4, <1>5, <1>6 DEF Command

(* A command that is not sent: one behind CMD7.                            *)
LEMMA UnsentSetup ==
  ASSUME SetupInv, Unsent
  PROVE  SetupInv'
<1> USE DEF SetupInv, SetupSound
<1>0. /\ card \in States /\ width4 \in Widths /\ line \in Lines
      /\ faults \in 0..MAX_FAULTS
  BY DEF TypeOK
<1>1. /\ DOMAIN Commands = Names /\ DOMAIN Commands' = Names
      /\ at \in Names /\ line = "inhibited"
      /\ UNCHANGED <<card, line, faults, format, disk, walk, lost, boots>>
  BY CommandNames DEF Unsent
<1>2. at \in {"CMD13", "ACMD51", "ACMD6"} /\ at \in Setup
  BY <1>1 DEF SetupFindsLinesFree, Setup
<1>3. card = "tran" /\ ~width4["host"] /\ ~width4["card"]
  BY <1>1, <1>2 DEF SetupReached, Setup, Names
<1>4. \/ /\ at' \in {"ACMD51", "ACMD6", "mbr"} /\ result' = result /\ UNCHANGED width4
      \/ at' = "mbr" /\ result' = result /\ width4' = [width4 EXCEPT !["host"] = TRUE]
      \/ at' = "done" /\ result' = "error" /\ UNCHANGED width4
  BY <1>2, CommandTable DEF Unsent, Goto, Return
<1>5. [width4 EXCEPT !["host"] = TRUE] \in Widths
  BY <1>0, Zenon DEF Widths
<1>6. width4' \in Widths
  BY <1>0, <1>4, <1>5
<1>7. SetupReached'
  BY <1>1, <1>3, <1>4 DEF SetupReached, Setup, Names
<1>8. SelectedBeforeData' /\ SetupFindsLinesFree'
  BY <1>1, <1>3, <1>4 DEF SelectedBeforeData, SetupFindsLinesFree, Names
<1>9. at' \in Setup \cup {"mbr"} \/ at' = "done"
  BY <1>1, <1>4 DEF Setup, Names
<1> QED BY <1>0, <1>1, <1>2, <1>4, <1>6, <1>7, <1>8, <1>9, SetupStep

(* A load outside a table ends the call wherever it is.                    *)
LEMMA AbortAt ==
  ASSUME ReadOutside
  PROVE  /\ at # "done" /\ at' = "abort"
         /\ UNCHANGED <<result, hardware, line, format, disk, walk, lost, faults, boots>>
BY CommandNames DEF ReadOutside, Goto, Names

LEMMA AbortSetup ==
  ASSUME SetupInv, ReadOutside
  PROVE  SetupInv'
<1> USE DEF SetupInv, SetupSound
<1>1. (DOMAIN Commands)' = Names
  BY CommandNames
<1>2. TypeOK'
  <2>1. at' \in Steps' /\ Entries' = Entries /\ Sectors' = Sectors
    BY AbortAt DEF Steps, Entries, Sectors
  <2> QED BY <2>1, AbortAt DEF TypeOK, walk, hardware
<1>3. SetupReached' /\ SelectedBeforeData' /\ SetupFindsLinesFree'
  BY <1>1, AbortAt DEF SetupReached, SelectedBeforeData, SetupFindsLinesFree, Setup, Names
<1>4. FormatKnown'
  BY AbortAt DEF FormatKnown, InDir, InFile
<1>5. Bookkeeping'
  BY <1>1, AbortAt DEF Bookkeeping, Setup, Names
<1> QED BY <1>2, <1>3, <1>4, <1>5

----------------------------------------------------------------------------
(* Types and bookkeeping once blocks are moved.                            *)

Data == {"mbr", "scratch", "open"} \cup InDir \cup InFile

(* No step from there leads back into the set-up.                          *)
LEMMA DataStep ==
  ASSUME SetupInv, at \in Data, at = "mbr" => line = "free" \/ at' = "done",
         at' \in (Data \ {"mbr"}) \cup {"done"}, UNCHANGED hardware
  PROVE  /\ SetupReached' /\ SelectedBeforeData' /\ SetupFindsLinesFree'
         /\ at' \notin Setup' /\ at' \in Steps'
<1> USE DEF SetupInv, SetupSound
<1>1. DOMAIN Commands' = Names
  BY CommandNames
<1>2. at' \notin Setup' /\ at' \in Steps'
  BY <1>1 DEF Data, InDir, InFile, Setup, Names, Steps
<1>3. card = "tran" /\ (width4["host"] = width4["card"] \/ at' = "done")
  BY DEF SelectedBeforeData, Data, InDir, InFile
<1>4. SelectedBeforeData'
  BY <1>3 DEF SelectedBeforeData, hardware
<1>5. SetupReached' /\ SetupFindsLinesFree'
  BY <1>1, <1>2 DEF SetupReached, SetupFindsLinesFree, Setup, Names
<1> QED BY <1>2, <1>4, <1>5

Causes == {"inhibited", "fat_error", "not_found"}

(* The bound on size_sectors covers the greatest file and the garbage an   *)
(* absent one leaves.                                                      *)
LEMMA LeftBound ==
  /\ Max({2, FILE_CLUSTERS * SECTORS_PER_CLUSTER}) \in Nat
  /\ 2 <= Max({2, FILE_CLUSTERS * SECTORS_PER_CLUSTER})
  /\ FILE_CLUSTERS * SECTORS_PER_CLUSTER <= Max({2, FILE_CLUSTERS * SECTORS_PER_CLUSTER})
<1> DEFINE n == FILE_CLUSTERS * SECTORS_PER_CLUSTER
<1>1. n \in Nat
  BY Constants
<1> HIDE DEF n
<1>2. Max({2, n}) = IF 2 <= n THEN n ELSE 2
  BY <1>1, MaxOfTwo
<1>3. Max({2, n}) \in Nat /\ 2 <= Max({2, n}) /\ n <= Max({2, n})
  BY <1>1, <1>2
<1> QED BY <1>3 DEF n

(* One entry of the FAT is read, or taken to lie beyond it.                *)
LEMMA NextClusterFacts ==
  ASSUME TypeOK, NEW next \in Entries \cup {ERR}, NEW unnoticed, NextCluster(next, unnoticed)
  PROVE  /\ line' \in Lines /\ faults' \in 0..MAX_FAULTS
         /\ fatbuf' \in {-1} \cup RESERVED..(RESERVED + sectors_per_fat - 1)
         /\ line = "inhibited" => line' = "inhibited"
         /\ \E more \in SUBSET {"inhibited", "fat_error"} :
              /\ lost' = lost \cup unnoticed \cup more
              /\ "inhibited" \in more => line' = "inhibited"
              /\ "fat_error" \in more => next = ERR
<1>1. CASE TooBig(cluster)
  <2>1. next = EOC /\ UNCHANGED <<line, faults, fatbuf>> /\ lost' = lost \cup unnoticed \cup {}
    BY <1>1 DEF NextCluster, Fine, Lose
  <2> QED BY <2>1 DEF TypeOK
<1>2. CASE ~TooBig(cluster)
  <2>1. PICK err \in BOOLEAN, moved \in BOOLEAN :
          /\ Transfer(START + EntrySector(cluster), err, moved)
          /\ Lose(unnoticed \cup Unstarted(err, moved) \cup IF err THEN {"fat_error"} ELSE {})
          /\ fatbuf' = IF moved THEN EntrySector(cluster) ELSE fatbuf
          /\ next \in IF err THEN {ERR} ELSE EntryIn(fatbuf', cluster % ENTRIES_PER_SECTOR)
    BY <1>2 DEF NextCluster
  <2>a. cluster \in Int
    BY Constants DEF TypeOK, Entries, EOC, ERR
  <2>b. cluster \in Nat
    BY <1>2, <2>a DEF TooBig
  <2>3. cluster \div ENTRIES_PER_SECTOR \in Nat
    BY <2>b, Parts, Constants
  <2>2. EntrySector(cluster) \in Nat /\ EntrySector(cluster) <= SECTORS_PER_FAT
    BY <1>2, <2>b, <2>3, Constants DEF TooBig, EntrySector
  <2>4. EntrySector(cluster) \in RESERVED..(RESERVED + sectors_per_fat - 1)
    BY <2>2, <2>3, Constants DEF EntrySector
  <2>5. fatbuf' \in {-1} \cup RESERVED..(RESERVED + sectors_per_fat - 1)
    BY <2>1, <2>4 DEF TypeOK
  <2>c. SUFFICES \E more \in SUBSET {"inhibited", "fat_error"} :
                   /\ lost' = lost \cup unnoticed \cup more
                   /\ "inhibited" \in more => line' = "inhibited"
                   /\ "fat_error" \in more => next = ERR
    BY <2>1, <2>5, TransferFacts
  <2> DEFINE more == Unstarted(err, moved) \cup IF err THEN {"fat_error"} ELSE {}
  <2>6. lost' = lost \cup unnoticed \cup more
    BY <2>1 DEF Lose
  <2>7. /\ Unstarted(err, moved) \subseteq {"inhibited"}
        /\ "inhibited" \in Unstarted(err, moved) => line' = "inhibited"
        /\ line' \in Lines /\ faults' \in 0..MAX_FAULTS
        /\ line = "inhibited" => line' = "inhibited"
    BY <2>1, TransferFacts
  <2>8. more \in SUBSET {"inhibited", "fat_error"} /\ ("fat_error" \in more <=> err)
        /\ ("inhibited" \in more => line' = "inhibited")
    BY <2>7
  <2> HIDE DEF more
  <2> QED BY <2>1, <2>6, <2>8
<1> QED BY <1>1, <1>2

(* The first two blocks that are read, whose results are not looked at.    *)
LEMMA MbrSetup ==
  ASSUME SetupInv, ReadMbr \/ ReadScratch
  PROVE  SetupInv'
<1> USE DEF SetupInv, SetupSound
<1>1. TypeOK /\ at \in {"mbr", "scratch"} /\ lost = {} /\ sector = 0 /\ result = "none"
      /\ UNCHANGED <<card, width4, format, disk, walk, boots>>
  BY DEF ReadMbr, ReadScratch, Bookkeeping, hardware
<1>2. /\ line' \in Lines /\ faults' \in 0..MAX_FAULTS
      /\ \/ at' \in {"scratch", "open"} /\ lost' = {} /\ result' = "none"
         \/ at' = "done" /\ result' = "error" /\ lost' \subseteq {"inhibited"}
      /\ "inhibited" \in lost' => line' = "inhibited"
      /\ at = "mbr" => line = "free" \/ at' = "done"
  <2>1. CASE ReadMbr
    <3>1. PICK err \in BOOLEAN, moved \in BOOLEAN :
            /\ Transfer(0, err, moved) /\ Lose(Unstarted(err, moved))
            /\ IF moved THEN Goto("scratch") ELSE Return("error")
      BY <2>1 DEF ReadMbr
    <3> QED BY <1>1, <3>1, TransferFacts DEF Lose, Goto, Return
  <2>2. CASE ReadScratch
    <3>1. PICK err \in BOOLEAN, moved \in BOOLEAN : Transfer(START, err, moved)
      BY <2>2 DEF ReadScratch
    <3>2. line' \in Lines /\ faults' \in 0..MAX_FAULTS
      BY <1>1, <3>1, TransferFacts
    <3>3. at = "scratch"
      BY <2>2 DEF ReadScratch
    <3> QED BY <1>1, <2>2, <3>2, <3>3 DEF ReadScratch, Goto
  <2> QED BY <2>1, <2>2
<1>3. /\ at \in Data /\ at' \in (Data \ {"mbr"}) \cup {"done"}
      /\ at' \notin InDir \cup InFile /\ at' \notin {"mbr"}
  BY <1>1, <1>2 DEF Data, InDir, InFile
<1>4. SetupReached' /\ SelectedBeforeData' /\ SetupFindsLinesFree' /\ at' \notin Setup' /\ at' \in Steps'
  BY <1>1, <1>2, <1>3, DataStep DEF hardware
<1>5. TypeOK'
  BY <1>1, <1>2, <1>4 DEF TypeOK, walk
<1>6. FormatKnown'
  BY <1>1, <1>3 DEF FormatKnown
<1>7. Bookkeeping'
  BY <1>1, <1>2, <1>4 DEF Bookkeeping, walk
<1> QED BY <1>4, <1>5, <1>6, <1>7

(* fat32_open reads the boot sector or gives up.                           *)
LEMMA OpenSetup ==
  ASSUME SetupInv, Open
  PROVE  SetupInv'
<1> USE DEF SetupInv, SetupSound
<1>1. TypeOK /\ at = "open" /\ lost = {} /\ sector = 0 /\ result = "none"
      /\ UNCHANGED <<card, width4, disk, sector, left, src, fatbuf, boots>>
  BY DEF Open, Bookkeeping, hardware
<1>2. PICK err \in BOOLEAN, moved \in BOOLEAN :
        /\ Transfer(START, err, moved)
        /\ Lose(Unstarted(err, moved))
        /\ IF ~err /\ moved
            THEN /\ format' \in IF format = Unread THEN Formats ELSE {format}
                 /\ cluster' = FIRST_CLUSTER
                 /\ Goto("dir")
            ELSE /\ Return(IF err THEN "error" ELSE "ok")
                 /\ UNCHANGED <<format, cluster>>
  BY DEF Open
<1>3. /\ line' \in Lines /\ faults' \in 0..MAX_FAULTS
      /\ \/ at' = "dir" /\ result' = "none" /\ format' \in Formats /\ cluster' = FIRST_CLUSTER
         \/ at' = "done" /\ result' \in {"error", "ok"} /\ UNCHANGED <<format, cluster>>
      /\ lost' \subseteq {"inhibited"}
      /\ "inhibited" \in lost' => line' = "inhibited"
  BY <1>1, <1>2, TransferFacts DEF Lose, Goto, Return, FormatKnown
<1>4. /\ at \in Data /\ at' \in (Data \ {"mbr"}) \cup {"done"}
      /\ at' \notin {"mbr", "scratch", "open"}
  BY <1>1, <1>3 DEF Data, InDir, InFile
<1>5. SetupReached' /\ SelectedBeforeData' /\ SetupFindsLinesFree' /\ at' \notin Setup' /\ at' \in Steps'
  BY <1>1, <1>4, DataStep DEF hardware
<1>6. format' = Unread \/ format'.size \in 1..(FILE_CLUSTERS * SECTORS_PER_CLUSTER)
  BY <1>3, FormatFacts DEF FormatKnown
<1>7. cluster' \in Entries \cup {ERR, CLUSTERS + 2}
  BY <1>1, <1>3, Constants DEF TypeOK, FIRST_CLUSTER, Entries
<1>8. TypeOK'
  BY <1>1, <1>3, <1>5, <1>6, <1>7 DEF TypeOK
<1>9. FormatKnown'
  <2>1. \A f \in Formats : f # Unread
    BY FormatFacts
  <2> QED BY <1>1, <1>3, <2>1 DEF FormatKnown, InDir, InFile
<1>10. Bookkeeping'
  BY <1>1, <1>3, <1>4, <1>5 DEF Bookkeeping
<1> QED BY <1>5, <1>8, <1>9, <1>10

(* A step of the walks: what remains to be shown of the set-up's part.     *)
LEMMA WalkStep ==
  ASSUME SetupInv, at \in InDir \cup InFile, at' \in InDir \cup InFile \cup {"done"},
         UNCHANGED <<hardware, format, boots>>,
         line' \in Lines, faults' \in 0..MAX_FAULTS,
         disk' \in [Sectors -> 0..IMAGE],
         cluster' \in Entries \cup {ERR, CLUSTERS + 2},
         sector' \in 0..(SECTORS_PER_CLUSTER - 1),
         left' \in 0..Max({2, FILE_CLUSTERS * SECTORS_PER_CLUSTER}),
         src' \in 1..(IMAGE + 1),
         fatbuf' \in {-1} \cup RESERVED..(RESERVED + sectors_per_fat - 1),
         lost' \subseteq Causes,
         "inhibited" \in lost' => line' = "inhibited",
         result' \in {"none", "ok", "error"}, at' # "done" => result' = "none"
  PROVE  SetupInv'
<1> USE DEF SetupInv, SetupSound
<1>1. /\ at \in Data \ {"mbr"} /\ at' \in (Data \ {"mbr"}) \cup {"done"}
      /\ at' \notin {"mbr", "scratch", "open"}
  BY DEF Data, InDir, InFile
<1>2. SetupReached' /\ SelectedBeforeData' /\ SetupFindsLinesFree' /\ at' \notin Setup' /\ at' \in Steps'
  BY <1>1, DataStep
<1>3. TypeOK'
  BY <1>2 DEF TypeOK, hardware, Causes
<1>4. FormatKnown'
  <2>1. format \in Formats /\ format # Unread
    BY FormatFacts DEF FormatKnown
  <2> QED BY <2>1 DEF FormatKnown
<1>5. Bookkeeping'
  BY <1>1, <1>2 DEF Bookkeeping
<1> QED BY <1>2, <1>3, <1>4, <1>5

(* The garbage of a directory entry that was never written is within the   *)
(* types.                                                                  *)
LEMMA NotFoundTypes ==
  ASSUME TypeOK, NotFound
  PROVE  /\ cluster' \in Entries \cup {ERR, CLUSTERS + 2}
         /\ left' \in 0..Max({2, FILE_CLUSTERS * SECTORS_PER_CLUSTER})
         /\ sector' \in 0..(SECTORS_PER_CLUSTER - 1)
         /\ at' = "file" /\ result' = result
BY LeftBound, Constants DEF NotFound, Goto, Entries

(* One sector of the directory.                                            *)
LEMMA DirSetup ==
  ASSUME SetupInv, ReadDir
  PROVE  SetupInv'
<1> USE DEF SetupInv, SetupSound
<1>1. TypeOK /\ at = "dir" /\ format \in Formats /\ result = "none"
      /\ UNCHANGED <<hardware, format, disk, src, fatbuf, boots>>
      /\ ("inhibited" \in lost => line = "inhibited")
  BY DEF ReadDir, Bookkeeping, FormatKnown, InDir
<1>2. PICK err \in BOOLEAN, moved \in BOOLEAN :
        LET slots == IF moved THEN DirSlots ELSE << >> IN
        /\ Transfer(SectorOf(cluster, sector), err, moved)
        /\ \/ /\ err
              /\ Return("error") /\ UNCHANGED <<cluster, sector, left, lost>>
           \/ /\ ~err /\ Match(slots)
              /\ cluster' = format.file[1] /\ left' = format.size /\ sector' = 0
              /\ Goto("file") /\ UNCHANGED lost
           \/ /\ ~err /\ ~Match(slots) /\ ~EndMark(slots)
              /\ sector' = (sector + 1) % SECTORS_PER_CLUSTER
              /\ Goto(IF sector' = 0 THEN "dirnext" ELSE "dir")
              /\ Lose(Unstarted(err, moved)) /\ UNCHANGED <<cluster, left>>
           \/ /\ ~err /\ ~Match(slots)
              /\ NotFound
              /\ Lose(Unstarted(err, moved) \cup {"not_found"})
  BY DEF ReadDir
<1>3. /\ line' \in Lines /\ faults' \in 0..MAX_FAULTS
      /\ line = "inhibited" => line' = "inhibited"
      /\ Unstarted(err, moved) \subseteq {"inhibited"}
      /\ "inhibited" \in Unstarted(err, moved) => line' = "inhibited"
  BY <1>1, <1>2, TransferFacts
<1>4. lost' \subseteq Causes /\ ("inhibited" \in lost' => line' = "inhibited")
  BY <1>1, <1>2, <1>3 DEF Lose, TypeOK, Causes
<1>5. /\ cluster' \in Entries \cup {ERR, CLUSTERS + 2}
      /\ left' \in 0..Max({2, FILE_CLUSTERS * SECTORS_PER_CLUSTER})
      /\ sector' \in 0..(SECTORS_PER_CLUSTER - 1)
      /\ at' \in {"dir", "dirnext", "file", "done"}
      /\ result' \in {"none", "ok", "error"} /\ (at' # "done" => result' = "none")
  <2>1. cluster \in Entries \cup {ERR, CLUSTERS + 2} /\ sector \in 0..(SECTORS_PER_CLUSTER - 1)
        /\ left \in 0..Max({2, FILE_CLUSTERS * SECTORS_PER_CLUSTER})
    BY <1>1 DEF TypeOK
  <2>2. CASE Return("error") /\ UNCHANGED <<cluster, sector, left>>
    BY <2>1, <2>2 DEF Return
  <2>3. CASE cluster' = format.file[1] /\ left' = format.size /\ sector' = 0 /\ Goto("file")
    <3>1. format.file[1] \in (FIRST_CLUSTER + 2)..(CLUSTERS + 1)
          /\ format.size \in 1..(FILE_CLUSTERS * SECTORS_PER_CLUSTER)
      BY <1>1, FormatFacts
    <3>2. FILE_CLUSTERS * SECTORS_PER_CLUSTER \in Nat
      BY Constants
    <3> QED BY <1>1, <2>3, <3>1, <3>2, LeftBound, Constants DEF Goto, FIRST_CLUSTER, Entries
  <2>4. CASE /\ sector' = (sector + 1) % SECTORS_PER_CLUSTER
             /\ Goto(IF sector' = 0 THEN "dirnext" ELSE "dir")
             /\ UNCHANGED <<cluster, left>>
    <3>1. sector' \in 0..(SECTORS_PER_CLUSTER - 1)
      BY <2>1, <2>4, Parts, Constants
    <3> QED BY <1>1, <2>1, <2>4, <3>1 DEF Goto
  <2>5. CASE NotFound
    BY <1>1, <2>5, NotFoundTypes
  <2> QED BY <1>2, <2>2, <2>3, <2>4, <2>5
<1>6. at \in InDir \cup InFile /\ at' \in InDir \cup InFile \cup {"done"}
  BY <1>1, <1>5 DEF InDir, InFile
<1> QED BY <1>1, <1>3, <1>4, <1>5, <1>6, WalkStep DEF TypeOK

(* One entry of the FAT, for the directory or the file.                    *)
LEMMA NextSetup ==
  ASSUME SetupInv, NextDir \/ EndDir \/ NextFile
  PROVE  SetupInv'
<1> USE DEF SetupInv, SetupSound
<1>1. /\ TypeOK /\ at \in InDir \cup InFile /\ at # "done" /\ result = "none"
      /\ UNCHANGED <<hardware, format, disk, src, boots>>
      /\ "inhibited" \in lost => line = "inhibited"
  BY DEF NextDir, EndDir, NextFile, Bookkeeping, InDir, InFile
<1>2. PICK next \in Entries \cup {ERR}, un \in {{}, {"not_found"}} : NextCluster(next, un)
  BY DEF NextDir, EndDir, NextFile, Entries
<1>3. /\ line' \in Lines /\ faults' \in 0..MAX_FAULTS
      /\ fatbuf' \in {-1} \cup RESERVED..(RESERVED + sectors_per_fat - 1)
      /\ line = "inhibited" => line' = "inhibited"
  BY <1>1, <1>2, NextClusterFacts
<1>4. PICK more \in SUBSET {"inhibited", "fat_error"} :
              /\ lost' = lost \cup un \cup more
              /\ "inhibited" \in more => line' = "inhibited"
  BY <1>1, <1>2, NextClusterFacts
<1>5. lost' \subseteq Causes /\ ("inhibited" \in lost' => line' = "inhibited")
  BY <1>1, <1>3, <1>4 DEF TypeOK, Causes
<1>6. /\ cluster' \in Entries \cup {ERR, CLUSTERS + 2}
      /\ left' \in 0..Max({2, FILE_CLUSTERS * SECTORS_PER_CLUSTER})
      /\ sector' \in 0..(SECTORS_PER_CLUSTER - 1)
      /\ at' \in {"dir", "file", "done"}
      /\ result' \in {"none", "ok", "error"} /\ (at' # "done" => result' = "none")
  <2>1. CASE EndDir
    BY <1>1, <2>1, NotFoundTypes DEF EndDir
  <2>2. CASE NextDir
    BY <1>1, <2>2 DEF NextDir, TypeOK, Goto
  <2>3. CASE NextFile
    BY <1>1, <2>3 DEF NextFile, TypeOK, Goto, Return
  <2> QED BY <2>1, <2>2, <2>3
<1>7. at' \in InDir \cup InFile \cup {"done"}
  BY <1>6 DEF InDir, InFile
<1> QED BY <1>1, <1>3, <1>5, <1>6, <1>7, WalkStep DEF TypeOK

(* What Write does to the place in the file.                               *)
LEMMA InClusterFacts ==
  ASSUME TypeOK
  PROVE  /\ left \in Nat /\ InCluster \in Nat /\ InCluster <= left
         /\ InCluster <= SECTORS_PER_CLUSTER
         /\ InCluster = left \/ InCluster = SECTORS_PER_CLUSTER
<1>1. left \in Nat
  BY LeftBound DEF TypeOK
<1>2. InCluster = IF left <= SECTORS_PER_CLUSTER THEN left ELSE SECTORS_PER_CLUSTER
  BY <1>1, MinOfTwo, Constants DEF InCluster
<1> QED BY <1>1, <1>2, Constants

(* One sector of the file.                                                 *)
LEMMA WriteSetup ==
  ASSUME SetupInv, Write
  PROVE  SetupInv'
<1> USE DEF SetupInv, SetupSound
<1>1. /\ TypeOK /\ at = "file" /\ result = "none" /\ src <= IMAGE
      /\ UNCHANGED <<hardware, format, cluster, fatbuf, boots>>
      /\ "inhibited" \in lost => line = "inhibited"
  BY DEF Write, Bookkeeping
<1>2. PICK err \in BOOLEAN, moved \in BOOLEAN :
        /\ Transfer(SectorOf(cluster, sector), err, moved)
        /\ Lose(Unstarted(err, moved))
        /\ disk' = IF moved THEN [disk EXCEPT ![SectorOf(cluster, sector)] = src] ELSE disk
        /\ \/ err /\ Return("error") /\ UNCHANGED <<sector, left, src>>
           \/ /\ ~err /\ sector + 1 < InCluster
              /\ sector' = sector + 1 /\ src' = src + 1
              /\ Goto("file") /\ UNCHANGED left
           \/ /\ ~err /\ sector + 1 = InCluster
              /\ sector' = 0 /\ src' = src + 1 /\ left' = left - InCluster
              /\ Goto("filenext")
  BY DEF Write
<1>3. /\ line' \in Lines /\ faults' \in 0..MAX_FAULTS
      /\ line = "inhibited" => line' = "inhibited"
      /\ Unstarted(err, moved) \subseteq {"inhibited"}
      /\ "inhibited" \in Unstarted(err, moved) => line' = "inhibited"
  BY <1>1, <1>2, TransferFacts
<1>4. lost' \subseteq Causes /\ ("inhibited" \in lost' => line' = "inhibited")
  BY <1>1, <1>2, <1>3 DEF Lose, TypeOK, Causes
<1>5. disk' \in [Sectors -> 0..IMAGE]
  <2>1. disk \in [Sectors -> 0..IMAGE] /\ src \in 0..IMAGE
    BY <1>1, Constants DEF TypeOK
  <2>2. disk' = disk \/ disk' = [disk EXCEPT ![SectorOf(cluster, sector)] = src]
    BY <1>2
  <2> QED BY <2>1, <2>2
<1>6. /\ src' \in 1..(IMAGE + 1) /\ sector' \in 0..(SECTORS_PER_CLUSTER - 1)
      /\ left' \in 0..Max({2, FILE_CLUSTERS * SECTORS_PER_CLUSTER})
      /\ at' \in {"file", "filenext", "done"}
      /\ result' \in {"none", "ok", "error"} /\ (at' # "done" => result' = "none")
  <2>1. /\ src \in 1..(IMAGE + 1) /\ sector \in 0..(SECTORS_PER_CLUSTER - 1)
        /\ left \in 0..Max({2, FILE_CLUSTERS * SECTORS_PER_CLUSTER})
    BY <1>1 DEF TypeOK
  <2>2. /\ left \in Nat /\ InCluster \in Nat /\ InCluster <= left
        /\ InCluster <= SECTORS_PER_CLUSTER
    BY <1>1, InClusterFacts
  <2> QED BY <1>1, <1>2, <2>1, <2>2, LeftBound, Constants DEF Goto, Return
<1>7. at \in InDir \cup InFile /\ at' \in InDir \cup InFile \cup {"done"}
  BY <1>1, <1>6 DEF InDir, InFile
<1> QED BY <1>1, <1>3, <1>4, <1>5, <1>6, <1>7, WalkStep DEF TypeOK

(* The end of the file or of the image.                                    *)
LEMMA EndSetup ==
  ASSUME SetupInv, EndFile
  PROVE  SetupInv'
<1> USE DEF SetupInv, SetupSound
<1>1. TypeOK /\ at = "file" /\ at' = "done" /\ result' = "ok"
      /\ UNCHANGED <<hardware, line, format, disk, walk, lost, faults, boots>>
  BY DEF EndFile, Return
<1>2. at \in InDir \cup InFile /\ at' \in InDir \cup InFile \cup {"done"}
  BY <1>1 DEF InDir, InFile
<1> QED BY <1>1, <1>2, WalkStep DEF TypeOK, walk, Bookkeeping, Causes

(* A restart leaves the card as it is and begins with the reset.           *)
LEMMA RestartSetup ==
  ASSUME SetupInv, Restart
  PROVE  SetupInv'
<1> USE DEF SetupInv, SetupSound
<1>1. /\ at' = "reset" /\ boots' \in 1..MAX_BOOTS
      /\ cluster' = 0 /\ sector' = 0 /\ left' = 0 /\ src' = 1 /\ fatbuf' = -1
      /\ result' = "none" /\ lost' = {}
      /\ UNCHANGED <<card, width4, line, format, disk, faults>>
  BY Constants DEF Restart, TypeOK, hardware
<1>2. (DOMAIN Commands)' = Names
  BY CommandNames
<1>3. TypeOK'
  <2>1. at' \in Steps'
    BY <1>1 DEF Steps
  <2>2. 0 \in Entries /\ 0 \in 0..(SECTORS_PER_CLUSTER - 1)
        /\ 0 \in 0..Max({2, FILE_CLUSTERS * SECTORS_PER_CLUSTER}) /\ 1 \in 1..(IMAGE + 1)
    BY LeftBound, Constants DEF Entries
  <2> QED BY <1>1, <2>1, <2>2 DEF TypeOK
<1>4. SetupReached' /\ SelectedBeforeData' /\ SetupFindsLinesFree'
  BY <1>1, <1>2 DEF SetupReached, SelectedBeforeData, SetupFindsLinesFree, Setup, Names
<1>5. FormatKnown'
  BY <1>1 DEF FormatKnown, InDir, InFile
<1>6. Bookkeeping'
  BY <1>1 DEF Bookkeeping
<1> QED BY <1>3, <1>4, <1>5, <1>6

(* The state the boot ROM leaves behind.                                   *)
LEMMA InitSetup == Init => SetupInv
<1> SUFFICES ASSUME Init PROVE SetupInv
  OBVIOUS
<1> USE DEF Init, SetupInv, SetupSound
<1>1. DOMAIN Commands = Names
  BY CommandNames
<1>2. TypeOK
  <2>1. at \in Steps
    BY DEF Steps
  <2>2. 0 \in Entries /\ 0 \in 0..(SECTORS_PER_CLUSTER - 1) /\ 1 \in 1..MAX_BOOTS
        /\ 0 \in 0..Max({2, FILE_CLUSTERS * SECTORS_PER_CLUSTER}) /\ 1 \in 1..(IMAGE + 1)
        /\ 0 \in 0..MAX_FAULTS /\ 0 \in 0..IMAGE
    BY LeftBound, Constants DEF Entries
  <2>3. disk \in [Sectors -> 0..IMAGE]
    BY <2>2
  <2> QED BY <2>1, <2>2, <2>3 DEF TypeOK
<1>3. SetupReached /\ SelectedBeforeData /\ SetupFindsLinesFree
  BY <1>1 DEF SetupReached, SelectedBeforeData, SetupFindsLinesFree, Setup, Names
<1>4. FormatKnown
  BY DEF FormatKnown, InDir, InFile
<1>5. Bookkeeping
  BY DEF Bookkeeping
<1> QED BY <1>2, <1>3, <1>4, <1>5

(* The set-up's part of the invariant.                                     *)
LEMMA SetupInvariant == Spec => []SetupInv
<1>1. Init => SetupInv
  BY InitSetup
<1>2. SetupInv /\ [Next]_vars => SetupInv'
  <2> SUFFICES ASSUME SetupInv, [Next]_vars PROVE SetupInv'
    OBVIOUS
  <2>1. CASE UNCHANGED vars
    BY <2>1 DEF vars, SetupInv, SetupSound, TypeOK, SetupReached, SelectedBeforeData,
             SetupFindsLinesFree, FormatKnown, Bookkeeping, Steps, Setup, Commands
  <2>2. CASE Next
    BY <2>2, OtherSetup, CommandSetup, UnsentSetup, AbortSetup, MbrSetup, OpenSetup, DirSetup, NextSetup,
       WriteSetup, EndSetup, RestartSetup DEF Next, Step
  <2> QED BY <2>1, <2>2
<1> QED BY <1>1, <1>2, PTL DEF Spec

(* From whatever state the boot ROM or an earlier start left the card and  *)
(* the controller in, emmc_reset leads to a selected card with both ends   *)
(* on the same data lines before any block is moved, and every command of  *)
(* it up to CMD7 finds the lines free; behind an error of CMD7, which      *)
(* emmc_do_issue_cmd does not see, no block is moved at all.               *)
THEOREM SetupAlwaysSound == Spec => []SetupSound
BY SetupInvariant, PTL DEF SetupInv

----------------------------------------------------------------------------
(* Places on the card.                                                     *)

(* The data clusters start behind the first FAT.                           *)
LEMMA Geometry ==
  /\ DataStart \in Nat /\ RESERVED + SECTORS_PER_FAT <= DataStart
  /\ CLUSTERS * SECTORS_PER_CLUSTER \in Nat
<1>1. NUM_FATS * SECTORS_PER_FAT >= SECTORS_PER_FAT
  <2>1. CASE NUM_FATS = 1
    BY <2>1, Constants
  <2>2. CASE 1 < NUM_FATS
    <3>1. 1 * SECTORS_PER_FAT + SECTORS_PER_FAT <= NUM_FATS * SECTORS_PER_FAT
      BY <2>2, Multiples, Constants
    <3> QED BY <3>1, Constants
  <2> QED BY <2>1, <2>2, Constants
<1>2. NUM_FATS * SECTORS_PER_FAT \in Nat /\ CLUSTERS * SECTORS_PER_CLUSTER \in Nat
  BY Constants
<1> QED BY <1>1, <1>2, Constants DEF DataStart

(* A sector of a cluster has no second name.                               *)
LEMMA OneSector ==
  ASSUME NEW c \in Int, NEW d \in Int, NEW o \in 0..(SECTORS_PER_CLUSTER - 1),
         NEW p \in 0..(SECTORS_PER_CLUSTER - 1)
  PROVE  /\ SectorOf(c, o) \in Int
         /\ SectorOf(c, o) = SectorOf(d, p) => c = d /\ o = p
<1> DEFINE a == c - FIRST_CLUSTER
           b == d - FIRST_CLUSTER
<1>1. a \in Int /\ b \in Int
  BY DEF FIRST_CLUSTER
<1>2. START \in Int /\ DataStart \in Int /\ SECTORS_PER_CLUSTER \in Nat \ {0}
  BY Constants, Geometry
<1>3. SectorOf(c, o) = START + DataStart + a * SECTORS_PER_CLUSTER + o
      /\ SectorOf(d, p) = START + DataStart + b * SECTORS_PER_CLUSTER + p
  BY DEF SectorOf
<1> HIDE DEF a, b
<1>4. a * SECTORS_PER_CLUSTER \in Int /\ b * SECTORS_PER_CLUSTER \in Int
  BY <1>1, <1>2
<1>5. SectorOf(c, o) = SectorOf(d, p) => a * SECTORS_PER_CLUSTER + o = b * SECTORS_PER_CLUSTER + p
  <2> DEFINE x == a * SECTORS_PER_CLUSTER
             y == b * SECTORS_PER_CLUSTER
  <2>1. x \in Int /\ y \in Int /\ o \in Int /\ p \in Int
    BY <1>2, <1>4
  <2>2. SectorOf(c, o) = START + DataStart + x + o /\ SectorOf(d, p) = START + DataStart + y + p
    BY <1>3
  <2> HIDE DEF x, y
  <2>3. SectorOf(c, o) = SectorOf(d, p) => x + o = y + p
    BY <1>2, <2>1, <2>2
  <2> QED BY <2>3 DEF x, y
<1>6. SectorOf(c, o) = SectorOf(d, p) => a = b /\ o = p
  BY <1>1, <1>2, <1>5, SameBlock
<1>7. a = b => c = d
  BY DEF a, b, FIRST_CLUSTER
<1> QED BY <1>2, <1>3, <1>4, <1>6, <1>7

(* Where a sector of the file lies: the place in its chain.                *)
LEMMA FileSectorAt ==
  ASSUME format \in Formats, NEW k \in 1..Len(format.file),
         NEW o \in 0..(SECTORS_PER_CLUSTER - 1)
  PROVE  /\ FileSector((k - 1) * SECTORS_PER_CLUSTER + o + 1) = SectorOf(format.file[k], o)
         /\ (k - 1) * SECTORS_PER_CLUSTER \in Nat
         /\ format.file[k] \in (FIRST_CLUSTER + 2)..(CLUSTERS + 1)
<1> DEFINE i == (k - 1) * SECTORS_PER_CLUSTER + o + 1
<1>1. Len(format.file) \in Nat /\ format.file \in Seq((FIRST_CLUSTER + 2)..(CLUSTERS + 1))
  BY FormatFacts, Constants DEF FileFits
<1>2. k \in Nat /\ k - 1 \in Nat /\ SECTORS_PER_CLUSTER \in Nat \ {0}
  BY <1>1, Constants
<1>3. /\ (k - 1) * SECTORS_PER_CLUSTER + o \in Nat
      /\ ((k - 1) * SECTORS_PER_CLUSTER + o) \div SECTORS_PER_CLUSTER = k - 1
      /\ ((k - 1) * SECTORS_PER_CLUSTER + o) % SECTORS_PER_CLUSTER = o
  BY <1>2, PartsOf
<1>4. (k - 1) * SECTORS_PER_CLUSTER \in Nat
  BY <1>2
<1>5. i - 1 = (k - 1) * SECTORS_PER_CLUSTER + o
  BY <1>4
<1>6. (i - 1) \div SECTORS_PER_CLUSTER + 1 = k /\ (i - 1) % SECTORS_PER_CLUSTER = o
  BY <1>2, <1>3, <1>5
<1> HIDE DEF i
<1>7. FileSector(i) = SectorOf(format.file[k], o)
  BY <1>6 DEF FileSector, SectorOf
<1>8. format.file[k] \in (FIRST_CLUSTER + 2)..(CLUSTERS + 1)
  BY <1>1, ElementOfSeq
<1> QED BY <1>4, <1>7, <1>8 DEF i

(* A cluster of the file is a number, behind the directory's.              *)
LEMMA FileClusterInt ==
  ASSUME format \in Formats, NEW k \in 1..Len(format.file)
  PROVE  format.file[k] \in Int /\ format.file[k] >= FIRST_CLUSTER
<1>1. Len(format.file) \in Nat /\ format.file \in Seq((FIRST_CLUSTER + 2)..(CLUSTERS + 1))
  BY FormatFacts, Constants DEF FileFits
<1>2. format.file[k] \in (FIRST_CLUSTER + 2)..(CLUSTERS + 1)
  BY <1>1, ElementOfSeq
<1> DEFINE c == format.file[k]
<1> HIDE DEF c
<1>3. c \in (FIRST_CLUSTER + 2)..(CLUSTERS + 1) => c \in Int /\ c >= FIRST_CLUSTER
  BY Constants DEF FIRST_CLUSTER
<1> QED BY <1>2, <1>3 DEF c

(* Every sector of the file has such a place.                              *)
LEMMA FilePlace ==
  ASSUME format \in Formats, NEW i \in 1..format.size
  PROVE  \E k \in 1..Len(format.file), o \in 0..(SECTORS_PER_CLUSTER - 1) :
           /\ i = (k - 1) * SECTORS_PER_CLUSTER + o + 1
           /\ FileSector(i) = SectorOf(format.file[k], o)
           /\ k = (i - 1) \div SECTORS_PER_CLUSTER + 1
<1> DEFINE n == SECTORS_PER_CLUSTER
           q == (i - 1) \div n
           o == (i - 1) % n
           len == Len(format.file)
<1>1. len \in Nat /\ format.size \in Nat /\ format.size <= len * n /\ n \in Nat \ {0}
  BY FormatFacts, Constants DEF FileFits
<1>2. i - 1 \in Nat
  BY <1>1
<1>3. q \in Nat /\ o \in 0..(n - 1) /\ i - 1 = q * n + o
  BY <1>1, <1>2, Parts
<1> HIDE DEF q, o, len
<1>4. q < len
  <2> SUFFICES ASSUME len <= q PROVE FALSE
    BY <1>1, <1>3
  <2>1. len * n <= q * n
    <3>1. CASE len = q
      BY <3>1, <1>1, <1>3
    <3>2. CASE len < q
      BY <3>2, <1>1, <1>3, Multiples
    <3> QED BY <3>1, <3>2, <1>1, <1>3
  <2>2. len * n \in Int /\ q * n \in Int
    BY <1>1, <1>3
  <2> QED BY <1>1, <1>3, <2>1, <2>2
<1> DEFINE k == q + 1
<1>5. k \in 1..len /\ k - 1 = q
  BY <1>1, <1>3, <1>4
<1>6. k \in 1..Len(format.file)
  BY <1>5 DEF len
<1>7. q * n \in Nat
  BY <1>1, <1>3
<1>8. i = (k - 1) * n + o + 1
  BY <1>2, <1>3, <1>5, <1>7
<1>9. FileSector(i) = SectorOf(format.file[k], o)
  <2> HIDE DEF k
  <2> QED BY <1>3, <1>6, <1>8, FileSectorAt
<1> QED BY <1>3, <1>6, <1>8, <1>9 DEF q

(* No two sectors of the file are the same.                                *)
LEMMA FileSectorsDiffer ==
  ASSUME format \in Formats, NEW i \in 1..format.size, NEW j \in 1..format.size,
         FileSector(i) = FileSector(j)
  PROVE  i = j
<1>1. PICK k \in 1..Len(format.file), o \in 0..(SECTORS_PER_CLUSTER - 1) :
           /\ i = (k - 1) * SECTORS_PER_CLUSTER + o + 1
           /\ FileSector(i) = SectorOf(format.file[k], o)
  BY FilePlace
<1>2. PICK l \in 1..Len(format.file), p \in 0..(SECTORS_PER_CLUSTER - 1) :
           /\ j = (l - 1) * SECTORS_PER_CLUSTER + p + 1
           /\ FileSector(j) = SectorOf(format.file[l], p)
  BY FilePlace
<1>3. format.file[k] \in Int /\ format.file[l] \in Int
  BY FileClusterInt
<1> DEFINE c == format.file[k]
           d == format.file[l]
<1>a. SectorOf(c, o) = SectorOf(d, p)
  BY <1>1, <1>2
<1>4. format.file[k] = format.file[l] /\ o = p
  <2> HIDE DEF c, d
  <2>1. c \in Int /\ d \in Int
    BY <1>3 DEF c, d
  <2>2. c = d /\ o = p
    BY <1>a, <2>1, OneSector
  <2> QED BY <2>2 DEF c, d
<1>5. k = l
  BY <1>4, FormatFacts DEF FileFits
<1> QED BY <1>1, <1>2, <1>4, <1>5

(* The file's data lie behind the FATs; cluster ERR lies before them all.  *)
LEMMA DataBehind ==
  ASSUME NEW c \in Int, NEW o \in 0..(SECTORS_PER_CLUSTER - 1)
  PROVE  c >= FIRST_CLUSTER => SectorOf(c, o) >= START + DataStart
<1> SUFFICES ASSUME c >= FIRST_CLUSTER PROVE SectorOf(c, o) >= START + DataStart
  OBVIOUS
<1> DEFINE x == (c - FIRST_CLUSTER) * SECTORS_PER_CLUSTER
<1>1. x \in Nat
  <2>1. c - FIRST_CLUSTER \in Nat
    BY DEF FIRST_CLUSTER
  <2> QED BY <2>1, Constants
<1>2. SectorOf(c, o) = START + DataStart + x + o
  BY DEF SectorOf
<1> HIDE DEF x
<1> QED BY <1>1, <1>2, Geometry, Constants

(* A sector of the FAT that does not hold a stray sector is as it was      *)
(* formatted.                                                              *)
LEMMA FatClean ==
  ASSUME TypeOK, format \in Formats,
         NEW b \in RESERVED..(RESERVED + sectors_per_fat - 1),
         START + b \in Sectors => ~Stray(START + b)
  PROVE  START + b \in Sectors /\ disk[START + b] = 0
<1>1. START + b \in Sectors /\ START + b < START + DataStart
  BY Geometry, Constants DEF Sectors
<1>2. disk[START + b] \in 0..IMAGE /\ IMAGE \in Nat
  BY <1>1, Constants DEF TypeOK
<1> SUFFICES ASSUME disk[START + b] # 0 PROVE FALSE
  BY <1>1
<1> DEFINE i == disk[START + b]
<1>3. i <= format.size /\ START + b = FileSector(i)
  BY <1>1 DEF Stray
<1>4. i \in 1..format.size
  BY <1>2, <1>3, FormatFacts DEF FileFits
<1> HIDE DEF i
<1>5. PICK k \in 1..Len(format.file), o \in 0..(SECTORS_PER_CLUSTER - 1) :
           FileSector(i) = SectorOf(format.file[k], o)
  BY <1>4, FilePlace
<1> DEFINE c == format.file[k]
<1>6. c \in Int /\ c >= FIRST_CLUSTER
  BY FileClusterInt
<1> HIDE DEF c
<1>7. SectorOf(c, o) >= START + DataStart
  BY <1>6, DataBehind
<1>8. START + b >= START + DataStart
  BY <1>3, <1>5, <1>7 DEF c
<1> QED BY <1>1, <1>8, Geometry, Constants

(* The FAT links the clusters of the file.                                 *)
LEMMA EntryOfFile ==
  ASSUME format \in Formats, NEW k \in 1..Len(format.file)
  PROVE  Entry(format.file[k]) = IF k = Len(format.file) THEN EOC ELSE format.file[k + 1]
<1> DEFINE c == format.file[k]
<1>1. c \in (FIRST_CLUSTER + 2)..(CLUSTERS + 1)
  <2>1. 0 \in 0..(SECTORS_PER_CLUSTER - 1)
    BY Constants
  <2> QED BY <2>1, FileSectorAt
<1>2. c \notin {0, 1}
  BY <1>1, Constants DEF FIRST_CLUSTER
<1>3. ~\E i \in 1..Len(format.dir) : format.dir[i] = c
  <2>1. CASE format.dir = <<FIRST_CLUSTER>>
    BY <1>1, <2>1, Constants DEF FIRST_CLUSTER
  <2>2. CASE format.dir = <<FIRST_CLUSTER, FIRST_CLUSTER + 1>>
    BY <1>1, <2>2, Constants DEF FIRST_CLUSTER
  <2> QED BY <2>1, <2>2, FormatFacts
<1>4. \E i \in 1..Len(format.file) : format.file[i] = c
  OBVIOUS
<1>5. Entry(c) = Following(format.file, c)
  BY <1>2, <1>3, <1>4 DEF Entry
<1>6. \A j \in 1..Len(format.file) : format.file[j] = c => j = k
  BY FormatFacts DEF FileFits
<1>7. (CHOOSE j \in 1..Len(format.file) : format.file[j] = c) = k
  BY <1>6
<1> QED BY <1>5, <1>7 DEF Following

(* One step along the chain from an undamaged FAT: the end of the chain,   *)
(* or of what can be reached; a read error; a read that never started; or  *)
(* the next cluster.                                                       *)
LEMMA NextOnTrack ==
  ASSUME TypeOK, format \in Formats, NEW k \in 1..Len(format.file), cluster = format.file[k],
         \A s \in Sectors : s < START + DataStart => ~Stray(s),
         NEW next \in Entries \cup {ERR}, NEW unnoticed, NextCluster(next, unnoticed)
  PROVE  \/ TooBig(cluster) /\ next = EOC /\ lost' = lost \cup unnoticed
         \/ "fat_error" \in lost' /\ next = ERR
         \/ line' = "inhibited" /\ "inhibited" \in lost'
         \/ /\ EntrySector(cluster) <= SECTORS_PER_FAT
            /\ next = Entry(cluster) /\ lost' = lost \cup unnoticed
<1>1. CASE TooBig(cluster)
  BY <1>1 DEF NextCluster, Lose
<1>2. CASE ~TooBig(cluster)
  <2>1. PICK err \in BOOLEAN, moved \in BOOLEAN :
          /\ Transfer(START + EntrySector(cluster), err, moved)
          /\ Lose(unnoticed \cup Unstarted(err, moved) \cup IF err THEN {"fat_error"} ELSE {})
          /\ fatbuf' = IF moved THEN EntrySector(cluster) ELSE fatbuf
          /\ next \in IF err THEN {ERR} ELSE EntryIn(fatbuf', cluster % ENTRIES_PER_SECTOR)
    BY <1>2 DEF NextCluster
  <2>2. CASE err
    BY <2>1, <2>2 DEF Lose
  <2>3. CASE ~err /\ ~moved
    <3>1. Unstarted(err, moved) = {"inhibited"} /\ line' = "inhibited"
      BY <2>1, <2>3, TransferFacts
    <3> QED BY <2>1, <3>1 DEF Lose
  <2>4. CASE ~err /\ moved
    <3>1. Unstarted(err, moved) = {}
      BY <2>1, <2>4, TransferFacts
    <3>2. lost' = lost \cup unnoticed
      BY <2>1, <2>4, <3>1 DEF Lose
    <3>3. 0 \in 0..(SECTORS_PER_CLUSTER - 1)
      BY Constants
    <3>4. cluster \in Nat
      <4>1. cluster \in (FIRST_CLUSTER + 2)..(CLUSTERS + 1)
        BY <3>3, FileSectorAt
      <4> QED BY <4>1, Constants DEF FIRST_CLUSTER
    <3> DEFINE n == ENTRIES_PER_SECTOR
               q == cluster \div n
               o == cluster % n
               b == EntrySector(cluster)
    <3>5. n \in Nat \ {0} /\ q \in Nat /\ o \in 0..(n - 1) /\ cluster = q * n + o
      BY <3>4, Parts, Constants
    <3>6. b = RESERVED + q
      BY DEF EntrySector
    <3>7. b <= SECTORS_PER_FAT
      <4> HIDE DEF q
      <4> QED BY <1>2, <3>4, <3>5, <3>6, Constants DEF TooBig
    <3>8. b \in RESERVED..(RESERVED + sectors_per_fat - 1) /\ b # -1 /\ b - RESERVED = q
      <4> HIDE DEF q, b
      <4> QED BY <3>5, <3>6, <3>7, Constants
    <3> HIDE DEF q, o, b
    <3>9. START + b \in Sectors => START + b < START + DataStart
      BY <3>8, Geometry, Constants
    <3>10. disk[START + b] = 0
      BY <3>8, <3>9, FatClean
    <3>11. fatbuf' = b
      BY <2>1, <2>4 DEF b
    <3>12. EntryIn(b, o) = {Entry((b - RESERVED) * n + o)}
      BY <3>8, <3>10 DEF EntryIn
    <3>13. (b - RESERVED) * n + o = cluster
      BY <3>5, <3>8
    <3>14. next = Entry(cluster)
      BY <2>1, <2>4, <3>11, <3>12, <3>13 DEF o
    <3> QED BY <3>2, <3>7, <3>14 DEF b
  <2> QED BY <2>2, <2>3, <2>4
<1> QED BY <1>1, <1>2

----------------------------------------------------------------------------
(* The walks: where the sectors of the image go.                           *)

(* What is stray changes only with the card's content.                     *)
LEMMA StrayFrame ==
  ASSUME UNCHANGED <<format, disk>>
  PROVE  \A s : Stray(s)' <=> Stray(s)
BY DEF Stray, FileSector

(* Steps before the directory is looked at.                                *)
LEMMA EarlyAt ==
  ASSUME SetupInv,
         \/ ResetController \/ Command \/ Unsent \/ CheckSdio \/ ResetCommand
         \/ CardBusy \/ CardReady \/ ReadMbr \/ ReadScratch
  PROVE  /\ at \in Setup \cup {"mbr", "scratch"}
         /\ at' \notin InDir \cup InFile
         /\ UNCHANGED <<format, disk, walk, boots>>
         /\ lost = {} /\ lost' \subseteq {"inhibited"}
         /\ at' = "done" => result' = "error"
<1> USE DEF SetupInv, SetupSound
<1>1. DOMAIN Commands = Names /\ (DOMAIN Commands)' = Names
  BY CommandNames
<1>2. CASE ResetController \/ CheckSdio \/ ResetCommand \/ CardBusy \/ CardReady
  <2>1. at \in {"reset", "CMD5", "SRST_CMD", "wait"}
        /\ UNCHANGED <<format, disk, walk, boots, lost>>
    BY <1>2 DEF ResetController, CheckSdio, ResetCommand, CardBusy, CardReady
  <2>2. at' \in {"CMD0", "SRST_CMD", "ACMD41", "wait", "CMD2"} \/ (at' = "done" /\ result' = "error")
    BY <1>2 DEF ResetController, CheckSdio, ResetCommand, CardBusy, CardReady, Goto, Return
  <2> QED BY <1>1, <2>1, <2>2 DEF Bookkeeping, Setup, Names, InDir, InFile
<1>3. CASE Command
  <2>1. at \in Names /\ UNCHANGED <<format, disk, walk, boots, lost>>
    BY <1>1, <1>3 DEF Command
  <2>2. Commands[at].next \notin InDir \cup InFile \cup {"done"}
    BY <2>1, CommandTable DEF Names, InDir, InFile
  <2>3. at' = Commands[at].next \/ (at' = "done" /\ result' = "error")
    BY <1>3 DEF Command, Goto, Return
  <2> QED BY <1>1, <2>1, <2>2, <2>3 DEF Bookkeeping, Setup, InDir, InFile
<1>6. CASE Unsent
  <2>1. at \in Names /\ UNCHANGED <<format, disk, walk, boots, lost>>
    BY <1>1, <1>6 DEF Unsent
  <2>2. Commands[at].next \notin InDir \cup InFile \cup {"done"}
    BY <2>1, CommandTable DEF Names, InDir, InFile
  <2>3. at' \in {Commands[at].next, "mbr"} \/ (at' = "done" /\ result' = "error")
    BY <1>6 DEF Unsent, Goto, Return
  <2> QED BY <1>1, <2>1, <2>2, <2>3 DEF Bookkeeping, Setup, InDir, InFile
<1>4. CASE ReadMbr
  <2>1. PICK err \in BOOLEAN, moved \in BOOLEAN :
            /\ Transfer(0, err, moved) /\ Lose(Unstarted(err, moved))
            /\ IF moved THEN Goto("scratch") ELSE Return("error")
    BY <1>4 DEF ReadMbr
  <2>2. at = "mbr" /\ UNCHANGED <<format, disk, walk, boots>> /\ lost = {}
    BY <1>4 DEF ReadMbr, Bookkeeping
  <2> QED BY <2>1, <2>2, TransferFacts DEF Lose, Goto, Return, InDir, InFile
<1>5. CASE ReadScratch
  BY <1>5 DEF ReadScratch, Bookkeeping, Goto, InDir, InFile
<1> QED BY <1>2, <1>3, <1>4, <1>5, <1>6

(* Until the directory is looked at nothing moves on the card.             *)
LEMMA EarlyWalk ==
  ASSUME SetupInv, WalkInv,
         \/ ResetController \/ Command \/ Unsent \/ CheckSdio \/ ResetCommand
         \/ CardBusy \/ CardReady \/ ReadMbr \/ ReadScratch
  PROVE  WalkInv'
<1>1. /\ at \in Setup \cup {"mbr", "scratch"}
      /\ at' \notin InDir \cup InFile
      /\ UNCHANGED <<format, disk, walk, boots>>
      /\ lost = {} /\ lost' \subseteq {"inhibited"}
  BY EarlyAt
<1>2. at \notin InFile \cup {"done", "abort"}
  BY <1>1, CommandNames DEF Setup, Names, InFile
<1>3. src' = 1 /\ \A s \in Sectors : ~Stray(s)'
  BY <1>1, <1>2, StrayFrame DEF WalkInv, CleanStart, walk
<1>4. CleanStart' /\ StrayOnlyWhenLost'
  BY <1>3 DEF CleanStart, StrayOnlyWhenLost
<1>5. DirWalk' /\ FileWalk' /\ FirstSectorFound'
  BY <1>1 DEF DirWalk, FileWalk, FirstSectorFound, InDir, InFile
<1> QED BY <1>4, <1>5 DEF WalkInv

(* A card that is looked at for the first time has no stray sector.        *)
LEMMA OpenWalk ==
  ASSUME SetupInv, WalkInv, Open
  PROVE  WalkInv'
<1> USE DEF SetupInv, SetupSound, WalkInv
<1>1. /\ TypeOK /\ at = "open" /\ lost = {} /\ sector = 0
      /\ UNCHANGED <<disk, sector, src>>
      /\ src = 1 /\ \A s \in Sectors : ~Stray(s)
  BY DEF Open, Bookkeeping, CleanStart, InFile
<1>2. PICK err \in BOOLEAN, moved \in BOOLEAN :
        /\ Transfer(START, err, moved)
        /\ Lose(Unstarted(err, moved))
        /\ IF ~err /\ moved
            THEN /\ format' \in IF format = Unread THEN Formats ELSE {format}
                 /\ cluster' = FIRST_CLUSTER
                 /\ Goto("dir")
            ELSE /\ Return(IF err THEN "error" ELSE "ok")
                 /\ UNCHANGED <<format, cluster>>
  BY DEF Open
<1>3. format = Unread \/ format' = format
  BY <1>2
<1>4. \A s \in Sectors : ~Stray(s)'
  <2>1. CASE format' = format
    BY <1>1, <2>1, StrayFrame
  <2>2. CASE format = Unread
    BY <1>1, <2>2 DEF FormatKnown, Stray
  <2> QED BY <1>3, <2>1, <2>2
<1>5. lost' \subseteq {"inhibited"} /\ (at' # "done" => lost' = {})
  BY <1>1, <1>2, TransferFacts DEF Lose, Return
<1>6. (at' = "dir" /\ cluster' = FIRST_CLUSTER) \/ at' = "done"
  BY <1>2 DEF Goto, Return
<1>7. CleanStart' /\ StrayOnlyWhenLost'
  BY <1>1, <1>4 DEF CleanStart, StrayOnlyWhenLost
<1>8. DirWalk'
  BY <1>1, <1>5, <1>6 DEF DirWalk, InDir
<1>9. FileWalk' /\ FirstSectorFound'
  BY <1>5, <1>6 DEF FileWalk, FirstSectorFound, InFile
<1> QED BY <1>7, <1>8, <1>9

(* The first sector of the directory: when it is read and does not match,  *)
(* it does not have the file.                                              *)
LEMMA FirstSlots ==
  ASSUME format \in Formats, cluster = FIRST_CLUSTER, sector = 0, ~Match(DirSlots)
  PROVE  NotInFirstSector
<1> DEFINE total == Len(format.dir) * SECTORS_PER_CLUSTER * DENTRIES
           i == {j \in 1..Len(format.dir) : format.dir[j] = cluster}
           first == SubSeq(format.slots, 1, DENTRIES)
<1>1. i = {1} /\ Len(format.dir) \in Nat \ {0}
  <2>1. CASE format.dir = <<FIRST_CLUSTER>>
    BY <2>1 DEF FIRST_CLUSTER
  <2>2. CASE format.dir = <<FIRST_CLUSTER, FIRST_CLUSTER + 1>>
    BY <2>2 DEF FIRST_CLUSTER
  <2> QED BY <2>1, <2>2, FormatFacts
<1>2. Max({1}) = 1
  BY MaxOfTwo
<1>3. DirSlots = first
  <2>1. ((Max(i) - 1) * SECTORS_PER_CLUSTER + sector) * DENTRIES = 0
    <3>1. Max(i) = 1
      BY <1>1, <1>2
    <3>2. \A m : m = 1 => ((m - 1) * SECTORS_PER_CLUSTER + 0) * DENTRIES = 0
      BY Constants
    <3> HIDE DEF i
    <3> QED BY <3>1, <3>2
  <2>2. i # {}
    BY <1>1
  <2>3. 0 + 1 = 1 /\ 0 + DENTRIES = DENTRIES
    BY Constants
  <2> QED BY <2>1, <2>2, <2>3 DEF DirSlots
<1>4. total \in Nat /\ DENTRIES <= total
  <2> DEFINE l == Len(format.dir)
             m == l * SECTORS_PER_CLUSTER
  <2>1. m \in Nat /\ m >= 1
    <3> HIDE DEF l
    <3>1. l \in Nat \ {0}
      BY <1>1 DEF l
    <3> QED BY <3>1, Constants
  <2> HIDE DEF m
  <2>2. m * DENTRIES \in Nat /\ DENTRIES <= m * DENTRIES
    <3>1. CASE m = 1
      BY <3>1, Constants
    <3>2. CASE 1 < m
      <4>1. 1 * DENTRIES + DENTRIES <= m * DENTRIES
        BY <3>2, <2>1, Multiples, Constants
      <4> QED BY <4>1, <2>1, Constants
    <3> QED BY <3>1, <3>2, <2>1
  <2> QED BY <2>2 DEF m
<1>5. format.slots \in Layouts(total)
  BY FormatFacts
<1> HIDE DEF total
<1>6. format.slots \in [1..total -> {"other", "lfn", "target", "free"}]
  BY <1>5 DEF Layouts
<1>7. \A j \in 2..total : format.slots[j] = "target" => format.slots[j - 1] = "lfn"
  <2> SUFFICES ASSUME NEW j \in 2..total, format.slots[j] = "target"
               PROVE  format.slots[j - 1] = "lfn"
    OBVIOUS
  <2>1. PICK n \in 0..(total - 2) :
          format.slots = [k \in 1..total |-> CASE k <= n -> "other" [] k = n + 1 -> "lfn"
                            [] k = n + 2 -> "target" [] OTHER -> "free"]
    <3>1. \A slot \in {"free", "other"} : format.slots # [k \in 1..total |-> slot]
      BY <1>4
    <3> QED BY <1>5, <3>1 DEF Layouts
  <2>2. j \in 1..total /\ j - 1 \in 1..total /\ n \in Nat
    BY <1>4
  <2>3. j = n + 2
    BY <2>1, <2>2
  <2>4. format.slots[j - 1] = CASE j - 1 <= n -> "other" [] j - 1 = n + 1 -> "lfn"
                            [] j - 1 = n + 2 -> "target" [] OTHER -> "free"
    BY <2>1, <2>2
  <2> QED BY <2>2, <2>3, <2>4
<1>8. format.slots \in Seq({"other", "lfn", "target", "free"}) /\ Len(format.slots) = total
  BY <1>4, <1>6, FunctionIsSeq
<1>9. Len(first) = DENTRIES /\ \A j \in 1..DENTRIES : first[j] = format.slots[j]
  BY <1>4, <1>8, Constants
<1> HIDE DEF first
<1> SUFFICES ASSUME NEW j \in 2..DENTRIES, format.slots[j] = "target" PROVE FALSE
  BY DEF NotInFirstSector
<1>10. format.slots[j - 1] = "lfn" /\ j \in 1..DENTRIES /\ j - 1 \in 1..DENTRIES
  BY <1>4, <1>7, Constants
<1>11. Match(first)
  BY <1>9, <1>10 DEF Match
<1> QED BY <1>3, <1>11

(* A walk that took an error for a cluster finds no slots.                 *)
LEMMA DirNotErr ==
  ASSUME format \in Formats, cluster = ERR
  PROVE  ~Match(DirSlots)
<1>1. {j \in 1..Len(format.dir) : format.dir[j] = cluster} = {}
  <2>1. CASE format.dir = <<FIRST_CLUSTER>>
    BY <2>1 DEF FIRST_CLUSTER, ERR
  <2>2. CASE format.dir = <<FIRST_CLUSTER, FIRST_CLUSTER + 1>>
    BY <2>2 DEF FIRST_CLUSTER, ERR
  <2> QED BY <2>1, <2>2, FormatFacts
<1>2. DirSlots = << >>
  BY <1>1 DEF DirSlots
<1> QED BY <1>2 DEF Match

(* The file is found where it begins, or its first sector does not have    *)
(* it.                                                                     *)
LEMMA DirWalkStep ==
  ASSUME SetupInv, WalkInv, ReadDir
  PROVE  WalkInv'
<1> USE DEF SetupInv, SetupSound, WalkInv
<1>1. /\ TypeOK /\ at = "dir" /\ format \in Formats
      /\ UNCHANGED <<format, disk, src>>
      /\ src = 1 /\ \A s \in Sectors : ~Stray(s)
      /\ "not_found" \notin lost /\ ("fat_error" \in lost => cluster = ERR)
      /\ \/ cluster = FIRST_CLUSTER /\ sector = 0
         \/ NotInFirstSector
         \/ "inhibited" \in lost
  BY DEF ReadDir, FormatKnown, InDir, InFile, CleanStart, DirWalk
<1>2. PICK err \in BOOLEAN, moved \in BOOLEAN :
        LET slots == IF moved THEN DirSlots ELSE << >> IN
        /\ Transfer(SectorOf(cluster, sector), err, moved)
        /\ \/ /\ err
              /\ Return("error") /\ UNCHANGED <<cluster, sector, left, lost>>
           \/ /\ ~err /\ Match(slots)
              /\ cluster' = format.file[1] /\ left' = format.size /\ sector' = 0
              /\ Goto("file") /\ UNCHANGED lost
           \/ /\ ~err /\ ~Match(slots) /\ ~EndMark(slots)
              /\ sector' = (sector + 1) % SECTORS_PER_CLUSTER
              /\ Goto(IF sector' = 0 THEN "dirnext" ELSE "dir")
              /\ Lose(Unstarted(err, moved)) /\ UNCHANGED <<cluster, left>>
           \/ /\ ~err /\ ~Match(slots)
              /\ NotFound
              /\ Lose(Unstarted(err, moved) \cup {"not_found"})
  BY DEF ReadDir
<1> DEFINE slots == IF moved THEN DirSlots ELSE << >>
<1>3. Unstarted(err, moved) \subseteq {"inhibited"}
      /\ (~err /\ ~moved => "inhibited" \in Unstarted(err, moved))
  BY <1>1, <1>2, TransferFacts
<1>4. ~err /\ ~Match(slots) =>
        NotInFirstSector \/ "inhibited" \in lost \/ "inhibited" \in Unstarted(err, moved)
  BY <1>1, <1>3, FirstSlots
<1>5. Match(slots) => moved /\ cluster # ERR
  BY <1>1, DirNotErr DEF Match
<1>6. NotInFirstSector' <=> NotInFirstSector
  BY <1>1 DEF NotInFirstSector
<1>7. \A s \in Sectors : ~Stray(s)'
  BY <1>1, StrayFrame
<1>8. CleanStart' /\ StrayOnlyWhenLost'
  BY <1>1, <1>7 DEF CleanStart, StrayOnlyWhenLost
<1> HIDE DEF slots
<1>9. CASE err /\ Return("error") /\ UNCHANGED lost
  BY <1>1, <1>8, <1>9 DEF Return, DirWalk, FileWalk, FirstSectorFound, InDir, InFile
<1>10. CASE /\ Match(slots) /\ UNCHANGED lost
            /\ cluster' = format.file[1] /\ left' = format.size /\ sector' = 0 /\ Goto("file")
  <2>1. at' = "file" /\ "fat_error" \notin lost' /\ "not_found" \notin lost'
    BY <1>1, <1>5, <1>10 DEF Goto
  <2>2. Len(format.file) \in Nat \ {0} /\ format.size \in Nat \ {0}
    BY <1>1, FormatFacts, Constants DEF FileFits
  <2>3. 0 * SECTORS_PER_CLUSTER = 0
    BY Constants
  <2>4. OnTrack(1)'
    BY <1>1, <1>10, <2>1, <2>2, <2>3 DEF OnTrack
  <2>5. FileWalk'
    BY <1>1, <2>1, <2>2, <2>4 DEF FileWalk
  <2>6. DirWalk' /\ FirstSectorFound'
    BY <2>1 DEF DirWalk, FirstSectorFound, InDir
  <2> QED BY <1>8, <2>5, <2>6
<1>11. CASE /\ ~err /\ ~Match(slots)
            /\ Goto(IF sector' = 0 THEN "dirnext" ELSE "dir")
            /\ Lose(Unstarted(err, moved)) /\ UNCHANGED <<cluster, left>>
  <2>1. at' \in InDir /\ (at' = "dirnext" => sector' = 0) /\ lost' = lost \cup Unstarted(err, moved)
    BY <1>11 DEF Goto, Lose, InDir
  <2>2. "not_found" \notin lost' /\ ("fat_error" \in lost' => cluster' = ERR)
    BY <1>1, <1>3, <1>11, <2>1
  <2>3. NotInFirstSector' \/ "inhibited" \in lost'
    BY <1>4, <1>6, <1>11, <2>1
  <2>4. DirWalk'
    BY <2>1, <2>2, <2>3 DEF DirWalk
  <2>5. FileWalk' /\ FirstSectorFound'
    BY <2>1, <2>2 DEF FileWalk, FirstSectorFound, InDir, InFile
  <2> QED BY <1>8, <2>4, <2>5
<1>12. CASE /\ ~err /\ ~Match(slots) /\ NotFound
            /\ Lose(Unstarted(err, moved) \cup {"not_found"})
  <2>1. at' = "file" /\ lost' = lost \cup Unstarted(err, moved) \cup {"not_found"}
    BY <1>12 DEF NotFound, Goto, Lose
  <2>2. NotInFirstSector' \/ "inhibited" \in lost'
    BY <1>4, <1>6, <1>12, <2>1
  <2>3. FirstSectorFound'
    BY <2>2 DEF FirstSectorFound, NotInFirstSector
  <2>4. DirWalk' /\ FileWalk'
    BY <2>1 DEF DirWalk, FileWalk, InDir, InFile
  <2> QED BY <1>8, <2>3, <2>4
<1> QED BY <1>2, <1>9, <1>10, <1>11, <1>12 DEF slots

(* The directory goes on in its next cluster, or the name is absent.       *)
LEMMA NextDirWalk ==
  ASSUME SetupInv, WalkInv, NextDir \/ EndDir
  PROVE  WalkInv'
<1> USE DEF SetupInv, SetupSound, WalkInv
<1>1. /\ TypeOK /\ at = "dirnext" /\ sector = 0
      /\ UNCHANGED <<format, disk, src>>
      /\ src = 1 /\ \A s \in Sectors : ~Stray(s)
      /\ "not_found" \notin lost /\ ("fat_error" \in lost => cluster = ERR)
      /\ NotInFirstSector \/ "inhibited" \in lost
  BY DEF NextDir, EndDir, InDir, InFile, CleanStart, DirWalk
<1>2. NotInFirstSector' <=> NotInFirstSector
  BY <1>1 DEF NotInFirstSector
<1>3. \A s \in Sectors : ~Stray(s)'
  BY <1>1, StrayFrame
<1>4. CleanStart' /\ StrayOnlyWhenLost'
  BY <1>1, <1>3 DEF CleanStart, StrayOnlyWhenLost
<1>5. CASE NextDir
  <2>1. PICK next \in Entries \cup {ERR} :
          /\ next # EOC /\ NextCluster(next, {})
          /\ cluster' = next /\ UNCHANGED <<sector, left>> /\ Goto("dir")
    BY <1>5 DEF NextDir
  <2>2. PICK more \in SUBSET {"inhibited", "fat_error"} :
          lost' = lost \cup {} \cup more /\ ("fat_error" \in more => next = ERR)
    BY <1>1, <2>1, NextClusterFacts
  <2>3. cluster # ERR
    BY <2>1 DEF NextCluster, TooBig, ERR
  <2>4. at' = "dir" /\ "not_found" \notin lost' /\ ("fat_error" \in lost' => cluster' = ERR)
    BY <1>1, <2>1, <2>2, <2>3 DEF Goto
  <2>5. NotInFirstSector' \/ "inhibited" \in lost'
    BY <1>1, <1>2, <2>2
  <2>6. DirWalk'
    BY <2>4, <2>5 DEF DirWalk
  <2>7. FileWalk' /\ FirstSectorFound'
    BY <2>4 DEF FileWalk, FirstSectorFound, InFile
  <2> QED BY <1>4, <2>6, <2>7
<1>6. CASE EndDir
  <2>1. EOC \in Entries \cup {ERR} /\ NextCluster(EOC, {"not_found"}) /\ at' = "file"
    BY <1>6 DEF EndDir, NotFound, Goto, Entries
  <2>2. PICK more \in SUBSET {"inhibited", "fat_error"} : lost' = lost \cup {"not_found"} \cup more
    BY <1>1, <2>1, NextClusterFacts
  <2>3. FirstSectorFound'
    BY <1>1, <1>2, <2>2 DEF FirstSectorFound, NotInFirstSector
  <2>4. DirWalk' /\ FileWalk'
    BY <2>1, <2>2 DEF DirWalk, FileWalk, InDir, InFile
  <2> QED BY <1>4, <2>3, <2>4
<1> QED BY <1>5, <1>6

(* The walk along the file as an arithmetic of its place: what OnTrack     *)
(* says of the sector written next.                                        *)
LEMMA TrackFacts ==
  ASSUME SetupInv, format \in Formats, at = "file", NEW k \in 1..Len(format.file), OnTrack(k)
  PROVE  /\ k \in Nat /\ (k - 1) * SECTORS_PER_CLUSTER \in Nat
         /\ k * SECTORS_PER_CLUSTER = (k - 1) * SECTORS_PER_CLUSTER + SECTORS_PER_CLUSTER
         /\ src \in 1..format.size
         /\ SectorOf(cluster, sector) = FileSector(src)
<1> USE DEF SetupInv, SetupSound
<1>1. sector \in 0..(SECTORS_PER_CLUSTER - 1) /\ left \in Nat
  BY InClusterFacts DEF TypeOK
<1>2. Len(format.file) \in Nat /\ format.size \in Nat
  BY FormatFacts, Constants DEF FileFits
<1>3. k \in Nat /\ (k - 1) * SECTORS_PER_CLUSTER \in Nat
  BY <1>1, <1>2, FileSectorAt
<1>4. k * SECTORS_PER_CLUSTER = (k - 1) * SECTORS_PER_CLUSTER + SECTORS_PER_CLUSTER
  BY <1>3, Constants
<1>5. /\ cluster = format.file[k]
      /\ src = (k - 1) * SECTORS_PER_CLUSTER + sector + 1
      /\ left = format.size - (k - 1) * SECTORS_PER_CLUSTER
      /\ sector < left
  BY DEF OnTrack
<1>6. SectorOf(cluster, sector) = FileSector(src)
  BY <1>1, <1>5, FileSectorAt
<1>7. src \in 1..format.size
  <2> DEFINE x == (k - 1) * SECTORS_PER_CLUSTER
  <2>1. x \in Nat /\ src = x + sector + 1 /\ left = format.size - x
    BY <1>3, <1>5
  <2> HIDE DEF x
  <2> QED BY <1>1, <1>2, <1>5, <2>1, Constants
<1> QED BY <1>3, <1>4, <1>6, <1>7

(* One sector forward.                                                     *)
LEMMA TrackForward ==
  ASSUME SetupInv, format \in Formats, at = "file", NEW k \in 1..Len(format.file), OnTrack(k),
         UNCHANGED <<format, cluster>>, src' = src + 1,
         \/ /\ sector + 1 < InCluster /\ sector' = sector + 1
            /\ at' = "file" /\ UNCHANGED left
         \/ /\ sector + 1 = InCluster /\ sector' = 0
            /\ at' = "filenext" /\ left' = left - InCluster
  PROVE  OnTrack(k)'
<1> USE DEF SetupInv, SetupSound
<1> DEFINE x == (k - 1) * SECTORS_PER_CLUSTER
           y == k * SECTORS_PER_CLUSTER
<1>1. x \in Nat /\ y = x + SECTORS_PER_CLUSTER
  BY TrackFacts
<1>2. /\ sector \in 0..(SECTORS_PER_CLUSTER - 1) /\ SECTORS_PER_CLUSTER \in Nat \ {0}
      /\ format.size \in Nat
      /\ left \in Nat /\ InCluster \in Nat /\ InCluster <= left
      /\ InCluster <= SECTORS_PER_CLUSTER
      /\ InCluster = left \/ InCluster = SECTORS_PER_CLUSTER
  BY InClusterFacts, FormatFacts, Constants DEF TypeOK, FileFits
<1>3. src = x + sector + 1 /\ left = format.size - x
  BY DEF OnTrack
<1>4. /\ k \in 1..Len(format.file)' /\ cluster' = format'.file[k]
      /\ \A j \in 1..(k - 1) : EntrySector(format'.file[j]) <= SECTORS_PER_FAT
  BY DEF OnTrack
<1> HIDE DEF x, y
<1>5. at' = "file" =>
        /\ src' = x + sector' + 1
        /\ left' = format'.size - x
        /\ sector' < left'
  BY <1>1, <1>2, <1>3
<1>6. at' = "filenext" =>
        /\ sector' = 0
        /\ src' <= y + 1
        /\ left' = format'.size - (src' - 1)
        /\ left' = 0 \/ src' = y + 1
  BY <1>1, <1>2, <1>3
<1> QED BY <1>4, <1>5, <1>6 DEF OnTrack, x, y

(* A sector that is written is the file's, or one of the losses was        *)
(* recorded.                                                               *)
LEMMA WriteWalk ==
  ASSUME SetupInv, WalkInv, Write
  PROVE  WalkInv'
<1> USE DEF SetupInv, SetupSound, WalkInv
<1>1. /\ TypeOK /\ at = "file" /\ format \in Formats
      /\ UNCHANGED <<format, cluster>>
  BY DEF Write, FormatKnown, InFile
<1> DEFINE t == SectorOf(cluster, sector)
<1>2. PICK err \in BOOLEAN, moved \in BOOLEAN :
        /\ Transfer(t, err, moved)
        /\ Lose(Unstarted(err, moved))
        /\ disk' = IF moved THEN [disk EXCEPT ![t] = src] ELSE disk
        /\ \/ err /\ Return("error") /\ UNCHANGED <<sector, left, src>>
           \/ /\ ~err /\ sector + 1 < InCluster
              /\ sector' = sector + 1 /\ src' = src + 1
              /\ Goto("file") /\ UNCHANGED left
           \/ /\ ~err /\ sector + 1 = InCluster
              /\ sector' = 0 /\ src' = src + 1 /\ left' = left - InCluster
              /\ Goto("filenext")
  BY DEF Write
<1>3. /\ lost' = lost \cup Unstarted(err, moved) /\ Unstarted(err, moved) \subseteq {"inhibited"}
      /\ line = "inhibited" => line' = "inhibited" /\ ~moved
      /\ moved => t \in Sectors
  BY <1>1, <1>2, TransferFacts DEF Lose
<1>4. \/ "not_found" \in lost
      \/ "fat_error" \in lost /\ cluster = ERR
      \/ "inhibited" \in lost
      \/ "fat_error" \notin lost /\ \E k \in 1..Len(format.file) : OnTrack(k)
  BY <1>1 DEF FileWalk, InFile
<1>5. at' \in {"file", "filenext", "done"}
  BY <1>2 DEF Goto, Return
<1>6. StrayOnlyWhenLost'
  <2> SUFFICES ASSUME NEW s \in Sectors, Stray(s)'
               PROVE  \/ "not_found" \in lost'
                      \/ /\ "fat_error" \in lost'
                         /\ \E k \in 0..(SECTORS_PER_CLUSTER - 1) : s = SectorOf(ERR, k)
    BY DEF StrayOnlyWhenLost, SectorOf
  <2>1. disk \in [Sectors -> 0..IMAGE] /\ sector \in 0..(SECTORS_PER_CLUSTER - 1)
    BY <1>1 DEF TypeOK
  <2>2. CASE disk'[s] = disk[s]
    <3>1. Stray(s)
      BY <1>1, <2>2 DEF Stray, FileSector
    <3> QED BY <1>3, <3>1 DEF StrayOnlyWhenLost
  <2>3. CASE disk'[s] # disk[s]
    <3>1. moved /\ s = t /\ disk'[s] = src
      BY <1>2, <2>1, <2>3
    <3>2. CASE "not_found" \in lost
      BY <1>3, <3>2
    <3>3. CASE "fat_error" \in lost /\ cluster = ERR
      BY <1>3, <2>1, <3>1, <3>3
    <3>4. CASE "inhibited" \in lost
      BY <1>3, <3>1, <3>4 DEF Bookkeeping
    <3>5. CASE \E k \in 1..Len(format.file) : OnTrack(k)
      <4> PICK k \in 1..Len(format.file) : OnTrack(k)
        BY <3>5
      <4>1. src \in 1..format.size /\ t = FileSector(src) /\ format.size \in Nat
        BY <1>1, TrackFacts, FormatFacts DEF FileFits
      <4>2. ~Stray(s)'
        BY <1>1, <3>1, <4>1 DEF Stray, FileSector
      <4> QED BY <4>2
    <3> QED BY <1>4, <3>2, <3>3, <3>4, <3>5
  <2> QED BY <2>2, <2>3
<1>7. FileWalk'
  <2> SUFFICES ASSUME at' \in InFile
               PROVE  \/ "not_found" \in lost'
                      \/ "fat_error" \in lost' /\ cluster' = ERR
                      \/ "inhibited" \in lost'
                      \/ "fat_error" \notin lost' /\ \E k \in 1..Len(format.file) : OnTrack(k)'
    BY <1>1 DEF FileWalk
  <2>1. CASE "fat_error" \notin lost /\ \E k \in 1..Len(format.file) : OnTrack(k)
    <3> PICK k \in 1..Len(format.file) : OnTrack(k)
      BY <2>1
    <3>1. \/ /\ sector + 1 < InCluster /\ sector' = sector + 1 /\ src' = src + 1
             /\ at' = "file" /\ UNCHANGED left
          \/ /\ sector + 1 = InCluster /\ sector' = 0 /\ src' = src + 1
             /\ at' = "filenext" /\ left' = left - InCluster
      BY <1>2 DEF Goto, Return, InFile
    <3>2. OnTrack(k)'
      BY <1>1, <3>1, TrackForward
    <3>3. "fat_error" \notin lost'
      BY <1>3, <2>1
    <3> QED BY <3>2, <3>3
  <2> QED BY <1>1, <1>3, <1>4, <2>1
<1>8. CleanStart' /\ DirWalk'
  BY <1>5 DEF CleanStart, DirWalk, InDir, InFile
<1>9. FirstSectorFound'
  BY <1>1, <1>3 DEF FirstSectorFound
<1> QED BY <1>6, <1>7, <1>8, <1>9

(* One cluster forward: the size of the file says that there is one.       *)
LEMMA TrackNext ==
  ASSUME SetupInv, format \in Formats, at = "filenext", NEW k \in 1..Len(format.file), OnTrack(k),
         k # Len(format.file), EntrySector(cluster) <= SECTORS_PER_FAT,
         UNCHANGED <<format, sector, left, src>>, cluster' = format.file[k + 1], at' = "file"
  PROVE  k + 1 \in 1..Len(format.file) /\ OnTrack(k + 1)'
<1> USE DEF SetupInv, SetupSound
<1> DEFINE len == Len(format.file)
           n == SECTORS_PER_CLUSTER
           y == k * n
           z == (len - 1) * n
<1>a. len \in Nat \ {0} /\ n \in Nat \ {0} /\ format.size \in Nat /\ z + 1 <= format.size
  BY FormatFacts, Constants DEF FileFits
<1>b. k \in Nat /\ k < len /\ len - 1 \in Nat
  <2> HIDE DEF len
  <2> QED BY <1>a DEF len
<1>c. y \in Nat /\ z \in Nat
  <2> HIDE DEF len
  <2> QED BY <1>a, <1>b
<1>1. len \in Nat /\ k \in Nat /\ k < len /\ n \in Nat \ {0} /\ y \in Nat /\ z \in Nat
      /\ format.size \in Nat /\ z + 1 <= format.size
  BY <1>a, <1>b, <1>c
<1>2. k + 1 \in 1..len /\ (k + 1) - 1 = k
  BY <1>1
<1>3. y <= z
  <2> DEFINE m == len - 1
  <2>0. m \in Nat /\ k <= m /\ z = m * n
    BY <1>1, <1>b
  <2> HIDE DEF m, z
  <2>1. CASE k = m
    BY <1>1, <2>0, <2>1
  <2>2. CASE k < m
    BY <1>1, <2>0, <2>2, Multiples
  <2> QED BY <1>1, <2>0, <2>1, <2>2
<1>4. /\ sector = 0 /\ src <= y + 1
      /\ left = format.size - (src - 1)
      /\ left = 0 \/ src = y + 1
  BY DEF OnTrack
<1>5. src \in Nat
  BY Constants DEF TypeOK
<1> HIDE DEF y, z
<1>6. src = y + sector + 1 /\ left = format.size - y /\ sector < left
  BY <1>1, <1>3, <1>4, <1>5
<1>7. \A j \in 1..k : EntrySector(format.file[j]) <= SECTORS_PER_FAT
  <2> SUFFICES ASSUME NEW j \in 1..k PROVE EntrySector(format.file[j]) <= SECTORS_PER_FAT
    OBVIOUS
  <2>1. j = k \/ j \in 1..(k - 1)
    BY <1>1
  <2> QED BY <2>1 DEF OnTrack
<1>8. src' = ((k + 1) - 1) * n + sector' + 1 /\ left' = format'.size - ((k + 1) - 1) * n
  BY <1>2, <1>6 DEF y
<1> HIDE DEF len
<1> QED BY <1>2, <1>6, <1>7, <1>8 DEF OnTrack, len

(* The walk stays on the file's chain, ends, or a loss is recorded.        *)
LEMMA NextFileWalk ==
  ASSUME SetupInv, WalkInv, NextFile
  PROVE  WalkInv'
<1> USE DEF SetupInv, SetupSound, WalkInv
<1>1. /\ TypeOK /\ at = "filenext" /\ format \in Formats
      /\ UNCHANGED <<format, disk, sector, left, src>>
  BY DEF NextFile, FormatKnown, InFile
<1>2. PICK next \in Entries \cup {ERR} :
        /\ NextCluster(next, {})
        /\ IF next = EOC THEN Return("ok") ELSE Goto("file")
        /\ cluster' = next
  BY DEF NextFile
<1>3. PICK more \in SUBSET {"inhibited", "fat_error"} :
        lost' = lost \cup {} \cup more
  BY <1>1, <1>2, NextClusterFacts
<1>5. IF next = EOC THEN at' = "done" ELSE at' = "file"
  BY <1>2 DEF Goto, Return
<1>6. StrayOnlyWhenLost'
  BY <1>1, <1>3, StrayFrame DEF StrayOnlyWhenLost, SectorOf
<1>7. FileWalk'
  <2> SUFFICES ASSUME at' \in InFile
               PROVE  \/ "not_found" \in lost'
                      \/ "fat_error" \in lost' /\ cluster' = ERR
                      \/ "inhibited" \in lost'
                      \/ "fat_error" \notin lost' /\ \E k \in 1..Len(format.file) : OnTrack(k)'
    BY <1>1 DEF FileWalk
  <2>0. next # EOC /\ at' = "file"
    BY <1>5 DEF InFile
  <2>1. CASE "not_found" \in lost
    BY <1>3, <2>1
  <2>2. CASE "fat_error" \in lost /\ cluster = ERR
    <3>1. next = EOC
      BY <1>2, <2>2 DEF NextCluster, TooBig, ERR
    <3> QED BY <2>0, <3>1
  <2>3. CASE "inhibited" \in lost
    BY <1>3, <2>3
  <2>4. CASE "not_found" \notin lost /\ "fat_error" \notin lost /\ \E k \in 1..Len(format.file) : OnTrack(k)
    <3> PICK k \in 1..Len(format.file) : OnTrack(k)
      BY <2>4
    <3>1. \A s \in Sectors : s < START + DataStart => ~Stray(s)
      BY <2>4 DEF StrayOnlyWhenLost
    <3>2. cluster = format.file[k]
      BY DEF OnTrack
    <3>3. \/ "fat_error" \in lost' /\ next = ERR
          \/ "inhibited" \in lost'
          \/ /\ EntrySector(cluster) <= SECTORS_PER_FAT
             /\ next = Entry(cluster) /\ lost' = lost \cup {}
      BY <1>1, <1>2, <2>0, <3>1, <3>2, NextOnTrack
    <3>4. CASE EntrySector(cluster) <= SECTORS_PER_FAT /\ next = Entry(cluster) /\ lost' = lost \cup {}
      <4>1. k # Len(format.file) /\ next = format.file[k + 1]
        BY <1>1, <2>0, <3>2, <3>4, EntryOfFile
      <4>2. k + 1 \in 1..Len(format.file) /\ OnTrack(k + 1)'
        BY <1>1, <1>2, <2>0, <3>4, <4>1, TrackNext
      <4>3. "fat_error" \notin lost'
        BY <2>4, <3>4
      <4> QED BY <4>2, <4>3
    <3> QED BY <1>2, <3>3, <3>4
  <2> QED BY <1>1, <2>1, <2>2, <2>3, <2>4 DEF FileWalk, InFile
<1>8. CleanStart' /\ DirWalk'
  BY <1>5 DEF CleanStart, DirWalk, InDir, InFile
<1>9. FirstSectorFound'
  BY <1>1, <1>3 DEF FirstSectorFound
<1> QED BY <1>6, <1>7, <1>8, <1>9

(* The end of a call, and a restart, which starts from a clean card.       *)
LEMMA EndWalk ==
  ASSUME SetupInv, WalkInv, EndFile \/ ReadOutside \/ Restart
  PROVE  WalkInv'
<1>1. CASE EndFile \/ ReadOutside
  <2>1. at' \in {"done", "abort"} /\ UNCHANGED <<format, disk, lost>>
    BY <1>1, AbortAt DEF EndFile, Return
  <2>2. StrayOnlyWhenLost' /\ FirstSectorFound'
    BY <2>1, StrayFrame DEF WalkInv, StrayOnlyWhenLost, SectorOf, FirstSectorFound
  <2>3. CleanStart' /\ DirWalk' /\ FileWalk'
    BY <2>1 DEF CleanStart, DirWalk, FileWalk, InDir, InFile
  <2> QED BY <2>2, <2>3 DEF WalkInv
<1>2. CASE Restart
  <2>1. /\ at' = "reset" /\ UNCHANGED <<format, disk>> /\ lost' = {} /\ src' = 1
        /\ \A s \in Sectors : ~Stray(s)
    BY <1>2 DEF Restart
  <2>2. \A s \in Sectors : ~Stray(s)'
    BY <2>1, StrayFrame
  <2> QED BY <2>1, <2>2 DEF WalkInv, CleanStart, DirWalk, FileWalk, StrayOnlyWhenLost,
                            FirstSectorFound, InDir, InFile
<1> QED BY <1>1, <1>2

(* The walks' part of the invariant.                                       *)
LEMMA WalkInvariant == Spec => []WalkInv
<1>1. Init => WalkInv
  BY DEF Init, WalkInv, CleanStart, DirWalk, FileWalk, StrayOnlyWhenLost, FirstSectorFound,
         InDir, InFile, Stray
<1>2. SetupInv /\ WalkInv /\ [Next]_vars => WalkInv'
  <2> SUFFICES ASSUME SetupInv, WalkInv, [Next]_vars PROVE WalkInv'
    OBVIOUS
  <2>1. CASE UNCHANGED vars
    <3>1. \A s : Stray(s)' <=> Stray(s)
      BY <2>1, StrayFrame DEF vars
    <3>2. CleanStart' /\ DirWalk' /\ FirstSectorFound'
      BY <2>1, <3>1 DEF vars, WalkInv, CleanStart, DirWalk, FirstSectorFound, NotInFirstSector
    <3>3. StrayOnlyWhenLost'
      BY <2>1, <3>1 DEF vars, WalkInv, StrayOnlyWhenLost, SectorOf
    <3>4. FileWalk'
      BY <2>1 DEF vars, WalkInv, FileWalk, OnTrack, EntrySector
    <3> QED BY <3>2, <3>3, <3>4 DEF WalkInv
  <2>2. CASE Next
    BY <2>2, EarlyWalk, OpenWalk, DirWalkStep, NextDirWalk, WriteWalk, NextFileWalk, EndWalk
       DEF Next, Step
  <2> QED BY <2>1, <2>2
<1> QED BY <1>1, <1>2, SetupInvariant, PTL DEF Spec

(* On a card of any geometry with a FAT of fewer than 65536 sectors        *)
(* (fat32_get_sectors_per_fat cuts the field to 16 bits) a sector of the   *)
(* image lands outside its place in the file only after fat32_lookup did   *)
(* not notice that the file is absent, or, before the first cluster, after *)
(* fat32_get_next_cluster_num gave a read error for a cluster number.      *)
THEOREM StrayAlwaysExplained == Spec => []StrayOnlyWhenLost
BY WalkInvariant, PTL DEF WalkInv

----------------------------------------------------------------------------
(* What the file holds.                                                    *)

(* The sectors of the file are sectors of the card.                        *)
LEMMA FileOnCard ==
  ASSUME format \in Formats, NEW i \in 1..format.size
  PROVE  FileSector(i) \in Sectors
<1>1. PICK k \in 1..Len(format.file), o \in 0..(SECTORS_PER_CLUSTER - 1) :
           FileSector(i) = SectorOf(format.file[k], o)
  BY FilePlace
<1> DEFINE c == format.file[k] - FIRST_CLUSTER
           x == c * SECTORS_PER_CLUSTER
           y == CLUSTERS * SECTORS_PER_CLUSTER
<1>a. format.file[k] \in (FIRST_CLUSTER + 2)..(CLUSTERS + 1)
  BY FileSectorAt
<1>2. c \in Nat /\ c < CLUSTERS
  BY <1>a, Constants DEF FIRST_CLUSTER
<1> HIDE DEF c
<1>3. x + SECTORS_PER_CLUSTER <= y /\ x \in Nat /\ y \in Nat
  BY <1>2, Multiples, Constants
<1>4. FileSector(i) = START + DataStart + x + o
  BY <1>1 DEF SectorOf, c
<1> HIDE DEF x, y
<1>5. FileSector(i) \in 0..(START + DataStart + y - 1)
  BY <1>3, <1>4, Geometry, Constants
<1> QED BY <1>5 DEF Sectors, y

(* The same in the next state.                                             *)
LEMMA FormatOnCard ==
  (format \in Formats => \A i \in 1..format.size : FileSector(i) \in Sectors)'
<1>1. format \in Formats => \A i \in 1..format.size : FileSector(i) \in Sectors
  BY FileOnCard
<1> QED BY <1>1, PTL

(* Where the file lies depends on the format alone.                        *)
LEMMA FileFrame ==
  ASSUME UNCHANGED format
  PROVE  /\ \A i : FileSector(i)' = FileSector(i)
         /\ \A i : Reachable(i)' <=> Reachable(i)
BY DEF FileSector, Reachable

(* Unreached changes only with the card's content.                         *)
LEMMA UnreachedFrame ==
  ASSUME UNCHANGED <<format, disk>>
  PROVE  Unreached' <=> Unreached
BY FileFrame DEF Unreached

(* Where nothing is stray a failed search has left nothing behind.         *)
LEMMA CleanUnreached ==
  ASSUME UnreachedUnlessStray, \A s \in Sectors : ~Stray(s)
  PROVE  Unreached
BY DEF UnreachedUnlessStray

(* The first cluster is always reached.                                    *)
LEMMA NearReachable ==
  /\ Reachable(1)
  /\ SECTORS_PER_CLUSTER # 1 => Reachable(2)
<1>1. 0 \div SECTORS_PER_CLUSTER = 0
  <2>1. 0 = 0 * SECTORS_PER_CLUSTER + 0 /\ 0 \in 0..(SECTORS_PER_CLUSTER - 1)
    BY Constants
  <2> QED BY <2>1, PartsOf, Constants
<1>2. SECTORS_PER_CLUSTER # 1 => 1 \div SECTORS_PER_CLUSTER = 0
  <2> SUFFICES ASSUME SECTORS_PER_CLUSTER # 1 PROVE 1 \div SECTORS_PER_CLUSTER = 0
    OBVIOUS
  <2>1. 1 = 0 * SECTORS_PER_CLUSTER + 1 /\ 1 \in 0..(SECTORS_PER_CLUSTER - 1)
    BY Constants
  <2> QED BY <2>1, PartsOf, Constants
<1>3. 1 - 1 = 0 /\ 2 - 1 = 1
  OBVIOUS
<1> QED BY <1>1, <1>2, <1>3 DEF Reachable

(* The place the walk has come to can be reached.                          *)
LEMMA TrackReachable ==
  ASSUME SetupInv, format \in Formats, at = "file", NEW k \in 1..Len(format.file), OnTrack(k)
  PROVE  Reachable(src)
<1>1. k \in Nat /\ k - 1 \in Nat /\ src \in Nat
  BY TrackFacts, FormatFacts DEF FileFits
<1>2. src = (k - 1) * SECTORS_PER_CLUSTER + sector + 1 /\ sector \in 0..(SECTORS_PER_CLUSTER - 1)
  BY DEF OnTrack, SetupInv, SetupSound, TypeOK
<1>3. src - 1 = (k - 1) * SECTORS_PER_CLUSTER + sector
  <2> DEFINE x == (k - 1) * SECTORS_PER_CLUSTER
  <2>1. x \in Nat /\ src = x + sector + 1
    BY <1>1, <1>2, Constants
  <2> HIDE DEF x
  <2>2. src - 1 = x + sector
    BY <1>2, <2>1, Constants
  <2> QED BY <2>2 DEF x
<1>4. (src - 1) \div SECTORS_PER_CLUSTER = k - 1
  <2> DEFINE m == k - 1
  <2>1. m \in Nat /\ src - 1 = m * SECTORS_PER_CLUSTER + sector
    BY <1>1, <1>3
  <2> HIDE DEF m
  <2>2. (src - 1) \div SECTORS_PER_CLUSTER = m
    BY <1>2, <2>1, PartsOf, Constants
  <2> QED BY <2>2 DEF m
<1> QED BY <1>4 DEF Reachable, OnTrack, EntrySector

(* Steps outside the file that neither write nor return ERR_OK.            *)
LEMMA ImageFrame ==
  ASSUME ImageInv, UNCHANGED <<format, disk>>, at' \notin InFile, result' # "ok",
         Unreached \/ lost \subseteq lost'
  PROVE  ImageInv'
<1>1. Adrift' /\ WrittenFromStart' /\ OkMeansWritten'
  BY DEF Adrift, WrittenFromStart, OkMeansWritten, InFile
<1>2. UnreachedUnlessStray'
  BY UnreachedFrame, StrayFrame DEF ImageInv, UnreachedUnlessStray
<1> QED BY <1>1, <1>2 DEF ImageInv

(* Until the directory is looked at the file's content stays.              *)
LEMMA EarlyImage ==
  ASSUME SetupInv, SetupInv', WalkInv, ImageInv,
         \/ ResetController \/ Command \/ Unsent \/ CheckSdio \/ ResetCommand
         \/ CardBusy \/ CardReady \/ ReadMbr \/ ReadScratch
  PROVE  ImageInv'
<1>1. /\ at' \notin InDir \cup InFile /\ UNCHANGED <<format, disk>>
      /\ lost = {} /\ (at' = "done" => result' = "error")
  BY EarlyAt
<1>2. result' # "ok"
  BY <1>1 DEF SetupInv, Bookkeeping
<1> QED BY <1>1, <1>2, ImageFrame

(* fat32_open: a boot sector that was never read is recorded as lost.      *)
LEMMA OpenImage ==
  ASSUME SetupInv, SetupInv', WalkInv, ImageInv, Open
  PROVE  ImageInv'
<1> USE DEF SetupInv, SetupSound
<1>1. /\ TypeOK /\ at = "open" /\ lost = {} /\ UNCHANGED disk
      /\ \A s \in Sectors : ~Stray(s)
  BY DEF Open, Bookkeeping, WalkInv, CleanStart, InFile
<1>2. PICK err \in BOOLEAN, moved \in BOOLEAN :
        /\ Transfer(START, err, moved)
        /\ Lose(Unstarted(err, moved))
        /\ IF ~err /\ moved
            THEN /\ format' \in IF format = Unread THEN Formats ELSE {format}
                 /\ cluster' = FIRST_CLUSTER
                 /\ Goto("dir")
            ELSE /\ Return(IF err THEN "error" ELSE "ok")
                 /\ UNCHANGED <<format, cluster>>
  BY DEF Open
<1>3. at' \notin InFile /\ (result' = "ok" => lost' # {})
  <2>1. CASE ~err /\ moved
    BY <1>2, <2>1 DEF Goto, InFile, Bookkeeping
  <2>2. CASE ~(~err /\ moved)
    <3>1. ~err => "inhibited" \in lost'
      BY <1>1, <1>2, <2>2, TransferFacts DEF Lose
    <3> QED BY <1>2, <2>2, <3>1 DEF Return, InFile
  <2> QED BY <2>1, <2>2
<1>4. Adrift' /\ WrittenFromStart' /\ OkMeansWritten'
  BY <1>3 DEF Adrift, WrittenFromStart, OkMeansWritten, InFile
<1>5. Unreached'
  <2>1. CASE UNCHANGED format
    BY <1>1, <2>1, CleanUnreached, UnreachedFrame DEF ImageInv
  <2>2. CASE format = Unread /\ format' \in Formats
    <3> SUFFICES ASSUME NEW i \in 1..format'.size PROVE disk'[FileSector(i)'] # i
      BY DEF Unreached
    <3>1. FileSector(i)' \in Sectors
      <4>1. \A j \in 1..format'.size : FileSector(j)' \in Sectors'
        BY <2>2, FormatOnCard DEF Formats
      <4> QED BY <4>1 DEF Sectors
    <3>2. format'.size \in Nat
      BY <2>2, FormatFacts DEF FileFits
    <3> QED BY <1>1, <2>2, <3>1, <3>2 DEF FormatKnown
  <2> QED BY <1>2, <2>1, <2>2
<1> QED BY <1>4, <1>5 DEF ImageInv, UnreachedUnlessStray

(* A walk that starts, in the file or at a garbage cluster, has written    *)
(* nothing.                                                                *)
LEMMA DirImage ==
  ASSUME SetupInv, SetupInv', WalkInv, ImageInv, ReadDir \/ NextDir \/ EndDir
  PROVE  ImageInv'
<1> USE DEF SetupInv, SetupSound
<1>1. /\ TypeOK /\ at \in InDir /\ UNCHANGED <<format, disk, src>> /\ src = 1
      /\ \A s \in Sectors : ~Stray(s)
      /\ "not_found" \notin lost
  BY DEF ReadDir, NextDir, EndDir, WalkInv, CleanStart, DirWalk, InDir, InFile
<1>2. Unreached' /\ src' = 1
  BY <1>1, CleanUnreached, UnreachedFrame DEF ImageInv
<1>3. /\ at' = "file" => NotFound \/ "not_found" \notin lost'
      /\ at' = "done" => result' = "error"
      /\ at' # "filenext"
  <2>1. CASE ReadDir
    BY <1>1, <2>1 DEF ReadDir, Return, Goto, NotFound
  <2>2. CASE NextDir
    BY <1>1, <2>2 DEF NextDir, Goto
  <2>3. CASE EndDir
    BY <1>1, <2>3 DEF EndDir, NotFound, Goto
  <2> QED BY <2>1, <2>2, <2>3
<1>4. result' # "ok"
  BY <1>3 DEF Bookkeeping
<1>5. OkMeansWritten'
  BY <1>4 DEF OkMeansWritten
<1>6. WrittenFromStart'
  BY <1>2 DEF WrittenFromStart
<1>7. Adrift'
  <2> SUFFICES ASSUME "not_found" \in lost', at' \in InFile PROVE Adrift'
    BY DEF Adrift
  <2>1. at' = "file" /\ sector' = 0 /\ left' \in 0..2
    BY <1>3 DEF NotFound, InFile
  <2>2. \A a \in 0..2 : 1 - 1 - 0 + a <= 2
    OBVIOUS
  <2>3. src' - 1 - sector' + left' <= 2
    BY <1>2, <2>1, <2>2
  <2>4. (at' = "filenext" => sector' = 0) /\ (sector' = 0 \/ sector' < left') /\ src' # 2
    BY <1>2, <2>1
  <2> QED BY <1>2, <2>3, <2>4 DEF Adrift
<1> QED BY <1>2, <1>5, <1>6, <1>7 DEF ImageInv, UnreachedUnlessStray

(* A sector that is written keeps what is unreached unwritten, if it lands *)
(* outside the file, on another sector of it, or where it can be reached.  *)
LEMMA WriteUnreached ==
  ASSUME SetupInv, format \in Formats, UNCHANGED format, Unreached, NEW t \in Sectors,
         disk' = [disk EXCEPT ![t] = src],
         src \in 1..format.size /\ t = FileSector(src) => Reachable(src)
  PROVE  Unreached'
<1>1. \A i : FileSector(i)' = FileSector(i) /\ (Reachable(i)' <=> Reachable(i))
  BY FileFrame
<1> SUFFICES ASSUME NEW i \in 1..format.size, disk'[FileSector(i)] = i
             PROVE  Reachable(i)
  BY <1>1 DEF Unreached
<1>2. disk \in [Sectors -> 0..IMAGE] /\ FileSector(i) \in Sectors
  BY FileOnCard DEF SetupInv, SetupSound, TypeOK
<1>3. CASE FileSector(i) = t
  <2>1. i = src
    BY <1>2, <1>3
  <2> QED BY <1>3, <2>1
<1>4. CASE FileSector(i) # t
  <2>1. disk[FileSector(i)] = i
    BY <1>2, <1>4
  <2> QED BY <2>1 DEF Unreached
<1> QED BY <1>3, <1>4

(* The second sector of a garbage walk, when it leaves the first cluster.  *)
LEMMA SecondCluster ==
  ASSUME SetupInv, format \in Formats, SECTORS_PER_CLUSTER = 1, format.size >= 2,
         NEW c \in Int, SectorOf(c, 0) = FileSector(2)
  PROVE  c = format.file[2]
<1>1. format.size \in Nat /\ 2 \in 1..format.size
  BY FormatFacts DEF FileFits
<1>2. PICK k \in 1..Len(format.file), o \in 0..(SECTORS_PER_CLUSTER - 1) :
           /\ 2 = (k - 1) * SECTORS_PER_CLUSTER + o + 1
           /\ FileSector(2) = SectorOf(format.file[k], o)
  BY <1>1, FilePlace
<1>3. k \in Nat
  BY FormatFacts DEF FileFits
<1>4. o = 0 /\ k = 2
  BY <1>2, <1>3
<1>5. format.file[k] \in Int
  BY FileClusterInt
<1> DEFINE d == format.file[k]
<1>6. SectorOf(c, 0) = SectorOf(d, 0) /\ d \in Int /\ 0 \in 0..(SECTORS_PER_CLUSTER - 1)
  BY <1>2, <1>4, <1>5
<1> HIDE DEF d
<1>7. c = d
  BY <1>6, OneSector
<1> QED BY <1>4, <1>7 DEF d

(* One sector: the next one of the file, or one of at most two of a        *)
(* garbage walk.                                                           *)
LEMMA WriteImage ==
  ASSUME SetupInv, SetupInv', WalkInv, ImageInv, Write
  PROVE  ImageInv'
<1> USE DEF SetupInv, SetupSound
<1>1. /\ TypeOK /\ at = "file" /\ format \in Formats /\ left > 0
      /\ UNCHANGED <<format, cluster>>
  BY DEF Write, FormatKnown, InFile
<1> DEFINE t == SectorOf(cluster, sector)
<1>2. PICK err \in BOOLEAN, moved \in BOOLEAN :
        /\ Transfer(t, err, moved)
        /\ Lose(Unstarted(err, moved))
        /\ disk' = IF moved THEN [disk EXCEPT ![t] = src] ELSE disk
        /\ \/ err /\ Return("error") /\ UNCHANGED <<sector, left, src>>
           \/ /\ ~err /\ sector + 1 < InCluster
              /\ sector' = sector + 1 /\ src' = src + 1
              /\ Goto("file") /\ UNCHANGED left
           \/ /\ ~err /\ sector + 1 = InCluster
              /\ sector' = 0 /\ src' = src + 1 /\ left' = left - InCluster
              /\ Goto("filenext")
  BY DEF Write
<1>3. /\ lost' = lost \cup Unstarted(err, moved) /\ Unstarted(err, moved) \subseteq {"inhibited"}
      /\ moved => t \in Sectors /\ line = "free"
      /\ ~err /\ ~moved => "inhibited" \in lost'
  BY <1>1, <1>2, TransferFacts DEF Lose
<1>4. /\ sector \in 0..(SECTORS_PER_CLUSTER - 1) /\ SECTORS_PER_CLUSTER \in Nat \ {0}
      /\ src \in Nat \ {0} /\ left \in Nat /\ InCluster \in Nat /\ InCluster <= left
      /\ InCluster <= SECTORS_PER_CLUSTER
      /\ disk \in [Sectors -> 0..IMAGE]
      /\ cluster \in Int /\ format.size \in Nat
  BY <1>1, InClusterFacts, FormatFacts, Constants DEF TypeOK, FileFits, Entries, EOC, ERR
<1>5. \/ "not_found" \in lost
      \/ "fat_error" \in lost /\ cluster = ERR
      \/ "inhibited" \in lost
      \/ "fat_error" \notin lost /\ \E k \in 1..Len(format.file) : OnTrack(k)
  BY <1>1 DEF WalkInv, FileWalk, InFile
<1>6. \/ err /\ at' = "done" /\ result' = "error"
      \/ /\ ~err /\ at' \in InFile /\ src' = src + 1 /\ result' = "none"
         /\ src' - 1 - sector' + left' = src - 1 - sector + left
         /\ sector' = 0 \/ sector' < left'
         /\ at' = "filenext" => sector' = 0
         /\ at' = "file" => SECTORS_PER_CLUSTER # 1
  <2>1. CASE err
    BY <1>2, <2>1 DEF Return
  <2>2. CASE /\ ~err /\ sector + 1 < InCluster
             /\ sector' = sector + 1 /\ src' = src + 1
             /\ Goto("file") /\ UNCHANGED left
    BY <1>4, <2>2 DEF Goto, InFile, Bookkeeping
  <2>3. CASE /\ ~err /\ sector + 1 = InCluster
             /\ sector' = 0 /\ src' = src + 1 /\ left' = left - InCluster
             /\ Goto("filenext")
    BY <1>4, <2>3 DEF Goto, InFile, Bookkeeping
  <2> QED BY <1>2, <2>1, <2>2, <2>3
<1>7. OkMeansWritten'
  BY <1>6 DEF OkMeansWritten
<1>8. "not_found" \notin lost => Unreached
  BY DEF ImageInv, UnreachedUnlessStray
<1>9. ~moved => disk' = disk
  BY <1>2
<1> HIDE DEF t
<1>10. CASE "not_found" \in lost
  <2>1. /\ src - 1 - sector + left <= 2 /\ (sector = 0 \/ sector < left)
        /\ src <= 2 => Unreached
        /\ src = 2 /\ SECTORS_PER_CLUSTER = 1 /\ line = "free" =>
             \/ format.size < 2 \/ Reachable(2) \/ cluster # format.file[2]
             \/ \E s \in Sectors : Stray(s) /\ s # SectorOf(cluster, 0)
    BY <1>1, <1>10 DEF ImageInv, Adrift, InFile
  <2>2. src \in {1, 2}
    BY <1>1, <1>4, <2>1
  <2>3. Unreached
    BY <2>1, <2>2
  <2>4. Unreached' \/ (src = 2 /\ \E s \in Sectors : Stray(s)')
    <3>1. CASE ~moved
      BY <1>1, <1>9, <2>3, <3>1, UnreachedFrame
    <3>2. CASE moved /\ (src \in 1..format.size /\ t = FileSector(src) => Reachable(src))
      BY <1>1, <1>2, <1>3, <2>3, <3>2, WriteUnreached
    <3>3. CASE moved /\ src \in 1..format.size /\ t = FileSector(src) /\ ~Reachable(src)
      <4>1. src = 2 /\ SECTORS_PER_CLUSTER = 1 /\ format.size >= 2 /\ ~Reachable(2)
        BY <1>4, <2>2, <3>3, NearReachable
      <4>2. sector = 0 /\ t = SectorOf(cluster, 0)
        BY <1>4, <4>1 DEF t
      <4>3. cluster = format.file[2]
        BY <1>1, <1>4, <3>3, <4>1, <4>2, SecondCluster
      <4>4. PICK s \in Sectors : Stray(s) /\ s # t
        BY <1>3, <1>4, <2>1, <3>3, <4>1, <4>2, <4>3
      <4>5. disk'[s] = disk[s]
        BY <1>2, <1>4, <4>4
      <4>6. Stray(s)'
        BY <1>1, <4>4, <4>5 DEF Stray, FileSector
      <4> QED BY <4>1, <4>6
    <3> QED BY <3>1, <3>2, <3>3
  <2>5. "not_found" \in lost'
    BY <1>3, <1>10
  <2>6. UnreachedUnlessStray'
    BY <2>4, <2>5 DEF UnreachedUnlessStray, Sectors
  <2>7. WrittenFromStart'
    BY <2>5 DEF WrittenFromStart
  <2>8. Adrift'
    <3> SUFFICES ASSUME at' \in InFile PROVE Adrift'
      BY DEF Adrift
    <3>1. /\ src' = src + 1 /\ src' - 1 - sector' + left' <= 2
          /\ sector' = 0 \/ sector' < left'
          /\ at' = "filenext" => sector' = 0
          /\ at' = "file" => SECTORS_PER_CLUSTER # 1
      BY <1>6, <2>1 DEF InFile
    <3>2. src' <= 2 => src # 2
      BY <1>4, <3>1
    <3>3. src' <= 2 => Unreached'
      BY <2>4, <3>2
    <3> QED BY <3>1, <3>3 DEF Adrift
  <2> QED BY <1>7, <2>6, <2>7, <2>8 DEF ImageInv
<1>11. CASE "not_found" \notin lost
  <2>1. "not_found" \notin lost'
    BY <1>3, <1>11
  <2>2. Adrift'
    BY <2>1 DEF Adrift
  <2>3. CASE ("fat_error" \in lost /\ cluster = ERR) \/ "inhibited" \in lost
    <3>1. WrittenFromStart'
      BY <1>3, <2>3 DEF WrittenFromStart
    <3>2. CASE ~moved
      BY <1>1, <1>7, <1>8, <1>9, <1>11, <2>2, <3>1, <3>2, UnreachedFrame
         DEF ImageInv, UnreachedUnlessStray
    <3>3. CASE moved
      <4>1. cluster = ERR
        BY <1>3, <2>3, <3>3 DEF Bookkeeping
      <4>2. src \in 1..format.size => t # FileSector(src)
        <5> SUFFICES ASSUME src \in 1..format.size, t = FileSector(src) PROVE FALSE
          OBVIOUS
        <5>1. PICK k \in 1..Len(format.file), o \in 0..(SECTORS_PER_CLUSTER - 1) :
                   FileSector(src) = SectorOf(format.file[k], o)
          BY <1>1, FilePlace
        <5> DEFINE d == format.file[k]
        <5>2. d \in Int /\ d >= FIRST_CLUSTER
          BY <1>1, FileSectorAt, Constants DEF FIRST_CLUSTER
        <5>3. SectorOf(cluster, sector) = SectorOf(d, o)
          BY <5>1 DEF t
        <5> HIDE DEF d
        <5>4. cluster = d
          BY <1>4, <5>2, <5>3, OneSector
        <5> QED BY <4>1, <5>2, <5>4 DEF ERR, FIRST_CLUSTER
      <4>3. Unreached'
        BY <1>1, <1>2, <1>3, <1>8, <1>11, <3>3, <4>2, WriteUnreached
      <4> QED BY <1>7, <2>2, <3>1, <4>3 DEF ImageInv, UnreachedUnlessStray
    <3> QED BY <3>2, <3>3
  <2>4. CASE \E k \in 1..Len(format.file) : OnTrack(k)
    <3> PICK k \in 1..Len(format.file) : OnTrack(k)
      BY <2>4
    <3>1. src \in 1..format.size /\ t = FileSector(src) /\ Reachable(src)
      BY <1>1, TrackFacts, TrackReachable DEF t
    <3>2. Unreached'
      <4>1. CASE moved
        BY <1>1, <1>2, <1>3, <1>8, <1>11, <3>1, <4>1, WriteUnreached
      <4>2. CASE ~moved
        BY <1>1, <1>8, <1>9, <1>11, <4>2, UnreachedFrame
      <4> QED BY <4>1, <4>2
    <3>3. WrittenFromStart'
      <4> SUFFICES ASSUME lost' = {}, at' \in InFile, NEW i \in 1..(src' - 1)
                   PROVE  disk'[FileSector(i)'] = i
        BY DEF WrittenFromStart, InFile
      <4>1. ~err /\ moved /\ src' = src + 1 /\ lost = {}
        BY <1>3, <1>6 DEF InFile
      <4>2. i \in 1..format.size /\ (i = src \/ i \in 1..(src - 1)) /\ FileSector(i)' = FileSector(i)
        BY <1>1, <1>4, <3>1, <4>1, FileFrame
      <4>3. FileSector(i) \in Sectors /\ t \in Sectors
        BY <1>1, <1>3, <4>1, <4>2, FileOnCard
      <4>4. CASE i = src
        BY <1>2, <1>4, <3>1, <4>1, <4>2, <4>3, <4>4
      <4>5. CASE i \in 1..(src - 1)
        <5>1. disk[FileSector(i)] = i
          BY <1>1, <4>1, <4>5 DEF ImageInv, WrittenFromStart
        <5>2. FileSector(i) # t
          BY <1>1, <1>4, <3>1, <4>2, <4>5, FileSectorsDiffer
        <5> QED BY <1>2, <1>4, <4>1, <4>2, <4>3, <5>1, <5>2
      <4> QED BY <4>2, <4>4, <4>5
    <3> QED BY <1>7, <2>2, <3>2, <3>3 DEF ImageInv, UnreachedUnlessStray
  <2> QED BY <1>5, <1>11, <2>3, <2>4
<1> QED BY <1>10, <1>11

(* Only the first cluster of the file is followed by the second.           *)
LEMMA EntryInto ==
  ASSUME format \in Formats, NEW c \in Nat, 2 \in 1..Len(format.file), Entry(c) = format.file[2]
  PROVE  c = format.file[1]
<1>1. /\ \A i \in 1..Len(format.file) : format.file[i] \in (FIRST_CLUSTER + 2)..(CLUSTERS + 1)
      /\ \A i, j \in 1..Len(format.file) : i # j => format.file[i] # format.file[j]
      /\ Len(format.file) \in Nat
  <2>1. 0 \in 0..(SECTORS_PER_CLUSTER - 1)
    BY Constants
  <2> QED BY <2>1, FileSectorAt, FormatFacts DEF FileFits
<1>2. format.file[2] >= 4 /\ format.file[2] \in Int
  BY <1>1, Constants DEF FIRST_CLUSTER
<1>a. \A i \in 1..Len(format.dir) : format.dir[i] \in {2, 3}
  <2>1. CASE format.dir = <<FIRST_CLUSTER>>
    BY <2>1 DEF FIRST_CLUSTER
  <2>2. CASE format.dir = <<FIRST_CLUSTER, FIRST_CLUSTER + 1>>
    BY <2>2 DEF FIRST_CLUSTER
  <2> QED BY <2>1, <2>2, FormatFacts
<1>b. \A i \in 1..Len(format.file) : format.file[i] \notin {0, 1, 2, 3}
  BY <1>1, Constants DEF FIRST_CLUSTER
<1>3. c \notin {0, 1}
  <2> SUFFICES ASSUME c \in {0, 1} PROVE FALSE
    OBVIOUS
  <2>1. /\ ~\E i \in 1..Len(format.dir) : format.dir[i] = c
        /\ ~\E i \in 1..Len(format.file) : format.file[i] = c
    BY <1>a, <1>b
  <2>2. Entry(c) = EOC
    BY <2>1 DEF Entry
  <2> QED BY <1>2, <2>2 DEF EOC
<1>4. ~\E i \in 1..Len(format.dir) : format.dir[i] = c
  <2> SUFFICES ASSUME NEW i \in 1..Len(format.dir), format.dir[i] = c PROVE FALSE
    OBVIOUS
  <2>0. ~\E j \in 1..Len(format.file) : format.file[j] = c
    BY <1>a, <1>b
  <2>1. Following(format.dir, c) = format.file[2]
    BY <1>3, <2>0 DEF Entry
  <2> DEFINE m == CHOOSE j \in 1..Len(format.dir) : format.dir[j] = c
  <2>2. m \in 1..Len(format.dir)
    OBVIOUS
  <2>3. Following(format.dir, c) = IF m = Len(format.dir) THEN EOC ELSE format.dir[m + 1]
    BY DEF Following
  <2> HIDE DEF m
  <2>4. CASE format.dir = <<FIRST_CLUSTER>>
    BY <1>2, <2>1, <2>2, <2>3, <2>4 DEF EOC
  <2>5. CASE format.dir = <<FIRST_CLUSTER, FIRST_CLUSTER + 1>>
    <3>1. Following(format.dir, c) \in {EOC, FIRST_CLUSTER + 1}
      BY <2>2, <2>3, <2>5
    <3> QED BY <1>2, <2>1, <3>1 DEF EOC, FIRST_CLUSTER
  <2> QED BY <2>4, <2>5, FormatFacts
<1>5. \E i \in 1..Len(format.file) : format.file[i] = c
  BY <1>2, <1>3, <1>4 DEF Entry
<1>6. PICK i \in 1..Len(format.file) : format.file[i] = c
  BY <1>5
<1>7. Entry(c) = IF i = Len(format.file) THEN EOC ELSE format.file[i + 1]
  BY <1>6, EntryOfFile
<1>8. i # Len(format.file) /\ i + 1 \in 1..Len(format.file) /\ format.file[i + 1] = format.file[2]
  BY <1>1, <1>2, <1>7 DEF EOC
<1>9. i + 1 = 2
  BY <1>1, <1>8
<1>10. i = 1
  BY <1>1, <1>9
<1> QED BY <1>6, <1>10

(* A cluster number that was read from the FAT is the one it was formatted *)
(* with, or the sector of the FAT was overwritten.                         *)
LEMMA FatRead ==
  ASSUME TypeOK, format \in Formats, NEW next \in Entries \cup {ERR}, next \notin {EOC, ERR},
         NEW unnoticed, NextCluster(next, unnoticed), line' = "free"
  PROVE  /\ cluster \in Nat /\ EntrySector(cluster) <= SECTORS_PER_FAT
         /\ \/ next = Entry(cluster)
            \/ \E s \in Sectors : s < START + DataStart /\ Stray(s)
<1>1. ~TooBig(cluster)
  BY DEF NextCluster
<1>2. PICK err \in BOOLEAN, moved \in BOOLEAN :
          /\ Transfer(START + EntrySector(cluster), err, moved)
          /\ fatbuf' = IF moved THEN EntrySector(cluster) ELSE fatbuf
          /\ next \in IF err THEN {ERR} ELSE EntryIn(fatbuf', cluster % ENTRIES_PER_SECTOR)
  BY <1>1 DEF NextCluster
<1>3. ~err /\ moved
  <2>1. ~err
    BY <1>2
  <2>2. ~err /\ ~moved => line = "inhibited"
    BY <1>2, TransferFacts
  <2>3. line = "inhibited" => line' = "inhibited"
    BY <1>2, TransferFacts
  <2> QED BY <2>1, <2>2, <2>3
<1>4. cluster \in Nat
  <2>1. cluster \in Int
    BY Constants DEF TypeOK, Entries, EOC, ERR
  <2> QED BY <1>1, <2>1 DEF TooBig
<1> DEFINE n == ENTRIES_PER_SECTOR
           q == cluster \div n
           o == cluster % n
           b == EntrySector(cluster)
<1>5. n \in Nat \ {0} /\ q \in Nat /\ o \in 0..(n - 1) /\ cluster = q * n + o
  BY <1>4, Parts, Constants
<1>6. b = RESERVED + q
  BY DEF EntrySector
<1>7. b <= SECTORS_PER_FAT
  <2> HIDE DEF q
  <2> QED BY <1>1, <1>4, <1>5, <1>6, Constants DEF TooBig
<1>8. b \in RESERVED..(RESERVED + sectors_per_fat - 1) /\ b # -1 /\ b - RESERVED = q
  <2> HIDE DEF q, b
  <2> QED BY <1>5, <1>6, <1>7, Constants
<1> HIDE DEF q, o, b
<1>9. START + b < START + DataStart
  BY <1>8, Geometry, Constants
<1>10. CASE START + b \in Sectors /\ Stray(START + b)
  BY <1>4, <1>7, <1>9, <1>10 DEF b
<1>11. CASE START + b \in Sectors => ~Stray(START + b)
  <2>1. disk[START + b] = 0
    BY <1>8, <1>11, FatClean
  <2>2. fatbuf' = b
    BY <1>2, <1>3 DEF b
  <2>3. EntryIn(b, o) = {Entry((b - RESERVED) * n + o)}
    BY <1>8, <2>1 DEF EntryIn
  <2>4. (b - RESERVED) * n + o = cluster
    BY <1>5, <1>8
  <2>5. next = Entry(cluster)
    BY <1>2, <1>3, <2>2, <2>3, <2>4 DEF o
  <2> QED BY <1>4, <1>7, <2>5 DEF b
<1> QED BY <1>10, <1>11

(* The end of the chain, or of what is walked of it: what comes behind it  *)
(* cannot be reached.                                                      *)
LEMMA ChainEnd ==
  ASSUME SetupInv, format \in Formats, at = "filenext", NEW k \in 1..Len(format.file), OnTrack(k),
         \/ k = Len(format.file)
         \/ TooBig(cluster)
  PROVE  \A i \in 1..format.size : i \in 1..(src - 1) \/ ~Reachable(i)
<1> SUFFICES ASSUME NEW i \in 1..format.size, i \notin 1..(src - 1) PROVE ~Reachable(i)
  OBVIOUS
<1> DEFINE len == Len(format.file)
           n == SECTORS_PER_CLUSTER
           y == k * n
<1>a. len \in Nat \ {0} /\ n \in Nat \ {0} /\ format.size \in Nat /\ format.size <= len * n
  BY FormatFacts, Constants DEF FileFits
<1>b. k \in Nat /\ y \in Nat /\ src \in Nat
  BY <1>a, Constants DEF SetupInv, SetupSound, TypeOK
<1>c. k = len => format.size <= y
  BY <1>a
<1>1. src <= y + 1 /\ left = format.size - (src - 1) /\ (left = 0 \/ src = y + 1) /\ cluster = format.file[k]
  BY DEF OnTrack
<1> HIDE DEF y
<1>2. i >= src /\ i \in Nat
  BY <1>a, <1>b
<1>3. src = y + 1
  BY <1>a, <1>b, <1>1, <1>2
<1>4. k # len
  <2> HIDE DEF len
  <2> QED BY <1>a, <1>b, <1>c, <1>2, <1>3
<1>5. TooBig(cluster)
  BY <1>4
<1>6. cluster \in Nat
  <2>1. 0 \in 0..(SECTORS_PER_CLUSTER - 1)
    BY Constants
  <2> QED BY <1>1, <2>1, FileSectorAt, Constants DEF FIRST_CLUSTER
<1>7. ~(EntrySector(cluster) <= SECTORS_PER_FAT)
  <2>1. cluster \div ENTRIES_PER_SECTOR \in Nat
    BY <1>6, Parts, Constants
  <2>2. EntrySector(cluster) \in Nat
    BY <2>1, Constants DEF EntrySector
  <2> QED BY <1>5, <1>6, <2>2, Constants DEF TooBig
<1> DEFINE q == (i - 1) \div n
           o == (i - 1) % n
<1>8. q \in Nat /\ o \in 0..(n - 1) /\ i - 1 = q * n + o
  <2>1. i - 1 \in Nat
    BY <1>2
  <2> QED BY <1>a, <2>1, Parts
<1> HIDE DEF q, o, n
<1>9. k <= q
  <2> SUFFICES ASSUME q < k PROVE FALSE
    BY <1>b, <1>8
  <2>1. q * n + n <= y /\ q * n \in Int
    BY <1>a, <1>b, <1>8, Multiples DEF y
  <2> QED BY <1>a, <1>b, <1>2, <1>3, <1>8, <2>1
<1>10. k \in 1..q
  BY <1>a, <1>b, <1>8, <1>9
<1>11. k \in 1..((i - 1) \div SECTORS_PER_CLUSTER)
  BY <1>10 DEF q, n
<1> QED BY <1>1, <1>7, <1>11 DEF Reachable, EntrySector

(* One cluster on, or ERR_OK at the end of what is walked.                 *)
LEMMA NextFileImage ==
  ASSUME SetupInv, SetupInv', WalkInv, ImageInv, NextFile
  PROVE  ImageInv'
<1> USE DEF SetupInv, SetupSound
<1>1. /\ TypeOK /\ at = "filenext" /\ at \in InFile /\ format \in Formats
      /\ UNCHANGED <<format, disk, sector, left, src>>
  BY DEF NextFile, FormatKnown, InFile
<1>2. PICK next \in Entries \cup {ERR} :
        /\ NextCluster(next, {})
        /\ IF next = EOC THEN Return("ok") ELSE Goto("file")
        /\ cluster' = next
  BY DEF NextFile
<1>3. PICK more \in SUBSET {"inhibited", "fat_error"} : lost' = lost \cup {} \cup more
  BY <1>1, <1>2, NextClusterFacts
<1>4. IF next = EOC THEN at' = "done" ELSE at' = "file"
  BY <1>2 DEF Goto, Return
<1>5. UnreachedUnlessStray'
  BY <1>1, <1>3, UnreachedFrame, StrayFrame DEF ImageInv, UnreachedUnlessStray
<1>6. WrittenFromStart'
  BY <1>1, <1>3, FileFrame DEF ImageInv, WrittenFromStart, InFile
<1>7. Adrift'
  <2> SUFFICES ASSUME "not_found" \in lost', at' \in InFile PROVE Adrift'
    BY DEF Adrift
  <2>1. "not_found" \in lost
    BY <1>3
  <2>2. /\ src - 1 - sector + left <= 2
        /\ sector = 0
        /\ src <= 2 => Unreached'
    BY <1>1, <2>1, UnreachedFrame DEF ImageInv, Adrift
  <2>3. ASSUME SECTORS_PER_CLUSTER = 1, line' = "free", format.size >= 2, ~Reachable(2),
               next = format.file[2], next # EOC
        PROVE  \E s \in Sectors : Stray(s) /\ s # SectorOf(next, 0)
    <3>1. Len(format.file) \in Nat /\ format.size \in Nat /\ format.size <= Len(format.file) * SECTORS_PER_CLUSTER
      BY <1>1, FormatFacts DEF FileFits
    <3>2. 2 \in 1..Len(format.file)
      BY <2>3, <3>1
    <3>3. next \in (FIRST_CLUSTER + 2)..(CLUSTERS + 1) /\ 0 \in 0..(SECTORS_PER_CLUSTER - 1)
      <4>1. 0 \in 0..(SECTORS_PER_CLUSTER - 1)
        BY Constants
      <4> QED BY <1>1, <2>3, <3>2, <4>1, FileSectorAt
    <3>4. next \in Int /\ next >= FIRST_CLUSTER /\ next # ERR
      BY <3>3, Constants DEF FIRST_CLUSTER, ERR
    <3>5. /\ cluster \in Nat /\ EntrySector(cluster) <= SECTORS_PER_FAT
          /\ \/ next = Entry(cluster)
             \/ \E s \in Sectors : s < START + DataStart /\ Stray(s)
      BY <1>1, <1>2, <2>3, <3>4, FatRead
    <3>6. next # Entry(cluster)
      <4> SUFFICES ASSUME next = Entry(cluster) PROVE FALSE
        OBVIOUS
      <4>1. cluster = format.file[1]
        BY <1>1, <2>3, <3>2, <3>5, EntryInto
      <4>2. (2 - 1) \div SECTORS_PER_CLUSTER = 1
        BY <2>3
      <4>3. 1..1 = {1}
        OBVIOUS
      <4>4. \A k \in {1} : RESERVED + format.file[k] \div ENTRIES_PER_SECTOR <= SECTORS_PER_FAT
        BY <3>5, <4>1 DEF EntrySector
      <4> QED BY <2>3, <4>2, <4>3, <4>4 DEF Reachable
    <3>7. PICK s \in Sectors : s < START + DataStart /\ Stray(s)
      BY <3>5, <3>6
    <3>8. SectorOf(next, 0) >= START + DataStart
      BY <3>3, <3>4, DataBehind
    <3>9. s \in Int /\ START + DataStart \in Int /\ SectorOf(next, 0) \in Int
      BY <3>3, <3>4, OneSector, Geometry, Constants DEF Sectors
    <3> QED BY <3>7, <3>8, <3>9
  <2>4. at' = "file" /\ SECTORS_PER_CLUSTER = 1 /\ line' = "free" =>
          \/ format.size < 2 \/ Reachable(2) \/ next # format.file[2]
          \/ \E s \in Sectors : Stray(s) /\ s # SectorOf(next, 0)
    <3>1. format.size \in Nat
      BY <1>1, FormatFacts DEF FileFits
    <3> QED BY <1>4, <2>3, <3>1
  <2>5. at' = "file" /\ SECTORS_PER_CLUSTER = 1 /\ line' = "free" =>
          \/ format'.size < 2 \/ Reachable(2)' \/ cluster' # format'.file[2]
          \/ \E s \in Sectors : Stray(s)' /\ s # SectorOf(cluster', 0)
    BY <1>1, <1>2, <2>4, FileFrame, StrayFrame
  <2>6. Sectors' = Sectors /\ SectorOf(cluster, 0)' = SectorOf(cluster', 0)
    BY DEF Sectors, SectorOf
  <2> QED BY <1>1, <1>4, <2>2, <2>5, <2>6 DEF Adrift
<1>8. OkMeansWritten'
  <2> SUFFICES ASSUME result' = "ok", lost' = {} PROVE OkMeansWritten'
    BY DEF OkMeansWritten
  <2>1. next = EOC /\ lost = {}
    BY <1>2, <1>3 DEF Goto, Bookkeeping
  <2>2. PICK k \in 1..Len(format.file) : OnTrack(k)
    BY <1>1, <2>1 DEF WalkInv, FileWalk
  <2>3. cluster = format.file[k] /\ \A s \in Sectors : s < START + DataStart => ~Stray(s)
    BY <2>1, <2>2 DEF OnTrack, WalkInv, StrayOnlyWhenLost
  <2>4. TooBig(cluster) \/ next = Entry(cluster)
    BY <1>1, <1>2, <2>3, NextOnTrack
  <2>5. k = Len(format.file) \/ TooBig(cluster)
    <3> SUFFICES ASSUME next = Entry(cluster), k # Len(format.file) PROVE FALSE
      BY <2>4
    <3>1. next = format.file[k + 1]
      BY <1>1, <2>3, EntryOfFile
    <3>2. k + 1 \in 1..Len(format.file) /\ 0 \in 0..(SECTORS_PER_CLUSTER - 1)
      <4>1. Len(format.file) \in Nat /\ SECTORS_PER_CLUSTER \in Nat \ {0}
        BY <1>1, FormatFacts, Constants DEF FileFits
      <4> QED BY <4>1
    <3>3. format.file[k + 1] \in (FIRST_CLUSTER + 2)..(CLUSTERS + 1)
      BY <1>1, <3>2, FileSectorAt
    <3> QED BY <2>1, <3>1, <3>3, Constants DEF EOC, FIRST_CLUSTER
  <2>6. \A i \in 1..format.size : i \in 1..(src - 1) \/ ~Reachable(i)
    BY <1>1, <2>2, <2>5, ChainEnd
  <2>7. Unreached
    BY <2>1 DEF ImageInv, UnreachedUnlessStray
  <2>8. \A i \in 1..(src - 1) : disk[FileSector(i)] = i
    BY <1>1, <2>1 DEF ImageInv, WrittenFromStart
  <2>9. \A i \in 1..format.size : (disk[FileSector(i)] = i) <=> Reachable(i)
    BY <2>6, <2>7, <2>8 DEF Unreached
  <2>10. 1..Min({format.size, IMAGE}) \subseteq 1..format.size
    <3>1. format.size \in Nat
      BY <1>1, FormatFacts DEF FileFits
    <3> QED BY <3>1, MinOfTwo, Constants
  <2> QED BY <1>1, <2>9, <2>10, FileFrame DEF OkMeansWritten
<1> QED BY <1>5, <1>6, <1>7, <1>8 DEF ImageInv

(* ERR_OK when the image is written, and restarts from a clean card.       *)
LEMMA EndImage ==
  ASSUME SetupInv, SetupInv', WalkInv, ImageInv, EndFile \/ ReadOutside \/ Restart
  PROVE  ImageInv'
<1> USE DEF SetupInv, SetupSound
<1>1. CASE Restart
  <2>1. /\ at' = "reset" /\ result' = "none" /\ UNCHANGED <<format, disk>>
        /\ \A s \in Sectors : ~Stray(s)
    BY <1>1 DEF Restart
  <2>2. Unreached
    BY <2>1, CleanUnreached DEF ImageInv
  <2> QED BY <2>1, <2>2, ImageFrame DEF InFile
<1>2. CASE EndFile
  <2>1. /\ TypeOK /\ at = "file" /\ at \in InFile /\ format \in Formats
        /\ left = 0 \/ src > IMAGE
        /\ at' = "done" /\ UNCHANGED <<format, disk, lost>>
    BY <1>2 DEF EndFile, Return, FormatKnown, InFile
  <2>2. Adrift' /\ WrittenFromStart'
    BY <2>1 DEF Adrift, WrittenFromStart, InFile
  <2>3. UnreachedUnlessStray'
    BY <2>1, UnreachedFrame, StrayFrame DEF ImageInv, UnreachedUnlessStray
  <2>4. OkMeansWritten'
    <3> SUFFICES ASSUME lost = {} PROVE OkMeansWritten'
      BY <2>1 DEF OkMeansWritten
    <3>1. PICK k \in 1..Len(format.file) : OnTrack(k)
      BY <2>1 DEF WalkInv, FileWalk
    <3>2. src > IMAGE /\ src \in Nat /\ format.size \in Nat
      <4>1. sector < left /\ sector \in Nat /\ left \in Nat
        BY <2>1, <3>1, InClusterFacts, Constants DEF OnTrack, TypeOK
      <4> QED BY <2>1, <4>1, FormatFacts, Constants DEF TypeOK, FileFits
    <3>3. Unreached /\ \A i \in 1..(src - 1) : disk[FileSector(i)] = i
      BY <2>1 DEF ImageInv, UnreachedUnlessStray, WrittenFromStart
    <3>4. \A i \in 1..Min({format.size, IMAGE}) : i \in 1..format.size /\ i \in 1..(src - 1)
      BY <3>2, MinOfTwo, Constants
    <3>5. \A i \in 1..Min({format.size, IMAGE}) : (disk[FileSector(i)] = i) <=> Reachable(i)
      BY <3>3, <3>4 DEF Unreached
    <3> QED BY <2>1, <3>5, FileFrame DEF OkMeansWritten
  <2> QED BY <2>2, <2>3, <2>4 DEF ImageInv
<1>3. CASE ReadOutside
  <2>1. at' = "abort" /\ result' = "none" /\ UNCHANGED <<format, disk, lost>>
    BY <1>3, AbortAt DEF Bookkeeping
  <2> QED BY <2>1, ImageFrame DEF InFile
<1> QED BY <1>1, <1>2, <1>3

(* The file's part of the invariant.                                       *)
LEMMA ImageInvariant == Spec => []ImageInv
<1>1. Init => ImageInv
  <2> SUFFICES ASSUME Init PROVE ImageInv
    OBVIOUS
  <2>1. at \notin InFile /\ result # "ok" /\ format.size = 0
    BY DEF Init, InFile, Unread
  <2>2. Unreached
    BY <2>1 DEF Unreached
  <2> QED BY <2>1, <2>2 DEF ImageInv, Adrift, UnreachedUnlessStray, WrittenFromStart, OkMeansWritten, InFile
<1>2. SetupInv /\ SetupInv' /\ WalkInv /\ ImageInv /\ [Next]_vars => ImageInv'
  <2> SUFFICES ASSUME SetupInv, SetupInv', WalkInv, ImageInv, [Next]_vars PROVE ImageInv'
    OBVIOUS
  <2>1. CASE UNCHANGED vars
    <3>1. UNCHANGED <<format, disk, at, lost, src, sector, left, line, cluster, result>>
      BY <2>1 DEF vars
    <3>2. /\ \A i : FileSector(i)' = FileSector(i)
          /\ \A i : Reachable(i)' <=> Reachable(i)
          /\ \A s : Stray(s)' <=> Stray(s)
          /\ Unreached' <=> Unreached
      BY <3>1, FileFrame, StrayFrame, UnreachedFrame
    <3>3. UnreachedUnlessStray' /\ WrittenFromStart' /\ OkMeansWritten'
      BY <3>1, <3>2 DEF ImageInv, UnreachedUnlessStray, WrittenFromStart, OkMeansWritten
    <3>4. Adrift'
      BY <3>1, <3>2 DEF ImageInv, Adrift, SectorOf
    <3> QED BY <3>3, <3>4 DEF ImageInv
  <2>2. CASE Next
    BY <2>2, EarlyImage, OpenImage, DirImage, WriteImage, NextFileImage, EndImage
       DEF Next, Step
  <2> QED BY <2>1, <2>2
<1> QED BY <1>1, <1>2, SetupInvariant, WalkInvariant, PTL DEF Spec

(* On a card of any geometry with a FAT of fewer than 65536 sectors and    *)
(* for a file and an image of any length: a file whose two slots are in    *)
(* the first sector of the directory is found, the image is written to it  *)
(* from its start and, where ERR_OK is returned, to its last reachable     *)
(* sector and no further, unless a transfer that never started, an absent  *)
(* file or a read error in the FAT was not noticed (write_image_to_sd,     *)
(* fat32_iterate_file_sectors).                                            *)
THEOREM ImageAlwaysWritten == Spec => []ImageWritten
<1>1. WalkInv /\ ImageInv => ImageWritten
  BY DEF WalkInv, ImageInv, ImageWritten
<1> QED BY <1>1, WalkInvariant, ImageInvariant, PTL
=============================================================================
