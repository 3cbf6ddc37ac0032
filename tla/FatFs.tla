------------------------------- MODULE FatFs --------------------------------
(***************************************************************************)
(* The flash disk: usb_write of src/code/main.c, FatFs of                  *)
(* src/code/fatfs/ff.c, the sectors of src/code/fatfs/diskio.c and the     *)
(* formatting that restoring the settings does.                            *)
(*                                                                         *)
(* Every five seconds the main loop opens test.txt, seeks to its end, puts *)
(* a line and closes it.  Each sector FatFs writes is erased and then      *)
(* programmed; power may be lost at any time, and a sector that was being  *)
(* programmed keeps the beginning of its new content.  An action runs up   *)
(* to the next sector that is written.                                     *)
(*                                                                         *)
(* The volume is the one f_mkfs makes of the 480 sectors: FAT12, one FAT   *)
(* of one sector, a sector to a cluster, a root directory of fixed size,   *)
(* and test.txt is its only file, so a directory sector is its first       *)
(* entry.  The chip reports no errors.                                     *)
(***************************************************************************)
EXTENDS Integers, Sequences, FiniteSets, FiniteSetsExt

CONSTANTS
  LastCluster, \* the last cluster; the first is 2
  Root,        \* sectors of the root directory: 4
  SectorSize,  \* 4096
  Greeting,    \* the first line of the file
  Line,        \* the line that is put every five seconds
  MaxLosses,   \* bound on the losses of power
  MaxFormats   \* bound on the restorations of the settings

Cluster == 2 .. LastCluster

\* What a FAT entry may hold instead of the next cluster.
Free == 0
Eoc == LastCluster + 1

ASSUME FatFsAssumption ==
  /\ LastCluster \in Nat \ {0, 1} /\ Root \in Nat \ {0} /\ SectorSize \in Nat \ {0}
  /\ Greeting \in Seq(STRING) \ {<<>>} /\ Line \in Seq(STRING) \ {<<>>}
  /\ Len(Greeting) + Len(Line) <= SectorSize
  /\ MaxLosses \in Nat /\ MaxFormats \in Nat

VARIABLES
  chip,        \* the content of each sector
  queue,       \* the sectors to write before the program goes on
  erased,      \* the first of them is erased and not yet programmed
  pc,          \* what the main loop is doing with the disk
  mounted,     \* fs_type is set
  last,        \* last_clst, 0 for none
  winsect,     \* the sector in the window
  win,         \* the window
  wflag,       \* the window was changed
  file,        \* the FIL of usb_write
  left,        \* the strings still to put
  losses,      \* losses of power so far
  formats,     \* formats so far
  formatting,  \* history: no format was completed since the last one began
  harm,        \* history: the sectors that were cut since the last format
  kept,        \* history: the bytes of each cluster that a close recorded
  early        \* history: losses of power before the first close

disk == <<chip, queue, erased>>
fs == <<mounted, last, winsect, win, wflag>>
bounds == <<losses, formats>>
memory == <<formatting, harm, kept, early>>
fatVars == <<disk, pc, fs, file, left, bounds, memory>>

Mbr == <<"mbr", 0>>
Vbr == <<"vbr", 0>>
Fat == <<"fat", 0>>
Dir(k) == <<"dir", k>>
Data(c) == <<"data", c>>
Sector == {Mbr, Vbr, Fat} \cup {Dir(k) : k \in 1 .. Root} \cup {Data(c) : c \in Cluster}

\* The first entry of a directory sector: a file, an end of the table, or
\* nothing valid.  An erased size is larger than the volume.
Entry(k, c, n) == [kind |-> k, clust |-> c, size |-> n]
Huge == SectorSize * (LastCluster - 1) + 1
EndOfTable == Entry("free", 0, 0)
NoEntry == Entry("blank", Eoc, Huge)

\* The FAT: for each cluster the next one of its chain.
Table(f) == [next |-> f]
EmptyFat == Table([c \in Cluster |-> Free])
Bytes(v) == [i \in 1 .. SectorSize |-> v]

Wiped(s) ==
  CASE s \in {Mbr, Vbr} -> "blank"
    [] s = Fat -> Table([c \in Cluster |-> Eoc])
    [] s[1] = "dir" -> NoEntry
    [] s[1] = "data" -> Bytes("erased")

\* What a loss of power may leave of the content d of a sector: its
\* beginning.  Of an entry these are the name, then its cluster, then the
\* bytes of its size, the highest one last.
Remains(s, d) ==
  CASE s \in {Mbr, Vbr} -> {"blank", d}
    [] s = Fat -> 
         {Table([c \in Cluster |-> IF c < n THEN d.next[c] ELSE Eoc]) : n \in 2 .. LastCluster + 1}
    [] s[1] = "dir" ->
         {NoEntry, d} \cup
         (IF d.kind = "file"
          THEN {Entry("file", Eoc, Huge), Entry("file", d.clust, Huge)}
          ELSE {})
    [] s[1] = "data" ->
         {[i \in 1 .. SectorSize |-> IF i <= n THEN d[i] ELSE "erased"] :
            n \in 0 .. SectorSize}

NoFile == [dirSect |-> Mbr, sclust |-> 0, size |-> 0, fptr |-> 0, clust |-> 0,
           sect |-> 0, buf |-> Bytes("zero"), dirty |-> FALSE,
           modified |-> FALSE]

Write(s, d) == [sect |-> s, content |-> d]

-----------------------------------------------------------------------------
(* disk_write, and power. *)

Erase ==
  /\ queue # <<>> /\ ~erased
  /\ chip' = [chip EXCEPT ![Head(queue).sect] = Wiped(Head(queue).sect)]
  /\ erased' = TRUE
  /\ UNCHANGED <<queue, pc, fs, file, left, bounds, memory>>

Program ==
  /\ queue # <<>> /\ erased
  /\ chip' = [chip EXCEPT ![Head(queue).sect] = Head(queue).content]
  /\ queue' = Tail(queue)
  /\ erased' = FALSE
  /\ UNCHANGED <<pc, fs, file, left, bounds, memory>>

\* early, if the power goes now.
EarlyNow == IF \A c \in Cluster : kept[c] = 0 THEN early + 1 ELSE early

\* The power goes and comes back: f_mount, which does not read the disk.
Outage ==
  /\ losses < MaxLosses
  /\ IF erased
     THEN LET w == Head(queue) IN
          /\ \E r \in Remains(w.sect, w.content) :
               chip' = [chip EXCEPT ![w.sect] = r]
          /\ harm' = harm \cup {w.sect}
     ELSE UNCHANGED <<chip, harm>>
  /\ queue' = <<>> /\ erased' = FALSE /\ pc' = "idle"
  /\ mounted' = FALSE /\ last' = 0
  /\ winsect' = Mbr /\ win' = EndOfTable /\ wflag' = FALSE
  /\ file' = NoFile /\ left' = <<>>
  /\ losses' = losses + 1
  /\ early' = EarlyNow
  /\ UNCHANGED <<formats, formatting, kept>>

-----------------------------------------------------------------------------
(* The window and the FAT. *)

\* Mutant: a changed window is not written back.
MoveWindowLosing(s) ==
  /\ queue = <<>> /\ winsect # s
  /\ winsect' = s /\ win' = chip[s] /\ wflag' = FALSE
  /\ UNCHANGED <<disk, pc, mounted, last, file, left, bounds, memory>>

\* move_window: a changed window is written back before another is read.
MoveWindow(s) ==
  /\ queue = <<>> /\ winsect # s
  /\ IF wflag
     THEN queue' = <<Write(winsect, win)>> /\ wflag' = FALSE /\ UNCHANGED <<winsect, win>>
     ELSE winsect' = s /\ win' = chip[s] /\ UNCHANGED <<queue, wflag>>
  /\ UNCHANGED <<chip, erased, pc, mounted, last, file, left, bounds, memory>>

\* The FAT as the program sees it.
FatNow == IF winsect = Fat THEN win.next ELSE chip[Fat].next

FreeIn(fat) == {c \in Cluster : fat[c] = Free}

\* The free cluster a search reaches first that starts behind c.
Behind(c, n) == IF n > c THEN n - c ELSE n - c + LastCluster
NextFree(fat, c) ==
  CHOOSE n \in FreeIn(fat) : \A m \in FreeIn(fat) : Behind(c, n) <= Behind(c, m)

\* The cluster that is put behind c, or starts a chain when c is 0: the one
\* that follows it on the disk, or the next one after the last allocated.
Chosen(fat, recent, c) ==
  LET follower == IF c = LastCluster THEN 2 ELSE c + 1
      start == IF recent \in Cluster THEN recent ELSE IF c = 0 THEN 1 ELSE c
  IN IF c # 0 /\ fat[follower] = Free THEN follower ELSE NextFree(fat, start)

\* What create_chain returns, with the FAT and last_clst it leaves behind:
\* 0 means that the disk is full, 1 that the chain is not one.
Chain(c, fat, recent) == [clust |-> c, fat |-> fat, last |-> recent]
Allocated(fat, recent, c) ==
  LET n == Chosen(fat, recent, c)
      marked == [fat EXCEPT ![n] = Eoc]
  IN Chain(n, IF c = 0 THEN marked ELSE [marked EXCEPT ![c] = n], n)

\* Mutant: a chain is stretched even where it goes on.
CreateChainAlways(fat, recent, c) ==
  IF c # 0 /\ (c \notin Cluster \/ fat[c] = Free) THEN Chain(1, fat, recent)
  ELSE IF FreeIn(fat) = {} THEN Chain(0, fat, recent)
  ELSE Allocated(fat, recent, c)

CreateChain(fat, recent, c) ==
  IF c # 0 /\ (c \notin Cluster \/ fat[c] = Free) THEN Chain(1, fat, recent)
  ELSE IF c # 0 /\ fat[c] \in Cluster THEN Chain(fat[c], fat, recent)
  ELSE IF FreeIn(fat) = {} THEN Chain(0, fat, recent)
  ELSE Allocated(fat, recent, c)

-----------------------------------------------------------------------------
(* usb_write. *)

\* find_volume: the volume is mounted at its first use, which leaves its
\* boot sector in the window.
Bootable == mounted \/ (chip[Mbr] = "valid" /\ chip[Vbr] = "valid")
Mount ==
  IF mounted THEN UNCHANGED fs
  ELSE /\ mounted' = TRUE /\ last' = 0
       /\ winsect' = Vbr /\ win' = EndOfTable /\ wflag' = FALSE

\* The timer of the main loop: f_open begins.  Without a volume it fails.
UsbWrite ==
  /\ pc = "idle" /\ queue = <<>>
  /\ IF Bootable
     THEN pc' = "open" /\ Mount
     ELSE UNCHANGED <<pc, fs>>
  /\ UNCHANGED <<disk, file, left, bounds, memory>>

\* The first directory sector with a valid entry or an end of the table.
Lookup(k) == IF Dir(k) = winsect THEN win ELSE chip[Dir(k)]
Used == {k \in 1 .. Root : Lookup(k).kind # "blank"}
First == CHOOSE k \in Used : \A j \in Used : k <= j

Find == pc = "open" /\ queue = <<>> /\ winsect = Dir(1) /\ ~wflag

\* dir_alloc finds no free entry: FR_DENIED.
OpenDenied ==
  /\ Find /\ Used = {}
  /\ pc' = "idle"
  /\ winsect' = Dir(Root) /\ win' = Lookup(Root)
  /\ UNCHANGED <<disk, mounted, last, wflag, file, left, bounds, memory>>

\* dir_register: a new entry, in the window only.
OpenNew ==
  /\ Find /\ Used # {} /\ Lookup(First).kind = "free"
  /\ winsect' = Dir(First) /\ win' = Entry("file", 0, 0) /\ wflag' = TRUE
  /\ file' = [NoFile EXCEPT !.dirSect = Dir(First), !.modified = TRUE]
  /\ pc' = "put" /\ left' = <<Greeting, Line>>
  /\ UNCHANGED <<disk, mounted, last, bounds, memory>>

OpenOld ==
  /\ Find /\ Used # {} /\ Lookup(First).kind = "file"
  /\ winsect' = Dir(First) /\ win' = Lookup(First)
  /\ file' = [NoFile EXCEPT !.dirSect = Dir(First),
                            !.sclust = win'.clust, !.size = win'.size]
  /\ IF file'.size = 0
     THEN pc' = "put" /\ left' = <<Greeting, Line>>
     ELSE pc' = "seek" /\ left' = <<Line>>
  /\ UNCHANGED <<disk, mounted, last, wflag, bounds, memory>>

\* What create_chain left in the FAT, if it was asked.
TakeFat(asked, r) ==
  IF asked
  THEN win' = Table(r.fat) /\ last' = r.last /\ wflag' = (wflag \/ win' # win)
  ELSE UNCHANGED <<win, last, wflag>>

\* f_lseek, from the first cluster on: one turn of its loop for each cluster
\* behind it.  A chain that ends too early is stretched.
Ahead == file.clust # 0 /\ file.size - file.fptr > SectorSize
SeekNeedsFat ==
  \/ file.clust = 0 /\ file.sclust = 0
  \/ Ahead /\ file.clust \in Cluster

SeekFirst ==
  /\ pc = "seek" /\ queue = <<>> /\ file.clust = 0
  /\ SeekNeedsFat => winsect = Fat
  /\ LET r == IF SeekNeedsFat THEN CreateChain(FatNow, last, 0)
              ELSE Chain(file.sclust, FatNow, last)
     IN /\ TakeFat(SeekNeedsFat, r)
        /\ file' = [file EXCEPT !.sclust = r.clust, !.clust = r.clust]
        /\ pc' = IF r.clust = 0 THEN "put" ELSE pc
  /\ UNCHANGED <<disk, mounted, winsect, left, bounds, memory>>

\* On a full disk the position stays behind the end of the chain; a chain
\* that is none is FR_INT_ERR, and usb_write closes the file.
SeekBehind ==
  /\ pc = "seek" /\ queue = <<>> /\ Ahead
  /\ SeekNeedsFat => winsect = Fat
  /\ LET r == CreateChain(FatNow, last, file.clust) IN
     /\ TakeFat(SeekNeedsFat, r)
     /\ IF r.clust = 1
        THEN pc' = "close" /\ left' = <<>> /\ UNCHANGED file
        ELSE /\ file' = [file EXCEPT !.fptr = @ + SectorSize,
                                     !.clust = IF r.clust = 0 THEN @ ELSE r.clust]
             /\ pc' = IF r.clust = 0 THEN "put" ELSE pc
             /\ UNCHANGED left
  /\ UNCHANGED <<disk, mounted, winsect, bounds, memory>>

\* Mutant: the last sector is not read into the buffer.
SoughtBlind == [file EXCEPT !.fptr = file.size, !.sect = file.clust]

\* Mutant: the rest of the way within the sector is left out.
SoughtShort == [file EXCEPT !.sect = file.clust, !.buf = chip[Data(file.clust)]]

\* The sector the end of the file is in, in the buffer.
Sought ==
  IF file.size % SectorSize = 0 THEN [file EXCEPT !.fptr = file.size]
  ELSE [file EXCEPT !.fptr = file.size, !.sect = file.clust,
                    !.buf = chip[Data(file.clust)]]

SeekEnd ==
  /\ pc = "seek" /\ queue = <<>> /\ file.clust # 0 /\ ~Ahead
  /\ pc' = "put" /\ file' = Sought
  /\ UNCHANGED <<disk, fs, left, bounds, memory>>

\* f_write: one turn of its loop for what is left of a string.
AtBoundary == file.fptr % SectorSize = 0
PutNeedsFat == AtBoundary /\ ~(file.fptr = 0 /\ file.sclust # 0)

Shorter(a, b) == IF a < b THEN a ELSE b
Longest(a, b) == IF a < b THEN b ELSE a

\* The buffer with the beginning of the string in it, as much as fits.
Room == SectorSize - (file.fptr % SectorSize)
Taken == Shorter(Room, Len(Head(left)))
Filled(buf) ==
  [i \in 1 .. SectorSize |->
     LET k == i - (file.fptr % SectorSize)
     IN IF k \in 1 .. Taken THEN Head(left)[k] ELSE buf[i]]

\* The file when it has taken it.
Putting(f, c, buf) ==
  [f EXCEPT !.clust = c, !.sect = c, !.buf = Filled(buf), !.dirty = TRUE,
            !.fptr = @ + Taken, !.modified = @ \/ Taken = Len(Head(left)),
            !.size = IF f.fptr + Taken > @ THEN f.fptr + Taken ELSE @]
Rest ==
  IF Taken = Len(Head(left)) THEN Tail(left)
  ELSE <<SubSeq(Head(left), Taken + 1, Len(Head(left)))>> \o Tail(left)

\* In the middle of a sector.
PutInside ==
  /\ pc = "put" /\ queue = <<>> /\ left # <<>> /\ ~AtBoundary
  /\ file' = Putting(file, file.clust, file.buf)
  /\ left' = Rest
  /\ UNCHANGED <<disk, pc, fs, bounds, memory>>

\* At the beginning of a sector: its cluster is looked for or allocated,
\* the sector before it is written, and the buffer refilled from the disk
\* if it lies within the file.  A chain that is none sets fp->err, and the
\* file takes nothing more.
PutBoundary ==
  /\ pc = "put" /\ queue = <<>> /\ left # <<>> /\ AtBoundary
  /\ PutNeedsFat => winsect = Fat
  /\ LET r == IF PutNeedsFat
              THEN CreateChain(FatNow, last, IF file.fptr = 0 THEN 0 ELSE file.clust)
              ELSE Chain(file.sclust, FatNow, last)
         base == [file EXCEPT !.sclust = IF @ = 0 THEN r.clust ELSE @]
         inside == file.sect # r.clust /\ file.fptr < file.size
     IN /\ TakeFat(PutNeedsFat, r)
        /\ CASE r.clust = 0 ->
                  /\ file' = [file EXCEPT !.modified = TRUE]
                  /\ left' = Tail(left)
                  /\ UNCHANGED queue
             [] r.clust \in Cluster ->
                  /\ file' = Putting(base, r.clust,
                               IF inside THEN chip[Data(r.clust)] ELSE file.buf)
                  /\ left' = Rest
                  /\ queue' = IF file.dirty THEN <<Write(Data(file.sect), file.buf)>>
                              ELSE <<>>
             [] OTHER ->
                  /\ left' = <<>>
                  /\ UNCHANGED <<file, queue>>
  /\ UNCHANGED <<chip, erased, pc, mounted, winsect, bounds, memory>>

PutDone ==
  /\ pc = "put" /\ queue = <<>> /\ left = <<>>
  /\ pc' = "close"
  /\ UNCHANGED <<disk, fs, file, left, bounds, memory>>

\* f_close: the buffer, then the window with the FAT, then the entry.
CloseData ==
  /\ pc = "close" /\ queue = <<>> /\ file.modified /\ file.dirty
  /\ queue' = <<Write(Data(file.sect), file.buf)>>
  /\ file' = [file EXCEPT !.dirty = FALSE]
  /\ UNCHANGED <<chip, erased, pc, fs, left, bounds, memory>>

CloseEntry ==
  /\ pc = "close" /\ queue = <<>> /\ file.modified /\ ~file.dirty
  /\ winsect = file.dirSect
  /\ win' = Entry("file", file.sclust, file.size)
  /\ wflag' = FALSE
  /\ queue' = <<Write(winsect, win')>>
  /\ file' = [file EXCEPT !.modified = FALSE]
  /\ pc' = "closed"
  /\ UNCHANGED <<chip, erased, mounted, last, winsect, left, bounds, memory>>

\* Without a change there is nothing to write.
CloseUnchanged ==
  /\ pc = "close" /\ queue = <<>> /\ ~file.modified
  /\ pc' = "idle" /\ file' = NoFile
  /\ UNCHANGED <<disk, fs, left, bounds, memory>>

-----------------------------------------------------------------------------
(* What is on the disk. *)

\* The entry of the file, its chain, and the bytes of a cluster that belong
\* to it.
OnDisk == {k \in 1 .. Root : chip[Dir(k)].kind # "blank"}
Recorded == IF OnDisk = {} THEN EndOfTable
            ELSE chip[Dir(CHOOSE k \in OnDisk : \A j \in OnDisk : k <= j)]
After == [c \in Cluster \cup {Free, Eoc} |-> IF c \in Cluster THEN chip[Fat].next[c] ELSE Eoc]
Chained[n \in 0 .. LastCluster] == IF n = 0 THEN Recorded.clust ELSE After[Chained[n - 1]]
Place(c) == {n \in 0 .. LastCluster : Chained[n] = c}
InFile(c) ==
  IF Place(c) = {} THEN 0
  ELSE LET before == SectorSize * Min(Place(c))
       IN IF Recorded.size <= before THEN 0 ELSE Shorter(SectorSize, Recorded.size - before)

\* f_close is done; the history remembers what it recorded.
CloseDone ==
  /\ pc = "closed" /\ queue = <<>>
  /\ pc' = "idle" /\ file' = NoFile
  /\ kept' = [c \in Cluster |-> Longest(kept[c], InFile(c))]
  /\ UNCHANGED <<disk, fs, left, bounds, formatting, harm, early>>

-----------------------------------------------------------------------------
(* The web pages: restoring the settings, and the list of the files. *)

\* The sectors f_mkfs writes, one after the other.
Formats ==
  <<Write(Vbr, "valid"), Write(Fat, EmptyFat)>>
  \o [k \in 1 .. Root |-> Write(Dir(k), EndOfTable)]
  \o <<Write(Mbr, "valid")>>

Format ==
  /\ pc = "idle" /\ queue = <<>> /\ formats < MaxFormats
  /\ pc' = "format" /\ queue' = Formats
  /\ mounted' = FALSE
  /\ formats' = formats + 1
  /\ formatting' = TRUE
  /\ kept' = [c \in Cluster |-> 0]
  /\ UNCHANGED <<chip, erased, last, winsect, win, wflag, file, left, losses, harm, early>>

FormatDone ==
  /\ pc = "format" /\ queue = <<>>
  /\ pc' = "idle"
  /\ formatting' = FALSE /\ harm' = {} /\ early' = 0
  /\ UNCHANGED <<disk, fs, file, left, bounds, kept>>

\* f_findfirst and f_findnext read the directory, to its end.
List ==
  /\ pc = "idle" /\ queue = <<>> /\ Bootable
  /\ mounted' = TRUE /\ last' = IF mounted THEN last ELSE 0
  /\ \E k \in 1 .. Root : winsect' = Dir(k) /\ win' = chip[Dir(k)]
  /\ UNCHANGED <<disk, pc, wflag, file, left, bounds, memory>>

-----------------------------------------------------------------------------
\* A chip that was never written.
FatInit ==
  /\ chip = [s \in Sector |-> Wiped(s)] /\ queue = <<>> /\ erased = FALSE
  /\ pc = "idle"
  /\ mounted = FALSE /\ last = 0 /\ winsect = Mbr /\ win = EndOfTable /\ wflag = FALSE
  /\ file = NoFile /\ left = <<>>
  /\ losses = 0 /\ formats = 0
  /\ formatting = TRUE /\ harm = {} /\ kept = [c \in Cluster |-> 0] /\ early = 0

\* The sector the program needs in its window next.
Window ==
  \/ pc = "open" /\ MoveWindow(Dir(1))
  \/ pc = "seek" /\ SeekNeedsFat /\ MoveWindow(Fat)
  \/ pc = "put" /\ left # <<>> /\ PutNeedsFat /\ MoveWindow(Fat)
  \/ pc = "close" /\ file.modified /\ ~file.dirty /\ MoveWindow(file.dirSect)

FatFs ==
  \/ Window \/ OpenDenied \/ OpenNew \/ OpenOld
  \/ SeekFirst \/ SeekBehind \/ SeekEnd
  \/ PutInside \/ PutBoundary \/ PutDone
  \/ CloseData \/ CloseEntry \/ CloseUnchanged \/ CloseDone

Run == Erase \/ Program \/ UsbWrite \/ FatFs \/ FormatDone

FatNext == Run \/ Outage \/ Format \/ List

FatSpec == FatInit /\ [][FatNext]_fatVars /\ WF_fatVars(Run)

-----------------------------------------------------------------------------
(* Properties. *)

\* What would be cut if the power went now.
Cut == harm \cup IF erased THEN {Head(queue).sect} ELSE {}

\* A volume that was formatted to the end, and whose FAT and directory were
\* never cut.
Sound == ~formatting /\ Cut \subseteq {Data(c) : c \in Cluster}

Text(o) ==
  IF o < Len(Greeting) THEN Greeting[o + 1]
  ELSE Line[((o - Len(Greeting)) % Len(Line)) + 1]

\* On a sound volume the file holds, whenever the power goes, every byte a
\* close recorded, in the order they were put; a cut in the data harms the
\* bytes of that one sector.
TextKept ==
  Sound =>
    /\ Recorded.size > 0 =>
         /\ Recorded.size <= SectorSize * LastCluster
         /\ Chained[(Recorded.size - 1) \div SectorSize] \in Cluster
    /\ \A c \in Cluster :
         /\ InFile(c) >= kept[c]
         /\ Data(c) \notin Cut =>
              \A n \in Place(c), i \in 1 .. InFile(c) :
                chip[Data(c)][i] = Text(n * SectorSize + i - 1)

\* Clusters are lost only to losses of power before the first close, one to
\* each.
LeakBounded ==
  Sound =>
    Cardinality({c \in Cluster : chip[Fat].next[c] # Free /\ Place(c) = {}}) <= EarlyNow

\* Not even on a volume whose FAT or directory was cut is a byte that a
\* close recorded overwritten with another.  (Only a loss of power within the
\* write of its own sector may leave it erased.)
TextNotOverwritten ==
  ~formatting /\ queue # <<>> /\ ~erased =>
    \A c \in Cluster : Head(queue).sect = Data(c) =>
      \A i \in 1 .. kept[c] : Head(queue).content[i] = chip[Data(c)][i]

\* Once a volume was formatted, the file on it grows until the disk is full:
\* losses of power do not end that, unless one cut the FAT or the directory.
Grows ==
  <>[](~formatting /\ harm \subseteq {Data(c) : c \in Cluster})
    => <>[](FreeIn(chip[Fat].next) = {})
=============================================================================
