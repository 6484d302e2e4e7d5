------------------------------ MODULE FileSys ------------------------------
(***************************************************************************)
(* The file system (kernel/fs/fs.c, include/comm/fs.h): files are chains   *)
(* of sectors that end in a next_sector field; a directory is a file of    *)
(* FCBs; an open file is a copy of its FCB with a read and a write         *)
(* position, kept by the client (file_cached_t).                           *)
(*                                                                         *)
(* A sector has BLOCK cells; a cell is a byte of a file or an FCB of a     *)
(* directory (an FCB that straddles two sectors is not told apart from one *)
(* that does not).  The only directory is the root.  Buffers are large     *)
(* enough (bound: MaxSize).  Every call is one step.                       *)
(*                                                                         *)
(* sys_write inserts: what follows the write position moves up.            *)
(*                                                                         *)
(* sys_execve copies a program into the swap area, which begins at a fixed *)
(* sector of the same disk; file_alloc does not know of it.  (A page of    *)
(* swap stands for the 8 sectors of a page.)                               *)
(***************************************************************************)
EXTENDS Integers, Sequences, FiniteSets, FiniteSetsExt

CONSTANTS BLOCK,      \* cells of a sector (VALID_DATA_SIZE_IN_BLOCK, 508)
          NSectors,   \* sectors of the disk, from the root's FCB on
          Clients,    \* tasks with an open file each
          Names,      \* names of files clients create
          Bytes,      \* contents of a cell
          Blank,      \* a cell nobody has written
          Program,    \* a cell of the program usr
          Programs,   \* names of files that are started as programs
          MaxSize,    \* bound: size of a file
          SWAP_START, \* DISK_SWAP_START_SECTOR, 6 sectors after the root's FCB
          Careful     \* do clients keep to the rules of CarefulWrite?

Sectors == 0..(NSectors - 1)
SECTOR_WITH_ROOT_FCB == 0
RootPath == ""
RootData == 1
UsrData == 2

ASSUME FileSysAssumption ==
  /\ BLOCK \in Nat \ {0}
  /\ NSectors \in Nat /\ NSectors > 3 /\ SWAP_START \in 3..NSectors
  /\ "usr" \notin Names /\ RootPath \notin Names
  /\ Programs \subseteq Names \cup {"usr"}
  /\ {Blank, Program} \cap Bytes = {}
  /\ MaxSize \in Nat
  /\ Careful \in BOOLEAN

VARIABLES
  disk,     \* the sectors: [data, next]
  used,     \* file_alloc_bitmap
  handle,   \* the file_cached_t of every client
  text,     \* history: what has been written to every file
  swap      \* history: the pages that have been written to the swap area

vars == <<disk, used, handle, text, swap>>

NTH_BLOCK(x) == x \div BLOCK
IN_BLOCK_OFFSET(x) == x % BLOCK

(* Sector numbers off the disk: 0xFFFFFFFF, 0xFFFFFFF, and a file's bytes. *)
None == -1
Mistyped == 268435455
Overwritten == -2

EmptyBlock == [data |-> [i \in 0..(BLOCK - 1) |-> Blank], next |-> None]
-----------------------------------------------------------------------------
(* The disk controller; reading off the disk yields nothing useful. *)
read_disk(d, s) == IF s \in Sectors THEN d[s] ELSE EmptyBlock
write_disk(d, s, block) == IF s \in Sectors THEN [d EXCEPT ![s] = block] ELSE d

(* The n-th sector after s. *)
Follow(d, s, n) ==
  LET sector[i \in 0..n] == IF i = 0 THEN s ELSE read_disk(d, sector[i - 1]).next
  IN sector[n]

(* The cells of buf (from index from on) put into a block at an offset. *)
Overlaid(block, offset, buf, from, n) ==
  [block EXCEPT !.data = [i \in 0..(BLOCK - 1) |->
     IF i \in offset..(offset + n - 1) THEN buf[from + i - offset] ELSE @[i]]]

(***************************************************************************)
(* sys_read of length cells, if the file has them.  A read that stays in a *)
(* sector advances read_seek; one that goes on into another sector leaves  *)
(* it at the beginning of the last sector it reached.                      *)
(***************************************************************************)
InRange(h, length) == h.read_seek + length <= h.file.file_size

CellsRead(d, h, length) ==
  LET offset == IN_BLOCK_OFFSET(h.read_seek)
  IN [i \in 1..length |->
        read_disk(d, Follow(d, h.read_sector, NTH_BLOCK(offset + i - 1)))
          .data[IN_BLOCK_OFFSET(offset + i - 1)]]

StaysInSector(d, h, length) ==
  IF InRange(h, length) THEN [h EXCEPT !.read_seek = @ + length] ELSE h

AfterRead(d, h, length) ==
  LET crossed == NTH_BLOCK(h.read_seek + length) - NTH_BLOCK(h.read_seek)
  IN CASE ~InRange(h, length) -> h
       [] InRange(h, length) /\ crossed = 0 -> [h EXCEPT !.read_seek = @ + length]
       [] InRange(h, length) /\ crossed # 0 ->
            [h EXCEPT !.read_seek = (NTH_BLOCK(@) + crossed) * BLOCK,
                      !.read_sector = Follow(d, @, crossed)]

SeeksAnywhere(d, h, read_seek) ==
  [h EXCEPT !.read_sector = Follow(d, h.file.first_sector, NTH_BLOCK(read_seek)),
            !.read_seek = read_seek]

sys_rseek(d, h, read_seek) ==
  IF read_seek < h.file.file_size
    THEN [h EXCEPT !.read_sector = Follow(d, h.file.first_sector, NTH_BLOCK(read_seek)),
                   !.read_seek = read_seek]
    ELSE h

sys_wseek(d, h, write_seek) ==
  [h EXCEPT !.write_sector = Follow(d, h.file.first_sector, NTH_BLOCK(write_seek)),
            !.write_seek = write_seek]

(***************************************************************************)
(* covering_write: the disk it leaves.  The sector at the write position   *)
(* is filled up; whole sectors are written from buf with its bytes as      *)
(* next_sector, so that only the first of them lands in the file; the rest *)
(* goes to the beginning of the next sector.                               *)
(***************************************************************************)
covering_write(d, h, buf) ==
  LET length == Len(buf)
      offset == IN_BLOCK_OFFSET(h.write_seek)
      first == read_disk(d, h.write_sector)
      remain == BLOCK - offset
      filled == write_disk(d, h.write_sector, Overlaid(first, offset, buf, 1, remain))
      next == read_disk(filled, first.next)
      sectors == NTH_BLOCK(length - remain)
      scattered == IN_BLOCK_OFFSET(length - remain)
  IN IF NTH_BLOCK(h.write_seek + length) = NTH_BLOCK(h.write_seek)
       THEN write_disk(d, h.write_sector, Overlaid(first, offset, buf, 1, length))
       ELSE IF sectors = 0
         THEN write_disk(filled, first.next,
                         Overlaid(next, 0, buf, remain + 1, scattered))
         ELSE write_disk(filled, first.next,
                         [Overlaid(next, 0, buf, remain + 1, BLOCK)
                            EXCEPT !.next = Overwritten])
-----------------------------------------------------------------------------
(* Directories.  The root's FCB is the first cell of its sector. *)

RootFcb(d) == d[SECTOR_WITH_ROOT_FCB].data[0]

Opened(file, name, index) ==
  [file |-> file, path |-> name, index |-> index,
   read_seek |-> 0, write_seek |-> 0,
   read_sector |-> file.first_sector, write_sector |-> file.first_sector]

RootOpened(d) == Opened(RootFcb(d), RootPath, 0)

(* read_all of the root *)
RootEntries(d) == CellsRead(d, RootOpened(d), RootFcb(d).file_size)

(* Positions at which dir_search_file finds a name: it takes the first. *)
Positions(d, name) ==
  {i \in 1..RootFcb(d).file_size : RootEntries(d)[i].file_name = name}

dir_search_file(d, name) == Min(Positions(d, name))

load_file_cached(d, name) ==
  IF name = RootPath
    THEN RootOpened(d)
    ELSE LET i == dir_search_file(d, name)
         IN Opened(RootEntries(d)[i], name, i - 1)

(***************************************************************************)
(* store_file_cached writes the client's FCB over the entry at the index   *)
(* at which it was found when the file was opened.  (The root's FCB is     *)
(* written only if parent_dir_name, which load_file_cached leaves alone    *)
(* for the root, names a directory; it does in zeroed memory.)             *)
(***************************************************************************)
store_file_cached(d, h) ==
  IF h.path = RootPath
    THEN write_disk(d, SECTOR_WITH_ROOT_FCB, Overlaid(EmptyBlock, 0, <<h.file>>, 1, 1))
    ELSE covering_write(d, sys_wseek(d, RootOpened(d), h.index), <<h.file>>)

file_alloc(u) == Min(Sectors \ u)
-----------------------------------------------------------------------------
Unlinked(fs) ==
  LET new == file_alloc(fs.used)
  IN [fs EXCEPT !.used = @ \cup {new},
                !.disk = [@ EXCEPT ![new].next = None],
                !.h.file.last_sector = new]

(* One turn of the loop of file_expand, on [disk, used, h]. *)
Extended(fs) ==
  LET new == file_alloc(fs.used)
  IN [fs EXCEPT !.used = @ \cup {new},
                !.disk = [@ EXCEPT ![fs.h.file.last_sector].next = new,
                                   ![new].next = None],
                !.h.file.last_sector = new]

file_expand(fs, need) ==
  LET grown[n \in 0..need] == IF n = 0 THEN fs ELSE Extended(grown[n - 1])
      counted == [grown[need] EXCEPT !.h.file.sector_count = @ + need]
  IN [counted EXCEPT !.disk = store_file_cached(@, counted.h)]

EnoughForData(size) == NTH_BLOCK(size - 1) + 1

(* A file that fills its last sector has another one after it. *)
SectorsFor(size) == NTH_BLOCK(size) + 1

(***************************************************************************)
(* sys_write: the file grows if need be; what follows the write position   *)
(* is read, through the read position, and written back behind buf; both   *)
(* positions are put back (sys_rseek refuses the end of the file, and      *)
(* leaves the position where reading ended); the FCB is stored.            *)
(***************************************************************************)
Grown(fs, length) ==
  LET need == SectorsFor(fs.h.file.file_size + length) - fs.h.file.sector_count
  IN IF need > 0 THEN file_expand(fs, need) ELSE fs

(* synced is the handle with the read position at the write position. *)
Inserted(fs, synced, buf) ==
  LET size == fs.h.file.file_size
      rest == size - synced.read_seek
      remains == SubSeq(CellsRead(fs.disk, synced, rest), 1, size - fs.h.write_seek)
      read == AfterRead(fs.disk, synced, rest)
  IN [fs EXCEPT !.disk = covering_write(@, read, buf \o remains), !.h = read]

(* old is the handle with the positions from before the insertion. *)
Repositioned(fs, old, length) ==
  LET wsought == sys_wseek(fs.disk, fs.h, old.write_seek + length)
      rsought == sys_rseek(fs.disk, wsought, old.read_seek)
  IN [fs EXCEPT !.h = [rsought EXCEPT !.file.file_size = @ + length]]

Saved(fs) == [fs EXCEPT !.disk = store_file_cached(@, fs.h)]

InsertedWhenGrown(fs, buf) ==
  LET inserted == Inserted(fs, sys_rseek(fs.disk, fs.h, fs.h.write_seek), buf)
  IN Saved(Repositioned(inserted, fs.h, Len(buf)))

sys_write(fs, buf) == InsertedWhenGrown(Grown(fs, Len(buf)), buf)
-----------------------------------------------------------------------------
(* fs_init, root_init and main's fs_test: the root holds the file usr, one *)
(* full sector whose next_sector is the sector after it.                   *)
Fcb(name, first, size) ==
  [file_name |-> name, first_sector |-> first, last_sector |-> first,
   sector_count |-> 1, file_size |-> size]

fs_test == Overlaid(EmptyBlock, 0, <<Fcb("usr", UsrData, BLOCK)>>, 1, 1)

Closed == [path |-> "closed"]

Init ==
  /\ disk = [s \in Sectors |->
       CASE s = SECTOR_WITH_ROOT_FCB ->
              Overlaid(EmptyBlock, 0, <<Fcb("root", RootData, 1)>>, 1, 1)
         [] s = RootData -> fs_test
         [] s = UsrData ->
              [data |-> [i \in 0..(BLOCK - 1) |-> Program], next |-> UsrData + 1]
         [] OTHER -> EmptyBlock]
  /\ used = {SECTOR_WITH_ROOT_FCB, RootData, UsrData}
  /\ handle = [c \in Clients |-> Closed]
  /\ text = [name \in {"usr"} |-> [i \in 1..BLOCK |-> Program]]
  /\ swap = <<>>
-----------------------------------------------------------------------------
Files == DOMAIN text

(* load_file_cached finds the path. *)
Open(c, name) ==
  /\ name = RootPath \/ Positions(disk, name) # {}
  /\ handle' = [handle EXCEPT ![c] = load_file_cached(disk, name)]
  /\ UNCHANGED <<disk, used, text, swap>>

IsRoot(c) == handle[c].path = RootPath
IsFile(c) == handle[c].path \notin {RootPath, "closed"}

(***************************************************************************)
(* Rules for writing length cells: the client's FCB is what the directory  *)
(* has where the client will store it; the file has the sectors sys_write  *)
(* counts on; the write position is in the file; and the write reaches no  *)
(* third sector.  (Write adds that the file system has sectors left before *)
(* the swap area.)                                                         *)
(***************************************************************************)
Fresh(h) ==
  IF h.path = RootPath
    THEN h.file = RootFcb(disk)
    ELSE /\ h.index < RootFcb(disk).file_size
         /\ RootEntries(disk)[h.index + 1] = h.file

CarefulWrite(h, length) ==
  LET offset == IN_BLOCK_OFFSET(h.write_seek)
      total == h.file.file_size - h.write_seek + length
  IN /\ Fresh(h)
     /\ h.file.sector_count >= SectorsFor(h.file.file_size)
     /\ h.write_seek <= h.file.file_size
     /\ offset + total < 2 * BLOCK

MayWrite(c, length) ==
  /\ handle[c].file.file_size + length <= MaxSize
  /\ Careful => CarefulWrite(handle[c], length)

(* A call leaves the disk, the bitmap and the caller's handle as fs. *)
Leaves(c, fs) ==
  /\ Careful => fs.used \subseteq 0..(SWAP_START - 1)
  /\ disk' = fs.disk
  /\ used' = fs.used
  /\ handle' = [handle EXCEPT ![c] = fs.h]
  /\ UNCHANGED swap

Write(c, fs, buf) == Leaves(c, sys_write(fs, buf))

(* sys_create: an empty file with one sector, entered into the root. *)
Create(c, name) ==
  LET first == file_alloc(used)
      block == [EmptyBlock EXCEPT !.next = Mistyped]
  IN /\ IsRoot(c)
     /\ MayWrite(c, 1)
     /\ name \notin Files
     /\ Write(c, [disk |-> write_disk(disk, first, block), used |-> used \cup {first},
                  h |-> handle[c]],
              <<Fcb(name, first, 0)>>)
     /\ text' = [n \in Files \cup {name} |-> IF n = name THEN <<>> ELSE text[n]]

(* Clients write to files that still exist. *)
WriteFile(c, buf) ==
  LET h == handle[c]
      old == text[h.path]
  IN /\ IsFile(c)
     /\ MayWrite(c, Len(buf))
     /\ Write(c, [disk |-> disk, used |-> used, h |-> h], buf)
     /\ text' = [text EXCEPT ![h.path] = SubSeq(old, 1, h.write_seek) \o buf \o
                                           SubSeq(old, h.write_seek + 1, Len(old))]

ReadFile(c, length) ==
  /\ IsFile(c)
  /\ handle' = [handle EXCEPT ![c] = AfterRead(disk, @, length)]
  /\ UNCHANGED <<disk, used, text, swap>>

SeekRead(c, read_seek) ==
  /\ IsFile(c)
  /\ handle' = [handle EXCEPT ![c] = sys_rseek(disk, @, read_seek)]
  /\ UNCHANGED <<disk, used, text, swap>>

SeekWrite(c, write_seek) ==
  /\ IsFile(c) \/ IsRoot(c)
  /\ write_seek <= handle[c].file.file_size
  /\ handle' = [handle EXCEPT ![c] = sys_wseek(disk, @, write_seek)]
  /\ UNCHANGED <<disk, used, text, swap>>

OneTooLow(pages) == SWAP_START + pages - 1

(* swap_alloc, when so many pages have been allocated *)
swap_alloc(pages) == SWAP_START + pages

(* read_all of the program, as much as fits, and write_disk: a whole       *)
(* sector, next_sector included.                                           *)
Page(d, file) ==
  LET code == CellsRead(d, Opened(file, RootPath, 0), file.file_size)
  IN [data |-> [i \in 0..(BLOCK - 1) |-> IF i < Len(code) THEN code[i + 1] ELSE Blank],
      next |-> Overwritten]

(* sys_execve, as far as the disk is concerned *)
sys_execve(name) ==
  LET sector == swap_alloc(Len(swap))
      page == Page(disk, load_file_cached(disk, name).file)
  IN /\ Positions(disk, name) # {}
     /\ Len(swap) < NSectors - SWAP_START
     /\ disk' = write_disk(disk, sector, page)
     /\ swap' = Append(swap, [sector |-> sector, page |-> page])
     /\ UNCHANGED <<used, handle, text>>

Buffers == {<<b>> : b \in Bytes} \cup (Bytes \X Bytes)

Next ==
  \/ \E name \in Programs : sys_execve(name)
  \/ \E c \in Clients :
    \/ \E name \in Names \cup {RootPath, "usr"} : Open(c, name)
    \/ \E name \in Names : Create(c, name)
    \/ \E buf \in Buffers : WriteFile(c, buf)
    \/ \E length \in 1..MaxSize : ReadFile(c, length)
    \/ \E seek \in 0..MaxSize : SeekRead(c, seek) \/ SeekWrite(c, seek)

Spec == Init /\ [][Next]_vars
-----------------------------------------------------------------------------
(* The sectors of a file, as many as its FCB counts. *)
Chain(file) ==
  [k \in 1..file.sector_count |-> Follow(disk, file.first_sector, k - 1)]

Content(file) == CellsRead(disk, Opened(file, RootPath, 0), file.file_size)

Entries == {RootEntries(disk)[i] : i \in 1..RootFcb(disk).file_size}

(* All FCBs are well formed and cells of directories are FCBs. *)
TypeOK ==
  /\ used \subseteq Sectors
  /\ \A s \in Sectors : disk[s].next \in Sectors \cup
       IF s < SWAP_START THEN {None, Mistyped} ELSE {None, Overwritten}
  /\ Files \subseteq Names \cup {"usr"}
  /\ \A name \in Files : text[name] \in Seq(Bytes \cup {Program})
  /\ \A c \in Clients :
       handle[c] # Closed =>
         /\ handle[c].file.file_size \in 0..MaxSize
         /\ handle[c].read_seek \in 0..handle[c].file.file_size
         /\ handle[c].write_seek \in 0..handle[c].file.file_size

(***************************************************************************)
(* fs.c:166-180 and 339-387: a file that was created stays in its          *)
(* directory, once, and holds what was written to it, whatever other files *)
(* were created and written to.                                            *)
(***************************************************************************)
FilesKept ==
  /\ RootFcb(disk).file_size = Cardinality(Files)
  /\ \A name \in Files :
       /\ Positions(disk, name) # {}
       /\ Content(RootEntries(disk)[dir_search_file(disk, name)]) = text[name]

(***************************************************************************)
(* fs.h:42: first_sector, last_sector and sector_count describe the same   *)
(* chain; chains of different files have no sector in common, and the      *)
(* bitmap knows them.                                                      *)
(***************************************************************************)
ChainsDisjoint ==
  LET all == Entries \cup {RootFcb(disk)}
      sectors(file) == {Chain(file)[k] : k \in 1..file.sector_count}
  IN /\ \A file \in all :
          /\ Cardinality(sectors(file)) = file.sector_count
          /\ Chain(file)[file.sector_count] = file.last_sector
          /\ sectors(file) \subseteq used \ {SECTOR_WITH_ROOT_FCB}
     /\ \A f, g \in all : f # g => sectors(f) \cap sectors(g) = {}

(***************************************************************************)
(* sys_read (fs.c:183) returns the cells at the client's read position,    *)
(* however seeks, reads, inserts and the file's growth have led there, as  *)
(* long as its copy of the FCB is not out of date.                         *)
(***************************************************************************)
ReadsReturnText ==
  \A c \in Clients :
    IsFile(c) /\ Fresh(handle[c]) =>
      LET h == handle[c]
      IN \A length \in 0..MaxSize : InRange(h, length) =>
           CellsRead(disk, h, length) =
             SubSeq(text[h.path], h.read_seek + 1, h.read_seek + length)

(***************************************************************************)
(* v_memory.h:1 and execve.c:24-27: a program stays in the swap area, from  *)
(* which its task will load it, whatever files are created and grow.       *)
(***************************************************************************)
SwapKept == \A k \in 1..Len(swap) : disk[swap[k].sector] = swap[k].page
=============================================================================
