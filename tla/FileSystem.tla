----------------------------- MODULE FileSystem -----------------------------
(***************************************************************************)
(* The file system of src/Project5/fs.c on the virtual disk of disk.c.      *)
(*                                                                         *)
(* One disk.  Block 0 holds the super block, block 1 the directory, the FAT *)
(* follows and the data blocks come last.  Mounting copies the directory    *)
(* and the FAT to memory (DIR, FAT); only umount_fs writes them back, while *)
(* file contents go to their blocks at once.  The program is sequential:    *)
(* one call is one step.                                                    *)
(*                                                                         *)
(* A byte is a value of Bytes, or Junk where memory nobody initialised is   *)
(* written or read.  A call that leaves the arrays, hangs or crashes ends   *)
(* the run with the kind of fault in "fault".                               *)
(***************************************************************************)
EXTENDS Integers, Sequences, FiniteSets, FiniteSetsExt

CONSTANTS
  DISK_BLOCKS, BLOCK_SIZE,                  \* disk.h
  MAX_F_NUM, MAX_FILDES, MAX_F_SIZE,        \* fs.c, lines 5-7
  IntsPerBlock,                             \* BLOCK_SIZE / sizeof(int)
  Names,                                    \* file names a program uses
  Bytes, Zero, Junk,                        \* byte values; Zero is in Bytes
  Buffers,                                  \* the byte strings written
  Counts,                                   \* the nbyte of fs_read
  Lengths,                                  \* the arguments of fs_truncate
  Careless                                  \* a program may format a mounted
                                            \* disk and mount a blank one
Eof == -1
Free == 0
NoName == ""

fat_len == DISK_BLOCKS \div IntsPerBlock
data_idx == 2 + fat_len

Blocks == 0 .. DISK_BLOCKS - 1
DataBlocks == data_idx .. DISK_BLOCKS - 1
Slots == 0 .. MAX_F_NUM - 1
Fds == 0 .. MAX_FILDES - 1
InBlock == 0 .. BLOCK_SIZE - 1

ASSUME DiskAssumption ==
  /\ DISK_BLOCKS \in Nat /\ IntsPerBlock \in Nat \ {0} /\ data_idx \in Blocks
  /\ BLOCK_SIZE \in Nat \ {0}
ASSUME LimitAssumption ==
  /\ MAX_F_NUM \in Nat \ {0} /\ MAX_FILDES \in Nat \ {0} /\ MAX_F_SIZE \in Nat
ASSUME InputAssumption ==
  /\ NoName \notin Names
  /\ Zero \in Bytes /\ Junk \notin Bytes
  /\ Buffers \subseteq Seq(Bytes) /\ Counts \subseteq Nat /\ Lengths \subseteq Nat
  /\ Careless \in BOOLEAN

VARIABLES
  DIR,       \* the directory in memory
  FAT,       \* FAT[b]: Free, Eof or the block after b
  fildes,    \* the descriptors: the file is known by its first block
  mount,     \* a file system is mounted, and the disk open
  super,     \* block 0: "none" (no disk), "blank" (zeroes) or "made"
  disk,      \* [dir, fat]: the directory and the FAT on the disk
  data,      \* the data blocks on the disk
  ret,       \* the last call and what it gave its caller: [call, val, data]
  fault      \* "none", or how the run ended

memory == <<DIR, FAT, fildes>>
vars == <<memory, mount, super, disk, data, ret, fault>>

(* What the next steps depend on.  No action reads ret, or tells apart the   *)
(* entries, or the descriptors, that are not used; while mounted the        *)
(* directory and FAT of the disk are overwritten before they are read, and  *)
(* while unmounted those in memory are.  TLC keeps one state for each value *)
(* of this (VIEW) and still checks action properties on every step.         *)
StateView ==
  LET dir == IF mount THEN DIR ELSE disk.dir
  IN  <<[i \in Slots |-> IF dir[i].used THEN dir[i] ELSE dir[i].used],
        [d \in Fds |-> IF fildes[d].used THEN fildes[d] ELSE fildes[d].used],
        IF mount THEN FAT ELSE disk.fat, mount, super, data, fault>>

(* No guard reads file contents: for properties that do not either, the     *)
(* data blocks can be left out as well.  All of an entry counts here.       *)
StructureView == <<IF mount THEN <<DIR, FAT>> ELSE <<disk.dir, disk.fat>>,
                   fildes, mount, super, fault>>

Entry == [used : BOOLEAN, name : Names \cup {NoName}, size : 0 .. MAX_F_SIZE,
          head : DataBlocks \cup {Eof, 0}, ref_cnt : 0 .. MAX_FILDES]
Descriptor == [used : BOOLEAN, file : DataBlocks \cup {0},
               offset : -1 .. MAX_F_SIZE]

Unused == [used |-> FALSE, name |-> NoName, size |-> 0, head |-> Eof, ref_cnt |-> 0]
EmptyDisk == [dir |-> [i \in Slots |-> Unused], fat |-> [b \in Blocks |-> Free]]
ZeroData == [b \in DataBlocks |-> [p \in InBlock |-> Zero]]

(* A new process: the arrays are in .bss.                                   *)
ZeroDIR == [i \in Slots |-> [Unused EXCEPT !.head = 0]]
ZeroFAT == [b \in Blocks |-> 0]
ZeroFildes == [d \in Fds |-> [used |-> FALSE, file |-> 0, offset |-> 0]]

Init ==
  /\ DIR = ZeroDIR /\ FAT = ZeroFAT /\ fildes = ZeroFildes
  /\ mount = FALSE
  /\ super = "none"
  /\ disk = EmptyDisk
  /\ data = ZeroData
  /\ ret = [call |-> <<"init">>, val |-> 0, data |-> <<>>]
  /\ fault = "none"

Returns(call, v) == ret' = [call |-> call, val |-> v, data |-> <<>>]
Fails(call) == Returns(call, -1) /\ UNCHANGED <<memory, mount, super, disk, data, fault>>
Faults(call, kind) ==
  /\ fault' = kind
  /\ Returns(call, -1)
  /\ UNCHANGED <<memory, mount, super, disk, data>>

Up == fault = "none"
Ready == Up /\ mount

-----------------------------------------------------------------------------
(* The chain of blocks of a file *)

Closed(F, T) == \A b \in T : F[b] \in DataBlocks => F[b] \in T

(* The blocks reached from h: those in every closed set that holds h.       *)
Chain(F, h) ==
  {b \in DataBlocks : \A T \in SUBSET DataBlocks : h \in T /\ Closed(F, T) => b \in T}

(* A walk from h comes to an end; else it comes to block 0, and FAT[0] = 0. *)
Ends(F, h) == \E b \in Chain(F, h) : F[b] = Eof

(* The k-th block of the walk from h, or Eof past its end.                  *)
BlockAt(F, h, k) ==
  LET at[n \in 0 .. k] ==
        IF n = 0 THEN h
        ELSE LET b == at[n - 1] IN IF b \in DataBlocks THEN F[b] ELSE Eof
  IN  at[k]
Index(F, h, b) == CHOOSE k \in 0 .. DISK_BLOCKS : BlockAt(F, h, k) = b

FreeOrLast(F) == {b \in DataBlocks : F[b] <= Free}                          \* mutant
FreeBlocks(F) == {b \in DataBlocks : F[b] = Free}

(* The blocks G, in ascending order, appended to the one-block chain of h.  *)
Linked(F, h, G) ==
  [b \in Blocks |->
    LET after == IF b = h THEN G ELSE {c \in G : c > b}
    IN  IF b \notin G \cup {h} THEN F[b]
        ELSE IF after = {} THEN Eof ELSE Min(after)]

(* Lines 541-564: the loop looks for a free block n times, but each time    *)
(* only if FAT[fat_index] is Eof, and fat_index moves on to blocks the loop *)
(* itself has added: a chain that has a second block already never grows.   *)
(* Without a free block the loop goes on.                                   *)
LowestFree(F, n) == {b \in FreeBlocks(F) : Cardinality({c \in FreeBlocks(F) : c < b}) < n}
GrownByOneMore(F, h, n) ==                                                \* mutant
  IF F[h] = Eof THEN Linked(F, h, LowestFree(F, n + 1)) ELSE F
Grown(F, h, n) == IF F[h] = Eof THEN Linked(F, h, LowestFree(F, n)) ELSE F

OnlyHeadFreed(F, h) == [F EXCEPT ![h] = Free]                             \* mutant
ChainFreed(F, h) == [b \in Blocks |-> IF b \in Chain(F, h) THEN Free ELSE F[b]]

(* Lines 747-762: what fs_truncate does to the table.                       *)
Behind(F, last) == Chain(F, last) \ {last}
CutAfter(F, last) ==
  [b \in Blocks |-> IF b \in Behind(F, last) THEN Free ELSE IF b = last THEN Eof ELSE F[b]]

-----------------------------------------------------------------------------
(* Formatting and mounting *)

MakeFs ==
  /\ Up
  /\ ~mount
  /\ super' = "made"
  /\ disk' = EmptyDisk
  /\ data' = ZeroData
  /\ Returns(<<"make_fs">>, 0)
  /\ UNCHANGED <<memory, mount, fault>>

(* With a disk open, make_disk has emptied it by the time open_disk fails.  *)
MakeFsMounted ==
  /\ Ready
  /\ Careless
  /\ super' = "blank"
  /\ disk' = EmptyDisk
  /\ data' = ZeroData
  /\ Returns(<<"make_fs">>, -1)
  /\ UNCHANGED <<memory, mount, fault>>

(* Lines 193-196 clear the "used" of MAX_F_NUM descriptors.  Past           *)
(* MAX_FILDES that is every third entry of the FAT, which follows fildes.   *)
Clobbered == {3 * (i - MAX_FILDES) : i \in MAX_FILDES .. MAX_F_NUM - 1}

Mount ==
  /\ Up /\ ~mount /\ super = "made"
  /\ DIR' = disk.dir
  /\ FAT' = [b \in Blocks |-> IF b \in Clobbered THEN 0 ELSE disk.fat[b]]
  /\ fildes' = [d \in Fds |-> IF d < MAX_F_NUM THEN [fildes[d] EXCEPT !.used = FALSE] ELSE fildes[d]]
  /\ mount' = TRUE
  /\ Returns(<<"mount_fs">>, 0)
  /\ UNCHANGED <<super, disk, data, fault>>

MountNoDisk == Up /\ ~mount /\ super = "none" /\ Fails(<<"mount_fs">>)
MountTwice == Ready /\ Fails(<<"mount_fs">>)                    \* open_disk: already open

(* A super block of zeroes: the directory is read from block 0 and the FAT  *)
(* from a buffer of no length.  Nothing is checked, the call succeeds.      *)
MountBlank ==
  /\ Up /\ ~mount /\ super = "blank" /\ Careless
  /\ mount' = TRUE
  /\ fault' = "garbled"
  /\ Returns(<<"mount_fs">>, 0)
  /\ UNCHANGED <<memory, super, disk, data>>

UmountKeepsFat ==                                                         \* mutant
  /\ Ready
  /\ \A d \in Fds : ~fildes[d].used
  /\ disk' = [disk EXCEPT !.dir = DIR]
  /\ mount' = FALSE
  /\ Returns(<<"umount_fs">>, 0)
  /\ UNCHANGED <<memory, super, data, fault>>

(* Lines 239-246 copy FAT[i], whatever the page.  A program closes its      *)
(* descriptors first, as the README asks.                                   *)
Umount ==
  /\ Ready
  /\ \A d \in Fds : ~fildes[d].used
  /\ disk' = [dir |-> DIR, fat |-> [b \in Blocks |-> FAT[b % IntsPerBlock]]]
  /\ mount' = FALSE
  /\ Returns(<<"umount_fs">>, 0)
  /\ UNCHANGED <<memory, super, data, fault>>

UmountUnmounted == Up /\ ~mount /\ Fails(<<"umount_fs">>)

(* The next program that uses the disk.                                     *)
Restart ==
  /\ Up /\ ~mount
  /\ DIR' = ZeroDIR /\ FAT' = ZeroFAT /\ fildes' = ZeroFildes
  /\ Returns(<<"init">>, 0)
  /\ UNCHANGED <<mount, super, disk, data, fault>>

-----------------------------------------------------------------------------
(* Names *)

Named(n) == {i \in Slots : DIR[i].name = n}

Open(n) ==
  /\ Ready
  /\ LET spare == {d \in Fds : ~fildes[d].used}
     IN  IF Named(n) = {} \/ spare = {}
         THEN Fails(<<"open", n>>)
         ELSE LET i == Min(Named(n))
                  d == Min(spare)
              IN  /\ fildes' = [fildes EXCEPT
                       ![d] = [used |-> TRUE, file |-> DIR[i].head, offset |-> 0]]
                  /\ DIR' = [DIR EXCEPT ![i].ref_cnt = @ + 1]
                  /\ Returns(<<"open", n>>, d)
                  /\ UNCHANGED <<FAT, mount, super, disk, data, fault>>

(* The last unused slot (366-369) and the first free block (378-382).  With *)
(* no block free the search stops at DISK_BLOCKS and FAT[DISK_BLOCKS], the  *)
(* first word of DIR, is overwritten.                                       *)
Create(n) ==
  /\ Ready
  /\ LET unused == {i \in Slots : ~DIR[i].used}
     IN  IF Named(n) # {} \/ unused = {}
         THEN Fails(<<"create", n>>)
         ELSE IF FreeBlocks(FAT) = {}
         THEN Faults(<<"create", n>>, "overrun")
         ELSE LET b == Min(FreeBlocks(FAT))
              IN  /\ FAT' = [FAT EXCEPT ![b] = Eof]
                  /\ DIR' = [DIR EXCEPT ![Max(unused)] =
                       [used |-> TRUE, name |-> n, size |-> 0, head |-> b, ref_cnt |-> 0]]
                  /\ Returns(<<"create", n>>, 0)
                  /\ UNCHANGED <<fildes, mount, super, disk, data, fault>>

NeverBusy(i) == FALSE                                                     \* mutant
Busy(i) == DIR[i].ref_cnt > 0

(* A free block in the chain stops the deletion half way (419-423).         *)
Delete(n) ==
  /\ Ready
  /\ IF Named(n) = {} \/ (Named(n) # {} /\ Busy(Min(Named(n))))
     THEN Fails(<<"delete", n>>)
     ELSE LET i == Min(Named(n))
              h == DIR[i].head
          IN  /\ FAT' = ChainFreed(FAT, h)
              /\ IF Ends(FAT, h)
                 THEN /\ DIR' = [DIR EXCEPT ![i] =
                           [used |-> FALSE, name |-> NoName, size |-> 0,
                            head |-> 0, ref_cnt |-> DIR[i].ref_cnt]]
                      /\ Returns(<<"delete", n>>, 0)
                 ELSE Returns(<<"delete", n>>, -1) /\ UNCHANGED DIR
              /\ UNCHANGED <<fildes, mount, super, disk, data, fault>>

(* The list goes to a local copy of the caller's pointer (648).             *)
Listfiles == Ready /\ Returns(<<"listfiles">>, 0) /\ UNCHANGED <<memory, mount, super, disk, data, fault>>

-----------------------------------------------------------------------------
(* Descriptors *)

(* A descriptor finds its entry by the first block of its file.             *)
SlotOf(d) == Min({i \in Slots : DIR[i].head = fildes[d].file})

BadFd(d, call) == ~fildes[d].used /\ Fails(call)

Close(d) ==
  /\ Ready
  /\ \/ BadFd(d, <<"close", d>>)
     \/ /\ fildes[d].used
        /\ fildes' = [fildes EXCEPT ![d] = [used |-> FALSE, file |-> 0, offset |-> -1]]
        /\ DIR' = [DIR EXCEPT ![SlotOf(d)].ref_cnt = @ - 1]
        /\ Returns(<<"close", d>>, 0)
        /\ UNCHANGED <<FAT, mount, super, disk, data, fault>>

Filesize(d) ==
  /\ Ready
  /\ \/ BadFd(d, <<"get_filesize", d>>)
     \/ /\ fildes[d].used
        /\ Returns(<<"get_filesize", d>>, DIR[SlotOf(d)].size)
        /\ UNCHANGED <<memory, mount, super, disk, data, fault>>

SeekInBuffer(size, o) == o <= size + 1                                    \* mutant
SeekInFile(size, o) == o <= size

Lseek(d, o) ==
  /\ Ready
  /\ \/ BadFd(d, <<"lseek", d, o>>)
     \/ fildes[d].used /\ ~SeekInFile(DIR[SlotOf(d)].size, o) /\ Fails(<<"lseek", d, o>>)
     \/ /\ fildes[d].used /\ SeekInFile(DIR[SlotOf(d)].size, o)
        /\ fildes' = [fildes EXCEPT ![d].offset = o]
        /\ Returns(<<"lseek", d, o>>, 0)
        /\ UNCHANGED <<DIR, FAT, mount, super, disk, data, fault>>

(* Bytes from .. to - 1 of the file that starts at h.  Nothing was read into *)
(* the part of the buffer beyond the chain.                                 *)
Fetched(F, h, from, to) ==
  [i \in 1 .. to - from |->
    LET p == from + i - 1
        b == BlockAt(F, h, p \div BLOCK_SIZE)
    IN  IF b \in DataBlocks THEN data[b][p % BLOCK_SIZE] ELSE Junk]

ReadCount(size, o, n) == IF o + n > size THEN size - o ELSE n

Read(d, n) ==
  /\ Ready
  /\ \/ BadFd(d, <<"read", d, n>>)
     \/ fildes[d].used /\ n = 0 /\ Fails(<<"read", d, n>>)
     \/ /\ fildes[d].used /\ n > 0
        /\ LET o == fildes[d].offset
               h == fildes[d].file
               cnt == ReadCount(DIR[SlotOf(d)].size, o, n)
           IN  IF ~Ends(FAT, h)
               THEN Faults(<<"read", d, n>>, "crashed")
               ELSE /\ ret' = [call |-> <<"read", d, n>>, val |-> cnt, data |-> Fetched(FAT, h, o, o + cnt)]
                    /\ fildes' = [fildes EXCEPT ![d].offset = o + cnt]
                    /\ UNCHANGED <<DIR, FAT, mount, super, disk, data, fault>>

Unclamped(o, n) == n                                                      \* mutant
Clamped(o, n) == IF o + n > MAX_F_SIZE THEN MAX_F_SIZE - o ELSE n

(* The whole chain is read, changed at offset o and written back (572-606). *)
Overwritten(F, h, o, buf, n) ==
  [b \in DataBlocks |->
    IF b \notin Chain(F, h) THEN data[b]
    ELSE [p \in InBlock |->
           LET k == Index(F, h, b) * BLOCK_SIZE + p - o + 1
           IN  IF k \in 1 .. n THEN buf[k] ELSE data[b][p]]]

Write(d, buf) ==
  /\ Ready
  /\ \/ BadFd(d, <<"write", d, buf>>)
     \/ /\ fildes[d].used
        /\ LET o == fildes[d].offset
               h == fildes[d].file
               n == Clamped(o, Len(buf))
               F == Grown(FAT, h, (o + n) \div BLOCK_SIZE)
           IN  IF ~Ends(F, h)
               THEN Faults(<<"write", d, buf>>, "crashed")
               ELSE /\ FAT' = F
                    /\ DIR' = [DIR EXCEPT ![SlotOf(d)].size = IF o + n > @ THEN o + n ELSE @]
                    /\ data' = Overwritten(F, h, o, buf, n)
                    /\ fildes' = [fildes EXCEPT ![d].offset = o + n]
                    /\ Returns(<<"write", d, buf>>, n)
                    /\ UNCHANGED <<mount, super, disk, fault>>

(* Lines 743-746 follow one link too many.  Past the end of the chain they  *)
(* read FAT[-1], which is fildes[MAX_FILDES - 1].offset: at -1 the call     *)
(* fails, else it writes to blocks of the disk that are not the file's.     *)
TruncateOffChain(d, len) ==
  IF fildes[MAX_FILDES - 1].offset = -1
  THEN Fails(<<"truncate", d, len>>)
  ELSE Faults(<<"truncate", d, len>>, "wild")

(* Lines 747-784.  The blocks after "last" are written with an              *)
(* uninitialised buffer and freed; the tail of "last" itself is junk.  The  *)
(* size stays.  From BLOCK_SIZE on, the copy of line 772 leaves the heap    *)
(* buffer.                                                                  *)
TruncateAfter(d, len, last) ==
  LET cut == Behind(FAT, last)
  IN  /\ FAT' = CutAfter(FAT, last)
      /\ data' = [b \in DataBlocks |-> [p \in InBlock |->
                   IF b \in cut \/ (b = last /\ len <= p) THEN Junk ELSE data[b][p]]]
      /\ fildes' = [fildes EXCEPT ![d].offset = IF @ > len THEN len ELSE @]
      /\ Returns(<<"truncate", d, len>>, 0)
      /\ UNCHANGED <<DIR, mount, super, disk, fault>>

TruncateChain(d, len, h) ==
  LET k == len \div BLOCK_SIZE + 1
  IN  IF ~Ends(FAT, h)
      THEN Faults(<<"truncate", d, len>>, "wild")
      ELSE \/ BlockAt(FAT, h, k) \notin DataBlocks /\ TruncateOffChain(d, len)
           \/ \E last \in Chain(FAT, h) :
                /\ last = BlockAt(FAT, h, k)
                /\ \/ TruncateAfter(d, len, last)
                   \/ len >= BLOCK_SIZE /\ Faults(<<"truncate", d, len>>, "crashed")

Truncate(d, len) ==
  /\ Ready
  /\ \/ BadFd(d, <<"truncate", d, len>>)
     \/ fildes[d].used /\ len > DIR[SlotOf(d)].size /\ Fails(<<"truncate", d, len>>)
     \/ /\ fildes[d].used /\ len <= DIR[SlotOf(d)].size
        /\ TruncateChain(d, len, DIR[SlotOf(d)].head)

-----------------------------------------------------------------------------
Stopped == ~Up /\ UNCHANGED vars

Disk == MakeFs \/ MakeFsMounted \/ Mount \/ MountNoDisk \/ MountTwice \/ MountBlank
        \/ Umount \/ UmountUnmounted \/ Restart

Calls ==
  \/ \E n \in Names : Open(n) \/ Create(n) \/ Delete(n)
  \/ Listfiles
  \/ \E d \in Fds :
       \/ Close(d) \/ Filesize(d)
       \/ \E o \in 0 .. MAX_F_SIZE : Lseek(d, o)
       \/ \E n \in Counts : Read(d, n)
       \/ \E buf \in Buffers : Write(d, buf)
       \/ \E len \in Lengths : Truncate(d, len)

Next == Disk \/ Calls \/ Stopped

Spec == Init /\ [][Next]_vars

-----------------------------------------------------------------------------
TypeOK ==
  /\ DIR \in [Slots -> Entry]
  /\ FAT \in [Blocks -> DataBlocks \cup {Free, Eof}]
  /\ fildes \in [Fds -> Descriptor]
  /\ mount \in BOOLEAN
  /\ super \in {"none", "blank", "made"}
  /\ disk \in [dir : [Slots -> Entry], fat : [Blocks -> DataBlocks \cup {Free, Eof}]]
  /\ data \in [DataBlocks -> [InBlock -> Bytes \cup {Junk}]]
  /\ ret.val \in Int /\ ret.data \in Seq(Bytes \cup {Junk})
  /\ fault \in {"none", "overrun", "wild", "crashed", "garbled"}

Files == {i \in Slots : DIR[i].used}
BlocksOf(i) == Chain(FAT, DIR[i].head)

(* No block belongs to two files, though every call finds its blocks by     *)
(* walking a shared table (lines 378-383, 549-558, 417-429, 752-762).       *)
NoCrossLinks ==
  Ready => \A i, j \in Files : i # j => BlocksOf(i) \cap BlocksOf(j) = {}

(* A block is free exactly when no file owns it: deleting and truncating    *)
(* give every block back, and no owned block is handed out again.           *)
NoLeak == Ready => FreeBlocks(FAT) = DataBlocks \ UNION {BlocksOf(i) : i \in Files}

(* ref_cnt, which fs_delete trusts, is the number of open descriptors, and  *)
(* every open descriptor leads to exactly one file, which is in use: the    *)
(* searches of lines 325, 457, 531, 624, 696 and 724 find the right entry.  *)
RefCounts ==
  Ready =>
    /\ \A i \in Slots : DIR[i].ref_cnt =
         Cardinality({d \in Fds : fildes[d].used /\ fildes[d].file = DIR[i].head})
    /\ \A d \in Fds : fildes[d].used =>
         Cardinality({i \in Files : DIR[i].head = fildes[d].file}) = 1

(* Every file's chain ends and fits the buffer of size / BLOCK_SIZE + 1     *)
(* blocks into which fs_read and fs_write read it (468-484, 573-589).       *)
ChainFitsBuffer ==
  Ready => \A i \in Files :
    /\ Ends(FAT, DIR[i].head)
    /\ Cardinality(BlocksOf(i)) <= DIR[i].size \div BLOCK_SIZE + 1

(* No descriptor points past the end of its file, whatever the others on    *)
(* the same file do, so line 494 never gives a negative count.              *)
OffsetInFile ==
  Ready => \A d \in Fds : fildes[d].used => fildes[d].offset \in 0 .. DIR[SlotOf(d)].size

(* No search for a free block has failed (lines 378-382), and every byte of *)
(* every file is in a block of its chain, though a chain that has a second  *)
(* block no longer grows (541-564).                                         *)
Backed(F, e) ==
  \A p \in 0 .. e.size - 1 : BlockAt(F, e.head, p \div BLOCK_SIZE) \in DataBlocks
HasRoom == Up /\ (mount => \A i \in Files : Backed(FAT, DIR[i]))

-----------------------------------------------------------------------------
(* The file store a program sees *)

(* While nothing is mounted, what counts is what the disk holds.            *)
DirSeen == IF mount THEN DIR ELSE disk.dir
FatSeen == IF mount THEN FAT ELSE disk.fat

Seen(n) == CHOOSE i \in Slots : DirSeen[i].used /\ DirSeen[i].name = n
NamesSeen == {n \in Names : \E i \in Slots : DirSeen[i].used /\ DirSeen[i].name = n}

Contents(n) ==
  LET e == DirSeen[Seen(n)] IN Fetched(FatSeen, e.head, 0, e.size)

StateSeen == IF mount THEN "mounted" ELSE IF super = "none" THEN "none" ELSE "made"
FilesSeen == [n \in NamesSeen |-> Contents(n)]
OpenedSeen == [d \in {d \in Fds : mount /\ fildes[d].used} |->
                [name |-> DIR[SlotOf(d)].name, offset |-> fildes[d].offset]]
ResultSeen == IF Up THEN ret ELSE [call |-> ret.call, val |-> -2, data |-> <<>>]

Store == INSTANCE FileStore WITH
  Name <- Names, Fd <- Fds, MaxFiles <- MAX_F_NUM, MaxSize <- MAX_F_SIZE,
  state <- StateSeen, files <- FilesSeen, opened <- OpenedSeen, result <- ResultSeen

(* Behind FAT, blocks and remounts a program sees the store of the README:  *)
(* names with byte strings that stay until they are changed or deleted.     *)
KeepsStore == Store!StoreSpec

=============================================================================
