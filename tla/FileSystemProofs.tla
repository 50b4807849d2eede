-------------------------- MODULE FileSystemProofs --------------------------
(***************************************************************************)
(* Proofs about FileSystem, for a disk, a directory and files of any size:  *)
(* the invariants of the directory, the FAT and the descriptors, for every  *)
(* sequence of calls until a mount reads a FAT that umount_fs did not keep; *)
(* and that a program sees FileStore as long as the two keep its files.     *)
(***************************************************************************)
EXTENDS ChainTheorems, SequenceTheorems

(* umount_fs writes the first page of the FAT to every page (239-246), and  *)
(* mount_fs clears FAT entries if there are more entries than descriptors   *)
(* (193-196).  Where neither is so a FAT survives on the disk; else only    *)
(* the empty FAT of make_fs does.                                           *)
FatKept == DISK_BLOCKS <= IntsPerBlock /\ MAX_F_NUM <= MAX_FILDES
SafeMounts == [][Mount => FatKept \/ disk = EmptyDisk]_vars

(* What the two calls may do to a table of any size: umount_fs finds every  *)
(* block of every file in the first page of the FAT, and mount_fs clears no *)
(* entry of a block of a file.  Entries that no file owns may be lost.      *)
SafeSync ==
  /\ Umount => \A i \in Files : \A b \in BlocksOf(i) : b < IntsPerBlock
  /\ Mount => \A i \in Slots : disk.dir[i].used =>
                 Chain(disk.fat, disk.dir[i].head) \cap Clobbered = {}
SafeSyncs == [][SafeSync]_vars

(* A directory D and a table F fit together. *)
EntriesNamed(D) ==
  \A i \in Slots : IF D[i].used
                   THEN D[i].name \in Names /\ D[i].head \in DataBlocks
                   ELSE D[i].name = NoName /\ D[i].head \notin DataBlocks
ChainsEnd(D, F) ==
  \A i \in Slots : D[i].used =>
    /\ Ends(F, D[i].head)
    /\ Cardinality(Chain(F, D[i].head)) <= D[i].size \div BLOCK_SIZE + 1
ChainsApart(D, F) ==
  \A i, j \in Slots : D[i].used /\ D[j].used /\ i # j =>
    Chain(F, D[i].head) \cap Chain(F, D[j].head) = {}
FreeIsUnowned(D, F) ==
  \A i \in Slots : D[i].used => \A b \in Chain(F, D[i].head) : F[b] # Free

Fit(D, F) == EntriesNamed(D) /\ ChainsEnd(D, F) /\ ChainsApart(D, F) /\ FreeIsUnowned(D, F)

(* The blocks that are neither free nor part of a file.                     *)
Lost(D, F) ==
  {b \in DataBlocks : F[b] # Free /\ \A i \in Slots : D[i].used => b \notin Chain(F, D[i].head)}

(* A descriptor leads to an entry and points into its file, and an entry    *)
(* knows how many descriptors lead to it.                                   *)
Openers(fd, h) == {d \in Fds : fd[d].used /\ fd[d].file = h}
DescriptorsLead ==
  \A d \in Fds : fildes[d].used =>
    \E i \in Slots : /\ DIR[i].used /\ DIR[i].head = fildes[d].file
                     /\ fildes[d].offset \in 0 .. DIR[i].size
RefsExact == \A i \in Slots : DIR[i].ref_cnt = Cardinality(Openers(fildes, DIR[i].head))

MemoryFits == Ready => Fit(DIR, FAT) /\ DescriptorsLead /\ RefsExact
ClosedUnmounted == Up /\ ~mount => \A d \in Fds : ~fildes[d].used

IInv == TypeOK /\ ClosedUnmounted /\ MemoryFits

(* No call on a mounted disk loses a block, and a step keeps both.          *)
KeepsBlocks == Ready /\ Ready' => Lost(DIR', FAT') \subseteq Lost(DIR, FAT)
Keeps == IInv' /\ KeepsBlocks

(* What the disk holds while nothing is mounted.                            *)
NoRefs(D) == \A i \in Slots : D[i].ref_cnt = 0
DiskFits == Up /\ ~mount => Fit(disk.dir, disk.fat) /\ NoRefs(disk.dir)
-----------------------------------------------------------------------------
(* Small facts *)

LEMMA Sizes ==
  /\ BLOCK_SIZE \in Nat \ {0} /\ MAX_F_NUM \in Nat \ {0} /\ MAX_FILDES \in Nat \ {0}
  /\ MAX_F_SIZE \in Nat /\ IntsPerBlock \in Nat \ {0}
  /\ IsFiniteSet(Fds) /\ Cardinality(Fds) = MAX_FILDES
<1>1. /\ MAX_FILDES \in Nat \ {0} /\ BLOCK_SIZE \in Nat \ {0} /\ MAX_F_NUM \in Nat \ {0}
      /\ MAX_F_SIZE \in Nat /\ IntsPerBlock \in Nat \ {0}
  BY LimitAssumption, DiskAssumption
<1>2. IsFiniteSet(0 .. MAX_FILDES - 1) /\ Cardinality(0 .. MAX_FILDES - 1) = MAX_FILDES
  BY <1>1, FS_Interval
<1> QED BY <1>1, <1>2 DEF Fds

LEMMA DivMonotone ==
  ASSUME NEW a \in Nat, NEW b \in Nat, NEW c \in Nat \ {0}, a <= b
  PROVE  /\ a \div c <= b \div c
         /\ a \div c \in Nat
<1> DEFINE q == a \div c
           r == b \div c
<1>1. /\ q \in Nat /\ r \in Nat
      /\ c * q <= a
      /\ b < c * (r + 1)
  OBVIOUS
<1>2. ASSUME q > r PROVE FALSE
  <2> HIDE DEF q, r
  <2>1. c * (r + 1) <= c * q
    BY <1>1, <1>2
  <2> QED BY <1>1, <2>1
<1> QED BY <1>1, <1>2

LEMMA OpenersFacts ==
  ASSUME NEW fd, NEW h
  PROVE  IsFiniteSet(Openers(fd, h)) /\ Cardinality(Openers(fd, h)) \in 0 .. MAX_FILDES
<1>1. Openers(fd, h) \subseteq Fds
  BY DEF Openers
<1>2. Cardinality(Openers(fd, h)) <= MAX_FILDES /\ IsFiniteSet(Openers(fd, h))
  BY <1>1, Sizes, FS_Subset
<1> QED BY <1>2, Sizes, FS_CardinalityType

(* One descriptor more, or, read from right to left, one less.              *)
LEMMA OneOpenerMore ==
  ASSUME NEW fd, NEW gd, NEW d \in Fds, NEW h, ~fd[d].used, gd[d].used, gd[d].file = h,
         \A e \in Fds \ {d} : gd[e] = fd[e]
  PROVE  /\ Openers(gd, h) = Openers(fd, h) \cup {d}
         /\ d \notin Openers(fd, h)
         /\ \A g : g # h => Openers(gd, g) = Openers(fd, g)
<1>1. Openers(gd, h) = Openers(fd, h) \cup {d}
  BY DEF Openers
<1>2. d \notin Openers(fd, h)
  BY DEF Openers
<1>3. ASSUME NEW g, g # h PROVE Openers(gd, g) = Openers(fd, g)
  BY <1>3 DEF Openers
<1> QED BY <1>1, <1>2, <1>3

(* With distinct heads the search for a descriptor's entry finds the one.   *)
LEMMA SlotFound ==
  ASSUME TypeOK, Fit(DIR, FAT), DescriptorsLead, NEW d \in Fds, fildes[d].used
  PROVE  /\ SlotOf(d) \in Slots
         /\ DIR[SlotOf(d)].used /\ DIR[SlotOf(d)].head = fildes[d].file
         /\ fildes[d].file \in DataBlocks
         /\ fildes[d].offset \in 0 .. DIR[SlotOf(d)].size
         /\ \A j \in Slots : DIR[j].head = fildes[d].file => j = SlotOf(d)
<1>1. PICK i \in Slots : /\ DIR[i].used /\ DIR[i].head = fildes[d].file
                        /\ fildes[d].offset \in 0 .. DIR[i].size
  BY DEF DescriptorsLead
<1>2. DIR[i].head \in DataBlocks
  BY <1>1 DEF Fit, EntriesNamed
<1>3. ASSUME NEW j \in Slots, DIR[j].head = fildes[d].file PROVE j = i
  <2>1. DIR[j].used /\ DIR[i].head \in Chain(FAT, DIR[i].head) /\ DIR[i].head \in Chain(FAT, DIR[j].head)
    BY <1>1, <1>2, <1>3, ChainLeast DEF Fit, EntriesNamed
  <2> QED BY <1>1, <1>3, <2>1 DEF Fit, ChainsApart
<1>4. {j \in Slots : DIR[j].head = fildes[d].file} = {i}
  BY <1>1, <1>3
<1>5. i \in Nat
  BY Sizes DEF Slots
<1>6. Min({i}) = i
  BY <1>5 DEF Min
<1>7. SlotOf(d) = i
  BY <1>4, <1>6 DEF SlotOf
<1> QED BY <1>1, <1>2, <1>3, <1>7

(* The heads of different entries in use differ.                            *)
LEMMA HeadsDiffer ==
  ASSUME NEW D, NEW F, Fit(D, F), NEW i \in Slots, NEW j \in Slots,
         D[i].used, D[j].head = D[i].head
  PROVE  j = i
<1>1. D[i].head \in DataBlocks /\ D[j].used
  BY DEF Fit, EntriesNamed
<1>2. D[i].head \in Chain(F, D[i].head)
  BY <1>1, ChainLeast
<1> QED BY <1>1, <1>2 DEF Fit, ChainsApart

(* No block of a file is free.                                              *)
LEMMA OwnedNotFree ==
  ASSUME NEW D, NEW F, Fit(D, F), NEW i \in Slots, D[i].used
  PROVE  /\ D[i].head \in DataBlocks
         /\ Chain(F, D[i].head) \subseteq DataBlocks
         /\ \A b \in Chain(F, D[i].head) : F[b] # Free
<1>1. D[i].head \in DataBlocks
  BY DEF Fit, EntriesNamed
<1>2. Chain(F, D[i].head) \subseteq DataBlocks
  BY <1>1, ChainLeast
<1> QED BY <1>1, <1>2 DEF Fit, FreeIsUnowned

(* A table that agrees on the chains of the files fits as well.             *)
LEMMA FitIsLocal ==
  ASSUME NEW D, NEW F, NEW G, Fit(D, F),
         \A i \in Slots : D[i].used => \A b \in Chain(F, D[i].head) : G[b] = F[b]
  PROVE  Fit(D, G)
<1>1. ASSUME NEW i \in Slots, D[i].used
      PROVE  /\ Chain(G, D[i].head) = Chain(F, D[i].head) /\ Ends(G, D[i].head)
             /\ \A b \in Chain(G, D[i].head) : G[b] # Free
  <2>1. D[i].head \in DataBlocks /\ \A b \in Chain(F, D[i].head) : F[b] # Free
    BY <1>1, OwnedNotFree
  <2>2. Ends(F, D[i].head) /\ \A b \in Chain(F, D[i].head) : G[b] = F[b]
    BY <1>1 DEF Fit, ChainsEnd
  <2> QED BY <2>1, <2>2, ChainIsLocal
<1>2. EntriesNamed(D)
  BY DEF Fit
<1>3. ChainsEnd(D, G)
  BY <1>1 DEF Fit, ChainsEnd
<1>4. ChainsApart(D, G)
  BY <1>1 DEF Fit, ChainsApart
<1>5. FreeIsUnowned(D, G)
  BY <1>1 DEF FreeIsUnowned
<1> QED BY <1>2, <1>3, <1>4, <1>5 DEF Fit

-----------------------------------------------------------------------------
(* Directory and table stay together *)

(* Opening and closing leave files alone.                                   *)
LEMMA FitSameFiles ==
  ASSUME NEW D, NEW E, NEW F, Fit(D, F),
         \A i \in Slots : /\ E[i].used = D[i].used /\ E[i].name = D[i].name
                          /\ E[i].size = D[i].size /\ E[i].head = D[i].head
  PROVE  Fit(E, F) /\ Lost(E, F) = Lost(D, F)
<1>1. EntriesNamed(E)
  BY DEF Fit, EntriesNamed
<1>2. ChainsEnd(E, F)
  BY DEF Fit, ChainsEnd
<1>3. ChainsApart(E, F)
  BY DEF Fit, ChainsApart
<1>4. FreeIsUnowned(E, F)
  BY DEF Fit, FreeIsUnowned
<1>5. Lost(E, F) = Lost(D, F)
  BY DEF Lost
<1> QED BY <1>1, <1>2, <1>3, <1>4, <1>5 DEF Fit

(* fs_create: a new entry owns a block that was free.                       *)
LEMMA FitCreated ==
  ASSUME NEW D \in [Slots -> Entry], NEW F \in Table, Fit(D, F),
         NEW i \in Slots, ~D[i].used, NEW n \in Names, NEW b \in FreeBlocks(F)
  PROVE  LET E == [D EXCEPT ![i] = [used |-> TRUE, name |-> n, size |-> 0, head |-> b, ref_cnt |-> 0]]
             G == [F EXCEPT ![b] = Eof]
         IN  G \in Table /\ Fit(E, G) /\ Lost(E, G) \subseteq Lost(D, F)
<1> DEFINE E == [D EXCEPT ![i] = [used |-> TRUE, name |-> n, size |-> 0, head |-> b, ref_cnt |-> 0]]
           G == [F EXCEPT ![b] = Eof]
<1>1. b \in DataBlocks /\ b \in Blocks /\ F[b] = Free /\ Eof \notin DataBlocks /\ Free # Eof
  BY TableFacts DEF FreeBlocks
<1>2. G \in Table /\ G[b] = Eof /\ \A c \in DataBlocks \ {b} : G[c] = F[c]
  BY <1>1, TableFacts DEF Table
<1>3. /\ E[i].used /\ E[i].name = n /\ E[i].head = b /\ E[i].size = 0
      /\ \A j \in Slots \ {i} : E[j] = D[j]
  OBVIOUS
<1> HIDE DEF E, G
<1>4. Chain(G, b) = {b} /\ Ends(G, b)
  BY <1>1, <1>2, ChainUnfolds DEF Ends
<1>5. ASSUME NEW j \in Slots \ {i}, D[j].used
      PROVE  /\ D[j].head \in DataBlocks /\ b \notin Chain(F, D[j].head)
             /\ Chain(G, D[j].head) = Chain(F, D[j].head) /\ Ends(G, D[j].head)
  <2>1. D[j].head \in DataBlocks /\ Chain(F, D[j].head) \subseteq DataBlocks /\ b \notin Chain(F, D[j].head)
    BY <1>1, <1>5, OwnedNotFree
  <2>2. Ends(F, D[j].head)
    BY <1>5 DEF Fit, ChainsEnd
  <2>3. \A c \in Chain(F, D[j].head) : G[c] = F[c]
    BY <1>2, <2>1
  <2> QED BY <2>1, <2>2, <2>3, ChainIsLocal
<1>6. EntriesNamed(E)
  BY <1>1, <1>3 DEF Fit, EntriesNamed
<1>7. ChainsEnd(E, G)
  <2>1. Cardinality({b}) <= 0 \div BLOCK_SIZE + 1
    <3>1. 0 \div BLOCK_SIZE \in Nat
      BY Sizes, DivMonotone
    <3>2. Cardinality({b}) = 1
      BY FS_Singleton
    <3> QED BY <3>1, <3>2
  <2> QED BY <1>3, <1>4, <1>5, <2>1 DEF Fit, ChainsEnd
<1>8. ChainsApart(E, G)
  BY <1>3, <1>4, <1>5 DEF Fit, ChainsApart
<1>9. FreeIsUnowned(E, G)
  <2> SUFFICES ASSUME NEW j \in Slots, E[j].used, NEW c \in Chain(G, E[j].head)
               PROVE  G[c] # Free
    BY DEF FreeIsUnowned
  <2>1. CASE j = i
    BY <1>1, <1>2, <1>3, <1>4, <2>1
  <2>2. CASE j # i
    <3>1. D[j].used /\ c \in Chain(F, D[j].head) /\ c # b
      BY <1>3, <1>5, <2>2
    <3>2. F[c] # Free /\ c \in DataBlocks
      BY <3>1, OwnedNotFree
    <3> QED BY <1>2, <3>1, <3>2
  <2> QED BY <2>1, <2>2
<1>10. Lost(E, G) \subseteq Lost(D, F)
  <2> SUFFICES ASSUME NEW c \in DataBlocks, G[c] # Free,
                      \A j \in Slots : E[j].used => c \notin Chain(G, E[j].head)
               PROVE  F[c] # Free /\ \A j \in Slots : D[j].used => c \notin Chain(F, D[j].head)
    BY DEF Lost
  <2>1. c # b
    BY <1>3, <1>4
  <2>2. ASSUME NEW j \in Slots, D[j].used PROVE c \notin Chain(F, D[j].head)
    BY <1>3, <1>5, <2>2
  <2> QED BY <1>2, <2>1, <2>2
<1> QED BY <1>2, <1>6, <1>7, <1>8, <1>9, <1>10 DEF Fit, E, G

(* fs_delete: an entry that goes gives its blocks back.                     *)
LEMMA FitDeleted ==
  ASSUME NEW D \in [Slots -> Entry], NEW F \in Table, Fit(D, F),
         NEW i \in Slots, D[i].used, NEW r
  PROVE  LET E == [D EXCEPT ![i] = [used |-> FALSE, name |-> NoName, size |-> 0, head |-> 0, ref_cnt |-> r]]
             G == ChainFreed(F, D[i].head)
         IN  Fit(E, G) /\ Lost(E, G) \subseteq Lost(D, F)
<1> DEFINE E == [D EXCEPT ![i] = [used |-> FALSE, name |-> NoName, size |-> 0, head |-> 0, ref_cnt |-> r]]
           C == Chain(F, D[i].head)
           G == ChainFreed(F, D[i].head)
<1>1. D[i].head \in DataBlocks /\ C \subseteq DataBlocks
  BY OwnedNotFree
<1>2. /\ \A b \in DataBlocks \ C : G[b] = F[b]
      /\ \A b \in C : G[b] = Free
  BY <1>1, FreedChain, TableFacts
<1>3. /\ ~E[i].used /\ E[i].name = NoName /\ E[i].head = 0
      /\ \A j \in Slots \ {i} : E[j] = D[j]
  OBVIOUS
<1>4. 0 \notin DataBlocks
  BY TableFacts DEF Free
<1> HIDE DEF E, C, G
<1>5. ASSUME NEW j \in Slots \ {i}, D[j].used
      PROVE  /\ D[j].head \in DataBlocks /\ Chain(F, D[j].head) \cap C = {}
             /\ Chain(G, D[j].head) = Chain(F, D[j].head) /\ Ends(G, D[j].head)
  <2>1. D[j].head \in DataBlocks /\ Chain(F, D[j].head) \subseteq DataBlocks
    BY <1>5, OwnedNotFree
  <2>2. Ends(F, D[j].head) /\ Chain(F, D[j].head) \cap C = {}
    BY <1>5 DEF Fit, ChainsEnd, ChainsApart, C
  <2>3. \A c \in Chain(F, D[j].head) : G[c] = F[c]
    BY <1>2, <2>1, <2>2
  <2> QED BY <2>1, <2>2, <2>3, ChainIsLocal
<1>6. EntriesNamed(E)
  BY <1>3, <1>4 DEF Fit, EntriesNamed
<1>7. ChainsEnd(E, G)
  BY <1>3, <1>5 DEF Fit, ChainsEnd
<1>8. ChainsApart(E, G)
  BY <1>3, <1>5 DEF Fit, ChainsApart
<1>9. FreeIsUnowned(E, G)
  <2> SUFFICES ASSUME NEW j \in Slots, E[j].used, NEW c \in Chain(G, E[j].head)
               PROVE  G[c] # Free
    BY DEF FreeIsUnowned
  <2>1. j # i /\ D[j].used /\ E[j] = D[j]
    BY <1>3
  <2>2. c \in Chain(F, D[j].head) /\ c \notin C
    BY <1>5, <2>1
  <2>3. F[c] # Free /\ c \in DataBlocks
    BY <2>1, <2>2, OwnedNotFree
  <2> QED BY <1>2, <2>2, <2>3
<1>10. Lost(E, G) \subseteq Lost(D, F)
  <2> SUFFICES ASSUME NEW c \in DataBlocks, G[c] # Free,
                      \A j \in Slots : E[j].used => c \notin Chain(G, E[j].head)
               PROVE  F[c] # Free /\ \A j \in Slots : D[j].used => c \notin Chain(F, D[j].head)
    BY DEF Lost
  <2>1. c \notin C
    BY <1>2
  <2>2. ASSUME NEW j \in Slots, D[j].used PROVE c \notin Chain(F, D[j].head)
    BY <1>3, <1>5, <2>1, <2>2 DEF C
  <2> QED BY <1>2, <2>1, <2>2
<1> QED BY <1>6, <1>7, <1>8, <1>9, <1>10 DEF Fit, E, G

(* A file's chain changes within its own and free blocks.  Directory E is D *)
(* but for the size of the file, which does not shrink.                     *)
LEMMA FitRechained ==
  ASSUME NEW D, NEW E, NEW F, NEW G, Fit(D, F), NEW i \in Slots, D[i].used,
         \A j \in Slots : /\ E[j].used = D[j].used /\ E[j].name = D[j].name
                          /\ E[j].head = D[j].head,
         \A j \in Slots \ {i} : E[j].size = D[j].size,
         Ends(G, D[i].head),
         Cardinality(Chain(G, D[i].head)) <= E[i].size \div BLOCK_SIZE + 1,
         Chain(G, D[i].head) \ Chain(F, D[i].head) \subseteq FreeBlocks(F),
         \A b \in DataBlocks \ (Chain(F, D[i].head) \cup Chain(G, D[i].head)) : G[b] = F[b],
         \A b \in Chain(G, D[i].head) : G[b] # Free,
         \A b \in Chain(F, D[i].head) \ Chain(G, D[i].head) : G[b] = Free
  PROVE  Fit(E, G) /\ Lost(E, G) \subseteq Lost(D, F)
<1> DEFINE C == Chain(F, D[i].head)
           N == Chain(G, D[i].head)
<1>1. D[i].head \in DataBlocks /\ C \subseteq DataBlocks /\ N \subseteq DataBlocks
  BY OwnedNotFree, ChainLeast
<1>2. ASSUME NEW j \in Slots \ {i}, D[j].used
      PROVE  /\ D[j].head \in DataBlocks
             /\ Chain(F, D[j].head) \cap C = {} /\ Chain(F, D[j].head) \cap N = {}
             /\ Chain(G, D[j].head) = Chain(F, D[j].head) /\ Ends(G, D[j].head)
  <2>1. /\ D[j].head \in DataBlocks /\ Chain(F, D[j].head) \subseteq DataBlocks
        /\ \A b \in Chain(F, D[j].head) : F[b] # Free
    BY <1>2, OwnedNotFree
  <2>2. Ends(F, D[j].head) /\ Chain(F, D[j].head) \cap C = {}
    BY <1>2 DEF Fit, ChainsEnd, ChainsApart
  <2>3. Chain(F, D[j].head) \cap N = {}
    BY <2>1, <2>2 DEF FreeBlocks
  <2>4. \A b \in Chain(F, D[j].head) : G[b] = F[b]
    BY <2>1, <2>2, <2>3
  <2> QED BY <2>1, <2>2, <2>3, <2>4, ChainIsLocal
<1>3. EntriesNamed(E)
  BY DEF Fit, EntriesNamed
<1>4. ChainsEnd(E, G)
  BY <1>2 DEF Fit, ChainsEnd
<1>5. ChainsApart(E, G)
  BY <1>2 DEF Fit, ChainsApart
<1>6. FreeIsUnowned(E, G)
  <2> SUFFICES ASSUME NEW j \in Slots, D[j].used, NEW c \in Chain(G, D[j].head)
               PROVE  G[c] # Free
    BY DEF FreeIsUnowned
  <2>1. CASE j = i
    BY <2>1
  <2>2. CASE j # i
    <3>1. c \in Chain(F, D[j].head) /\ c \notin C \cup N
      BY <1>2, <2>2
    <3>2. F[c] # Free /\ c \in DataBlocks
      BY <3>1, OwnedNotFree
    <3> QED BY <3>1, <3>2
  <2> QED BY <2>1, <2>2
<1>7. Lost(E, G) \subseteq Lost(D, F)
  <2> SUFFICES ASSUME NEW c \in DataBlocks, G[c] # Free,
                      \A j \in Slots : D[j].used => c \notin Chain(G, D[j].head)
               PROVE  F[c] # Free /\ \A j \in Slots : D[j].used => c \notin Chain(F, D[j].head)
    BY DEF Lost
  <2>1. c \notin C \cup N
    OBVIOUS
  <2>2. ASSUME NEW j \in Slots, D[j].used PROVE c \notin Chain(F, D[j].head)
    BY <1>2, <2>1, <2>2
  <2> QED BY <2>1, <2>2
<1> QED BY <1>3, <1>4, <1>5, <1>6, <1>7 DEF Fit

(* fs_write up to byte k - 1: the chain grows by at most k \div BLOCK_SIZE   *)
(* blocks, and only if it had one block.                                    *)
LEMMA FitWritten ==
  ASSUME NEW D \in [Slots -> Entry], NEW F \in Table, Fit(D, F), NEW i \in Slots, D[i].used,
         NEW k \in Nat, NEW size \in Nat, D[i].size <= size, k <= size
  PROVE  LET E == [D EXCEPT ![i].size = size]
             G == Grown(F, D[i].head, k \div BLOCK_SIZE)
         IN  /\ G \in Table /\ Ends(G, D[i].head) /\ Fit(E, G)
             /\ Lost(E, G) \subseteq Lost(D, F)
<1> DEFINE E == [D EXCEPT ![i].size = size]
           h == D[i].head
           n == k \div BLOCK_SIZE
           G == Grown(F, h, n)
<1>1. /\ h \in DataBlocks /\ Ends(F, h) /\ \A b \in Chain(F, h) : F[b] # Free
      /\ Cardinality(Chain(F, h)) <= D[i].size \div BLOCK_SIZE + 1
  BY OwnedNotFree DEF Fit, ChainsEnd
<1>2. D[i].size \in Nat /\ BLOCK_SIZE \in Nat \ {0}
  BY Sizes DEF Entry
<1>3. /\ n \in Nat /\ n <= size \div BLOCK_SIZE /\ size \div BLOCK_SIZE \in Nat
      /\ D[i].size \div BLOCK_SIZE <= size \div BLOCK_SIZE /\ D[i].size \div BLOCK_SIZE \in Nat
  BY <1>2, DivMonotone
<1>4. /\ \A j \in Slots : E[j].used = D[j].used /\ E[j].name = D[j].name /\ E[j].head = D[j].head
      /\ \A j \in Slots \ {i} : E[j].size = D[j].size
      /\ E[i].size = size
  BY DEF Entry
<1> HIDE DEF E, n, h
<1>5. /\ G \in Table /\ Ends(G, h)
      /\ Chain(F, h) \subseteq Chain(G, h)
      /\ Chain(G, h) \ Chain(F, h) \subseteq FreeBlocks(F)
      /\ \A b \in Blocks \ Chain(G, h) : G[b] = F[b]
      /\ \A b \in Chain(G, h) : G[b] # Free
      /\ Chain(G, h) = Chain(F, h) \/ Cardinality(Chain(G, h)) <= n + 1
  BY <1>1, <1>3, GrownChain
<1> HIDE DEF G
<1>6. Cardinality(Chain(G, h)) <= size \div BLOCK_SIZE + 1
  <2>1. IsFiniteSet(Chain(G, h)) /\ IsFiniteSet(Chain(F, h))
    BY <1>1, ChainLeast, TableFacts, FS_Subset
  <2>2. Cardinality(Chain(G, h)) \in Nat /\ Cardinality(Chain(F, h)) \in Nat
    BY <2>1, FS_CardinalityType
  <2> QED BY <1>1, <1>3, <1>5, <2>2
<1>7. \A b \in DataBlocks \ (Chain(F, h) \cup Chain(G, h)) : G[b] = F[b]
  BY <1>5, TableFacts
<1>8. Fit(E, G) /\ Lost(E, G) \subseteq Lost(D, F)
  BY <1>4, <1>5, <1>6, <1>7, FitRechained DEF h
<1> QED BY <1>5, <1>8 DEF E, G, n, h

(* fs_truncate behind block "last" of the file.                             *)
LEMMA FitCut ==
  ASSUME NEW D, NEW F \in Table, Fit(D, F), NEW i \in Slots, D[i].used, D[i].size \in Nat,
         NEW last \in Chain(F, D[i].head)
  PROVE  /\ CutAfter(F, last) \in Table /\ Fit(D, CutAfter(F, last))
         /\ Lost(D, CutAfter(F, last)) \subseteq Lost(D, F)
<1> DEFINE h == D[i].head
           G == CutAfter(F, last)
<1>1. /\ h \in DataBlocks /\ Ends(F, h) /\ \A b \in Chain(F, h) : F[b] # Free
      /\ Cardinality(Chain(F, h)) <= D[i].size \div BLOCK_SIZE + 1
  BY OwnedNotFree DEF Fit, ChainsEnd
<1>2. /\ G \in Table
      /\ Chain(G, h) = Chain(F, h) \ Behind(F, last)
      /\ Ends(G, h)
      /\ \A b \in Blocks \ Chain(F, h) : G[b] = F[b]
      /\ \A b \in Behind(F, last) : G[b] = Free
      /\ \A b \in Chain(G, h) : G[b] = F[b] \/ G[b] = Eof
  BY <1>1, CutChain
<1> HIDE DEF G, h
<1>3. Cardinality(Chain(G, h)) <= D[i].size \div BLOCK_SIZE + 1
  <2>1. IsFiniteSet(Chain(F, h))
    BY <1>1, ChainLeast, TableFacts, FS_Subset
  <2>2. Cardinality(Chain(G, h)) <= Cardinality(Chain(F, h)) /\ IsFiniteSet(Chain(G, h))
    BY <1>2, <2>1, FS_Subset
  <2>3. Cardinality(Chain(G, h)) \in Nat /\ Cardinality(Chain(F, h)) \in Nat
    BY <2>1, <2>2, FS_CardinalityType
  <2>4. D[i].size \div BLOCK_SIZE \in Nat
    BY Sizes, DivMonotone
  <2> QED BY <1>1, <2>2, <2>3, <2>4
<1>4. /\ \A b \in DataBlocks \ (Chain(F, h) \cup Chain(G, h)) : G[b] = F[b]
      /\ \A b \in Chain(G, h) : G[b] # Free
      /\ \A b \in Chain(F, h) \ Chain(G, h) : G[b] = Free
  BY <1>1, <1>2, TableFacts
<1>5. Fit(D, G) /\ Lost(D, G) \subseteq Lost(D, F)
  BY <1>2, <1>3, <1>4, FitRechained DEF h
<1> QED BY <1>2, <1>5 DEF G

-----------------------------------------------------------------------------
(* The invariant, action by action *)

LEMMA RetTyped ==
  ASSUME NEW call, NEW v \in Int, Returns(call, v)
  PROVE  ret'.val \in Int /\ ret'.data \in Seq(Bytes \cup {Junk})
<1>1. <<>> \in Seq(Bytes \cup {Junk})
  OBVIOUS
<1> QED BY <1>1 DEF Returns

LEMMA ModFacts ==
  ASSUME NEW b \in Nat, NEW c \in Nat \ {0}
  PROVE  b % c \in 0 .. b /\ (b < c => b % c = b)
OBVIOUS

LEMMA UnusedTyped ==
  /\ Unused \in Entry /\ [Unused EXCEPT !.head = 0] \in Entry
  /\ ~Unused.used /\ Unused.ref_cnt = 0 /\ Unused.head = Eof /\ Unused.name = NoName
<1>1. 0 \in 0 .. MAX_F_SIZE /\ 0 \in 0 .. MAX_FILDES
  BY Sizes
<1> QED BY <1>1 DEF Unused, Entry

LEMMA EmptyDiskFits ==
  /\ EmptyDisk \in [dir : [Slots -> Entry], fat : Table]
  /\ Fit(EmptyDisk.dir, EmptyDisk.fat) /\ NoRefs(EmptyDisk.dir)
  /\ Lost(EmptyDisk.dir, EmptyDisk.fat) = {}
<1>1. EmptyDisk \in [dir : [Slots -> Entry], fat : Table]
  BY UnusedTyped DEF EmptyDisk, Table
<1>2. Fit(EmptyDisk.dir, EmptyDisk.fat) /\ NoRefs(EmptyDisk.dir)
  BY UnusedTyped, TableFacts
     DEF EmptyDisk, Fit, EntriesNamed, ChainsEnd, ChainsApart, FreeIsUnowned, NoRefs
<1>3. Lost(EmptyDisk.dir, EmptyDisk.fat) = {}
  BY TableFacts DEF EmptyDisk, Lost
<1> QED BY <1>1, <1>2, <1>3

LEMMA ZeroesTyped ==
  /\ ZeroDIR \in [Slots -> Entry] /\ ZeroFAT \in Table /\ ZeroFildes \in [Fds -> Descriptor]
  /\ ZeroData \in [DataBlocks -> [InBlock -> Bytes \cup {Junk}]]
<1>1. 0 \in -1 .. MAX_F_SIZE
  BY Sizes
<1>2. ZeroFildes \in [Fds -> Descriptor]
  BY <1>1 DEF ZeroFildes, Descriptor
<1>3. ZeroDIR \in [Slots -> Entry] /\ ZeroFAT \in Table
  BY UnusedTyped DEF ZeroDIR, ZeroFAT, Table, Free
<1>4. ZeroData \in [DataBlocks -> [InBlock -> Bytes \cup {Junk}]]
  BY InputAssumption DEF ZeroData
<1> QED BY <1>2, <1>3, <1>4

LEMMA InitIInv == Init => IInv
<1> SUFFICES ASSUME Init PROVE IInv
  OBVIOUS
<1>1. ret.val \in Int /\ ret.data \in Seq(Bytes \cup {Junk})
  BY DEF Init
<1>2. TypeOK
  BY <1>1, EmptyDiskFits, ZeroesTyped DEF Init, TypeOK, Table
<1>3. ClosedUnmounted
  BY DEF Init, ZeroFildes, ClosedUnmounted
<1> QED BY <1>2, <1>3 DEF Init, IInv, MemoryFits, Ready

(* A call on a mounted disk.                                                *)
LEMMA CallKeeps ==
  ASSUME IInv, Ready, UNCHANGED mount, TypeOK',
         Up' => (Fit(DIR, FAT) /\ DescriptorsLead /\ RefsExact)',
         Up' => Lost(DIR', FAT') \subseteq Lost(DIR, FAT)
  PROVE  Keeps
<1>1. mount /\ mount'
  BY DEF Ready
<1> QED BY <1>1 DEF Keeps, KeepsBlocks, IInv, ClosedUnmounted, MemoryFits, Ready

(* A step that leaves directory, table and descriptors alone.               *)
LEMMA SameKeeps ==
  ASSUME IInv, UNCHANGED <<DIR, FAT, fildes, mount, fault>>, TypeOK'
  PROVE  Keeps
<1>1. ClosedUnmounted'
  BY DEF IInv, ClosedUnmounted, Up
<1>2. MemoryFits'
  <2>1. Ready' => Ready
    BY DEF Ready, Up
  <2>2. Fit(DIR', FAT') <=> Fit(DIR, FAT)
    OBVIOUS
  <2> QED BY <2>1, <2>2 DEF IInv, MemoryFits, DescriptorsLead, RefsExact
<1>3. Lost(DIR', FAT') = Lost(DIR, FAT)
  OBVIOUS
<1> QED BY <1>1, <1>2, <1>3 DEF Keeps, KeepsBlocks, IInv

LEMMA FailsKeeps ==
  ASSUME IInv, NEW call, Fails(call)
  PROVE  Keeps
<1>1. ret'.val \in Int /\ ret'.data \in Seq(Bytes \cup {Junk})
  BY RetTyped DEF Fails
<1>2. TypeOK'
  BY <1>1 DEF IInv, TypeOK, Fails, memory
<1> QED BY <1>2, SameKeeps DEF Fails, memory

(* The end of the program.                                                  *)
LEMMA DownKeeps == ASSUME TypeOK', ~Up' PROVE Keeps
BY DEF Keeps, KeepsBlocks, IInv, ClosedUnmounted, MemoryFits, Ready

LEMMA FaultsKeeps ==
  ASSUME IInv, NEW call, NEW kind \in {"overrun", "wild", "crashed"}, Faults(call, kind)
  PROVE  Keeps
<1>1. ret'.val \in Int /\ ret'.data \in Seq(Bytes \cup {Junk}) /\ ~Up'
  BY RetTyped DEF Faults, Up
<1>2. TypeOK'
  BY <1>1 DEF IInv, TypeOK, Faults, memory
<1> QED BY <1>1, <1>2, DownKeeps

-----------------------------------------------------------------------------
(* Formatting and mounting *)

LEMMA FormatKeeps == ASSUME IInv, MakeFs \/ MakeFsMounted PROVE Keeps
<1>1. /\ ret'.val \in Int /\ ret'.data \in Seq(Bytes \cup {Junk})
      /\ super' \in {"blank", "made"} /\ disk' = EmptyDisk /\ data' = ZeroData
      /\ UNCHANGED <<DIR, FAT, fildes, mount, fault>>
  BY RetTyped DEF MakeFs, MakeFsMounted, memory
<1>2. TypeOK'
  BY <1>1, EmptyDiskFits, ZeroesTyped DEF IInv, TypeOK, Table
<1> QED BY <1>1, <1>2, SameKeeps

(* A mount that brings a table that fits to memory; no descriptor is open.  *)
MountFits == Mount => Fit(disk.dir, FAT') /\ NoRefs(disk.dir)

LEMMA MountKeeps == ASSUME IInv, Mount, MountFits PROVE Keeps
<1>0. Up /\ ~mount /\ mount' /\ TypeOK
  BY DEF Mount, IInv
<1>1. /\ DIR' = disk.dir /\ disk.dir \in [Slots -> Entry] /\ disk.fat \in Table
      /\ fildes \in [Fds -> Descriptor]
  BY DEF Mount, IInv, TypeOK, Table
<1>2. FAT' \in Table
  BY <1>1 DEF Mount, Table, Free
<1>3. Fit(disk.dir, FAT') /\ NoRefs(disk.dir)
  BY DEF MountFits
<1>4. \A d \in Fds : ~fildes'[d].used
  BY <1>0, <1>1 DEF Mount, IInv, ClosedUnmounted, Descriptor
<1>5. fildes' \in [Fds -> Descriptor]
  <2>1. \A d \in Fds : [fildes[d] EXCEPT !.used = FALSE] \in Descriptor
    BY <1>1 DEF Descriptor
  <2> QED BY <1>1, <2>1 DEF Mount
<1>6. TypeOK'
  <2>1. ret'.val \in Int /\ ret'.data \in Seq(Bytes \cup {Junk})
    BY RetTyped DEF Mount
  <2> QED BY <1>0, <1>1, <1>2, <1>5, <2>1 DEF Mount, TypeOK, Table
<1>7. RefsExact'
  <2>1. \A h : Openers(fildes', h) = {}
    BY <1>4 DEF Openers
  <2> QED BY <1>1, <1>3, <2>1, FS_EmptySet DEF RefsExact, NoRefs
<1>8. DescriptorsLead'
  BY <1>4 DEF DescriptorsLead
<1> QED BY <1>0, <1>1, <1>3, <1>6, <1>7, <1>8
        DEF Keeps, KeepsBlocks, Ready, IInv, ClosedUnmounted, MemoryFits

(* What umount_fs leaves on the disk is of the type of a table.             *)
Paged(F) == [b \in Blocks |-> F[b % IntsPerBlock]]

LEMMA PagedTyped ==
  ASSUME NEW F \in Table
  PROVE  Paged(F) \in Table /\ \A b \in Blocks : b < IntsPerBlock => Paged(F)[b] = F[b]
<1>1. ASSUME NEW b \in Blocks
      PROVE  b % IntsPerBlock \in Blocks /\ (b < IntsPerBlock => b % IntsPerBlock = b)
  <2>1. b \in Nat /\ b < DISK_BLOCKS /\ DISK_BLOCKS \in Nat
    BY TableFacts DEF Blocks
  <2>2. b % IntsPerBlock \in 0 .. b /\ (b < IntsPerBlock => b % IntsPerBlock = b)
    BY <2>1, Sizes, ModFacts
  <2> QED BY <2>1, <2>2 DEF Blocks
<1> QED BY <1>1 DEF Paged, Table

LEMMA UmountKeeps == ASSUME IInv, Umount PROVE Keeps
<1>1. /\ TypeOK /\ Ready /\ mount' = FALSE /\ FAT \in Table
      /\ \A d \in Fds : ~fildes[d].used
      /\ disk' = [dir |-> DIR, fat |-> Paged(FAT)]
      /\ UNCHANGED <<DIR, FAT, fildes, super, data, fault>>
  BY DEF Umount, IInv, TypeOK, Table, memory, Paged
<1>2. TypeOK'
  <2>1. ret'.val \in Int /\ ret'.data \in Seq(Bytes \cup {Junk})
    BY RetTyped DEF Umount
  <2> QED BY <1>1, PagedTyped, <2>1 DEF TypeOK, Table
<1> QED BY <1>1, <1>2 DEF Keeps, KeepsBlocks, IInv, ClosedUnmounted, MemoryFits, Ready

LEMMA RestartKeeps == ASSUME IInv, Restart PROVE Keeps
<1>1. /\ ret'.val \in Int /\ ret'.data \in Seq(Bytes \cup {Junk})
      /\ DIR' = ZeroDIR /\ FAT' = ZeroFAT /\ fildes' = ZeroFildes /\ ~mount'
      /\ UNCHANGED <<mount, super, disk, data, fault>>
  BY RetTyped DEF Restart
<1>2. TypeOK'
  BY <1>1, ZeroesTyped DEF IInv, TypeOK, Table
<1>3. ClosedUnmounted'
  BY <1>1 DEF ClosedUnmounted, ZeroFildes
<1> QED BY <1>1, <1>2, <1>3 DEF Keeps, KeepsBlocks, IInv, MemoryFits, Ready

LEMMA MountBlankKeeps == ASSUME IInv, MountBlank PROVE Keeps
<1>1. ret'.val \in Int /\ ret'.data \in Seq(Bytes \cup {Junk}) /\ ~Up'
  BY RetTyped DEF MountBlank, Up
<1>2. TypeOK'
  BY <1>1 DEF MountBlank, IInv, TypeOK, memory
<1> QED BY <1>1, <1>2, DownKeeps

LEMMA DiskKeeps == ASSUME IInv, Disk, MountFits PROVE Keeps
BY FormatKeeps, MountKeeps, UmountKeeps, RestartKeeps, MountBlankKeeps,
   FailsKeeps DEF Disk, MountNoDisk, MountTwice, UmountUnmounted

-----------------------------------------------------------------------------
(* Names *)

LEMMA MountedFacts ==
  ASSUME IInv, Ready
  PROVE  /\ Up /\ mount /\ TypeOK
         /\ DIR \in [Slots -> Entry] /\ FAT \in Table /\ fildes \in [Fds -> Descriptor]
         /\ Fit(DIR, FAT) /\ DescriptorsLead /\ RefsExact
BY DEF IInv, MemoryFits, Ready, TypeOK, Table

(* The entry that the search for a name finds.                              *)
LEMMA NamedFound ==
  ASSUME IInv, Ready, NEW n \in Names, Named(n) # {}
  PROVE  LET i == Min(Named(n))
         IN  i \in Slots /\ DIR[i].used /\ DIR[i].name = n /\ DIR[i].head \in DataBlocks
<1>1. Named(n) \subseteq Slots /\ Slots \subseteq Nat
  BY Sizes DEF Named, Slots
<1>2. Min(Named(n)) \in Named(n)
  BY <1>1, LeastOf
<1> QED BY <1>1, <1>2, MountedFacts, InputAssumption DEF Named, Fit, EntriesNamed

(* Opening: one descriptor more leads to the entry.                         *)
LEMMA OpenKeeps == ASSUME IInv, NEW n \in Names, Open(n) PROVE Keeps
<1> DEFINE spare == {d \in Fds : ~fildes[d].used}
           i == Min(Named(n))
           d == Min(spare)
           h == DIR[i].head
           new == [used |-> TRUE, file |-> h, offset |-> 0]
<1>0. Ready
  BY DEF Open
<1>1. CASE Named(n) = {} \/ spare = {}
  BY <1>1, FailsKeeps DEF Open
<1>2. CASE ~(Named(n) = {} \/ spare = {})
  <2>1. /\ fildes' = [fildes EXCEPT ![d] = new]
        /\ DIR' = [DIR EXCEPT ![i].ref_cnt = @ + 1]
        /\ Returns(<<"open", n>>, d)
        /\ UNCHANGED <<FAT, mount, super, disk, data, fault>>
    BY <1>2 DEF Open
  <2>2. i \in Slots /\ DIR[i].used /\ h \in DataBlocks
    BY <1>0, <1>2, NamedFound
  <2>3. d \in Fds /\ ~fildes[d].used /\ d \in Int
    <3>1. spare \subseteq Fds /\ Fds \subseteq Nat
      BY Sizes DEF Fds
    <3>2. d \in spare
      BY <1>2, <3>1, LeastOf
    <3>3. \A e \in spare : e \in Fds /\ ~fildes[e].used /\ e \in Int
      BY <3>1
    <3> QED BY <3>2, <3>3
  <2> HIDE DEF i, d, spare
  <2>4. fildes' \in [Fds -> Descriptor]
    BY <1>0, <2>1, <2>2, <2>3, MountedFacts, Sizes DEF Descriptor
  <2>5. /\ fildes'[d].used /\ fildes'[d].file = h /\ fildes'[d].offset = 0
        /\ \A e \in Fds \ {d} : fildes'[e] = fildes[e]
    BY <1>0, <2>1, <2>3, MountedFacts
  <2>6. /\ Openers(fildes', h) = Openers(fildes, h) \cup {d}
        /\ d \notin Openers(fildes, h)
        /\ \A g : g # h => Openers(fildes', g) = Openers(fildes, g)
    BY <2>3, <2>5, OneOpenerMore
  <2>7. /\ Cardinality(Openers(fildes', h)) = DIR[i].ref_cnt + 1
        /\ DIR[i].ref_cnt + 1 \in 0 .. MAX_FILDES
    <3>1. Cardinality(Openers(fildes', h)) = Cardinality(Openers(fildes, h)) + 1
      BY <2>6, OpenersFacts, FS_AddElement
    <3> QED BY <1>0, <2>2, <3>1, MountedFacts, OpenersFacts DEF RefsExact
  <2>8. /\ DIR' \in [Slots -> Entry]
        /\ DIR'[i].ref_cnt = DIR[i].ref_cnt + 1
        /\ \A j \in Slots \ {i} : DIR'[j] = DIR[j]
        /\ \A j \in Slots : /\ DIR'[j].used = DIR[j].used /\ DIR'[j].name = DIR[j].name
                            /\ DIR'[j].size = DIR[j].size /\ DIR'[j].head = DIR[j].head
    BY <1>0, <2>1, <2>2, <2>7, MountedFacts DEF Entry
  <2>9. TypeOK'
    BY <1>0, <2>1, <2>3, <2>4, <2>8, MountedFacts, RetTyped DEF TypeOK, Table
  <2>10. Fit(DIR', FAT') /\ Lost(DIR', FAT') = Lost(DIR, FAT)
    <3>1. Fit(DIR, FAT) /\ FAT' = FAT
      BY <1>0, <2>1, MountedFacts
    <3>2. Fit(DIR', FAT) /\ Lost(DIR', FAT) = Lost(DIR, FAT)
      BY <2>8, <3>1, FitSameFiles
    <3> QED BY <3>1, <3>2
  <2>11. RefsExact'
    <3> SUFFICES ASSUME NEW j \in Slots
                 PROVE  DIR'[j].ref_cnt = Cardinality(Openers(fildes', DIR'[j].head))
      BY DEF RefsExact
    <3>1. CASE j = i
      BY <2>7, <2>8, <3>1
    <3>2. CASE j # i
      <4>1. DIR[j].head # h
        BY <1>0, <2>2, <3>2, MountedFacts, HeadsDiffer
      <4>2. DIR[j].ref_cnt = Cardinality(Openers(fildes, DIR[j].head))
        BY <1>0, MountedFacts DEF RefsExact
      <4> QED BY <2>6, <2>8, <3>2, <4>1, <4>2
    <3> QED BY <3>1, <3>2
  <2>12. DescriptorsLead'
    <3> SUFFICES ASSUME NEW e \in Fds, fildes'[e].used
                 PROVE  \E j \in Slots : /\ DIR'[j].used /\ DIR'[j].head = fildes'[e].file
                                         /\ fildes'[e].offset \in 0 .. DIR'[j].size
      BY DEF DescriptorsLead
    <3>1. CASE e = d
      <4>1. DIR[i].size \in Nat
        BY <1>0, <2>2, MountedFacts, Sizes DEF Entry
      <4> QED BY <2>2, <2>5, <2>8, <3>1, <4>1
    <3>2. CASE e # d
      BY <1>0, <2>5, <2>8, <3>2, MountedFacts DEF DescriptorsLead
    <3> QED BY <3>1, <3>2
  <2> QED BY <1>0, <2>1, <2>9, <2>10, <2>11, <2>12, CallKeeps
<1> QED BY <1>1, <1>2

(* Creating: no descriptor leads to a block that was free.                  *)
LEMMA CreateKeeps == ASSUME IInv, NEW n \in Names, Create(n) PROVE Keeps
<1> DEFINE unused == {i \in Slots : ~DIR[i].used}
           i == Max(unused)
           b == Min(FreeBlocks(FAT))
           new == [used |-> TRUE, name |-> n, size |-> 0, head |-> b, ref_cnt |-> 0]
<1>0. Ready
  BY DEF Create
<1>1. CASE Named(n) # {} \/ unused = {}
  BY <1>1, FailsKeeps DEF Create
<1>2. CASE ~(Named(n) # {} \/ unused = {}) /\ FreeBlocks(FAT) = {}
  <2>1. Faults(<<"create", n>>, "overrun")
    BY <1>2 DEF Create
  <2> QED BY <2>1, FaultsKeeps
<1>3. CASE ~(Named(n) # {} \/ unused = {}) /\ FreeBlocks(FAT) # {}
  <2>1. /\ FAT' = [FAT EXCEPT ![b] = Eof]
        /\ DIR' = [DIR EXCEPT ![i] = new]
        /\ Returns(<<"create", n>>, 0)
        /\ UNCHANGED <<fildes, mount, super, disk, data, fault>>
    BY <1>3 DEF Create
  <2>2. i \in Slots /\ ~DIR[i].used
    <3>1. MAX_F_NUM \in Nat \ {0} /\ MAX_F_NUM - 1 \in Nat
      BY Sizes
    <3>2. unused \subseteq 0 .. MAX_F_NUM - 1
      BY DEF Slots
    <3>3. i \in unused
      BY <1>3, <3>1, <3>2, GreatestOf
    <3> QED BY <3>3
  <2>3. b \in FreeBlocks(FAT) /\ b \in DataBlocks
    <3>1. FreeBlocks(FAT) \subseteq DataBlocks /\ DataBlocks \subseteq Nat
      BY TableFacts DEF FreeBlocks
    <3> QED BY <1>3, <3>1, LeastOf
  <2> HIDE DEF i, b, unused
  <2>4. FAT' \in Table /\ Fit(DIR', FAT') /\ Lost(DIR', FAT') \subseteq Lost(DIR, FAT)
    BY <1>0, <2>1, <2>2, <2>3, MountedFacts, FitCreated
  <2>5. DIR' \in [Slots -> Entry] /\ DIR'[i] = new /\ \A j \in Slots \ {i} : DIR'[j] = DIR[j]
    <3>1. new \in Entry
      BY <2>3, Sizes DEF Entry
    <3> QED BY <1>0, <2>1, <2>2, <3>1, MountedFacts
  <2>6. TypeOK'
    BY <1>0, <2>1, <2>4, <2>5, MountedFacts, RetTyped DEF TypeOK, Table
  <2>7. DescriptorsLead'
    BY <1>0, <2>1, <2>2, <2>5, MountedFacts DEF DescriptorsLead
  <2>8. Openers(fildes, b) = {}
    <3> SUFFICES ASSUME NEW d \in Fds, fildes[d].used, fildes[d].file = b PROVE FALSE
      BY DEF Openers
    <3>1. PICK j \in Slots : DIR[j].used /\ DIR[j].head = b
      BY <1>0, MountedFacts DEF DescriptorsLead
    <3>2. b \in Chain(FAT, DIR[j].head)
      BY <2>3, <3>1, ChainLeast
    <3>3. FAT[b] # Free
      BY <1>0, <3>1, <3>2, MountedFacts, OwnedNotFree
    <3> QED BY <2>3, <3>3 DEF FreeBlocks
  <2>9. RefsExact'
    BY <1>0, <2>1, <2>5, <2>8, MountedFacts, FS_EmptySet DEF RefsExact
  <2> QED BY <1>0, <2>1, <2>4, <2>6, <2>7, <2>9, CallKeeps
<1> QED BY <1>1, <1>2, <1>3

(* Deleting: an entry that no descriptor leads to; its chain ends.          *)
LEMMA DeleteKeeps == ASSUME IInv, NEW n \in Names, Delete(n) PROVE Keeps
<1> DEFINE i == Min(Named(n))
           h == DIR[i].head
           gone == [used |-> FALSE, name |-> NoName, size |-> 0, head |-> 0,
                    ref_cnt |-> DIR[i].ref_cnt]
<1>0. Ready
  BY DEF Delete
<1>1. CASE Named(n) = {} \/ (Named(n) # {} /\ Busy(i))
  BY <1>1, FailsKeeps DEF Delete
<1>2. CASE ~(Named(n) = {} \/ (Named(n) # {} /\ Busy(i)))
  <2>1. i \in Slots /\ DIR[i].used /\ h \in DataBlocks
    BY <1>0, <1>2, NamedFound
  <2>2. Ends(FAT, h)
    BY <1>0, <2>1, MountedFacts DEF Fit, ChainsEnd
  <2>3. /\ FAT' = ChainFreed(FAT, h)
        /\ DIR' = [DIR EXCEPT ![i] = gone]
        /\ Returns(<<"delete", n>>, 0)
        /\ UNCHANGED <<fildes, mount, super, disk, data, fault>>
    BY <1>2, <2>2 DEF Delete
  <2>4. DIR[i].ref_cnt = 0 /\ DIR[i].ref_cnt = Cardinality(Openers(fildes, h))
    BY <1>0, <1>2, <2>1, MountedFacts, Sizes DEF Busy, Entry, RefsExact
  <2> HIDE DEF i
  <2>5. Openers(fildes, h) = {}
    BY <2>4, OpenersFacts, FS_EmptySet
  <2>6. FAT' \in Table /\ Fit(DIR', FAT') /\ Lost(DIR', FAT') \subseteq Lost(DIR, FAT)
    BY <1>0, <2>1, <2>3, MountedFacts, FreedChain, FitDeleted
  <2>7. DIR' \in [Slots -> Entry] /\ DIR'[i] = gone /\ \A j \in Slots \ {i} : DIR'[j] = DIR[j]
    <3>1. gone \in Entry
      BY <1>0, <2>1, MountedFacts, Sizes DEF Entry
    <3> QED BY <1>0, <2>1, <2>3, <3>1, MountedFacts
  <2>8. TypeOK'
    BY <1>0, <2>3, <2>6, <2>7, MountedFacts, RetTyped DEF TypeOK, Table
  <2>9. DescriptorsLead'
    <3> SUFFICES ASSUME NEW d \in Fds, fildes[d].used
                 PROVE  \E j \in Slots : /\ DIR'[j].used /\ DIR'[j].head = fildes[d].file
                                         /\ fildes[d].offset \in 0 .. DIR'[j].size
      BY <2>3 DEF DescriptorsLead
    <3>1. PICK j \in Slots : /\ DIR[j].used /\ DIR[j].head = fildes[d].file
                             /\ fildes[d].offset \in 0 .. DIR[j].size
      BY <1>0, MountedFacts DEF DescriptorsLead
    <3>2. j # i
      BY <2>5, <3>1 DEF Openers
    <3> QED BY <2>7, <3>1, <3>2
  <2>10. Openers(fildes, 0) = {}
    <3>1. \A d \in Fds : fildes[d].used => fildes[d].file \in DataBlocks
      BY <1>0, MountedFacts DEF DescriptorsLead, Fit, EntriesNamed
    <3> QED BY <3>1, TableFacts DEF Openers, Free
  <2>11. RefsExact'
    BY <1>0, <2>3, <2>4, <2>7, <2>10, MountedFacts, FS_EmptySet DEF RefsExact
  <2> QED BY <1>0, <2>3, <2>6, <2>8, <2>9, <2>11, CallKeeps
<1> QED BY <1>1, <1>2

-----------------------------------------------------------------------------
(* Descriptors *)

(* Closing: one descriptor less leads to the entry.                         *)
LEMMA CloseKeeps == ASSUME IInv, NEW d \in Fds, Close(d) PROVE Keeps
<1> DEFINE i == SlotOf(d)
           h == fildes[d].file
           closed == [used |-> FALSE, file |-> 0, offset |-> -1]
<1>0. Ready
  BY DEF Close
<1>1. CASE BadFd(d, <<"close", d>>)
  BY <1>1, FailsKeeps DEF BadFd
<1>2. CASE ~BadFd(d, <<"close", d>>)
  <2>1. /\ fildes[d].used
        /\ fildes' = [fildes EXCEPT ![d] = closed]
        /\ DIR' = [DIR EXCEPT ![i].ref_cnt = @ - 1]
        /\ Returns(<<"close", d>>, 0)
        /\ UNCHANGED <<FAT, mount, super, disk, data, fault>>
    BY <1>2 DEF Close
  <2>2. /\ i \in Slots /\ DIR[i].used /\ DIR[i].head = h
        /\ \A j \in Slots \ {i} : DIR[j].head # h
    BY <1>0, <2>1, MountedFacts, SlotFound
  <2> HIDE DEF i
  <2>3. /\ fildes' \in [Fds -> Descriptor] /\ ~fildes'[d].used
        /\ \A e \in Fds \ {d} : fildes'[e] = fildes[e]
    <3>1. closed \in Descriptor
      BY Sizes DEF Descriptor
    <3> QED BY <1>0, <2>1, <3>1, MountedFacts
  <2>4. /\ Openers(fildes, h) = Openers(fildes', h) \cup {d}
        /\ d \notin Openers(fildes', h)
        /\ \A g : g # h => Openers(fildes, g) = Openers(fildes', g)
    <3>1. fildes[d].file = h /\ fildes[d].used /\ ~fildes'[d].used
      BY <2>1, <2>3
    <3>2. \A e \in Fds \ {d} : fildes[e] = fildes'[e]
      BY <2>3
    <3> HIDE DEF h
    <3> QED BY <3>1, <3>2, OneOpenerMore
  <2>5. /\ Cardinality(Openers(fildes', h)) = DIR[i].ref_cnt - 1
        /\ DIR[i].ref_cnt - 1 \in 0 .. MAX_FILDES
    <3>1. Cardinality(Openers(fildes, h)) = Cardinality(Openers(fildes', h)) + 1
      BY <2>4, OpenersFacts, FS_AddElement
    <3>2. DIR[i].ref_cnt = Cardinality(Openers(fildes, h))
      BY <1>0, <2>2, MountedFacts DEF RefsExact
    <3>3. Cardinality(Openers(fildes', h)) \in 0 .. MAX_FILDES
      BY OpenersFacts
    <3> QED BY <3>1, <3>2, <3>3, Sizes
  <2>6. /\ DIR' \in [Slots -> Entry]
        /\ DIR'[i].ref_cnt = DIR[i].ref_cnt - 1
        /\ \A j \in Slots \ {i} : DIR'[j] = DIR[j]
        /\ \A j \in Slots : /\ DIR'[j].used = DIR[j].used /\ DIR'[j].name = DIR[j].name
                            /\ DIR'[j].size = DIR[j].size /\ DIR'[j].head = DIR[j].head
    BY <1>0, <2>1, <2>2, <2>5, MountedFacts DEF Entry
  <2>7. TypeOK'
    BY <1>0, <2>1, <2>3, <2>6, MountedFacts, RetTyped DEF TypeOK, Table
  <2>8. Fit(DIR', FAT') /\ Lost(DIR', FAT') = Lost(DIR, FAT)
    <3>1. Fit(DIR, FAT) /\ FAT' = FAT
      BY <1>0, <2>1, MountedFacts
    <3>2. Fit(DIR', FAT) /\ Lost(DIR', FAT) = Lost(DIR, FAT)
      BY <2>6, <3>1, FitSameFiles
    <3> QED BY <3>1, <3>2
  <2>9. RefsExact'
    <3> SUFFICES ASSUME NEW j \in Slots
                 PROVE  DIR'[j].ref_cnt = Cardinality(Openers(fildes', DIR'[j].head))
      BY DEF RefsExact
    <3>1. CASE j = i
      BY <2>2, <2>5, <2>6, <3>1
    <3>2. CASE j # i
      <4>1. DIR[j].ref_cnt = Cardinality(Openers(fildes, DIR[j].head))
        BY <1>0, MountedFacts DEF RefsExact
      <4> QED BY <2>2, <2>4, <2>6, <3>2, <4>1
    <3> QED BY <3>1, <3>2
  <2>10. DescriptorsLead'
    BY <1>0, <2>3, <2>6, MountedFacts DEF DescriptorsLead
  <2> QED BY <1>0, <2>1, <2>7, <2>8, <2>9, <2>10, CallKeeps
<1> QED BY <1>1, <1>2

LEMMA LookKeeps ==
  ASSUME IInv, Listfiles \/ \E d \in Fds : Filesize(d) PROVE Keeps
<1>0. Ready /\ TypeOK
  BY DEF Listfiles, Filesize, IInv
<1>1. ASSUME NEW call, NEW v \in Int, Returns(call, v),
             UNCHANGED <<memory, mount, super, disk, data, fault>>
      PROVE  Keeps
  <2>1. TypeOK'
    BY <1>0, <1>1, RetTyped DEF TypeOK, memory
  <2> QED BY <1>1, <2>1, SameKeeps DEF memory
<1>2. CASE Listfiles
  BY <1>1, <1>2 DEF Listfiles
<1>3. ASSUME NEW d \in Fds, Filesize(d) PROVE Keeps
  <2>1. CASE BadFd(d, <<"get_filesize", d>>)
    BY <2>1, FailsKeeps DEF BadFd
  <2>2. CASE ~BadFd(d, <<"get_filesize", d>>)
    <3>1. DIR[SlotOf(d)].size \in Int
      <4>1. fildes[d].used /\ SlotOf(d) \in Slots
        BY <1>0, <1>3, <2>2, MountedFacts, SlotFound DEF Filesize
      <4>2. DIR[SlotOf(d)] \in Entry
        BY <1>0, <4>1, MountedFacts
      <4> QED BY <4>2, Sizes DEF Entry
    <3> QED BY <1>1, <1>3, <2>2, <3>1 DEF Filesize
  <2> QED BY <2>1, <2>2
<1> QED BY <1>2, <1>3

(* A descriptor moves within its file; sizes may grow, nothing else changes *)
(* in the entries.                                                          *)
LEMMA OffsetMoved ==
  ASSUME IInv, Ready, NEW d \in Fds, fildes[d].used,
         NEW o, o \in 0 .. DIR'[SlotOf(d)].size,
         fildes' = [fildes EXCEPT ![d].offset = o],
         DIR' \in [Slots -> Entry],
         \A j \in Slots : /\ DIR'[j].used = DIR[j].used /\ DIR'[j].head = DIR[j].head
                          /\ DIR'[j].ref_cnt = DIR[j].ref_cnt
                          /\ DIR[j].size <= DIR'[j].size
  PROVE  fildes' \in [Fds -> Descriptor] /\ DescriptorsLead' /\ RefsExact'
<1> DEFINE i == SlotOf(d)
<1>0. fildes \in [Fds -> Descriptor] /\ DIR \in [Slots -> Entry] /\ DescriptorsLead /\ RefsExact
  BY MountedFacts
<1>1. i \in Slots /\ DIR[i].used /\ DIR[i].head = fildes[d].file
  BY MountedFacts, SlotFound
<1> HIDE DEF i
<1>2. DIR'[i].size \in 0 .. MAX_F_SIZE /\ o \in 0 .. DIR'[i].size
  BY <1>1 DEF Entry, i
<1>3. o \in -1 .. MAX_F_SIZE
  BY <1>2, Sizes
<1>4. fildes' \in [Fds -> Descriptor]
  BY <1>0, <1>3 DEF Descriptor
<1>5. /\ fildes'[d].used = fildes[d].used /\ fildes'[d].file = fildes[d].file
      /\ fildes'[d].offset = o
      /\ \A e \in Fds \ {d} : fildes'[e] = fildes[e]
  BY <1>0 DEF Descriptor
<1>6. \A h : Openers(fildes', h) = Openers(fildes, h)
  BY <1>5 DEF Openers
<1>7. RefsExact'
  BY <1>0, <1>6 DEF RefsExact
<1>8. DescriptorsLead'
  <2> SUFFICES ASSUME NEW e \in Fds, fildes'[e].used
               PROVE  \E j \in Slots : /\ DIR'[j].used /\ DIR'[j].head = fildes'[e].file
                                       /\ fildes'[e].offset \in 0 .. DIR'[j].size
    BY DEF DescriptorsLead
  <2>1. CASE e = d
    BY <1>1, <1>2, <1>5, <2>1
  <2>2. CASE e # d
    <3>1. PICK j \in Slots : /\ DIR[j].used /\ DIR[j].head = fildes[e].file
                             /\ fildes[e].offset \in 0 .. DIR[j].size
      BY <1>0, <1>5, <2>2 DEF DescriptorsLead
    <3>2. DIR[j].size \in Nat /\ DIR'[j].size \in Nat /\ DIR[j].size <= DIR'[j].size
      BY <1>0, Sizes DEF Entry
    <3>3. fildes[e].offset \in 0 .. DIR'[j].size
      BY <3>1, <3>2
    <3> QED BY <1>5, <2>2, <3>1, <3>3
  <2> QED BY <2>1, <2>2
<1> QED BY <1>4, <1>7, <1>8

(* A call that only moves a descriptor.                                     *)
LEMMA MoveKeeps ==
  ASSUME IInv, Ready, NEW d \in Fds, fildes[d].used,
         NEW o, o \in 0 .. DIR[SlotOf(d)].size,
         fildes' = [fildes EXCEPT ![d].offset = o],
         ret'.val \in Int, ret'.data \in Seq(Bytes \cup {Junk}),
         UNCHANGED <<DIR, FAT, mount, super, disk, data, fault>>
  PROVE  Keeps
<1>1. \A j \in Slots : DIR[j].size \in Int
  BY MountedFacts, Sizes DEF Entry
<1>2. /\ DIR' \in [Slots -> Entry] /\ o \in 0 .. DIR'[SlotOf(d)].size
      /\ \A j \in Slots : /\ DIR'[j].used = DIR[j].used /\ DIR'[j].head = DIR[j].head
                          /\ DIR'[j].ref_cnt = DIR[j].ref_cnt
                          /\ DIR[j].size <= DIR'[j].size
  BY <1>1, MountedFacts
<1>3. fildes' \in [Fds -> Descriptor] /\ DescriptorsLead' /\ RefsExact'
  BY <1>2, OffsetMoved
<1>4. TypeOK'
  BY <1>3, MountedFacts DEF TypeOK
<1>5. Fit(DIR', FAT') /\ Lost(DIR', FAT') \subseteq Lost(DIR, FAT)
  BY MountedFacts
<1> QED BY <1>3, <1>4, <1>5, CallKeeps

LEMMA LseekKeeps ==
  ASSUME IInv, NEW d \in Fds, NEW o \in 0 .. MAX_F_SIZE, Lseek(d, o) PROVE Keeps
<1>0. Ready
  BY DEF Lseek
<1>1. CASE Fails(<<"lseek", d, o>>)
  BY <1>1, FailsKeeps
<1>2. CASE ~Fails(<<"lseek", d, o>>)
  <2>1. /\ fildes[d].used /\ SeekInFile(DIR[SlotOf(d)].size, o)
        /\ fildes' = [fildes EXCEPT ![d].offset = o]
        /\ Returns(<<"lseek", d, o>>, 0)
        /\ UNCHANGED <<DIR, FAT, mount, super, disk, data, fault>>
    BY <1>2 DEF Lseek, BadFd
  <2>2. DIR[SlotOf(d)] \in Entry
    BY <1>0, <2>1, MountedFacts, SlotFound
  <2>3. o \in 0 .. DIR[SlotOf(d)].size
    BY <2>1, <2>2, Sizes DEF SeekInFile, Entry
  <2>4. ret'.val \in Int /\ ret'.data \in Seq(Bytes \cup {Junk})
    BY <2>1, RetTyped
  <2> QED BY <1>0, <2>1, <2>3, <2>4, MoveKeeps
<1> QED BY <1>1, <1>2

(* What a call reads is made of bytes of blocks, or junk.                   *)
LEMMA FetchedTyped ==
  ASSUME TypeOK, NEW F, NEW h, NEW from \in Nat, NEW to \in Nat, from <= to
  PROVE  Fetched(F, h, from, to) \in Seq(Bytes \cup {Junk})
<1> DEFINE S == Bytes \cup {Junk}
           value(i) == LET p == from + i - 1
                           b == BlockAt(F, h, p \div BLOCK_SIZE)
                       IN  IF b \in DataBlocks THEN data[b][p % BLOCK_SIZE] ELSE Junk
<1>1. ASSUME NEW i \in 1 .. to - from PROVE value(i) \in S
  <2>1. from + i - 1 \in Nat
    OBVIOUS
  <2>2. (from + i - 1) % BLOCK_SIZE \in InBlock
    BY <2>1, Sizes DEF InBlock
  <2> HIDE DEF S
  <2>3. \A b \in DataBlocks : \A q \in InBlock : data[b][q] \in S
    BY DEF TypeOK, S
  <2> QED BY <2>2, <2>3 DEF S
<1>2. Fetched(F, h, from, to) = [i \in 1 .. to - from |-> value(i)]
  BY DEF Fetched
<1> HIDE DEF value, S
<1>3. to - from \in Nat
  OBVIOUS
<1>4. [i \in 1 .. to - from |-> value(i)] \in Seq(S)
  BY <1>1, <1>3
<1> QED BY <1>2, <1>4 DEF S

(* The count is never negative, for no descriptor points past its file.     *)
LEMMA ReadKeeps == ASSUME IInv, NEW d \in Fds, NEW n \in Nat, Read(d, n) PROVE Keeps
<1> DEFINE o == fildes[d].offset
           h == fildes[d].file
           size == DIR[SlotOf(d)].size
           cnt == ReadCount(size, o, n)
<1>0. Ready
  BY DEF Read
<1>1. CASE Fails(<<"read", d, n>>)
  BY <1>1, FailsKeeps
<1>2. CASE ~Fails(<<"read", d, n>>)
  <2>1. fildes[d].used /\ n > 0
    BY <1>2 DEF Read, BadFd
  <2>2. /\ SlotOf(d) \in Slots /\ DIR[SlotOf(d)].used /\ DIR[SlotOf(d)].head = h
        /\ o \in 0 .. size /\ DIR[SlotOf(d)] \in Entry
    BY <1>0, <2>1, MountedFacts, SlotFound
  <2>3. Ends(FAT, h)
    BY <1>0, <2>2, MountedFacts DEF Fit, ChainsEnd
  <2>4. /\ ret' = [call |-> <<"read", d, n>>, val |-> cnt, data |-> Fetched(FAT, h, o, o + cnt)]
        /\ fildes' = [fildes EXCEPT ![d].offset = o + cnt]
        /\ UNCHANGED <<DIR, FAT, mount, super, disk, data, fault>>
    BY <1>2, <2>1, <2>3 DEF Read, BadFd
  <2>5. cnt \in Nat /\ o \in Nat /\ o + cnt \in 0 .. size
    <3>1. size \in Nat
      BY <2>2, Sizes DEF Entry
    <3> HIDE DEF size, o
    <3> QED BY <2>1, <2>2, <3>1 DEF ReadCount
  <2> HIDE DEF cnt, o, h, size
  <2>6. Fetched(FAT, h, o, o + cnt) \in Seq(Bytes \cup {Junk})
    BY <1>0, <2>5, MountedFacts, FetchedTyped
  <2>7. ret'.val \in Int /\ ret'.data \in Seq(Bytes \cup {Junk})
    BY <2>4, <2>5, <2>6
  <2> QED BY <1>0, <2>1, <2>4, <2>5, <2>7, MoveKeeps DEF size
<1> QED BY <1>1, <1>2

(* Writing stays within the largest file, and stores no more than the       *)
(* caller's bytes.                                                          *)
LEMMA ClampedFits ==
  ASSUME NEW o \in 0 .. MAX_F_SIZE, NEW n \in Nat
  PROVE  /\ Clamped(o, n) \in 0 .. n
         /\ o + Clamped(o, n) \in 0 .. MAX_F_SIZE
BY Sizes DEF Clamped

LEMMA OverwrittenTyped ==
  ASSUME TypeOK, NEW F, NEW h, NEW o, NEW buf \in Seq(Bytes), NEW n \in 0 .. Len(buf)
  PROVE  Overwritten(F, h, o, buf, n) \in [DataBlocks -> [InBlock -> Bytes \cup {Junk}]]
<1> DEFINE k(b, p) == Index(F, h, b) * BLOCK_SIZE + p - o + 1
           byte(b, p) == IF k(b, p) \in 1 .. n THEN buf[k(b, p)] ELSE data[b][p]
<1>1. \A b \in DataBlocks : data[b] \in [InBlock -> Bytes \cup {Junk}]
  BY DEF TypeOK
<1>2. \A i \in 1 .. n : buf[i] \in Bytes
  OBVIOUS
<1> HIDE DEF k
<1>3. \A b \in DataBlocks, p \in InBlock : byte(b, p) \in Bytes \cup {Junk}
  BY <1>1, <1>2
<1>4. Overwritten(F, h, o, buf, n) =
        [b \in DataBlocks |-> IF b \notin Chain(F, h) THEN data[b] ELSE [p \in InBlock |-> byte(b, p)]]
  BY DEF Overwritten, k
<1> HIDE DEF byte
<1> QED BY <1>1, <1>3, <1>4

LEMMA WriteKeeps == ASSUME IInv, NEW d \in Fds, NEW buf \in Buffers, Write(d, buf) PROVE Keeps
<1> DEFINE i == SlotOf(d)
           o == fildes[d].offset
           h == fildes[d].file
           n == Clamped(o, Len(buf))
           F == Grown(FAT, h, (o + n) \div BLOCK_SIZE)
           size == IF o + n > DIR[i].size THEN o + n ELSE DIR[i].size
<1>0. Ready
  BY DEF Write
<1>1. CASE Fails(<<"write", d, buf>>)
  BY <1>1, FailsKeeps
<1>2. CASE ~Fails(<<"write", d, buf>>)
  <2>1. fildes[d].used
    BY <1>2 DEF Write, BadFd
  <2>2. /\ i \in Slots /\ DIR[i].used /\ DIR[i].head = h /\ o \in 0 .. DIR[i].size
        /\ DIR[i] \in Entry
    BY <1>0, <2>1, MountedFacts, SlotFound
  <2>3. buf \in Seq(Bytes) /\ Len(buf) \in Nat
    BY InputAssumption
  <2>4. /\ o \in 0 .. MAX_F_SIZE /\ DIR[i].size \in 0 .. MAX_F_SIZE
        /\ n \in 0 .. Len(buf) /\ o + n \in 0 .. MAX_F_SIZE
    <3>1. o \in 0 .. MAX_F_SIZE /\ DIR[i].size \in 0 .. MAX_F_SIZE
      BY <2>2, Sizes DEF Entry
    <3> HIDE DEF o
    <3> QED BY <2>3, <3>1, ClampedFits
  <2>5. /\ size \in 0 .. MAX_F_SIZE /\ size \in Nat
        /\ DIR[i].size <= size /\ o + n <= size /\ o + n \in Nat
    BY <2>4, Sizes
  <2>6. /\ F \in Table /\ Ends(F, h) /\ Fit([DIR EXCEPT ![i].size = size], F)
        /\ Lost([DIR EXCEPT ![i].size = size], F) \subseteq Lost(DIR, FAT)
    <3> HIDE DEF i, o, n, size
    <3> QED BY <1>0, <2>2, <2>5, MountedFacts, FitWritten
  <2>7. /\ FAT' = F
        /\ DIR' = [DIR EXCEPT ![i].size = size]
        /\ data' = Overwritten(F, h, o, buf, n)
        /\ fildes' = [fildes EXCEPT ![d].offset = o + n]
        /\ Returns(<<"write", d, buf>>, n)
        /\ UNCHANGED <<mount, super, disk, fault>>
    BY <1>2, <2>1, <2>6 DEF Write, BadFd
  <2> HIDE DEF i, F, n, o, h, size
  <2>8. /\ DIR' \in [Slots -> Entry] /\ DIR'[i].size = size
        /\ \A j \in Slots : /\ DIR'[j].used = DIR[j].used /\ DIR'[j].head = DIR[j].head
                            /\ DIR'[j].ref_cnt = DIR[j].ref_cnt
                            /\ DIR[j].size <= DIR'[j].size
    <3>1. DIR \in [Slots -> Entry] /\ \A j \in Slots : DIR[j].size \in Int
      BY <1>0, MountedFacts, Sizes DEF Entry
    <3>2. DIR' \in [Slots -> Entry]
      BY <2>2, <2>5, <2>7, <3>1 DEF Entry
    <3> QED BY <2>2, <2>5, <2>7, <3>1, <3>2
  <2>9. o + n \in 0 .. DIR'[i].size
    BY <2>5, <2>8
  <2>10. fildes' \in [Fds -> Descriptor] /\ DescriptorsLead' /\ RefsExact'
    BY <1>0, <2>1, <2>7, <2>8, <2>9, OffsetMoved DEF i
  <2>11. data' \in [DataBlocks -> [InBlock -> Bytes \cup {Junk}]]
    BY <1>0, <2>3, <2>4, <2>7, MountedFacts, OverwrittenTyped
  <2>12. ret'.val \in Int /\ ret'.data \in Seq(Bytes \cup {Junk})
    BY <2>4, <2>7, RetTyped
  <2>13. TypeOK'
    BY <1>0, <2>6, <2>7, <2>8, <2>10, <2>11, <2>12, MountedFacts DEF TypeOK, Table
  <2>14. Fit(DIR', FAT') /\ Lost(DIR', FAT') \subseteq Lost(DIR, FAT)
    BY <2>6, <2>7
  <2> QED BY <1>0, <2>7, <2>10, <2>13, <2>14, CallKeeps
<1> QED BY <1>1, <1>2

LEMMA TruncateAfterKeeps ==
  ASSUME IInv, Ready, NEW d \in Fds, fildes[d].used, NEW len \in Nat,
         len <= DIR[SlotOf(d)].size,
         NEW last \in Chain(FAT, DIR[SlotOf(d)].head),
         TruncateAfter(d, len, last)
  PROVE  Keeps
<1> DEFINE i == SlotOf(d)
           o == fildes[d].offset
           moved == IF o > len THEN len ELSE o
<1>1. /\ i \in Slots /\ DIR[i].used /\ DIR[i] \in Entry /\ o \in 0 .. DIR[i].size
      /\ DIR[i].size \in Nat
  BY MountedFacts, SlotFound, Sizes DEF Entry
<1>2. /\ FAT' = CutAfter(FAT, last)
      /\ fildes' = [fildes EXCEPT ![d].offset = moved]
      /\ Returns(<<"truncate", d, len>>, 0)
      /\ UNCHANGED <<DIR, mount, super, disk, fault>>
  BY DEF TruncateAfter
<1>3. moved \in 0 .. DIR[i].size
  BY <1>1
<1> HIDE DEF moved
<1>4. FAT' \in Table /\ Fit(DIR', FAT') /\ Lost(DIR', FAT') \subseteq Lost(DIR, FAT)
  <2>1. /\ CutAfter(FAT, last) \in Table /\ Fit(DIR, CutAfter(FAT, last))
        /\ Lost(DIR, CutAfter(FAT, last)) \subseteq Lost(DIR, FAT)
    BY <1>1, MountedFacts, FitCut
  <2> QED BY <1>2, <2>1
<1>5. data' \in [DataBlocks -> [InBlock -> Bytes \cup {Junk}]]
  <2>1. \A b \in DataBlocks, p \in InBlock : data[b][p] \in Bytes \cup {Junk}
    BY MountedFacts DEF TypeOK
  <2> QED BY <2>1 DEF TruncateAfter
<1>6. fildes' \in [Fds -> Descriptor] /\ DescriptorsLead' /\ RefsExact'
  <2>1. \A j \in Slots : DIR[j].size \in Int
    BY MountedFacts, Sizes DEF Entry
  <2>2. /\ DIR' \in [Slots -> Entry] /\ moved \in 0 .. DIR'[SlotOf(d)].size
        /\ \A j \in Slots : /\ DIR'[j].used = DIR[j].used /\ DIR'[j].head = DIR[j].head
                            /\ DIR'[j].ref_cnt = DIR[j].ref_cnt
                            /\ DIR[j].size <= DIR'[j].size
    BY <1>2, <1>3, <2>1, MountedFacts
  <2> QED BY <1>2, <2>2, OffsetMoved
<1>7. ret'.val \in Int /\ ret'.data \in Seq(Bytes \cup {Junk})
  BY <1>2, RetTyped
<1>8. TypeOK'
  BY <1>2, <1>4, <1>5, <1>6, <1>7, MountedFacts DEF TypeOK, Table
<1> QED BY <1>2, <1>4, <1>6, <1>8, CallKeeps

LEMMA TruncateKeeps == ASSUME IInv, NEW d \in Fds, NEW len \in Nat, Truncate(d, len) PROVE Keeps
<1> DEFINE h == DIR[SlotOf(d)].head
           call == <<"truncate", d, len>>
<1>0. Ready
  BY DEF Truncate
<1>1. CASE Fails(call)
  BY <1>1, FailsKeeps
<1>2. ASSUME NEW kind \in {"overrun", "wild", "crashed"}, Faults(call, kind) PROVE Keeps
  BY <1>2, FaultsKeeps
<1>3. CASE ~Fails(call)
  <2>1. fildes[d].used /\ len <= DIR[SlotOf(d)].size /\ TruncateChain(d, len, h)
    BY <1>3 DEF Truncate, BadFd
  <2>2. Ends(FAT, h)
    BY <1>0, <2>1, MountedFacts, SlotFound DEF Fit, ChainsEnd
  <2>3. CASE TruncateOffChain(d, len)
    BY <1>2, <1>3, <2>3 DEF TruncateOffChain
  <2>4. CASE Faults(call, "crashed")
    BY <1>2, <2>4
  <2>5. ASSUME NEW last \in Chain(FAT, h), TruncateAfter(d, len, last) PROVE Keeps
    BY <1>0, <2>1, <2>5, TruncateAfterKeeps
  <2> QED BY <2>1, <2>2, <2>3, <2>4, <2>5 DEF TruncateChain
<1> QED BY <1>1, <1>3

LEMMA CallsKeep == ASSUME IInv, Calls PROVE Keeps
<1>1. ASSUME NEW n \in Names, Open(n) \/ Create(n) \/ Delete(n) PROVE Keeps
  BY <1>1, OpenKeeps, CreateKeeps, DeleteKeeps
<1>2. CASE Listfiles \/ \E d \in Fds : Filesize(d)
  BY <1>2, LookKeeps
<1>3. ASSUME NEW d \in Fds, Close(d) PROVE Keeps
  BY <1>3, CloseKeeps
<1>4. ASSUME NEW d \in Fds, NEW o \in 0 .. MAX_F_SIZE, Lseek(d, o) PROVE Keeps
  BY <1>4, LseekKeeps
<1>5. ASSUME NEW d \in Fds, NEW n \in Counts, Read(d, n) PROVE Keeps
  BY <1>5, InputAssumption, ReadKeeps
<1>6. ASSUME NEW d \in Fds, NEW buf \in Buffers, Write(d, buf) PROVE Keeps
  BY <1>6, WriteKeeps
<1>7. ASSUME NEW d \in Fds, NEW len \in Lengths, Truncate(d, len) PROVE Keeps
  BY <1>7, InputAssumption, TruncateKeeps
<1> QED BY <1>1, <1>2, <1>3, <1>4, <1>5, <1>6, <1>7 DEF Calls

-----------------------------------------------------------------------------
(* Every step keeps the invariant, if what it mounts fits.                  *)
LEMMA NextKeeps == IInv /\ [Next]_vars /\ MountFits => Keeps
<1> SUFFICES ASSUME IInv, [Next]_vars, MountFits PROVE Keeps
  OBVIOUS
<1>1. CASE UNCHANGED vars
  <2>1. TypeOK'
    BY <1>1 DEF vars, memory, IInv, TypeOK
  <2> QED BY <1>1, <2>1, SameKeeps DEF vars, memory
<1>2. CASE Disk
  BY <1>2, DiskKeeps
<1>3. CASE Calls
  BY <1>3, CallsKeep
<1> QED BY <1>1, <1>2, <1>3 DEF Next, Stopped

(* Where the FAT is kept, the disk holds what memory held; and no block is  *)
(* lost.                                                                    *)
NothingLost == Ready => Lost(DIR, FAT) = {}
DiskWhole == Up /\ ~mount => Lost(disk.dir, disk.fat) = {}
KeptInv == IInv /\ NothingLost /\ (FatKept => DiskFits /\ DiskWhole)

LEMMA MountKept ==
  ASSUME KeptInv, Mount, FatKept \/ disk = EmptyDisk
  PROVE  MountFits /\ Lost(DIR', FAT') = {}
<1>1. Up /\ ~mount /\ DIR' = disk.dir /\ disk.fat \in Table
  BY DEF Mount, KeptInv, IInv, TypeOK, Table
<1>2. FAT' = disk.fat
  <2>1. CASE FatKept
    <3>1. Clobbered = {}
      BY <2>1, Sizes DEF Clobbered, FatKept
    <3> QED BY <1>1, <3>1 DEF Mount, Table
  <2>2. CASE disk = EmptyDisk
    BY <2>2 DEF Mount, EmptyDisk, Free
  <2> QED BY <2>1, <2>2
<1>3. Fit(disk.dir, disk.fat) /\ NoRefs(disk.dir) /\ Lost(disk.dir, disk.fat) = {}
  BY <1>1, EmptyDiskFits DEF KeptInv, DiskFits, DiskWhole
<1> QED BY <1>1, <1>2, <1>3 DEF MountFits

(* With every descriptor closed no entry counts one.                        *)
LEMMA UmountFits ==
  ASSUME IInv, Umount
  PROVE  /\ ~mount' /\ disk'.dir = DIR /\ disk'.fat = Paged(FAT) /\ FAT \in Table /\ Ready
         /\ Fit(DIR, FAT) /\ NoRefs(DIR)
<1>1. /\ Ready /\ ~mount' /\ \A d \in Fds : ~fildes[d].used
      /\ disk' = [dir |-> DIR, fat |-> Paged(FAT)]
  BY DEF Umount, Paged
<1>2. Fit(DIR, FAT) /\ RefsExact /\ FAT \in Table
  BY <1>1, MountedFacts
<1>3. \A h : Openers(fildes, h) = {}
  BY <1>1 DEF Openers
<1> QED BY <1>1, <1>2, <1>3, FS_EmptySet DEF RefsExact, NoRefs

(* Only a mount makes the program ready, and on the disk only formatting    *)
(* and unmounting change directory and table.                               *)
LEMMA RemountedIsMount ==
  ASSUME [Next]_vars, ~Ready, Ready' PROVE Mount
<1>1. vars' # vars
  BY DEF vars, Ready, Up
<1>2. ASSUME NEW call, Fails(call) PROVE FALSE
  BY <1>2 DEF Fails, Ready, Up
<1>3. Disk => Mount
  BY <1>2 DEF Disk, MakeFs, MakeFsMounted, MountNoDisk, MountTwice, MountBlank, Umount,
     UmountUnmounted, Restart, Ready, Up
<1>4. Calls => Ready
  BY DEF Calls, Open, Create, Delete, Listfiles, Close, Filesize, Lseek, Read, Write, Truncate
<1> QED BY <1>1, <1>3, <1>4 DEF Next, Stopped

LEMMA CallsStay ==
  ASSUME IInv, Calls
  PROVE  Ready /\ UNCHANGED <<mount, super, disk>>
<1>1. ASSUME NEW call, Fails(call) \/ \E kind : Faults(call, kind)
      PROVE  UNCHANGED <<mount, super, disk>>
  BY <1>1 DEF Fails, Faults
<1>2. ASSUME NEW n \in Names, Open(n) \/ Create(n) \/ Delete(n)
      PROVE  Ready /\ UNCHANGED <<mount, super, disk>>
  BY <1>1, <1>2 DEF Open, Create, Delete
<1>3. CASE Listfiles
  BY <1>3 DEF Listfiles
<1>4. ASSUME NEW d \in Fds, Close(d) \/ Filesize(d) \/ \E o \in 0 .. MAX_F_SIZE : Lseek(d, o)
      PROVE  Ready /\ UNCHANGED <<mount, super, disk>>
  BY <1>1, <1>4 DEF Close, Filesize, Lseek, BadFd
<1>5. ASSUME NEW d \in Fds, NEW n \in Counts, Read(d, n)
      PROVE  Ready /\ UNCHANGED <<mount, super, disk>>
  BY <1>1, <1>5 DEF Read, BadFd
<1>6. ASSUME NEW d \in Fds, NEW buf \in Buffers, Write(d, buf)
      PROVE  Ready /\ UNCHANGED <<mount, super, disk>>
  BY <1>1, <1>6 DEF Write, BadFd
<1>7. ASSUME NEW d \in Fds, NEW len \in Lengths, Truncate(d, len)
      PROVE  Ready /\ UNCHANGED <<mount, super, disk>>
  BY <1>1, <1>7 DEF Truncate, BadFd, TruncateChain, TruncateOffChain, TruncateAfter
<1> QED BY <1>2, <1>3, <1>4, <1>5, <1>6, <1>7 DEF Calls

LEMMA DiskStays ==
  ASSUME IInv, [Next]_vars, ~Umount, Up', ~mount'
  PROVE  disk' = EmptyDisk \/ (disk' = disk /\ Up /\ ~mount)
<1>1. CASE UNCHANGED vars
  BY <1>1 DEF vars, Up
<1>2. ASSUME NEW call, Fails(call) PROVE disk' = disk /\ Up /\ ~mount
  BY <1>2 DEF Fails, Up
<1>3. CASE Disk
  BY <1>2, <1>3 DEF Disk, MakeFs, MakeFsMounted, Mount, MountNoDisk, MountTwice, MountBlank,
     UmountUnmounted, Restart, Up
<1>4. ~Calls
  BY CallsStay DEF Ready
<1> QED BY <1>1, <1>3, <1>4 DEF Next, Stopped

LEMMA KeptStep ==
  ASSUME KeptInv, [Next]_vars, Mount => FatKept \/ disk = EmptyDisk
  PROVE  KeptInv'
<1>1. IInv
  BY DEF KeptInv
<1>2. MountFits
  BY MountKept DEF MountFits
<1>3. IInv' /\ KeepsBlocks
  BY <1>1, <1>2, NextKeeps DEF Keeps
<1>4. NothingLost'
  <2> SUFFICES ASSUME Ready' PROVE Lost(DIR', FAT') = {}
    BY DEF NothingLost
  <2>1. CASE Ready
    BY <1>3, <2>1 DEF KeptInv, NothingLost, KeepsBlocks
  <2>2. CASE ~Ready
    <3>1. Mount
      BY <2>2, RemountedIsMount
    <3> QED BY <3>1, MountKept
  <2> QED BY <2>1, <2>2
<1>5. ASSUME FatKept, Up', ~mount'
      PROVE  Fit(disk'.dir, disk'.fat) /\ NoRefs(disk'.dir) /\ Lost(disk'.dir, disk'.fat) = {}
  <2>1. CASE Umount
    <3>1. /\ disk'.dir = DIR /\ disk'.fat = Paged(FAT) /\ FAT \in Table /\ Ready
          /\ Fit(DIR, FAT) /\ NoRefs(DIR)
      BY <1>1, <2>1, UmountFits
    <3>2. Paged(FAT) = FAT
      <4>1. \A b \in Blocks : b < IntsPerBlock
        BY <1>5, TableFacts, Sizes DEF Blocks, FatKept
      <4> QED BY <3>1, <4>1, PagedTyped DEF Table
    <3> QED BY <3>1, <3>2 DEF KeptInv, NothingLost
  <2>2. CASE ~Umount
    <3>1. disk' = EmptyDisk \/ (disk' = disk /\ Up /\ ~mount)
      BY <1>1, <1>5, <2>2, DiskStays
    <3> QED BY <1>5, <3>1, EmptyDiskFits DEF KeptInv, DiskFits, DiskWhole
  <2> QED BY <2>1, <2>2
<1> QED BY <1>3, <1>4, <1>5 DEF KeptInv, DiskFits, DiskWhole

THEOREM Invariance == Spec /\ SafeMounts => []KeptInv
<1>1. Init => KeptInv
  <2> SUFFICES ASSUME Init PROVE KeptInv
    OBVIOUS
  <2>1. IInv /\ ~mount /\ disk = EmptyDisk
    BY InitIInv DEF Init
  <2> QED BY <2>1, EmptyDiskFits DEF KeptInv, NothingLost, Ready, DiskFits, DiskWhole
<1>2. KeptInv /\ [Next]_vars /\ [Mount => FatKept \/ disk = EmptyDisk]_vars => KeptInv'
  <2> SUFFICES ASSUME KeptInv, [Next]_vars, [Mount => FatKept \/ disk = EmptyDisk]_vars
               PROVE  KeptInv'
    OBVIOUS
  <2>1. CASE UNCHANGED vars
    BY <2>1 DEF vars, memory, KeptInv, IInv, TypeOK, ClosedUnmounted, MemoryFits, Ready, Up,
       DescriptorsLead, RefsExact, NothingLost, DiskFits, DiskWhole
  <2>2. CASE vars' # vars
    BY <2>2, KeptStep
  <2> QED BY <2>1, <2>2
<1> QED BY <1>1, <1>2, PTL DEF Spec, SafeMounts

(* The same where files reach a disk of any size, and come back.            *)
SyncInv == IInv /\ DiskFits

LEMMA MountSynced ==
  ASSUME SyncInv, Mount, SafeSync
  PROVE  /\ MountFits
         /\ \A i \in Slots : disk.dir[i].used =>
              \A b \in Chain(disk.fat, disk.dir[i].head) : FAT'[b] = disk.fat[b]
<1>1. Up /\ ~mount /\ disk.fat \in Table
  BY DEF Mount, SyncInv, IInv, TypeOK, Table
<1>2. Fit(disk.dir, disk.fat) /\ NoRefs(disk.dir)
  BY <1>1 DEF SyncInv, DiskFits
<1>3. ASSUME NEW i \in Slots, disk.dir[i].used, NEW b \in Chain(disk.fat, disk.dir[i].head)
      PROVE  FAT'[b] = disk.fat[b]
  <2>1. b \in Blocks
    BY <1>2, <1>3, OwnedNotFree, TableFacts
  <2>2. b \notin Clobbered
    BY <1>3 DEF SafeSync
  <2> QED BY <2>1, <2>2 DEF Mount
<1>4. Fit(disk.dir, FAT')
  BY <1>2, <1>3, FitIsLocal
<1> QED BY <1>2, <1>3, <1>4 DEF MountFits

(* umount_fs keeps the chains of the files.                                 *)
LEMMA UmountSynced ==
  ASSUME IInv, Umount, SafeSync
  PROVE  \A i \in Slots : DIR[i].used =>
           \A b \in Chain(FAT, DIR[i].head) : disk'.fat[b] = FAT[b]
<1>1. disk'.fat = Paged(FAT) /\ FAT \in Table /\ Fit(DIR, FAT)
  BY UmountFits
<1>2. ASSUME NEW i \in Slots, DIR[i].used, NEW b \in Chain(FAT, DIR[i].head)
      PROVE  b \in Blocks /\ b < IntsPerBlock
  BY <1>1, <1>2, OwnedNotFree, TableFacts DEF SafeSync, Files, BlocksOf
<1> QED BY <1>1, <1>2, PagedTyped

LEMMA SyncStep ==
  ASSUME SyncInv, [Next]_vars, SafeSync
  PROVE  SyncInv' /\ KeepsBlocks
<1>1. IInv
  BY DEF SyncInv
<1>2. MountFits
  BY MountSynced DEF MountFits
<1>3. IInv' /\ KeepsBlocks
  BY <1>1, <1>2, NextKeeps DEF Keeps
<1>4. ASSUME Up', ~mount' PROVE Fit(disk'.dir, disk'.fat) /\ NoRefs(disk'.dir)
  <2>1. CASE Umount
    <3>1. disk'.dir = DIR /\ Fit(DIR, FAT) /\ NoRefs(DIR)
      BY <1>1, <2>1, UmountFits
    <3>2. Fit(DIR, disk'.fat)
      BY <1>1, <2>1, <3>1, UmountSynced, FitIsLocal
    <3> QED BY <3>1, <3>2
  <2>2. CASE ~Umount
    <3>1. disk' = EmptyDisk \/ (disk' = disk /\ Up /\ ~mount)
      BY <1>1, <1>4, <2>2, DiskStays
    <3> QED BY <3>1, EmptyDiskFits DEF SyncInv, DiskFits
  <2> QED BY <2>1, <2>2
<1> QED BY <1>3, <1>4 DEF SyncInv, DiskFits

THEOREM SyncInvariance == Spec /\ SafeSyncs => []SyncInv
<1>1. Init => SyncInv
  <2> SUFFICES ASSUME Init PROVE SyncInv
    OBVIOUS
  <2>1. IInv /\ disk = EmptyDisk
    BY InitIInv DEF Init
  <2> QED BY <2>1, EmptyDiskFits DEF SyncInv, DiskFits
<1>2. SyncInv /\ [Next]_vars /\ [SafeSync]_vars => SyncInv'
  <2> SUFFICES ASSUME SyncInv, [Next]_vars, [SafeSync]_vars PROVE SyncInv'
    OBVIOUS
  <2>1. CASE UNCHANGED vars
    BY <2>1 DEF vars, memory, SyncInv, IInv, TypeOK, ClosedUnmounted, MemoryFits, Ready, Up,
       DescriptorsLead, RefsExact, DiskFits
  <2>2. CASE vars' # vars
    BY <2>2, SyncStep
  <2> QED BY <2>1, <2>2
<1> QED BY <1>1, <1>2, PTL DEF Spec, SafeSyncs

(* What the invariants say of the properties that the runs check.           *)
LEMMA IInvImplies ==
  IInv => TypeOK /\ NoCrossLinks /\ RefCounts /\ ChainFitsBuffer /\ OffsetInFile
<1> SUFFICES ASSUME IInv
             PROVE  TypeOK /\ NoCrossLinks /\ RefCounts /\ ChainFitsBuffer /\ OffsetInFile
  OBVIOUS
<1>1. NoCrossLinks
  BY MountedFacts DEF NoCrossLinks, Files, BlocksOf, Fit, ChainsApart
<1>3. RefCounts
  <2> SUFFICES ASSUME Ready
               PROVE  /\ \A i \in Slots : DIR[i].ref_cnt =
                           Cardinality({d \in Fds : fildes[d].used /\ fildes[d].file = DIR[i].head})
                      /\ \A d \in Fds : fildes[d].used =>
                           Cardinality({i \in Files : DIR[i].head = fildes[d].file}) = 1
    BY DEF RefCounts
  <2>1. ASSUME NEW d \in Fds, fildes[d].used
        PROVE  Cardinality({i \in Files : DIR[i].head = fildes[d].file}) = 1
    <3>1. {i \in Files : DIR[i].head = fildes[d].file} = {SlotOf(d)}
      BY <2>1, MountedFacts, SlotFound DEF Files
    <3> QED BY <3>1, FS_Singleton
  <2> QED BY <2>1, MountedFacts DEF RefsExact, Openers
<1>4. ChainFitsBuffer
  BY MountedFacts DEF ChainFitsBuffer, Files, BlocksOf, Fit, ChainsEnd
<1>5. OffsetInFile
  BY MountedFacts, SlotFound DEF OffsetInFile
<1> QED BY <1>1, <1>3, <1>4, <1>5 DEF IInv

LEMMA KeptInvImplies ==
  KeptInv => TypeOK /\ NoCrossLinks /\ NoLeak /\ RefCounts /\ ChainFitsBuffer /\ OffsetInFile
<1> SUFFICES ASSUME KeptInv PROVE NoLeak
  BY IInvImplies DEF KeptInv
<1> SUFFICES ASSUME Ready
             PROVE  FreeBlocks(FAT) = DataBlocks \ UNION {BlocksOf(i) : i \in Files}
  BY DEF NoLeak
<1>1. \A b \in DataBlocks : FAT[b] = Free => \A i \in Files : b \notin BlocksOf(i)
  BY MountedFacts DEF KeptInv, Fit, FreeIsUnowned, Files, BlocksOf
<1>2. \A b \in DataBlocks : (\A i \in Files : b \notin BlocksOf(i)) => FAT[b] = Free
  BY DEF KeptInv, NothingLost, Lost, Files, BlocksOf
<1> QED BY <1>1, <1>2 DEF FreeBlocks

(* Directory, FAT, descriptors, disk and results keep their types: no link  *)
(* of the FAT and no first block leaves the disk (fs.c:5-37).               *)
THEOREM TypeCorrect == Spec /\ SafeMounts => []TypeOK
<1>1. KeptInv => TypeOK
  BY KeptInvImplies
<1> QED BY <1>1, Invariance, PTL

(* No block belongs to two files, whatever is created, written, cut and     *)
(* deleted in whatever order (378-383, 549-558, 417-429, 752-762).          *)
THEOREM NoCrossLinksAlways == Spec /\ SafeMounts => []NoCrossLinks
<1>1. KeptInv => NoCrossLinks
  BY KeptInvImplies
<1> QED BY <1>1, Invariance, PTL

(* A block is free exactly when no file owns it (378-383, 417-429).         *)
THEOREM NoLeakAlways == Spec /\ SafeMounts => []NoLeak
<1>1. KeptInv => NoLeak
  BY KeptInvImplies
<1> QED BY <1>1, Invariance, PTL

(* ref_cnt counts the open descriptors, and each leads to one file in use:  *)
(* fs_delete never takes a file from under a descriptor (325, 406-410).     *)
THEOREM RefCountsAlways == Spec /\ SafeMounts => []RefCounts
<1>1. KeptInv => RefCounts
  BY KeptInvImplies
<1> QED BY <1>1, Invariance, PTL

(* Chains end, and fit the buffers fs_read and fs_write allocate (468-484,  *)
(* 573-589): the walks over the FAT terminate and stay in the heap.         *)
THEOREM ChainFitsBufferAlways == Spec /\ SafeMounts => []ChainFitsBuffer
<1>1. KeptInv => ChainFitsBuffer
  BY KeptInvImplies
<1> QED BY <1>1, Invariance, PTL

(* No descriptor points past the end of its file, so fs_read's count is     *)
(* never negative (494).                                                    *)
THEOREM OffsetInFileAlways == Spec /\ SafeMounts => []OffsetInFile
<1>1. KeptInv => OffsetInFile
  BY KeptInvImplies
<1> QED BY <1>1, Invariance, PTL

(* No call on a mounted disk loses a block (417-429, 541-564, 752-762),     *)
(* whatever remounts have lost before: only umount_fs and mount_fs lose any.*)
THEOREM KeepsBlocksAlways == Spec /\ SafeSyncs => [][KeepsBlocks]_vars
<1>1. SyncInv /\ [Next]_vars /\ [SafeSync]_vars => [KeepsBlocks]_vars
  <2> SUFFICES ASSUME SyncInv, [Next]_vars, [SafeSync]_vars, vars' # vars PROVE KeepsBlocks
    OBVIOUS
  <2> QED BY SyncStep
<1> QED BY <1>1, SyncInvariance, PTL DEF Spec, SafeSyncs

(* Remounts on a disk of any size: as long as umount_fs finds the files in  *)
(* the first page and mount_fs clears no entry of theirs, the structure of  *)
(* the file system survives them, though free entries of the FAT may not.   *)
THEOREM RemountsKeepFiles ==
  Spec /\ SafeSyncs => [](TypeOK /\ NoCrossLinks /\ RefCounts /\ ChainFitsBuffer /\ OffsetInFile)
<1>1. SyncInv => TypeOK /\ NoCrossLinks /\ RefCounts /\ ChainFitsBuffer /\ OffsetInFile
  BY IInvImplies DEF SyncInv
<1> QED BY <1>1, SyncInvariance, PTL

-----------------------------------------------------------------------------
(* The files of a directory D and a table F on the data blocks dt *)

(* The bytes of the file of an entry e.                                     *)
TextOf(F, dt, e) ==
  [p \in 1 .. e.size |->
    LET b == BlockAt(F, e.head, (p - 1) \div BLOCK_SIZE)
    IN  IF b \in DataBlocks THEN dt[b][(p - 1) % BLOCK_SIZE] ELSE Junk]

(* The file store: the names of D, each with its bytes.                     *)
SlotIn(D, n) == CHOOSE i \in Slots : D[i].used /\ D[i].name = n
NamesIn(D) == {n \in Names : \E i \in Slots : D[i].used /\ D[i].name = n}
Library(D, F, dt) == [n \in NamesIn(D) |-> TextOf(F, dt, D[SlotIn(D, n)])]

(* No two entries have the same name, and every byte of a file has a block. *)
NamesApart(D) ==
  \A i, j \in Slots : D[i].used /\ D[j].used /\ D[i].name = D[j].name => i = j
Covered(D, F) == \A i \in Slots : D[i].used => Backed(F, D[i])
Whole(D, F) == NamesApart(D) /\ Covered(D, F)

(* Where names are unique, each entry's bytes are found under its name.     *)
LEMMA LibraryHas ==
  ASSUME NEW D, NEW F, NEW dt, Fit(D, F), NamesApart(D), NEW i \in Slots, D[i].used
  PROVE  D[i].name \in NamesIn(D) /\ Library(D, F, dt)[D[i].name] = TextOf(F, dt, D[i])
<1>1. D[i].name \in NamesIn(D)
  BY DEF Fit, EntriesNamed, NamesIn
<1>2. SlotIn(D, D[i].name) = i
  BY DEF SlotIn, NamesApart
<1> QED BY <1>1, <1>2 DEF Library

(* The library as a function of the names.                                  *)
LEMMA NamesFacts ==
  ASSUME NEW D, NEW F, NEW dt
  PROVE  /\ DOMAIN Library(D, F, dt) = NamesIn(D)
         /\ Library(D, F, dt) = [n \in NamesIn(D) |-> Library(D, F, dt)[n]]
         /\ \A n \in NamesIn(D) : n \in Names /\ \E i \in Slots : D[i].used /\ D[i].name = n
BY DEF Library, NamesIn

(* The bytes of a file depend on the table and the blocks of its chain.     *)
LEMMA TextIsLocal ==
  ASSUME NEW F, NEW G, NEW dt, NEW et, NEW e, e.head \in DataBlocks, e.size \in Nat,
         \A b \in Chain(F, e.head) : G[b] = F[b] /\ et[b] = dt[b]
  PROVE  TextOf(G, et, e) = TextOf(F, dt, e) /\ (Backed(F, e) => Backed(G, e))
<1>1. ASSUME NEW p \in 0 .. e.size - 1
      PROVE  /\ BlockAt(G, e.head, p \div BLOCK_SIZE) = BlockAt(F, e.head, p \div BLOCK_SIZE)
             /\ LET b == BlockAt(F, e.head, p \div BLOCK_SIZE)
                IN  b \in DataBlocks => et[b] = dt[b]
  <2>1. p \in Nat /\ p <= p /\ BLOCK_SIZE \in Nat \ {0}
    BY Sizes
  <2>2. p \div BLOCK_SIZE \in Nat
    BY <2>1, DivMonotone
  <2> DEFINE k == p \div BLOCK_SIZE
  <2> HIDE DEF k
  <2>3. k \in Nat
    BY <2>2 DEF k
  <2>4. BlockAt(G, e.head, k) = BlockAt(F, e.head, k)
    BY <2>3, BlocksAreLocal
  <2>5. BlockAt(F, e.head, k) \in DataBlocks => BlockAt(F, e.head, k) \in Chain(F, e.head)
    BY <2>3, BlocksOfChain
  <2> QED BY <2>4, <2>5 DEF k
<1>2. ASSUME NEW p \in 1 .. e.size PROVE p - 1 \in 0 .. e.size - 1
  OBVIOUS
<1>3. TextOf(G, et, e) = TextOf(F, dt, e)
  BY <1>1, <1>2 DEF TextOf
<1>4. Backed(F, e) => Backed(G, e)
  BY <1>1 DEF Backed
<1> QED BY <1>3, <1>4

(* The same entries but for their reference counts.                         *)
LEMMA SameLibrary ==
  ASSUME NEW D, NEW E, NEW F, NEW dt,
         \A i \in Slots : /\ E[i].used = D[i].used /\ E[i].name = D[i].name
                          /\ E[i].size = D[i].size /\ E[i].head = D[i].head
  PROVE  Library(E, F, dt) = Library(D, F, dt) /\ (Whole(D, F) => Whole(E, F))
<1>1. NamesIn(E) = NamesIn(D)
  BY DEF NamesIn
<1>2. ASSUME NEW n \in NamesIn(D)
      PROVE  TextOf(F, dt, E[SlotIn(E, n)]) = TextOf(F, dt, D[SlotIn(D, n)])
  <2>1. SlotIn(E, n) = SlotIn(D, n) /\ SlotIn(D, n) \in Slots
    BY <1>2 DEF SlotIn, NamesIn
  <2> QED BY <2>1 DEF TextOf
<1>3. Library(E, F, dt) = Library(D, F, dt)
  BY <1>1, <1>2 DEF Library
<1>4. Whole(D, F) => Whole(E, F)
  BY DEF Whole, NamesApart, Covered, Backed
<1> QED BY <1>3, <1>4

(* The library depends on the table where the files' chains are.            *)
LEMMA LibraryIsLocal ==
  ASSUME NEW D \in [Slots -> Entry], NEW F, NEW G, NEW dt, Fit(D, F),
         \A i \in Slots : D[i].used => \A b \in Chain(F, D[i].head) : G[b] = F[b]
  PROVE  Library(D, G, dt) = Library(D, F, dt) /\ (Whole(D, F) => Whole(D, G))
<1>1. ASSUME NEW i \in Slots, D[i].used
      PROVE  TextOf(G, dt, D[i]) = TextOf(F, dt, D[i]) /\ (Backed(F, D[i]) => Backed(G, D[i]))
  <2>1. D[i].head \in DataBlocks
    BY <1>1, OwnedNotFree
  <2>2. D[i].size \in Nat
    BY Sizes DEF Entry
  <2>3. \A b \in Chain(F, D[i].head) : G[b] = F[b] /\ dt[b] = dt[b]
    BY <1>1
  <2> QED BY <2>1, <2>2, <2>3, TextIsLocal
<1>2. ASSUME NEW n \in NamesIn(D) PROVE SlotIn(D, n) \in Slots /\ D[SlotIn(D, n)].used
  BY DEF SlotIn, NamesIn
<1>3. Library(D, G, dt) = Library(D, F, dt)
  BY <1>1, <1>2 DEF Library
<1>4. Whole(D, F) => Whole(D, G)
  BY <1>1 DEF Whole, Covered
<1> QED BY <1>3, <1>4

(* A file without bytes.                                                    *)
LEMMA EmptyText ==
  ASSUME NEW F, NEW dt, NEW e, e.size = 0
  PROVE  TextOf(F, dt, e) = <<>>
<1>1. 1 .. 0 = {}
  OBVIOUS
<1>2. TextOf(F, dt, e) = [p \in {} |-> Junk]
  BY <1>1 DEF TextOf
<1>3. <<>> = [p \in {} |-> Junk]
  OBVIOUS
<1> QED BY <1>2, <1>3

(* fs_create: a new file, with no bytes.                                    *)
LEMMA LibraryCreated ==
  ASSUME NEW D \in [Slots -> Entry], NEW F \in Table, NEW dt, Fit(D, F), Whole(D, F),
         NEW i \in Slots, ~D[i].used, NEW n \in Names, n \notin NamesIn(D),
         NEW b \in DataBlocks, F[b] = Free, NEW E, NEW G, Fit(E, G),
         E[i].used, E[i].name = n, E[i].size = 0, \A j \in Slots \ {i} : E[j] = D[j],
         \A c \in DataBlocks \ {b} : G[c] = F[c]
  PROVE  /\ Whole(E, G)
         /\ \A m : m \in NamesIn(E) <=> m \in NamesIn(D) \/ m = n
         /\ \A m \in NamesIn(D) : Library(E, G, dt)[m] = Library(D, F, dt)[m]
<1>1. Fit(E, G)
  OBVIOUS
<1>2. /\ E[i].used /\ E[i].name = n /\ E[i].size = 0
      /\ \A j \in Slots \ {i} : E[j] = D[j]
  OBVIOUS
<1>3. b \in DataBlocks /\ F[b] = Free /\ \A c \in DataBlocks \ {b} : G[c] = F[c]
  OBVIOUS
<1>4. ASSUME NEW j \in Slots \ {i}, D[j].used
      PROVE  /\ TextOf(G, dt, D[j]) = TextOf(F, dt, D[j])
             /\ Backed(G, D[j])
  <2>1. /\ D[j].head \in DataBlocks /\ Chain(F, D[j].head) \subseteq DataBlocks
        /\ b \notin Chain(F, D[j].head)
    BY <1>3, <1>4, OwnedNotFree
  <2>2. \A c \in Chain(F, D[j].head) : G[c] = F[c]
    BY <1>3, <2>1
  <2>3. D[j].size \in Nat
    BY Sizes DEF Entry
  <2>4. Backed(F, D[j])
    BY <1>4 DEF Whole, Covered
  <2> QED BY <2>1, <2>2, <2>3, <2>4, TextIsLocal
<1>5. NamesApart(E)
  BY <1>2 DEF Whole, NamesApart, NamesIn
<1>6. Covered(E, G)
  <2>1. Backed(G, E[i])
    BY <1>2 DEF Backed
  <2> QED BY <1>2, <1>4, <2>1 DEF Covered
<1>7. NamesIn(E) = NamesIn(D) \cup {n}
  <2>1. ASSUME NEW m \in NamesIn(D) PROVE m \in NamesIn(E)
    BY <1>2 DEF NamesIn
  <2>2. n \in NamesIn(E)
    BY <1>2 DEF NamesIn
  <2>3. ASSUME NEW m \in NamesIn(E), m # n PROVE m \in NamesIn(D)
    BY <1>2, <2>3 DEF NamesIn
  <2> QED BY <2>1, <2>2, <2>3
<1>8. ASSUME NEW m \in NamesIn(E)
      PROVE  Library(E, G, dt)[m] = IF m = n THEN <<>> ELSE Library(D, F, dt)[m]
  <2>1. CASE m = n
    <3>1. TextOf(G, dt, E[i]) = <<>>
      BY <1>2, EmptyText
    <3> QED BY <1>1, <1>2, <1>5, <2>1, <3>1, LibraryHas
  <2>2. CASE m # n
    <3>1. PICK j \in Slots : E[j].used /\ E[j].name = m
      BY DEF NamesIn
    <3>2. j # i /\ E[j] = D[j]
      BY <1>2, <2>2, <3>1
    <3>3. Library(E, G, dt)[m] = TextOf(G, dt, E[j])
      BY <1>1, <1>5, <3>1, LibraryHas
    <3>4. Library(D, F, dt)[m] = TextOf(F, dt, D[j])
      BY <3>1, <3>2, LibraryHas DEF Whole
    <3> QED BY <1>4, <2>2, <3>1, <3>2, <3>3, <3>4
  <2> QED BY <2>1, <2>2
<1> QED BY <1>5, <1>6, <1>7, <1>8 DEF Whole

(* fs_delete: a file less.                                                  *)
LEMMA LibraryDeleted ==
  ASSUME NEW D \in [Slots -> Entry], NEW F \in Table, NEW dt, Fit(D, F), Whole(D, F),
         NEW i \in Slots, D[i].used, NEW E, NEW G, Fit(E, G),
         ~E[i].used, \A j \in Slots \ {i} : E[j] = D[j],
         \A c \in DataBlocks \ Chain(F, D[i].head) : G[c] = F[c]
  PROVE  /\ Whole(E, G)
         /\ Library(E, G, dt) = [m \in NamesIn(D) \ {D[i].name} |-> Library(D, F, dt)[m]]
<1>1. Fit(E, G)
  OBVIOUS
<1>2. ~E[i].used /\ \A j \in Slots \ {i} : E[j] = D[j]
  OBVIOUS
<1>3. \A c \in DataBlocks \ Chain(F, D[i].head) : G[c] = F[c]
  OBVIOUS
<1>4. ASSUME NEW j \in Slots \ {i}, D[j].used
      PROVE  /\ TextOf(G, dt, D[j]) = TextOf(F, dt, D[j])
             /\ Backed(G, D[j])
  <2>1. D[j].head \in DataBlocks /\ Chain(F, D[j].head) \subseteq DataBlocks
    BY <1>4, OwnedNotFree
  <2>2. Chain(F, D[j].head) \cap Chain(F, D[i].head) = {}
    BY <1>4 DEF Fit, ChainsApart
  <2>3. \A c \in Chain(F, D[j].head) : G[c] = F[c]
    BY <1>3, <2>1, <2>2
  <2>4. D[j].size \in Nat
    BY Sizes DEF Entry
  <2>5. Backed(F, D[j])
    BY <1>4 DEF Whole, Covered
  <2> QED BY <2>1, <2>3, <2>4, <2>5, TextIsLocal
<1>5. NamesApart(E)
  BY <1>2 DEF Whole, NamesApart
<1>6. Covered(E, G)
  BY <1>2, <1>4 DEF Covered
<1>7. NamesIn(E) = NamesIn(D) \ {D[i].name}
  <2>1. ASSUME NEW m \in NamesIn(D), m # D[i].name PROVE m \in NamesIn(E)
    BY <1>2, <2>1 DEF NamesIn
  <2>2. ASSUME NEW m \in NamesIn(E) PROVE m \in NamesIn(D) /\ m # D[i].name
    BY <1>2 DEF NamesIn, Whole, NamesApart
  <2> QED BY <2>1, <2>2
<1>8. ASSUME NEW m \in NamesIn(E)
      PROVE  Library(E, G, dt)[m] = Library(D, F, dt)[m]
  <2>1. PICK j \in Slots : E[j].used /\ E[j].name = m
    BY DEF NamesIn
  <2>2. j # i /\ E[j] = D[j]
    BY <1>2, <2>1
  <2>3. Library(E, G, dt)[m] = TextOf(G, dt, E[j])
    BY <1>1, <1>5, <2>1, LibraryHas
  <2>4. Library(D, F, dt)[m] = TextOf(F, dt, D[j])
    BY <2>1, <2>2, LibraryHas DEF Whole
  <2> QED BY <1>4, <2>1, <2>2, <2>3, <2>4
<1>9. Library(E, G, dt) = [m \in NamesIn(D) \ {D[i].name} |-> Library(D, F, dt)[m]]
  <2>1. Library(E, G, dt) = [m \in NamesIn(E) |-> Library(E, G, dt)[m]]
    BY NamesFacts
  <2> QED BY <1>7, <1>8, <2>1
<1> QED BY <1>5, <1>6, <1>9 DEF Whole

(* fs_write: one file changes, for no other has a block of its chain.       *)
LEMMA LibraryWritten ==
  ASSUME NEW D \in [Slots -> Entry], NEW F \in Table, Fit(D, F), Whole(D, F),
         NEW i \in Slots, D[i].used, NEW E, NEW G, NEW dt, Fit(E, G), Covered(E, G),
         \A j \in Slots : E[j].used = D[j].used /\ E[j].name = D[j].name,
         \A j \in Slots \ {i} : E[j] = D[j],
         Chain(G, D[i].head) \ Chain(F, D[i].head) \subseteq FreeBlocks(F),
         \A b \in DataBlocks \ Chain(G, D[i].head) : G[b] = F[b] /\ dt[b] = data[b]
  PROVE  /\ Whole(E, G)
         /\ Library(E, G, dt) =
              [Library(D, F, data) EXCEPT ![D[i].name] = TextOf(G, dt, E[i])]
<1> DEFINE h == D[i].head
           L == Library(D, F, data)
<1>1. /\ \A j \in Slots : E[j].used = D[j].used /\ E[j].name = D[j].name
      /\ \A j \in Slots \ {i} : E[j] = D[j]
  OBVIOUS
<1>2. Fit(E, G) /\ Covered(E, G)
  OBVIOUS
<1>4. Chain(G, h) \ Chain(F, h) \subseteq FreeBlocks(F)
  OBVIOUS
<1>5. \A b \in DataBlocks \ Chain(G, h) : G[b] = F[b] /\ dt[b] = data[b]
  OBVIOUS
<1>6. ASSUME NEW j \in Slots \ {i}, D[j].used
      PROVE  TextOf(G, dt, D[j]) = TextOf(F, data, D[j])
  <2>1. /\ D[j].head \in DataBlocks /\ Chain(F, D[j].head) \subseteq DataBlocks
        /\ \A b \in Chain(F, D[j].head) : F[b] # Free
    BY <1>6, OwnedNotFree
  <2>2. Chain(F, D[j].head) \cap Chain(F, h) = {}
    BY <1>6 DEF Fit, ChainsApart
  <2>3. Chain(F, D[j].head) \cap Chain(G, h) = {}
    BY <1>4, <2>1, <2>2 DEF FreeBlocks
  <2>4. \A c \in Chain(F, D[j].head) : G[c] = F[c] /\ dt[c] = data[c]
    BY <1>5, <2>1, <2>3
  <2>5. D[j].size \in Nat
    BY Sizes DEF Entry
  <2> QED BY <2>1, <2>4, <2>5, TextIsLocal
<1>7. NamesApart(E)
  BY <1>1 DEF Whole, NamesApart
<1>8. NamesIn(E) = NamesIn(D)
  BY <1>1 DEF NamesIn
<1>9. ASSUME NEW m \in NamesIn(D)
      PROVE  Library(E, G, dt)[m] = IF m = D[i].name THEN TextOf(G, dt, E[i]) ELSE L[m]
  <2>1. CASE m = D[i].name
    BY <1>1, <1>2, <1>7, <2>1, LibraryHas
  <2>2. CASE m # D[i].name
    <3>1. PICK j \in Slots : D[j].used /\ D[j].name = m
      BY NamesFacts
    <3>2. j # i /\ E[j] = D[j]
      BY <1>1, <2>2, <3>1
    <3>3. Library(E, G, dt)[m] = TextOf(G, dt, E[j])
      BY <1>2, <1>7, <3>1, <3>2, LibraryHas
    <3>4. L[m] = TextOf(F, data, D[j])
      BY <3>1, LibraryHas DEF Whole
    <3> QED BY <1>6, <2>2, <3>1, <3>2, <3>3, <3>4
  <2> QED BY <2>1, <2>2
<1>10. D[i].name \in NamesIn(D)
  BY LibraryHas DEF Whole
<1> HIDE DEF L
<1>11. DOMAIN L = NamesIn(D) /\ L = [m \in NamesIn(D) |-> L[m]]
  BY NamesFacts DEF L
<1>12. Library(E, G, dt) = [m \in NamesIn(D) |-> Library(E, G, dt)[m]]
  BY <1>8, NamesFacts
<1> DEFINE t == TextOf(G, dt, E[i])
           nm == D[i].name
<1> HIDE DEF t, nm
<1>13. [L EXCEPT ![nm] = t] = [m \in NamesIn(D) |-> IF m = nm THEN t ELSE L[m]]
  BY <1>10, <1>11 DEF nm
<1>14. Library(E, G, dt) = [L EXCEPT ![nm] = t]
  BY <1>9, <1>12, <1>13 DEF t, nm
<1> QED BY <1>2, <1>7, <1>14 DEF Whole, L, h, t, nm

(* A position is a block and a place in it.                                 *)
LEMMA DivMod ==
  ASSUME NEW a \in Nat, NEW c \in Nat \ {0}
  PROVE  /\ a \div c \in Nat /\ a % c \in 0 .. c - 1
         /\ (a \div c) * c + (a % c) = a
OBVIOUS

(* The bytes t of a file whose bytes were old, once the first n of buf have *)
(* been written from o on.                                                  *)
Mixed(t, old, buf, o, n) ==
  /\ Len(t) = IF o + n > Len(old) THEN o + n ELSE Len(old)
  /\ \A p \in 1 .. Len(t) : t[p] = IF p - o \in 1 .. n THEN buf[p - o] ELSE old[p]

(* A file has as many bytes as its entry says.                              *)
LEMMA TextLen ==
  ASSUME NEW F, NEW dt, NEW e, e.size \in Nat
  PROVE  Len(TextOf(F, dt, e)) = e.size
<1> DEFINE t == TextOf(F, dt, e)
<1>1. t = [p \in 1 .. e.size |-> t[p]]
  BY DEF TextOf
<1> HIDE DEF t
<1>2. Len([p \in 1 .. e.size |-> t[p]]) = e.size
  OBVIOUS
<1> QED BY <1>1, <1>2 DEF t

LEMMA TextWritten ==
  ASSUME NEW F \in Table, NEW e, NEW f, NEW q \in Nat, NEW o \in Nat, NEW n \in Nat,
         NEW buf,
         e.head \in DataBlocks, e.size \in Nat, o <= e.size,
         f.head = e.head, f.size = IF o + n > e.size THEN o + n ELSE e.size,
         Ends(Grown(F, e.head, q), e.head), Backed(F, e), Backed(Grown(F, e.head, q), f)
  PROVE  LET G == Grown(F, e.head, q)
         IN  Mixed(TextOf(G, Overwritten(G, e.head, o, buf, n), f), TextOf(F, data, e), buf, o, n)
<1> DEFINE h == e.head
           G == Grown(F, h, q)
           dt == Overwritten(G, h, o, buf, n)
           t == TextOf(G, dt, f)
           old == TextOf(F, data, e)
<1>0. Len(t) = f.size /\ Len(old) = e.size
  BY TextLen
<1> SUFFICES ASSUME NEW p \in 1 .. f.size
             PROVE  t[p] = IF p - o \in 1 .. n THEN buf[p - o] ELSE old[p]
  <2> HIDE DEF t, old, dt, G
  <2>1. Mixed(t, old, buf, o, n)
    BY <1>0 DEF Mixed
  <2> QED BY <2>1 DEF t, old, dt, G
<1> DEFINE k == (p - 1) \div BLOCK_SIZE
           r == (p - 1) % BLOCK_SIZE
           b == BlockAt(G, h, k)
<1>1. p \in Nat /\ f.size \in Nat /\ p - 1 \in Nat /\ p - 1 \in 0 .. f.size - 1
  OBVIOUS
<1>2. k \in Nat /\ r \in InBlock /\ k * BLOCK_SIZE + r = p - 1
  BY <1>1, Sizes, DivMod DEF InBlock
<1>3. b \in DataBlocks
  BY <1>1 DEF Backed
<1>4. t[p] = dt[b][r]
  <2> HIDE DEF dt, G
  <2> QED BY <1>3 DEF TextOf
<1>5. p <= e.size => BlockAt(F, h, k) = b /\ old[p] = data[b][r]
  <2> SUFFICES ASSUME p <= e.size PROVE BlockAt(F, h, k) = b /\ old[p] = data[b][r]
    OBVIOUS
  <2>1. p - 1 \in 0 .. e.size - 1 /\ p \in 1 .. e.size
    BY <1>1
  <2>2. BlockAt(F, h, k) \in DataBlocks
    BY <2>1 DEF Backed
  <2> HIDE DEF k, r
  <2>3. BlockAt(F, h, k) = b
    BY <1>2, <2>2, BlocksGrown
  <2>4. old[p] = data[BlockAt(F, h, k)][r]
    BY <2>1, <2>2 DEF TextOf, k, r
  <2> QED BY <2>3, <2>4
<1> HIDE DEF k, r, t, old, G
<1>6. b \in Chain(G, h) /\ Index(G, h, b) = k
  BY <1>2, <1>3, BlocksOfChain, IndexOf DEF G
<1> HIDE DEF b
<1>7. dt[b][r] = LET i == k * BLOCK_SIZE + r - o + 1
                 IN  IF i \in 1 .. n THEN buf[i] ELSE data[b][r]
  BY <1>2, <1>3, <1>6 DEF Overwritten
<1>8. k * BLOCK_SIZE + r - o + 1 = p - o
  <2>1. (k * BLOCK_SIZE + r) - o + 1 = (p - 1) - o + 1
    BY <1>2
  <2>2. r \in Int /\ k * BLOCK_SIZE \in Int
    BY <1>2, Sizes DEF InBlock
  <2> QED BY <1>1, <2>1, <2>2
<1>9. p - o \notin 1 .. n => p <= e.size
  BY <1>1
<1> QED BY <1>4, <1>5, <1>7, <1>8, <1>9

(* They are bytes, or junk.                                                 *)
LEMMA TextTyped ==
  ASSUME NEW F, NEW dt \in [DataBlocks -> [InBlock -> Bytes \cup {Junk}]], NEW e, e.size \in Nat
  PROVE  TextOf(F, dt, e) \in Seq(Bytes \cup {Junk}) /\ Len(TextOf(F, dt, e)) = e.size
<1> DEFINE S == Bytes \cup {Junk}
           t == TextOf(F, dt, e)
<1>1. t = [p \in 1 .. e.size |-> t[p]]
  BY DEF TextOf
<1>2. ASSUME NEW p \in 1 .. e.size PROVE t[p] \in S
  <2>1. (p - 1) % BLOCK_SIZE \in InBlock
    <3>1. p - 1 \in Nat
      OBVIOUS
    <3> QED BY <3>1, Sizes, DivMod DEF InBlock
  <2> HIDE DEF S
  <2>2. \A b \in DataBlocks : \A q \in InBlock : dt[b][q] \in S
    BY DEF S
  <2> QED BY <2>1, <2>2 DEF TextOf, S
<1> HIDE DEF t, S
<1>3. [p \in 1 .. e.size |-> t[p]] \in Seq(S)
  BY <1>2
<1>4. Len([p \in 1 .. e.size |-> t[p]]) = e.size
  OBVIOUS
<1> QED BY <1>1, <1>3, <1>4 DEF t, S

(* Bytes spliced into a string, as FileStore says it.                       *)
LEMMA Spliced ==
  ASSUME NEW S, NEW old \in Seq(S), NEW buf \in Seq(S), NEW t \in Seq(S),
         NEW o \in 0 .. Len(old), NEW n \in 0 .. Len(buf),
         Mixed(t, old, buf, o, n)
  PROVE  t = SubSeq(old, 1, o) \o SubSeq(buf, 1, n) \o SubSeq(old, o + n + 1, Len(old))
<1> DEFINE A == SubSeq(old, 1, o)
           B == SubSeq(buf, 1, n)
           C == SubSeq(old, o + n + 1, Len(old))
           m == Len(old)
<1>1. m \in Nat /\ Len(buf) \in Nat /\ o \in Nat /\ n \in Nat /\ o + n + 1 \in Int
  OBVIOUS
<1>2. (\A i \in 1 .. m : old[i] \in S) /\ (\A i \in 1 .. Len(buf) : buf[i] \in S)
  OBVIOUS
<1>3. A \in Seq(S) /\ Len(A) = o /\ \A i \in 1 .. o : A[i] = old[i]
  <2>1. \A i \in 1 .. o : old[i] \in S
    BY <1>1, <1>2
  <2>2. /\ A \in Seq(S) /\ Len(A) = (IF 1 <= o THEN o - 1 + 1 ELSE 0)
        /\ \A i \in 1 .. o - 1 + 1 : A[i] = old[1 + i - 1]
    BY <1>1, <2>1, SubSeqProperties
  <2> HIDE DEF A
  <2> QED BY <1>1, <2>2
<1>4. B \in Seq(S) /\ Len(B) = n /\ \A i \in 1 .. n : B[i] = buf[i]
  <2>1. \A i \in 1 .. n : buf[i] \in S
    BY <1>1, <1>2
  <2>2. /\ B \in Seq(S) /\ Len(B) = (IF 1 <= n THEN n - 1 + 1 ELSE 0)
        /\ \A i \in 1 .. n - 1 + 1 : B[i] = buf[1 + i - 1]
    BY <1>1, <2>1, SubSeqProperties
  <2> HIDE DEF B
  <2> QED BY <1>1, <2>2
<1>5. /\ C \in Seq(S) /\ Len(C) = (IF o + n < m THEN m - (o + n) ELSE 0)
      /\ \A i \in 1 .. m - (o + n) : C[i] = old[o + n + i]
  <2>1. \A i \in o + n + 1 .. m : old[i] \in S
    BY <1>1, <1>2
  <2>2. /\ C \in Seq(S) /\ Len(C) = (IF o + n + 1 <= m THEN m - (o + n + 1) + 1 ELSE 0)
        /\ \A i \in 1 .. m - (o + n + 1) + 1 : C[i] = old[o + n + 1 + i - 1]
    BY <1>1, <2>1, SubSeqProperties
  <2> HIDE DEF C
  <2> QED BY <1>1, <2>2
<1> HIDE DEF A, B, C, m
<1>6. /\ A \o B \in Seq(S) /\ Len(A \o B) = o + n
      /\ \A i \in 1 .. o + n : (A \o B)[i] = IF i <= o THEN A[i] ELSE B[i - o]
  <2>1. A \in Seq(S) /\ B \in Seq(S)
    BY <1>3, <1>4
  <2>2. /\ A \o B \in Seq(S) /\ Len(A \o B) = Len(A) + Len(B)
        /\ \A i \in 1 .. Len(A) + Len(B) : (A \o B)[i] = IF i <= Len(A) THEN A[i] ELSE B[i - Len(A)]
    BY <2>1, ConcatProperties, Zenon
  <2> QED BY <1>3, <1>4, <2>2
<1> DEFINE AB == A \o B
<1> HIDE DEF AB
<1>7. /\ AB \o C \in Seq(S) /\ Len(AB \o C) = (o + n) + Len(C)
      /\ \A i \in 1 .. (o + n) + Len(C) :
           (AB \o C)[i] = IF i <= o + n THEN AB[i] ELSE C[i - (o + n)]
  <2>1. AB \in Seq(S) /\ C \in Seq(S) /\ Len(AB) = o + n
    BY <1>5, <1>6 DEF AB
  <2>2. /\ AB \o C \in Seq(S) /\ Len(AB \o C) = Len(AB) + Len(C)
        /\ \A i \in 1 .. Len(AB) + Len(C) :
             (AB \o C)[i] = IF i <= Len(AB) THEN AB[i] ELSE C[i - Len(AB)]
    BY <2>1, ConcatProperties, Zenon
  <2> QED BY <2>1, <2>2
<1> DEFINE w == AB \o C
<1> HIDE DEF w
<1>8. Len(t) = Len(w)
  <2>1. Len(t) = IF o + n > m THEN o + n ELSE m
    BY DEF Mixed, m
  <2> QED BY <1>1, <1>5, <1>7, <2>1 DEF w
<1>9. ASSUME NEW p \in 1 .. Len(t) PROVE t[p] = w[p]
  <2>1. p \in Nat /\ p \in 1 .. (o + n) + Len(C) /\ Len(C) \in Nat
    BY <1>1, <1>5, <1>7, <1>8 DEF w
  <2>2. t[p] = IF p - o \in 1 .. n THEN buf[p - o] ELSE old[p]
    BY DEF Mixed
  <2>3. w[p] = IF p <= o + n THEN AB[p] ELSE C[p - (o + n)]
    BY <1>7, <2>1 DEF w
  <2>4. CASE p <= o
    <3>1. p \in 1 .. o /\ p \in 1 .. o + n
      BY <1>1, <2>1, <2>4
    <3>2. AB[p] = A[p]
      BY <1>6, <2>4, <3>1 DEF AB
    <3> QED BY <1>1, <1>3, <2>1, <2>2, <2>3, <2>4, <3>1, <3>2
  <2>5. CASE p > o /\ p <= o + n
    <3>1. p - o \in 1 .. n /\ p \in 1 .. o + n /\ ~(p <= o)
      BY <1>1, <2>1, <2>5
    <3>2. AB[p] = B[p - o]
      BY <1>6, <3>1 DEF AB
    <3> QED BY <1>4, <2>2, <2>3, <2>5, <3>1, <3>2
  <2>6. CASE p > o + n
    <3>1. p - (o + n) \in 1 .. m - (o + n) /\ o + n + (p - (o + n)) = p /\ p - o \notin 1 .. n
          /\ ~(p <= o + n)
      BY <1>1, <1>5, <2>1, <2>6
    <3>2. C[p - (o + n)] = old[p]
      BY <1>5, <3>1
    <3> QED BY <2>2, <2>3, <3>1, <3>2
  <2> QED BY <1>1, <2>1, <2>4, <2>5, <2>6
<1>10. w \in Seq(S)
  BY <1>7 DEF w
<1>11. t = w
  BY <1>8, <1>9, <1>10, SeqEqual
<1> QED BY <1>11 DEF w, AB, A, B, C, m

(* fs_read: a part of the bytes.                                            *)
LEMMA TextRead ==
  ASSUME TypeOK, NEW e, e.size \in Nat, NEW o \in Nat, NEW to \in Nat, o <= to, to <= e.size
  PROVE  Fetched(FAT, e.head, o, to) = SubSeq(TextOf(FAT, data, e), o + 1, to)
<1> DEFINE S == Bytes \cup {Junk}
           t == TextOf(FAT, data, e)
           g == Fetched(FAT, e.head, o, to)
<1>1. t \in Seq(S) /\ Len(t) = e.size
  BY TextTyped DEF TypeOK
<1>2. g \in Seq(S)
  BY FetchedTyped
<1>3. g = [i \in 1 .. to - o |-> g[i]] /\ Len([i \in 1 .. to - o |-> g[i]]) = to - o
  BY DEF Fetched
<1>4. ASSUME NEW i \in 1 .. to - o PROVE g[i] = t[o + i]
  <2>1. o + i \in 1 .. e.size /\ (o + i) - 1 = o + i - 1
    OBVIOUS
  <2>2. t[o + i] = LET b == BlockAt(FAT, e.head, (o + i - 1) \div BLOCK_SIZE)
                   IN  IF b \in DataBlocks THEN data[b][(o + i - 1) % BLOCK_SIZE] ELSE Junk
    BY <2>1 DEF TextOf
  <2>3. g[i] = LET b == BlockAt(FAT, e.head, (o + i - 1) \div BLOCK_SIZE)
               IN  IF b \in DataBlocks THEN data[b][(o + i - 1) % BLOCK_SIZE] ELSE Junk
    BY DEF Fetched
  <2> QED BY <2>2, <2>3
<1> DEFINE u == SubSeq(t, o + 1, to)
<1> HIDE DEF t, g, S
<1>5. \A i \in o + 1 .. to : t[i] \in S
  BY <1>1
<1>6. /\ u \in Seq(S) /\ Len(u) = (IF o + 1 <= to THEN to - (o + 1) + 1 ELSE 0)
      /\ \A i \in 1 .. to - (o + 1) + 1 : u[i] = t[o + 1 + i - 1]
  BY <1>5, SubSeqProperties
<1> HIDE DEF u
<1>7. Len(g) = to - o /\ Len(u) = to - o
  BY <1>3, <1>6
<1>8. ASSUME NEW i \in 1 .. Len(g) PROVE g[i] = u[i]
  <2>1. i \in 1 .. to - o /\ i \in 1 .. to - (o + 1) + 1 /\ o + 1 + i - 1 = o + i
    BY <1>7
  <2> QED BY <1>4, <1>6, <2>1
<1>9. g = u
  BY <1>2, <1>6, <1>7, <1>8, SeqEqual
<1> QED BY <1>9 DEF t, g, u

-----------------------------------------------------------------------------
(* The descriptors fd, with the names of their files *)

(* The name of the file that starts at h, and what descriptors lead to.     *)
NameAt(D, h) == D[Min({i \in Slots : D[i].head = h})].name
Handles(D, fd) ==
  [d \in {d \in Fds : fd[d].used} |->
    [name |-> NameAt(D, fd[d].file), offset |-> fd[d].offset]]

(* The search by first block finds the entry it belongs to.                 *)
LEMMA NameAtIs ==
  ASSUME NEW D, NEW F, Fit(D, F), NEW i \in Slots, D[i].used
  PROVE  NameAt(D, D[i].head) = D[i].name
<1>1. {j \in Slots : D[j].head = D[i].head} = {i}
  BY HeadsDiffer
<1>2. i \in Nat
  BY Sizes DEF Slots
<1>3. Min({i}) = i
  BY <1>2 DEF Min
<1> QED BY <1>1, <1>3 DEF NameAt

(* Every descriptor in fd leads to a file of D.                             *)
Leading(D, fd) == \A d \in Fds : fd[d].used => \E i \in Slots : D[i].used /\ D[i].head = fd[d].file

(* Other descriptors keep their names if the entries they lead to do.       *)
LEMMA NamesKept ==
  ASSUME NEW D, NEW F, NEW E, NEW G, NEW fd, Fit(D, F), Fit(E, G), Leading(D, fd),
         NEW d \in Fds, fd[d].used,
         \A i \in Slots : D[i].used /\ D[i].head = fd[d].file
                          => E[i].used /\ E[i].head = D[i].head /\ E[i].name = D[i].name
  PROVE  NameAt(E, fd[d].file) = NameAt(D, fd[d].file)
<1>1. PICK i \in Slots : D[i].used /\ D[i].head = fd[d].file
  BY DEF Leading
<1>2. E[i].used /\ E[i].head = fd[d].file /\ E[i].name = D[i].name
  BY <1>1
<1>3. NameAt(D, D[i].head) = D[i].name /\ NameAt(E, E[i].head) = E[i].name
  BY <1>1, <1>2, NameAtIs
<1> QED BY <1>1, <1>2, <1>3

(* fs_create and fs_delete: nothing changes for the descriptors.            *)
LEMMA HandlesSame ==
  ASSUME NEW D, NEW F, NEW E, NEW G, NEW fd, Fit(D, F), Fit(E, G), Leading(D, fd),
         \A d \in Fds, i \in Slots :
           fd[d].used /\ D[i].used /\ D[i].head = fd[d].file
             => E[i].used /\ E[i].head = D[i].head /\ E[i].name = D[i].name
  PROVE  Handles(E, fd) = Handles(D, fd)
<1>1. ASSUME NEW d \in Fds, fd[d].used PROVE NameAt(E, fd[d].file) = NameAt(D, fd[d].file)
  BY <1>1, NamesKept
<1> QED BY <1>1 DEF Handles

(* fs_lseek, fs_read, fs_write: one descriptor moves.                       *)
LEMMA HandlesMoved ==
  ASSUME NEW D, NEW F, NEW E, NEW G, NEW fd \in [Fds -> Descriptor], Fit(D, F), Fit(E, G),
         Leading(D, fd), NEW d \in Fds, fd[d].used, NEW o, NEW gd, gd[d].offset = o,
         \A e \in Fds : gd[e].used = fd[e].used /\ gd[e].file = fd[e].file,
         \A e \in Fds \ {d} : gd[e].offset = fd[e].offset,
         \A i \in Slots : E[i].used = D[i].used /\ E[i].head = D[i].head /\ E[i].name = D[i].name
  PROVE  Handles(E, gd) = [Handles(D, fd) EXCEPT ![d].offset = o]
<1> DEFINE H == Handles(D, fd)
           used == {e \in Fds : fd[e].used}
<1>1. /\ \A e \in Fds : gd[e].used = fd[e].used /\ gd[e].file = fd[e].file
      /\ gd[d].offset = o
      /\ \A e \in Fds \ {d} : gd[e].offset = fd[e].offset
  OBVIOUS
<1>2. ASSUME NEW e \in used PROVE NameAt(E, gd[e].file) = NameAt(D, fd[e].file)
  BY <1>1, NamesKept
<1>3. Handles(E, gd) = [e \in used |-> [name |-> NameAt(D, fd[e].file), offset |-> gd[e].offset]]
  <2>1. {e \in Fds : gd[e].used} = used
    BY <1>1
  <2> QED BY <1>2, <2>1 DEF Handles
<1>4. H = [e \in used |-> [name |-> NameAt(D, fd[e].file), offset |-> fd[e].offset]]
  BY DEF Handles
<1> HIDE DEF H
<1>5. [H EXCEPT ![d].offset = o] =
        [e \in used |-> [name |-> NameAt(D, fd[e].file),
                         offset |-> IF e = d THEN o ELSE fd[e].offset]]
  BY <1>4
<1>6. \A e \in used : gd[e].offset = IF e = d THEN o ELSE fd[e].offset
  BY <1>1
<1> QED BY <1>3, <1>5, <1>6 DEF H

(* fs_open: one descriptor more.                                            *)
LEMMA HandlesOpened ==
  ASSUME NEW D, NEW F, NEW E, NEW G, NEW fd \in [Fds -> Descriptor], Fit(D, F), Fit(E, G),
         Leading(D, fd), NEW d \in Fds, ~fd[d].used, NEW i \in Slots, D[i].used, NEW gd,
         gd[d].used, gd[d].file = D[i].head, gd[d].offset = 0, \A e \in Fds \ {d} : gd[e] = fd[e],
         \A j \in Slots : E[j].used = D[j].used /\ E[j].head = D[j].head /\ E[j].name = D[j].name
  PROVE  Handles(E, gd) = [e \in DOMAIN Handles(D, fd) \cup {d} |->
            IF e = d THEN [name |-> D[i].name, offset |-> 0] ELSE Handles(D, fd)[e]]
<1> DEFINE used == {e \in Fds : fd[e].used}
<1>1. /\ gd[d].used /\ gd[d].file = D[i].head /\ gd[d].offset = 0
      /\ \A e \in Fds \ {d} : gd[e] = fd[e]
  OBVIOUS
<1>2. {e \in Fds : gd[e].used} = used \cup {d}
  BY <1>1
<1>3. NameAt(E, gd[d].file) = D[i].name
  BY <1>1, NameAtIs
<1>4. ASSUME NEW e \in used PROVE e # d /\ gd[e] = fd[e] /\ NameAt(E, fd[e].file) = NameAt(D, fd[e].file)
  BY <1>1, NamesKept
<1>5. /\ DOMAIN Handles(D, fd) = used
      /\ \A e \in used : Handles(D, fd)[e] = [name |-> NameAt(D, fd[e].file), offset |-> fd[e].offset]
  BY DEF Handles
<1>6. Handles(E, gd) = [e \in used \cup {d} |-> [name |-> NameAt(E, gd[e].file), offset |-> gd[e].offset]]
  BY <1>2 DEF Handles
<1>7. ASSUME NEW e \in used \cup {d}
      PROVE  [name |-> NameAt(E, gd[e].file), offset |-> gd[e].offset] =
             IF e = d THEN [name |-> D[i].name, offset |-> 0] ELSE Handles(D, fd)[e]
  BY <1>1, <1>3, <1>4, <1>5
<1> QED BY <1>5, <1>6, <1>7

(* fs_close: one less.                                                      *)
LEMMA HandlesClosed ==
  ASSUME NEW D, NEW F, NEW E, NEW G, NEW fd \in [Fds -> Descriptor], Fit(D, F), Fit(E, G),
         Leading(D, fd), NEW d \in Fds, NEW gd, ~gd[d].used, \A e \in Fds \ {d} : gd[e] = fd[e],
         \A j \in Slots : E[j].used = D[j].used /\ E[j].head = D[j].head /\ E[j].name = D[j].name
  PROVE  Handles(E, gd) = [e \in DOMAIN Handles(D, fd) \ {d} |-> Handles(D, fd)[e]]
<1> DEFINE used == {e \in Fds : fd[e].used}
<1>1. ~gd[d].used /\ \A e \in Fds \ {d} : gd[e] = fd[e]
  OBVIOUS
<1>2. {e \in Fds : gd[e].used} = used \ {d}
  BY <1>1
<1>3. ASSUME NEW e \in used \ {d} PROVE gd[e] = fd[e] /\ NameAt(E, fd[e].file) = NameAt(D, fd[e].file)
  BY <1>1, NamesKept
<1>4. /\ DOMAIN Handles(D, fd) = used
      /\ \A e \in used : Handles(D, fd)[e] = [name |-> NameAt(D, fd[e].file), offset |-> fd[e].offset]
  BY DEF Handles
<1>5. Handles(E, gd) = [e \in used \ {d} |-> [name |-> NameAt(E, gd[e].file), offset |-> gd[e].offset]]
  BY <1>2 DEF Handles
<1> QED BY <1>3, <1>4, <1>5

(* The directory is full when there are MAX_F_NUM names.                    *)
LEMMA NamesCounted ==
  ASSUME NEW D, EntriesNamed(D), NamesApart(D)
  PROVE  /\ (\A i \in Slots : D[i].used) => Cardinality(NamesIn(D)) = MAX_F_NUM
         /\ (\E i \in Slots : ~D[i].used) => Cardinality(NamesIn(D)) < MAX_F_NUM
<1> DEFINE U == {i \in Slots : D[i].used}
           f == [i \in U |-> D[i].name]
<1>1. IsFiniteSet(Slots) /\ Cardinality(Slots) = MAX_F_NUM
  <2>1. MAX_F_NUM - 1 \in Int /\ 0 <= MAX_F_NUM - 1 /\ (MAX_F_NUM - 1) - 0 + 1 = MAX_F_NUM
    BY Sizes
  <2> QED BY <2>1, FS_Interval DEF Slots
<1>2. IsFiniteSet(U) /\ Cardinality(U) <= MAX_F_NUM /\ (U # Slots => Cardinality(U) # MAX_F_NUM)
  <2>1. U \subseteq Slots
    OBVIOUS
  <2> HIDE DEF U
  <2> QED BY <1>1, <2>1, FS_Subset
<1>3. f \in Bijection(U, NamesIn(D))
  <2>1. f \in [U -> NamesIn(D)]
    BY DEF EntriesNamed, NamesIn
  <2>2. \A i, j \in U : f[i] = f[j] => i = j
    BY DEF NamesApart
  <2>3. \A n \in NamesIn(D) : \E i \in U : f[i] = n
    BY DEF NamesIn
  <2> HIDE DEF f, U
  <2>4. f \in Injection(U, NamesIn(D)) /\ f \in Surjection(U, NamesIn(D))
    BY <2>1, <2>2, <2>3 DEF Injection, IsInjective, Surjection
  <2> QED BY <2>4 DEF Bijection
<1>4. Cardinality(NamesIn(D)) = Cardinality(U)
  <2> HIDE DEF f, U
  <2> QED BY <1>2, <1>3, FS_Bijection DEF ExistsBijection
<1>5. Cardinality(U) \in Nat
  <2> HIDE DEF U
  <2> QED BY <1>2, FS_CardinalityType
<1>6. CASE \A i \in Slots : D[i].used
  <2>1. U = Slots
    BY <1>6
  <2> QED BY <1>1, <1>4, <1>6, <2>1
<1>7. CASE \E i \in Slots : ~D[i].used
  <2>1. U # Slots
    BY <1>7
  <2> HIDE DEF U
  <2> QED BY <1>2, <1>4, <1>5, <1>7, <2>1, Sizes
<1> QED BY <1>6, <1>7

-----------------------------------------------------------------------------
(* What a program sees *)

(* What a program sees, in the terms of the lemmas above.                   *)
LEMMA SeenIs ==
  /\ TypeOK => FilesSeen = Library(DirSeen, FatSeen, data)
  /\ mount => /\ DirSeen = DIR /\ FatSeen = FAT /\ StateSeen = "mounted"
              /\ OpenedSeen = Handles(DIR, fildes)
  /\ ~mount => /\ DirSeen = disk.dir /\ FatSeen = disk.fat
               /\ StateSeen = IF super = "none" THEN "none" ELSE "made"
               /\ OpenedSeen = [x \in {} |-> x]
  /\ Up => ResultSeen = ret
<1>1. ASSUME TypeOK PROVE FilesSeen = Library(DirSeen, FatSeen, data)
  <2>1. NamesSeen = NamesIn(DirSeen)
    BY DEF NamesSeen, NamesIn
  <2>2. ASSUME NEW n \in NamesSeen
        PROVE  Contents(n) = TextOf(FatSeen, data, DirSeen[SlotIn(DirSeen, n)])
    <3> DEFINE i == SlotIn(DirSeen, n)
               e == DirSeen[i]
    <3>1. i \in Slots
      BY DEF NamesSeen, SlotIn
    <3>2. Seen(n) = i
      BY DEF Seen, SlotIn
    <3> HIDE DEF i
    <3>3. e.size \in Nat
      BY <1>1, <3>1, Sizes DEF DirSeen, TypeOK, Entry
    <3>4. Contents(n) = Fetched(FatSeen, e.head, 0, e.size)
      BY <3>2 DEF Contents
    <3> HIDE DEF e
    <3>5. e.size - 0 = e.size /\ \A p \in 1 .. e.size : 0 + p - 1 = p - 1
      BY <3>3
    <3>6. Fetched(FatSeen, e.head, 0, e.size) = TextOf(FatSeen, data, e)
      BY <3>5 DEF Fetched, TextOf
    <3> QED BY <3>4, <3>6 DEF e, i
  <2> QED BY <2>1, <2>2 DEF FilesSeen, Library
<1>2. ASSUME mount
      PROVE  /\ DirSeen = DIR /\ FatSeen = FAT /\ StateSeen = "mounted"
             /\ OpenedSeen = Handles(DIR, fildes)
  BY <1>2 DEF DirSeen, FatSeen, StateSeen, OpenedSeen, Handles, SlotOf, NameAt
<1>3. ASSUME ~mount
      PROVE  /\ DirSeen = disk.dir /\ FatSeen = disk.fat
             /\ StateSeen = IF super = "none" THEN "none" ELSE "made"
             /\ OpenedSeen = [x \in {} |-> x]
  <2>1. {d \in Fds : mount /\ fildes[d].used} = {}
    BY <1>3
  <2>2. OpenedSeen = [d \in {} |-> [name |-> DIR[SlotOf(d)].name, offset |-> fildes[d].offset]]
    BY <2>1 DEF OpenedSeen
  <2>3. OpenedSeen = [x \in {} |-> x]
    BY <2>2
  <2> QED BY <1>3, <2>3 DEF DirSeen, FatSeen, StateSeen
<1>4. Up => ResultSeen = ret
  BY DEF ResultSeen
<1> QED BY <1>1, <1>2, <1>3, <1>4

(* The same after a step.                                                   *)
LEMMA SeenIsAfter ==
  (/\ TypeOK => FilesSeen = Library(DirSeen, FatSeen, data)
   /\ mount => /\ DirSeen = DIR /\ FatSeen = FAT /\ StateSeen = "mounted"
               /\ OpenedSeen = Handles(DIR, fildes)
   /\ ~mount => /\ DirSeen = disk.dir /\ FatSeen = disk.fat
                /\ StateSeen = IF super = "none" THEN "none" ELSE "made"
                /\ OpenedSeen = [x \in {} |-> x]
   /\ Up => ResultSeen = ret)'
BY SeenIs, PTL

(* What the refinement adds to the invariant: names are unique, and every   *)
(* byte of a file has a block, on the disk too.                             *)
StoreInv == /\ Up /\ super # "blank" /\ (mount => super = "made")
            /\ Whole(DirSeen, FatSeen)

(* What a step has to show.                                                 *)
Stored == Store!StoreNext \/ UNCHANGED Store!storeVars

(* A call on a mounted disk that leaves it mounted.                         *)
LEMMA CallSeen ==
  ASSUME IInv, StoreInv, Ready, IInv', Up', UNCHANGED <<mount, super>>
  PROVE  /\ StateSeen = "mounted" /\ StateSeen' = "mounted"
         /\ FilesSeen = Library(DIR, FAT, data)
         /\ FilesSeen' = Library(DIR', FAT', data')
         /\ OpenedSeen = Handles(DIR, fildes)
         /\ OpenedSeen' = Handles(DIR', fildes')
         /\ ResultSeen' = ret'
         /\ Whole(DIR, FAT)
         /\ Whole(DIR', FAT') => StoreInv'
<1>1. mount /\ mount' /\ super # "blank" /\ super = "made" /\ TypeOK /\ TypeOK'
  BY DEF Ready, StoreInv, IInv
<1>2. DirSeen = DIR /\ FatSeen = FAT /\ DirSeen' = DIR' /\ FatSeen' = FAT'
  BY <1>1, SeenIs, SeenIsAfter
<1> QED BY <1>1, <1>2, SeenIs, SeenIsAfter DEF StoreInv

(* The open descriptors lead to entries in use.                             *)
LEMMA LeadingNow ==
  ASSUME IInv, Ready
  PROVE  Leading(DIR, fildes)
BY MountedFacts DEF DescriptorsLead, Leading

(* A call that changes nothing but what it returns.                         *)
LEMMA SameSeen ==
  ASSUME StoreInv, UNCHANGED <<memory, mount, super, disk, data, fault>>
  PROVE  UNCHANGED <<StateSeen, FilesSeen, OpenedSeen>> /\ StoreInv' /\ ResultSeen' = ret'
<1>1. UNCHANGED <<DIR, FAT, fildes, mount, super, disk, data, fault>>
  BY DEF memory
<1>2. DirSeen' = DirSeen /\ FatSeen' = FatSeen /\ StateSeen' = StateSeen
  BY <1>1 DEF DirSeen, FatSeen, StateSeen
<1>3. FilesSeen' = FilesSeen
  BY <1>1, <1>2 DEF FilesSeen, NamesSeen, Contents, Seen, Fetched
<1>4. OpenedSeen' = OpenedSeen
  BY <1>1 DEF OpenedSeen, SlotOf
<1>5. Up'
  BY <1>1 DEF StoreInv, Up
<1>6. StoreInv'
  BY <1>1, <1>2, <1>5 DEF StoreInv
<1> QED BY <1>2, <1>3, <1>4, <1>5, <1>6, SeenIsAfter

(* A call that fails is one the store refuses.                              *)
LEMMA FailsSeen ==
  ASSUME StoreInv, NEW call, Fails(call)
  PROVE  StoreInv' /\ Store!Refuse(call)
<1>1. UNCHANGED <<StateSeen, FilesSeen, OpenedSeen>> /\ StoreInv' /\ ResultSeen' = ret'
  BY SameSeen DEF Fails
<1> QED BY <1>1 DEF Fails, Returns, Store!Refuse, Store!Gives

(* An empty directory holds no files.                                       *)
LEMMA EmptyStore ==
  /\ \A F, dt : Library(EmptyDisk.dir, F, dt) = [x \in {} |-> x]
  /\ \A F : Whole(EmptyDisk.dir, F)
<1>1. \A i \in Slots : ~EmptyDisk.dir[i].used
  BY UnusedTyped DEF EmptyDisk
<1>2. NamesIn(EmptyDisk.dir) = {}
  BY <1>1 DEF NamesIn
<1>3. ASSUME NEW F, NEW dt PROVE Library(EmptyDisk.dir, F, dt) = [x \in {} |-> x]
  BY <1>2 DEF Library
<1>4. ASSUME NEW F PROVE Whole(EmptyDisk.dir, F)
  BY <1>1 DEF Whole, NamesApart, Covered
<1> QED BY <1>3, <1>4

(* make_fs empties the store.                                               *)
LEMMA FormatStored == ASSUME IInv, StoreInv, IInv', MakeFs PROVE StoreInv' /\ Stored
<1>1. /\ ~mount /\ ~mount' /\ super' = "made" /\ disk' = EmptyDisk /\ UNCHANGED fault
      /\ Returns(<<"make_fs">>, 0) /\ TypeOK'
  BY DEF MakeFs, IInv
<1>2. Up'
  BY <1>1 DEF StoreInv, Up
<1>3. /\ DirSeen' = EmptyDisk.dir /\ FatSeen' = EmptyDisk.fat /\ StateSeen' = "made"
      /\ OpenedSeen' = [x \in {} |-> x] /\ ResultSeen' = ret'
      /\ FilesSeen' = Library(DirSeen', FatSeen', data')
  BY <1>1, <1>2, SeenIsAfter
<1>4. FilesSeen' = [x \in {} |-> x] /\ Whole(DirSeen', FatSeen')
  BY <1>3, EmptyStore
<1>5. OpenedSeen = [x \in {} |-> x] /\ StateSeen # "mounted"
  BY <1>1, SeenIs
<1>6. StoreInv'
  BY <1>1, <1>2, <1>4 DEF StoreInv
<1>7. Store!Format
  BY <1>1, <1>3, <1>4, <1>5 DEF Store!Format, Store!Gives, Store!Nothing, Returns
<1> QED BY <1>6, <1>7 DEF Stored, Store!StoreNext

(* mount_fs brings back what the disk holds, and no descriptors.            *)
LEMMA MountStored ==
  ASSUME SyncInv, StoreInv, IInv', Mount, SafeSync
  PROVE  StoreInv' /\ Stored
<1>1. /\ ~mount /\ mount' = TRUE /\ super = "made" /\ DIR' = disk.dir
      /\ FAT' = [b \in Blocks |-> IF b \in Clobbered THEN 0 ELSE disk.fat[b]]
      /\ fildes' = [d \in Fds |-> IF d < MAX_F_NUM THEN [fildes[d] EXCEPT !.used = FALSE] ELSE fildes[d]]
      /\ Returns(<<"mount_fs">>, 0)
      /\ UNCHANGED <<super, disk, data, fault>>
  BY DEF Mount
<1>2. TypeOK /\ TypeOK' /\ Up /\ Up' /\ IInv
  BY <1>1 DEF SyncInv, IInv, StoreInv, Up
<1>3. /\ disk.dir \in [Slots -> Entry] /\ Fit(disk.dir, disk.fat)
      /\ \A i \in Slots : disk.dir[i].used =>
           \A b \in Chain(disk.fat, disk.dir[i].head) : FAT'[b] = disk.fat[b]
  <2>1. Fit(disk.dir, disk.fat)
    BY <1>1, <1>2 DEF SyncInv, DiskFits
  <2> QED BY <1>2, <2>1, MountSynced DEF TypeOK
<1>4. \A d \in Fds : ~fildes'[d].used
  <2>1. \A d \in Fds : ~fildes[d].used /\ fildes[d] \in Descriptor
    BY <1>1, <1>2 DEF IInv, ClosedUnmounted, TypeOK
  <2> QED BY <1>1, <2>1 DEF Descriptor
<1>5. /\ DirSeen = disk.dir /\ FatSeen = disk.fat /\ StateSeen = "made"
      /\ OpenedSeen = [x \in {} |-> x] /\ FilesSeen = Library(disk.dir, disk.fat, data)
  BY <1>1, <1>2, SeenIs
<1>6. /\ DirSeen' = disk.dir /\ FatSeen' = FAT' /\ StateSeen' = "mounted"
      /\ OpenedSeen' = Handles(DIR', fildes') /\ ResultSeen' = ret'
      /\ FilesSeen' = Library(disk.dir, FAT', data)
  BY <1>1, <1>2, SeenIsAfter
<1>10. /\ Library(disk.dir, FAT', data) = Library(disk.dir, disk.fat, data)
       /\ (Whole(disk.dir, disk.fat) => Whole(disk.dir, FAT'))
  BY <1>3, LibraryIsLocal
<1>7. OpenedSeen' = [x \in {} |-> x]
  <2>1. {d \in Fds : fildes'[d].used} = {}
    BY <1>4
  <2> QED BY <1>6, <2>1 DEF Handles
<1>8. StoreInv'
  BY <1>1, <1>2, <1>5, <1>6, <1>10 DEF StoreInv
<1>9. Store!Attach
  BY <1>1, <1>5, <1>6, <1>7, <1>10 DEF Store!Attach, Store!Gives, Returns
<1> QED BY <1>8, <1>9 DEF Stored, Store!StoreNext

(* umount_fs puts on the disk what memory holds.                            *)
LEMMA UmountStored ==
  ASSUME IInv, StoreInv, IInv', Umount, SafeSync
  PROVE  StoreInv' /\ Stored
<1>1. /\ Ready /\ mount /\ mount' = FALSE /\ \A d \in Fds : ~fildes[d].used
      /\ disk'.dir = DIR
      /\ Returns(<<"umount_fs">>, 0)
      /\ UNCHANGED <<DIR, FAT, fildes, super, data, fault>>
  BY DEF Umount, Ready, memory
<1>2. TypeOK /\ TypeOK' /\ Up /\ Up' /\ super = "made"
  BY <1>1 DEF IInv, StoreInv, Up
<1>3. /\ DIR \in [Slots -> Entry] /\ Fit(DIR, FAT)
      /\ \A i \in Slots : DIR[i].used =>
           \A b \in Chain(FAT, DIR[i].head) : disk'.fat[b] = FAT[b]
  BY <1>1, MountedFacts, UmountSynced
<1>5. /\ DirSeen = DIR /\ FatSeen = FAT /\ StateSeen = "mounted"
      /\ OpenedSeen = Handles(DIR, fildes) /\ FilesSeen = Library(DIR, FAT, data)
  BY <1>1, <1>2, SeenIs
<1>6. OpenedSeen = [x \in {} |-> x]
  <2>1. {d \in Fds : fildes[d].used} = {}
    BY <1>1
  <2> QED BY <1>5, <2>1 DEF Handles
<1>7. /\ DirSeen' = DIR /\ FatSeen' = disk'.fat /\ StateSeen' = "made"
      /\ OpenedSeen' = [x \in {} |-> x] /\ ResultSeen' = ret'
      /\ FilesSeen' = Library(DIR, disk'.fat, data)
  BY <1>1, <1>2, SeenIsAfter
<1>10. /\ Library(DIR, disk'.fat, data) = Library(DIR, FAT, data)
       /\ (Whole(DIR, FAT) => Whole(DIR, disk'.fat))
  BY <1>3, LibraryIsLocal
<1>8. StoreInv'
  BY <1>1, <1>2, <1>5, <1>7, <1>10 DEF StoreInv
<1>9. Store!Detach
  BY <1>1, <1>5, <1>6, <1>7, <1>10 DEF Store!Detach, Store!Gives, Store!Nothing, Returns
<1> QED BY <1>8, <1>9 DEF Stored, Store!StoreNext

(* Another program finds the disk as it was.                                *)
LEMMA RestartStored == ASSUME IInv, StoreInv, IInv', Restart PROVE StoreInv' /\ Stored
<1>1. /\ ~mount /\ ~mount' /\ Returns(<<"init">>, 0)
      /\ UNCHANGED <<mount, super, disk, data, fault>>
  BY DEF Restart
<1>2. TypeOK /\ TypeOK' /\ Up /\ Up'
  BY <1>1 DEF IInv, StoreInv, Up
<1>3. /\ DirSeen' = DirSeen /\ FatSeen' = FatSeen /\ StateSeen' = StateSeen /\ StateSeen # "mounted"
      /\ OpenedSeen' = OpenedSeen /\ ResultSeen' = ret' /\ FilesSeen' = FilesSeen
  BY <1>1, <1>2, SeenIs, SeenIsAfter
<1>4. StoreInv'
  BY <1>1, <1>2, <1>3 DEF StoreInv
<1>5. Store!NewProgram
  BY <1>1, <1>3 DEF Store!NewProgram, Store!Gives, Returns
<1> QED BY <1>4, <1>5 DEF Stored, Store!StoreNext

(* Every call on the disk is one of the store.                              *)
LEMMA DiskStored ==
  ASSUME ~Careless, SyncInv, StoreInv, IInv', Disk, SafeSync
  PROVE  StoreInv' /\ Stored
<1>0. IInv
  BY DEF SyncInv
<1>1. CASE MountNoDisk
  <2>1. StateSeen = "none"
    BY <1>1, SeenIs DEF MountNoDisk
  <2>2. StoreInv' /\ Store!Refuse(<<"mount_fs">>)
    BY <1>1, FailsSeen DEF MountNoDisk
  <2> QED BY <2>1, <2>2 DEF Stored, Store!StoreNext, Store!Attach
<1>2. CASE MountTwice
  <2>1. StateSeen = "mounted"
    BY <1>2, SeenIs DEF MountTwice, Ready
  <2>2. StoreInv' /\ Store!Refuse(<<"mount_fs">>)
    BY <1>2, FailsSeen DEF MountTwice
  <2> QED BY <2>1, <2>2 DEF Stored, Store!StoreNext, Store!Attach
<1>3. CASE UmountUnmounted
  <2>1. StateSeen # "mounted"
    BY <1>3, SeenIs DEF UmountUnmounted
  <2>2. StoreInv' /\ Store!Refuse(<<"umount_fs">>)
    BY <1>3, FailsSeen DEF UmountUnmounted
  <2> QED BY <2>1, <2>2 DEF Stored, Store!StoreNext, Store!Detach
<1> QED BY <1>0, <1>1, <1>2, <1>3, FormatStored, MountStored, UmountStored, RestartStored
        DEF Disk, MakeFsMounted, MountBlank

(* The search for a name finds it if there is such a file.                  *)
LEMMA NamedIsThere ==
  ASSUME IInv, StoreInv, Ready, NEW n \in Names
  PROVE  /\ Store!Existing = NamesIn(DIR)
         /\ Named(n) # {} <=> n \in NamesIn(DIR)
<1>1. FilesSeen = Library(DIR, FAT, data)
  BY SeenIs DEF IInv, Ready
<1>2. Store!Existing = NamesIn(DIR)
  BY <1>1, NamesFacts DEF Store!Existing
<1>3. \A i \in Slots : DIR[i].name = n => DIR[i].used
  BY MountedFacts, InputAssumption DEF Fit, EntriesNamed
<1> QED BY <1>2, <1>3 DEF Named, NamesIn

(* fs_open gives a descriptor at the start of the file.                     *)
LEMMA OpenStored ==
  ASSUME IInv, StoreInv, IInv', NEW n \in Names, Open(n)
  PROVE  StoreInv' /\ StateSeen = "mounted" /\ Store!OpenFile(n)
<1> DEFINE spare == {d \in Fds : ~fildes[d].used}
           i == Min(Named(n))
           d == Min(spare)
           h == DIR[i].head
           new == [used |-> TRUE, file |-> h, offset |-> 0]
<1>0. Ready
  BY DEF Open
<1>1. StateSeen = "mounted" /\ OpenedSeen = Handles(DIR, fildes)
  BY <1>0, SeenIs DEF Ready
<1>2. DOMAIN OpenedSeen = Fds \ spare
  BY <1>1 DEF Handles
<1>3. CASE Named(n) = {} \/ spare = {}
  <2>1. StoreInv' /\ Store!Refuse(<<"open", n>>)
    BY <1>3, FailsSeen DEF Open
  <2>2. n \notin Store!Existing \/ DOMAIN OpenedSeen = Fds
    BY <1>0, <1>2, <1>3, NamedIsThere
  <2> QED BY <1>1, <2>1, <2>2 DEF Store!OpenFile
<1>4. CASE ~(Named(n) = {} \/ spare = {})
  <2>1. /\ fildes' = [fildes EXCEPT ![d] = new]
        /\ DIR' = [DIR EXCEPT ![i].ref_cnt = @ + 1]
        /\ Returns(<<"open", n>>, d)
        /\ UNCHANGED <<FAT, mount, super, disk, data, fault>>
    BY <1>4 DEF Open
  <2>2. i \in Slots /\ DIR[i].used /\ DIR[i].name = n
    BY <1>0, <1>4, NamedFound
  <2>3. d \in Fds /\ ~fildes[d].used
    <3>1. spare \subseteq Nat
      BY Sizes DEF Fds
    <3>2. d \in spare
      BY <1>4, <3>1, LeastOf
    <3>3. \A e \in spare : e \in Fds /\ ~fildes[e].used
      OBVIOUS
    <3> QED BY <3>2, <3>3
  <2> HIDE DEF i, d, spare
  <2>4. \A j \in Slots : /\ DIR'[j].used = DIR[j].used /\ DIR'[j].name = DIR[j].name
                         /\ DIR'[j].size = DIR[j].size /\ DIR'[j].head = DIR[j].head
    BY <1>0, <2>1, <2>2, MountedFacts DEF Entry
  <2>5. Up' /\ Ready'
    BY <1>0, <2>1 DEF Ready, Up
  <2>6. /\ FilesSeen = Library(DIR, FAT, data) /\ FilesSeen' = Library(DIR', FAT', data')
        /\ StateSeen' = "mounted" /\ OpenedSeen' = Handles(DIR', fildes') /\ ResultSeen' = ret'
        /\ Whole(DIR, FAT) /\ (Whole(DIR', FAT') => StoreInv')
    BY <1>0, <2>1, <2>5, CallSeen
  <2>7. FilesSeen' = FilesSeen /\ StoreInv'
    <3>1. Library(DIR', FAT, data) = Library(DIR, FAT, data) /\ Whole(DIR', FAT)
      BY <2>4, <2>6, SameLibrary
    <3> QED BY <2>1, <2>6, <3>1
  <2>8. OpenedSeen' = [e \in DOMAIN OpenedSeen \cup {d} |->
                        IF e = d THEN [name |-> n, offset |-> 0] ELSE OpenedSeen[e]]
    <3>1. Fit(DIR', FAT') /\ Fit(DIR, FAT) /\ fildes \in [Fds -> Descriptor]
      BY <1>0, <2>5, MountedFacts DEF IInv, MemoryFits
    <3>2. Leading(DIR, fildes)
      BY <1>0, LeadingNow
    <3>3. \A j \in Slots : DIR'[j].used = DIR[j].used /\ DIR'[j].head = DIR[j].head /\ DIR'[j].name = DIR[j].name
      BY <2>4
    <3>4. /\ fildes'[d].used /\ fildes'[d].file = DIR[i].head /\ fildes'[d].offset = 0
          /\ \A e \in Fds \ {d} : fildes'[e] = fildes[e]
      BY <2>1, <2>3, <3>1
    <3>5. Handles(DIR', fildes') =
            [e \in DOMAIN Handles(DIR, fildes) \cup {d} |->
               IF e = d THEN [name |-> DIR[i].name, offset |-> 0] ELSE Handles(DIR, fildes)[e]]
      BY <2>2, <2>3, <3>1, <3>2, <3>3, <3>4, HandlesOpened
    <3> QED BY <1>1, <2>2, <2>6, <3>5
  <2>9. n \in Store!Existing
    BY <1>0, <1>4, NamedIsThere
  <2>10. d \in Fds \ DOMAIN OpenedSeen
    BY <1>2, <2>3 DEF spare
  <2>11. Store!Gives(<<"open", n>>, d)
    BY <2>1, <2>6 DEF Store!Gives, Returns
  <2> QED BY <1>1, <2>6, <2>7, <2>8, <2>9, <2>10, <2>11 DEF Store!OpenFile
<1> QED BY <1>3, <1>4

(* fs_create adds an empty file, if it does not run into a full disk.       *)
LEMMA CreateStored ==
  ASSUME IInv, StoreInv, IInv', NEW n \in Names, Create(n), Up'
  PROVE  StoreInv' /\ StateSeen = "mounted" /\ Store!MakeFile(n)
<1> DEFINE unused == {i \in Slots : ~DIR[i].used}
           i == Max(unused)
           b == Min(FreeBlocks(FAT))
           new == [used |-> TRUE, name |-> n, size |-> 0, head |-> b, ref_cnt |-> 0]
<1>0. Ready
  BY DEF Create
<1>1. StateSeen = "mounted" /\ OpenedSeen = Handles(DIR, fildes) /\ Whole(DIR, FAT)
      /\ FilesSeen = Library(DIR, FAT, data) /\ Fit(DIR, FAT)
  BY <1>0, SeenIs, MountedFacts DEF Ready, StoreInv
<1>2. CASE Named(n) # {} \/ unused = {}
  <2>1. StoreInv' /\ Store!Refuse(<<"create", n>>)
    BY <1>2, FailsSeen DEF Create
  <2>2. n \in Store!Existing \/ Cardinality(Store!Existing) = MAX_F_NUM
    <3>1. unused = {} => Cardinality(NamesIn(DIR)) = MAX_F_NUM
      BY <1>1, NamesCounted DEF Whole, Fit
    <3> QED BY <1>0, <1>2, <3>1, NamedIsThere
  <2> QED BY <1>1, <2>1, <2>2 DEF Store!MakeFile, Store!Cardinality, Cardinality
<1>3. CASE ~(Named(n) # {} \/ unused = {})
  <2>0. FreeBlocks(FAT) # {}
    BY <1>3 DEF Create, Faults, Up
  <2>1. /\ FAT' = [FAT EXCEPT ![b] = Eof]
        /\ DIR' = [DIR EXCEPT ![i] = new]
        /\ Returns(<<"create", n>>, 0)
        /\ UNCHANGED <<fildes, mount, super, disk, data, fault>>
    BY <1>3, <2>0 DEF Create
  <2>2. i \in Slots /\ ~DIR[i].used
    <3>1. MAX_F_NUM \in Nat \ {0} /\ MAX_F_NUM - 1 \in Nat
      BY Sizes
    <3>2. unused \subseteq 0 .. MAX_F_NUM - 1
      BY DEF Slots
    <3>3. i \in unused
      BY <1>3, <3>1, <3>2, GreatestOf
    <3> QED BY <3>3
  <2>3. b \in FreeBlocks(FAT) /\ b \in DataBlocks /\ FAT[b] = Free
    <3>1. FreeBlocks(FAT) \subseteq DataBlocks /\ DataBlocks \subseteq Nat
      BY TableFacts DEF FreeBlocks
    <3>2. b \in FreeBlocks(FAT)
      BY <2>0, <3>1, LeastOf
    <3> QED BY <3>1, <3>2 DEF FreeBlocks
  <2>4. n \notin NamesIn(DIR) /\ Store!Existing = NamesIn(DIR)
    BY <1>0, <1>3, NamedIsThere
  <2>5. Cardinality(NamesIn(DIR)) < MAX_F_NUM
    BY <1>1, <1>3, NamesCounted DEF Whole, Fit
  <2> HIDE DEF i, b, unused
  <2>6. /\ FilesSeen' = Library(DIR', FAT', data') /\ StateSeen' = "mounted"
        /\ OpenedSeen' = Handles(DIR', fildes') /\ ResultSeen' = ret'
        /\ (Whole(DIR', FAT') => StoreInv')
    BY <1>0, <2>1, CallSeen
  <2>7. /\ Whole(DIR', FAT')
        /\ Library(DIR', FAT', data) = [m \in NamesIn(DIR) \cup {n} |->
              IF m = n THEN <<>> ELSE Library(DIR, FAT, data)[m]]
    <3>1. DIR \in [Slots -> Entry] /\ FAT \in Table
      BY <1>0, MountedFacts
    <3>2. Fit(DIR', FAT')
      BY <1>0, <2>1 DEF IInv, MemoryFits, Ready
    <3>3. /\ DIR'[i].used /\ DIR'[i].name = n /\ DIR'[i].size = 0
          /\ \A j \in Slots \ {i} : DIR'[j] = DIR[j]
      BY <2>1, <2>2, <3>1
    <3>4. \A c \in DataBlocks \ {b} : FAT'[c] = FAT[c]
      BY <2>1, <3>1, TableFacts DEF Table
    <3>5. /\ i \in Slots /\ ~DIR[i].used /\ n \in Names /\ n \notin NamesIn(DIR)
          /\ b \in DataBlocks /\ FAT[b] = Free /\ Fit(DIR, FAT) /\ Whole(DIR, FAT)
      BY <1>1, <2>2, <2>3, <2>4
    <3>6. /\ Whole(DIR', FAT')
          /\ \A m : m \in NamesIn(DIR') <=> m \in NamesIn(DIR) \/ m = n
          /\ \A m \in NamesIn(DIR) : Library(DIR', FAT', data)[m] = Library(DIR, FAT, data)[m]
      BY <3>1, <3>2, <3>3, <3>4, <3>5, LibraryCreated
    <3>7. Library(DIR', FAT', data)[n] = <<>>
      BY <2>2, <3>2, <3>3, <3>6, LibraryHas, EmptyText DEF Whole
    <3>8. NamesIn(DIR') = NamesIn(DIR) \cup {n}
      BY <3>6
    <3>9. Library(DIR', FAT', data) = [m \in NamesIn(DIR') |-> Library(DIR', FAT', data)[m]]
      BY NamesFacts
    <3> HIDE DEF new
    <3>10. Library(DIR', FAT', data) = [m \in NamesIn(DIR) \cup {n} |-> Library(DIR', FAT', data)[m]]
      BY <3>8, <3>9
    <3> QED BY <2>4, <3>6, <3>10, <3>7
  <2>8. FilesSeen' = [m \in Store!Existing \cup {n} |-> IF m = n THEN <<>> ELSE FilesSeen[m]]
    BY <1>1, <2>1, <2>4, <2>6, <2>7
  <2>9. OpenedSeen' = OpenedSeen
    <3>1. Ready'
      BY <1>0, <2>1 DEF Ready
    <3>2. Fit(DIR', FAT')
      BY <3>1 DEF IInv, MemoryFits
    <3>3. Leading(DIR, fildes)
      BY <1>0, LeadingNow
    <3>4. ASSUME NEW j \in Slots, DIR[j].used
          PROVE  DIR'[j].used /\ DIR'[j].head = DIR[j].head /\ DIR'[j].name = DIR[j].name
      <4>1. j # i /\ DIR \in [Slots -> Entry]
        BY <1>0, <2>2, <3>4, MountedFacts
      <4> QED BY <2>1, <3>4, <4>1
    <3>5. Handles(DIR', fildes) = Handles(DIR, fildes)
      BY <1>1, <3>2, <3>3, <3>4, HandlesSame
    <3> QED BY <1>1, <2>1, <2>6, <3>5
  <2>10. Store!Gives(<<"create", n>>, 0)
    BY <2>1, <2>6 DEF Store!Gives, Returns
  <2> QED BY <1>1, <2>4, <2>5, <2>6, <2>7, <2>8, <2>9, <2>10 DEF Store!MakeFile, Store!Cardinality, Cardinality
<1> QED BY <1>2, <1>3

(* fs_delete removes the one file, and only if no descriptor leads to it.   *)
LEMMA DeleteStored ==
  ASSUME IInv, StoreInv, IInv', NEW n \in Names, Delete(n)
  PROVE  StoreInv' /\ StateSeen = "mounted" /\ Store!RemoveFile(n)
<1> DEFINE i == Min(Named(n))
           h == DIR[i].head
           gone == [used |-> FALSE, name |-> NoName, size |-> 0, head |-> 0,
                    ref_cnt |-> DIR[i].ref_cnt]
<1>0. Ready
  BY DEF Delete
<1>1. /\ StateSeen = "mounted" /\ OpenedSeen = Handles(DIR, fildes) /\ Whole(DIR, FAT)
      /\ FilesSeen = Library(DIR, FAT, data) /\ Fit(DIR, FAT)
  BY <1>0, SeenIs, MountedFacts DEF Ready, StoreInv
<1>2. Named(n) # {} => /\ i \in Slots /\ DIR[i].used /\ DIR[i].name = n /\ h \in DataBlocks
                       /\ DIR[i].ref_cnt = Cardinality(Openers(fildes, h))
  BY <1>0, NamedFound, MountedFacts DEF RefsExact
<1>3. /\ DOMAIN OpenedSeen = {d \in Fds : fildes[d].used}
      /\ \A d \in DOMAIN OpenedSeen : OpenedSeen[d].name = NameAt(DIR, fildes[d].file)
  BY <1>1 DEF Handles
<1>4. CASE Named(n) = {}
  <2>1. StoreInv' /\ Store!Refuse(<<"delete", n>>)
    BY <1>4, FailsSeen DEF Delete
  <2>2. n \notin Store!Existing
    BY <1>0, <1>4, NamedIsThere
  <2> QED BY <1>1, <2>1, <2>2 DEF Store!RemoveFile
<1>5. CASE Named(n) # {} /\ Busy(i)
  <2>1. StoreInv' /\ Store!Refuse(<<"delete", n>>)
    BY <1>5, FailsSeen DEF Delete
  <2>2. Openers(fildes, h) # {}
    BY <1>2, <1>5, FS_EmptySet DEF Busy
  <2>3. PICK d \in Fds : fildes[d].used /\ fildes[d].file = h
    BY <2>2 DEF Openers
  <2>4. NameAt(DIR, h) = n
    BY <1>1, <1>2, <1>5, NameAtIs
  <2>5. Store!IsOpen(n)
    BY <1>3, <2>3, <2>4 DEF Store!IsOpen
  <2> QED BY <1>1, <2>1, <2>5 DEF Store!RemoveFile
<1>6. CASE Named(n) # {} /\ ~Busy(i)
  <2>1. i \in Slots /\ DIR[i].used /\ DIR[i].name = n /\ h \in DataBlocks
    BY <1>2, <1>6
  <2>2. Ends(FAT, h)
    BY <1>1, <2>1 DEF Fit, ChainsEnd
  <2>3. /\ FAT' = ChainFreed(FAT, h)
        /\ DIR' = [DIR EXCEPT ![i] = gone]
        /\ Returns(<<"delete", n>>, 0)
        /\ UNCHANGED <<fildes, mount, super, disk, data, fault>>
    BY <1>6, <2>2 DEF Delete
  <2>4. Openers(fildes, h) = {}
    <3>1. ~(DIR[i].ref_cnt > 0)
      BY <1>6 DEF Busy
    <3>2. Cardinality(Openers(fildes, h)) = 0
      BY <1>2, <1>6, <3>1, OpenersFacts, Sizes
    <3> QED BY <3>2, OpenersFacts, FS_EmptySet
  <2>5. n \in Store!Existing /\ Store!Existing = NamesIn(DIR)
    BY <1>0, <1>6, NamedIsThere
  <2> HIDE DEF i
  <2>6. Leading(DIR, fildes) /\ DIR \in [Slots -> Entry] /\ FAT \in Table
    BY <1>0, LeadingNow, MountedFacts
  <2>7. ~Store!IsOpen(n)
    <3> SUFFICES ASSUME NEW d \in Fds, fildes[d].used, NameAt(DIR, fildes[d].file) = n PROVE FALSE
      BY <1>3 DEF Store!IsOpen
    <3>1. PICK j \in Slots : DIR[j].used /\ DIR[j].head = fildes[d].file
      BY <2>6 DEF Leading
    <3>2. DIR[j].name = n
      BY <1>1, <3>1, NameAtIs
    <3>3. j = i
      BY <1>1, <2>1, <3>1, <3>2 DEF Whole, NamesApart
    <3> QED BY <2>4, <3>1, <3>3 DEF Openers
  <2>8. Up' /\ Ready'
    BY <1>0, <2>3 DEF Ready, Up
  <2>9. /\ FilesSeen' = Library(DIR', FAT', data') /\ StateSeen' = "mounted"
        /\ OpenedSeen' = Handles(DIR', fildes') /\ ResultSeen' = ret'
        /\ (Whole(DIR', FAT') => StoreInv')
    BY <1>0, <2>3, <2>8, CallSeen
  <2>10. /\ Whole(DIR', FAT')
         /\ Library(DIR', FAT', data) = [m \in NamesIn(DIR) \ {n} |-> Library(DIR, FAT, data)[m]]
    <3>1. Fit(DIR', FAT')
      BY <2>8 DEF IInv, MemoryFits
    <3>2. ~DIR'[i].used /\ \A j \in Slots \ {i} : DIR'[j] = DIR[j]
      BY <2>1, <2>3, <2>6
    <3>3. \A c \in DataBlocks \ Chain(FAT, DIR[i].head) : FAT'[c] = FAT[c]
      BY <2>3, TableFacts DEF ChainFreed
    <3>4. Library(DIR', FAT', data) = [m \in NamesIn(DIR) \ {DIR[i].name} |-> Library(DIR, FAT, data)[m]]
          /\ Whole(DIR', FAT')
      BY <1>1, <2>1, <2>6, <3>1, <3>2, <3>3, LibraryDeleted
    <3> QED BY <2>1, <3>4
  <2>11. FilesSeen' = [m \in Store!Existing \ {n} |-> FilesSeen[m]]
    BY <1>1, <2>3, <2>5, <2>9, <2>10
  <2>12. OpenedSeen' = OpenedSeen
    <3>1. Fit(DIR', FAT')
      BY <2>8 DEF IInv, MemoryFits
    <3>2. ASSUME NEW d \in Fds, NEW j \in Slots, fildes[d].used, DIR[j].used, DIR[j].head = fildes[d].file
          PROVE  DIR'[j].used /\ DIR'[j].head = DIR[j].head /\ DIR'[j].name = DIR[j].name
      <4>1. j # i
        BY <2>4, <3>2 DEF Openers
      <4> QED BY <2>3, <2>6, <3>2, <4>1
    <3>3. Handles(DIR', fildes) = Handles(DIR, fildes)
      BY <1>1, <2>6, <3>1, <3>2, HandlesSame
    <3> QED BY <1>1, <2>3, <2>9, <3>3
  <2>13. Store!Gives(<<"delete", n>>, 0)
    BY <2>3, <2>9 DEF Store!Gives, Returns
  <2> QED BY <1>1, <2>5, <2>7, <2>9, <2>10, <2>11, <2>12, <2>13 DEF Store!RemoveFile
<1> QED BY <1>4, <1>5, <1>6

-----------------------------------------------------------------------------
(* Calls on a descriptor *)

(* A descriptor, its file and the bytes of it, as the store has them.       *)
LEMMA OpenFacts ==
  ASSUME IInv, StoreInv, Ready, NEW d \in Fds, fildes[d].used
  PROVE  /\ StateSeen = "mounted" /\ d \in DOMAIN OpenedSeen
         /\ SlotOf(d) \in Slots /\ DIR[SlotOf(d)].used /\ DIR[SlotOf(d)].head = fildes[d].file
         /\ DIR[SlotOf(d)].size \in 0 .. MAX_F_SIZE
         /\ fildes[d].offset \in 0 .. DIR[SlotOf(d)].size
         /\ OpenedSeen[d] = [name |-> DIR[SlotOf(d)].name, offset |-> fildes[d].offset]
         /\ Store!Text(d) = TextOf(FAT, data, DIR[SlotOf(d)])
         /\ Store!Text(d) \in Seq(Bytes \cup {Junk}) /\ Len(Store!Text(d)) = DIR[SlotOf(d)].size
<1> DEFINE i == SlotOf(d)
<1>1. /\ i \in Slots /\ DIR[i].used /\ DIR[i].head = fildes[d].file
      /\ fildes[d].offset \in 0 .. DIR[i].size
  BY MountedFacts, SlotFound
<1>2. DIR[i].size \in 0 .. MAX_F_SIZE /\ DIR[i].size \in Nat
  BY <1>1, MountedFacts, Sizes DEF Entry
<1>3. StateSeen = "mounted" /\ FilesSeen = Library(DIR, FAT, data)
      /\ DirSeen = DIR /\ FatSeen = FAT
  BY SeenIs, MountedFacts
<1>4. d \in DOMAIN OpenedSeen
      /\ OpenedSeen[d] = [name |-> DIR[i].name, offset |-> fildes[d].offset]
  BY MountedFacts DEF OpenedSeen
<1> HIDE DEF i
<1>5. Library(DIR, FAT, data)[DIR[i].name] = TextOf(FAT, data, DIR[i])
  BY <1>1, <1>3, MountedFacts, LibraryHas DEF StoreInv, Whole
<1>6. Store!Text(d) = TextOf(FAT, data, DIR[i])
  BY <1>3, <1>4, <1>5 DEF Store!Text
<1>7. TextOf(FAT, data, DIR[i]) \in Seq(Bytes \cup {Junk}) /\ Len(TextOf(FAT, data, DIR[i])) = DIR[i].size
  BY <1>2, MountedFacts, TextTyped DEF TypeOK
<1> QED BY <1>1, <1>2, <1>3, <1>4, <1>6, <1>7 DEF i

(* The store refuses a call on a descriptor that is not open.               *)
LEMMA BadFdSeen ==
  ASSUME IInv, StoreInv, Ready, NEW d \in Fds, NEW call, BadFd(d, call)
  PROVE  StoreInv' /\ StateSeen = "mounted" /\ d \notin DOMAIN OpenedSeen /\ Store!Refuse(call)
<1>1. ~fildes[d].used /\ Fails(call)
  BY DEF BadFd
<1>2. StoreInv' /\ Store!Refuse(call)
  BY <1>1, FailsSeen
<1>3. StateSeen = "mounted" /\ d \notin DOMAIN OpenedSeen
  BY <1>1 DEF OpenedSeen, StateSeen, Ready
<1> QED BY <1>2, <1>3

(* A call that only moves a descriptor.                                     *)
LEMMA MovedSeen ==
  ASSUME IInv, StoreInv, IInv', Ready, NEW d \in Fds, fildes[d].used, NEW o,
         fildes' = [fildes EXCEPT ![d].offset = o],
         UNCHANGED <<DIR, FAT, mount, super, disk, data, fault>>
  PROVE  /\ StoreInv' /\ ResultSeen' = ret' /\ UNCHANGED <<StateSeen, FilesSeen>>
         /\ Store!MovedTo(d, o)
<1>1. Up' /\ Ready'
  BY DEF Ready, Up
<1>2. /\ StateSeen = "mounted" /\ StateSeen' = "mounted" /\ Whole(DIR, FAT)
      /\ FilesSeen = Library(DIR, FAT, data) /\ FilesSeen' = Library(DIR', FAT', data')
      /\ OpenedSeen = Handles(DIR, fildes) /\ OpenedSeen' = Handles(DIR', fildes')
      /\ ResultSeen' = ret' /\ (Whole(DIR', FAT') => StoreInv')
  BY <1>1, CallSeen
<1>3. StoreInv' /\ FilesSeen' = FilesSeen
  BY <1>2
<1>4. /\ fildes'[d].offset = o
      /\ \A e \in Fds : fildes'[e].used = fildes[e].used /\ fildes'[e].file = fildes[e].file
      /\ \A e \in Fds \ {d} : fildes'[e].offset = fildes[e].offset
  BY MountedFacts DEF Descriptor
<1>5. Handles(DIR, fildes') = [Handles(DIR, fildes) EXCEPT ![d].offset = o]
  <2>1. Fit(DIR, FAT) /\ Leading(DIR, fildes) /\ fildes \in [Fds -> Descriptor]
    BY MountedFacts, LeadingNow
  <2>2. \A i \in Slots : DIR[i].used = DIR[i].used /\ DIR[i].head = DIR[i].head /\ DIR[i].name = DIR[i].name
    OBVIOUS
  <2>3. d \in Fds /\ fildes[d].used
    OBVIOUS
  <2> QED BY ONLY <1>4, <2>1, <2>2, <2>3, HandlesMoved
<1> QED BY <1>2, <1>3, <1>5 DEF Store!MovedTo

(* fs_close takes the one descriptor away.                                  *)
LEMMA CloseStored ==
  ASSUME IInv, StoreInv, IInv', NEW d \in Fds, Close(d), fildes[d].used
  PROVE  StoreInv' /\ StateSeen = "mounted" /\ d \in DOMAIN OpenedSeen /\ Store!CloseFd(d)
<1> DEFINE i == SlotOf(d)
           closed == [used |-> FALSE, file |-> 0, offset |-> -1]
<1>0. Ready
  BY DEF Close
<1>1. /\ fildes' = [fildes EXCEPT ![d] = closed]
      /\ DIR' = [DIR EXCEPT ![i].ref_cnt = @ - 1]
      /\ Returns(<<"close", d>>, 0)
      /\ UNCHANGED <<FAT, mount, super, disk, data, fault>>
  BY DEF Close, BadFd
<1>2. i \in Slots /\ d \in DOMAIN OpenedSeen
  BY <1>0, OpenFacts
<1>3. ~fildes'[d].used /\ \A e \in Fds \ {d} : fildes'[e] = fildes[e]
  BY <1>0, <1>1, MountedFacts
<1> HIDE DEF i, closed
<1>4. \A j \in Slots : /\ DIR'[j].used = DIR[j].used /\ DIR'[j].name = DIR[j].name
                       /\ DIR'[j].size = DIR[j].size /\ DIR'[j].head = DIR[j].head
  BY <1>0, <1>1, <1>2, MountedFacts DEF Entry
<1>5. Up' /\ Ready'
  BY <1>0, <1>1 DEF Ready, Up
<1>6. /\ FilesSeen = Library(DIR, FAT, data) /\ FilesSeen' = Library(DIR', FAT', data')
      /\ StateSeen = "mounted" /\ StateSeen' = "mounted" /\ ResultSeen' = ret'
      /\ OpenedSeen = Handles(DIR, fildes) /\ OpenedSeen' = Handles(DIR', fildes')
      /\ Whole(DIR, FAT) /\ (Whole(DIR', FAT') => StoreInv')
  BY <1>0, <1>1, <1>5, CallSeen
<1>7. FilesSeen' = FilesSeen /\ StoreInv'
  <2>1. Library(DIR', FAT, data) = Library(DIR, FAT, data) /\ Whole(DIR', FAT)
    BY <1>4, <1>6, SameLibrary
  <2> QED BY <1>1, <1>6, <2>1
<1>8. OpenedSeen' = [e \in DOMAIN OpenedSeen \ {d} |-> OpenedSeen[e]]
  <2>1. Fit(DIR', FAT') /\ Fit(DIR, FAT) /\ fildes \in [Fds -> Descriptor]
    BY <1>0, <1>5, MountedFacts DEF IInv, MemoryFits
  <2>2. Leading(DIR, fildes)
    BY <1>0, LeadingNow
  <2>3. \A j \in Slots : DIR'[j].used = DIR[j].used /\ DIR'[j].head = DIR[j].head /\ DIR'[j].name = DIR[j].name
    BY <1>4
  <2>4. Handles(DIR', fildes') = [e \in DOMAIN Handles(DIR, fildes) \ {d} |-> Handles(DIR, fildes)[e]]
    BY ONLY d \in Fds, <1>3, <2>1, <2>2, <2>3, HandlesClosed
  <2> QED BY <1>6, <2>4
<1>9. Store!Gives(<<"close", d>>, 0)
  BY <1>1, <1>6 DEF Store!Gives, Returns
<1> QED BY <1>2, <1>6, <1>7, <1>8, <1>9 DEF Store!CloseFd

(* fs_get_filesize gives the number of bytes.                               *)
LEMMA FilesizeStored ==
  ASSUME IInv, StoreInv, NEW d \in Fds, Filesize(d), fildes[d].used
  PROVE  StoreInv' /\ StateSeen = "mounted" /\ d \in DOMAIN OpenedSeen /\ Store!SizeOf(d)
<1>1. /\ Ready /\ Returns(<<"get_filesize", d>>, DIR[SlotOf(d)].size)
      /\ UNCHANGED <<memory, mount, super, disk, data, fault>>
  BY DEF Filesize, BadFd
<1>2. StoreInv' /\ UNCHANGED <<StateSeen, FilesSeen, OpenedSeen>> /\ ResultSeen' = ret'
  BY <1>1, SameSeen
<1>3. StateSeen = "mounted" /\ d \in DOMAIN OpenedSeen /\ Len(Store!Text(d)) = DIR[SlotOf(d)].size
  BY <1>1, OpenFacts
<1> QED BY <1>1, <1>2, <1>3 DEF Returns, Store!SizeOf, Store!Gives

(* fs_lseek moves the one descriptor, within the file.                      *)
LEMMA LseekStored ==
  ASSUME IInv, StoreInv, IInv', NEW d \in Fds, NEW o \in 0 .. MAX_F_SIZE, Lseek(d, o), fildes[d].used
  PROVE  StoreInv' /\ StateSeen = "mounted" /\ d \in DOMAIN OpenedSeen /\ Store!Seek(d, o)
<1>0. Ready
  BY DEF Lseek
<1>1. /\ StateSeen = "mounted" /\ d \in DOMAIN OpenedSeen
      /\ Len(Store!Text(d)) = DIR[SlotOf(d)].size /\ DIR[SlotOf(d)].size \in Int
  <2>1. /\ StateSeen = "mounted" /\ d \in DOMAIN OpenedSeen
        /\ Len(Store!Text(d)) = DIR[SlotOf(d)].size /\ DIR[SlotOf(d)].size \in 0 .. MAX_F_SIZE
    BY <1>0, OpenFacts
  <2> QED BY <2>1, Sizes
<1>2. CASE SeekInFile(DIR[SlotOf(d)].size, o)
  <2>1. /\ fildes' = [fildes EXCEPT ![d].offset = o]
        /\ Returns(<<"lseek", d, o>>, 0)
        /\ UNCHANGED <<DIR, FAT, mount, super, disk, data, fault>>
    BY <1>2 DEF Lseek, BadFd
  <2>2. /\ StoreInv' /\ ResultSeen' = ret' /\ UNCHANGED <<StateSeen, FilesSeen>>
        /\ Store!MovedTo(d, o)
    BY <1>0, <2>1, MovedSeen
  <2>3. Store!Gives(<<"lseek", d, o>>, 0)
    BY <2>1, <2>2 DEF Store!Gives, Returns
  <2>4. o <= Len(Store!Text(d))
    BY <1>1, <1>2 DEF SeekInFile
  <2> QED BY <1>1, <2>2, <2>3, <2>4 DEF Store!Seek
<1>3. CASE ~SeekInFile(DIR[SlotOf(d)].size, o)
  <2>1. StoreInv' /\ Store!Refuse(<<"lseek", d, o>>)
    BY <1>3, FailsSeen DEF Lseek, BadFd
  <2>2. o > Len(Store!Text(d))
    BY <1>1, <1>3 DEF SeekInFile
  <2> QED BY <1>1, <2>1, <2>2 DEF Store!Seek
<1> QED BY <1>2, <1>3

(* The count of line 494 and the bytes of the blocks are those of the       *)
(* string between the old offset and the new one.                           *)
LEMMA ReadStored ==
  ASSUME IInv, StoreInv, IInv', NEW d \in Fds, NEW n \in Nat \ {0}, Read(d, n), fildes[d].used
  PROVE  StoreInv' /\ StateSeen = "mounted" /\ d \in DOMAIN OpenedSeen /\ Store!ReadFd(d, n)
<1> DEFINE o == fildes[d].offset
           h == fildes[d].file
           e == DIR[SlotOf(d)]
           size == DIR[SlotOf(d)].size
           cnt == ReadCount(size, o, n)
           to == Store!Least(o + n, size)
<1>0. Ready
  BY DEF Read
<1>1. /\ StateSeen = "mounted" /\ d \in DOMAIN OpenedSeen /\ SlotOf(d) \in Slots /\ e.used
      /\ e.head = h /\ size \in Nat /\ o \in 0 .. size /\ OpenedSeen[d].offset = o
      /\ Store!Text(d) = TextOf(FAT, data, e) /\ Len(Store!Text(d)) = size
  <2>1. /\ StateSeen = "mounted" /\ d \in DOMAIN OpenedSeen /\ SlotOf(d) \in Slots /\ e.used
        /\ e.head = h /\ size \in 0 .. MAX_F_SIZE /\ o \in 0 .. size
        /\ OpenedSeen[d] = [name |-> e.name, offset |-> o]
        /\ Store!Text(d) = TextOf(FAT, data, e) /\ Len(Store!Text(d)) = size
    BY <1>0, OpenFacts
  <2> HIDE DEF e, h, size, o
  <2> QED BY <2>1, Sizes
<1>2. Ends(FAT, h)
  BY <1>0, <1>1, MountedFacts DEF Fit, ChainsEnd
<1>3. /\ ret' = [call |-> <<"read", d, n>>, val |-> cnt, data |-> Fetched(FAT, h, o, o + cnt)]
      /\ fildes' = [fildes EXCEPT ![d].offset = o + cnt]
      /\ UNCHANGED <<DIR, FAT, mount, super, disk, data, fault>>
  BY <1>2 DEF Read, BadFd
<1>4. o + cnt = to /\ cnt = to - o /\ o \in Nat /\ to \in Nat /\ o <= to /\ to <= size
  <2> HIDE DEF o, size
  <2> QED BY <1>1 DEF ReadCount, Store!Least
<1> HIDE DEF cnt, to
<1>5. Fetched(FAT, h, o, to) = SubSeq(Store!Text(d), o + 1, to)
  <2>1. TypeOK /\ e.size \in Nat /\ to <= e.size
    BY <1>0, <1>1, <1>4, MountedFacts
  <2> HIDE DEF e, o, h, size
  <2>2. Fetched(FAT, e.head, o, to) = SubSeq(TextOf(FAT, data, e), o + 1, to)
    BY <1>4, <2>1, TextRead
  <2> QED BY <1>1, <2>2
<1>6. /\ StoreInv' /\ ResultSeen' = ret' /\ UNCHANGED <<StateSeen, FilesSeen>>
      /\ Store!MovedTo(d, to)
  BY <1>0, <1>3, <1>4, MovedSeen
<1> HIDE DEF o, h, e, size
<1>7. ResultSeen' = [call |-> <<"read", d, n>>, val |-> to - o, data |-> SubSeq(Store!Text(d), o + 1, to)]
  BY <1>3, <1>4, <1>5, <1>6
<1> QED BY <1>1, <1>6, <1>7 DEF Store!ReadFd, to

(* The bytes after a write: the old ones with the new ones spliced in.      *)
LEMMA WriteStored ==
  ASSUME IInv, StoreInv, IInv', NEW d \in Fds, NEW buf \in Buffers, Write(d, buf), fildes[d].used,
         Covered(DIR', FAT')
  PROVE  StoreInv' /\ StateSeen = "mounted" /\ d \in DOMAIN OpenedSeen /\ Store!WriteFd(d, buf)
<1> DEFINE i == SlotOf(d)
           o == fildes[d].offset
           h == fildes[d].file
           old == Store!Text(d)
           n == Clamped(o, Len(buf))
           q == (o + n) \div BLOCK_SIZE
           F == Grown(FAT, h, q)
           size == IF o + n > DIR[i].size THEN o + n ELSE DIR[i].size
           S == Bytes \cup {Junk}
<1>0. Ready
  BY DEF Write
<1>1. /\ StateSeen = "mounted" /\ d \in DOMAIN OpenedSeen /\ i \in Slots /\ DIR[i].used
      /\ DIR[i].head = h /\ DIR[i].size \in 0 .. MAX_F_SIZE /\ o \in 0 .. DIR[i].size
      /\ OpenedSeen[d] = [name |-> DIR[i].name, offset |-> o]
      /\ old = TextOf(FAT, data, DIR[i]) /\ old \in Seq(S) /\ Len(old) = DIR[i].size
  BY <1>0, OpenFacts
<1>2. buf \in Seq(Bytes) /\ Len(buf) \in Nat
  BY InputAssumption
<1> HIDE DEF i, o, h, old, S
<1>3. /\ o \in Nat /\ o \in 0 .. MAX_F_SIZE /\ DIR[i].size \in Nat /\ o <= DIR[i].size
      /\ n \in 0 .. Len(buf) /\ n \in Nat /\ o + n \in Nat /\ q \in Nat
      /\ o + n = Store!Least(o + Len(buf), MAX_F_SIZE) /\ n = (o + n) - o
  <2>1. o \in Nat /\ o \in 0 .. MAX_F_SIZE /\ DIR[i].size \in Nat /\ o <= DIR[i].size
    BY <1>1, Sizes
  <2>2. n \in 0 .. Len(buf) /\ n \in Nat /\ o + n \in Nat /\ n = (o + n) - o
    BY <1>2, <2>1, ClampedFits
  <2>3. o + n = Store!Least(o + Len(buf), MAX_F_SIZE)
    BY <1>2, <2>1, Sizes DEF Clamped, Store!Least
  <2> HIDE DEF n
  <2>4. q \in Nat
    BY <2>2, Sizes, DivMod
  <2> QED BY <2>1, <2>2, <2>3, <2>4
<1> HIDE DEF n, q
<1>4. /\ h \in DataBlocks /\ Ends(FAT, h) /\ FAT \in Table /\ \A b \in Chain(FAT, h) : FAT[b] # Free
      /\ Fit(DIR, FAT)
  BY <1>0, <1>1, MountedFacts, OwnedNotFree DEF Fit, ChainsEnd
<1>5. /\ Ends(F, h) /\ Chain(F, h) \ Chain(FAT, h) \subseteq FreeBlocks(FAT)
      /\ \A b \in Blocks \ Chain(F, h) : F[b] = FAT[b]
  BY <1>3, <1>4, GrownChain
<1>6. /\ FAT' = F
      /\ DIR' = [DIR EXCEPT ![i].size = size]
      /\ data' = Overwritten(F, h, o, buf, n)
      /\ fildes' = [fildes EXCEPT ![d].offset = o + n]
      /\ Returns(<<"write", d, buf>>, n)
      /\ UNCHANGED <<mount, super, disk, fault>>
  BY <1>5 DEF Write, BadFd, i, o, h, n, q
<1> HIDE DEF F, size
<1>7. Up' /\ Ready'
  BY <1>0, <1>6 DEF Ready, Up
<1>8. /\ StateSeen' = "mounted" /\ FilesSeen = Library(DIR, FAT, data)
      /\ FilesSeen' = Library(DIR', FAT', data') /\ ResultSeen' = ret'
      /\ OpenedSeen = Handles(DIR, fildes) /\ OpenedSeen' = Handles(DIR', fildes')
      /\ Whole(DIR, FAT) /\ (Whole(DIR', FAT') => StoreInv')
  BY <1>0, <1>6, <1>7, CallSeen
<1>9. Fit(DIR', FAT') /\ DIR \in [Slots -> Entry] /\ fildes \in [Fds -> Descriptor] /\ TypeOK'
  BY <1>0, <1>7, MountedFacts DEF IInv, MemoryFits
<1>10. /\ \A j \in Slots : DIR'[j].used = DIR[j].used /\ DIR'[j].name = DIR[j].name /\ DIR'[j].head = DIR[j].head
       /\ \A j \in Slots \ {i} : DIR'[j] = DIR[j]
       /\ DIR'[i].size = size
  BY <1>1, <1>6, <1>9 DEF Entry
<1>11. \A b \in DataBlocks \ Chain(FAT', h) : FAT'[b] = FAT[b] /\ data'[b] = data[b]
  BY <1>5, <1>6, TableFacts DEF Overwritten
<1>12. /\ Whole(DIR', FAT')
       /\ Library(DIR', FAT', data') =
            [Library(DIR, FAT, data) EXCEPT ![DIR[i].name] = TextOf(FAT', data', DIR'[i])]
  <2>1. Chain(FAT', DIR[i].head) \ Chain(FAT, DIR[i].head) \subseteq FreeBlocks(FAT)
    BY <1>1, <1>5, <1>6
  <2>2. \A b \in DataBlocks \ Chain(FAT', DIR[i].head) : FAT'[b] = FAT[b] /\ data'[b] = data[b]
    BY <1>1, <1>11
  <2>3. i \in Slots /\ DIR[i].used /\ Covered(DIR', FAT') /\ Whole(DIR, FAT)
        /\ \A j \in Slots : DIR'[j].used = DIR[j].used /\ DIR'[j].name = DIR[j].name
    BY <1>1, <1>8, <1>10
  <2>4. \A j \in Slots \ {i} : DIR'[j] = DIR[j]
    BY <1>10
  <2> QED BY ONLY <1>4, <1>9, <2>1, <2>2, <2>3, <2>4, LibraryWritten
<1> DEFINE t == TextOf(FAT', data', DIR'[i])
<1>13. Mixed(t, old, buf, o, n)
  <2>1. DIR'[i].head = DIR[i].head /\ DIR[i].head \in DataBlocks
    BY <1>1, <1>4, <1>10
  <2>2. DIR'[i].size = IF o + n > DIR[i].size THEN o + n ELSE DIR[i].size
    BY <1>10 DEF size
  <2>3. Backed(FAT, DIR[i])
    BY <1>1, <1>8 DEF Whole, Covered
  <2>4. Backed(Grown(FAT, DIR[i].head, q), DIR'[i])
    BY <1>1, <1>6, <1>10 DEF Covered, F
  <2>5. Ends(Grown(FAT, DIR[i].head, q), DIR[i].head)
    BY <1>1, <1>5 DEF F
  <2>6. o \in Nat /\ n \in Nat /\ q \in Nat /\ DIR[i].size \in Nat /\ o <= DIR[i].size /\ FAT \in Table
    BY <1>3, <1>4
  <2> DEFINE G == Grown(FAT, DIR[i].head, q)
  <2>7. Mixed(TextOf(G, Overwritten(G, DIR[i].head, o, buf, n), DIR'[i]), TextOf(FAT, data, DIR[i]), buf, o, n)
    BY ONLY <2>1, <2>2, <2>3, <2>4, <2>5, <2>6, TextWritten
  <2> QED BY <1>1, <1>6, <2>7 DEF F
<1>14. size \in Nat
  BY <1>1, <1>3 DEF size
<1>15. t \in Seq(S) /\ Len(t) = size
  <2>1. data' \in [DataBlocks -> [InBlock -> Bytes \cup {Junk}]] /\ DIR'[i].size \in Nat
    BY <1>9, <1>10, <1>14 DEF TypeOK
  <2> QED BY <1>10, <2>1, TextTyped DEF S
<1> HIDE DEF t
<1>16. t = SubSeq(old, 1, o) \o SubSeq(buf, 1, n) \o SubSeq(old, o + n + 1, Len(old))
  <2>1. buf \in Seq(S)
    BY <1>2 DEF S
  <2>2. o \in 0 .. Len(old) /\ n \in 0 .. Len(buf)
    BY <1>1, <1>3
  <2>3. old \in Seq(S) /\ t \in Seq(S)
    BY <1>1, <1>15
  <2> QED BY ONLY <1>13, <2>1, <2>2, <2>3, Spliced
<1>17. FilesSeen' = [FilesSeen EXCEPT ![OpenedSeen[d].name] =
          SubSeq(old, 1, o) \o SubSeq(buf, 1, n) \o SubSeq(old, o + n + 1, Len(old))]
  BY <1>1, <1>8, <1>12, <1>16 DEF t
<1>18. Store!MovedTo(d, o + n)
  <2>1. Leading(DIR, fildes) /\ fildes[d].used /\ d \in Fds
    BY <1>0, LeadingNow
  <2>2. /\ fildes'[d].offset = o + n
        /\ \A e \in Fds : fildes'[e].used = fildes[e].used /\ fildes'[e].file = fildes[e].file
        /\ \A e \in Fds \ {d} : fildes'[e].offset = fildes[e].offset
    BY <1>6, <1>9 DEF Descriptor
  <2>3. \A j \in Slots : DIR'[j].used = DIR[j].used /\ DIR'[j].head = DIR[j].head /\ DIR'[j].name = DIR[j].name
    BY <1>10
  <2>4. Handles(DIR', fildes') = [Handles(DIR, fildes) EXCEPT ![d].offset = o + n]
    BY ONLY <1>4, <1>9, <2>1, <2>2, <2>3, HandlesMoved
  <2> QED BY <1>8, <2>4 DEF Store!MovedTo
<1>19. Store!Gives(<<"write", d, buf>>, n)
  BY <1>6, <1>8 DEF Store!Gives, Returns
<1>20. Store!WriteFd(d, buf)
  <2> DEFINE to == Store!Least(OpenedSeen[d].offset + Len(buf), MAX_F_SIZE)
  <2>1. OpenedSeen[d].offset = o /\ to = o + n /\ to - o = n /\ to + 1 = o + n + 1
    BY <1>1, <1>3
  <2> HIDE DEF to
  <2>2. Store!Gives(<<"write", d, buf>>, to - o) /\ Store!MovedTo(d, to)
    BY <1>18, <1>19, <2>1
  <2>3. FilesSeen' = [FilesSeen EXCEPT ![OpenedSeen[d].name] =
          SubSeq(old, 1, o) \o SubSeq(buf, 1, to - o) \o SubSeq(old, to + 1, Len(old))]
    BY <1>17, <2>1
  <2>4. StateSeen' = StateSeen
    BY <1>1, <1>8
  <2> QED BY <2>1, <2>2, <2>3, <2>4 DEF Store!WriteFd, to, old
<1> QED BY <1>1, <1>8, <1>12, <1>20

(* fs_listfiles changes nothing.                                            *)
LEMMA ListfilesStored ==
  ASSUME StoreInv, Listfiles PROVE StoreInv' /\ StateSeen = "mounted" /\ Store!List
<1>1. /\ Ready /\ Returns(<<"listfiles">>, 0)
      /\ UNCHANGED <<memory, mount, super, disk, data, fault>>
  BY DEF Listfiles
<1>2. StoreInv' /\ UNCHANGED <<StateSeen, FilesSeen, OpenedSeen>> /\ ResultSeen' = ret'
  BY <1>1, SameSeen
<1>3. StateSeen = "mounted"
  BY <1>1 DEF StateSeen, Ready
<1> QED BY <1>1, <1>2, <1>3 DEF Returns, Store!List, Store!Gives

-----------------------------------------------------------------------------
(* FileSystem implements FileStore *)

(* A program that formats only what is not mounted, cuts nothing and never  *)
(* asks for no bytes: fs_read refuses such a call.                          *)
Plain == ~Careless /\ Lengths = {} /\ 0 \notin Counts

(* Every call on a descriptor is one of the store, refused or not.          *)
LEMMA FdCallsStored ==
  ASSUME Plain, IInv, StoreInv, IInv', HasRoom', NEW d \in Fds,
         \/ Close(d) \/ Filesize(d)
         \/ \E o \in 0 .. MAX_F_SIZE : Lseek(d, o)
         \/ \E n \in Counts : Read(d, n)
         \/ \E buf \in Buffers : Write(d, buf)
  PROVE  /\ StoreInv' /\ StateSeen = "mounted"
         /\ IF d \in DOMAIN OpenedSeen THEN Store!OnFd(d) ELSE Store!OnNoFd(d)
<1>0. Ready
  BY DEF Close, Filesize, Lseek, Read, Write
<1>1. CASE ~fildes[d].used
  <2>1. ASSUME NEW call, BadFd(d, call)
        PROVE  StoreInv' /\ StateSeen = "mounted" /\ d \notin DOMAIN OpenedSeen /\ Store!Refuse(call)
    BY <1>0, <2>1, BadFdSeen
  <2>2. CASE Close(d)
    <3>1. BadFd(d, <<"close", d>>)
      BY <1>1, <2>2 DEF Close
    <3> QED BY <2>1, <3>1 DEF Store!OnNoFd
  <2>3. CASE Filesize(d)
    <3>1. BadFd(d, <<"get_filesize", d>>)
      BY <1>1, <2>3 DEF Filesize
    <3> QED BY <2>1, <3>1 DEF Store!OnNoFd
  <2>4. ASSUME NEW o \in 0 .. MAX_F_SIZE, Lseek(d, o)
        PROVE  StoreInv' /\ StateSeen = "mounted" /\ d \notin DOMAIN OpenedSeen /\ Store!OnNoFd(d)
    <3>1. BadFd(d, <<"lseek", d, o>>)
      BY <1>1, <2>4 DEF Lseek
    <3> QED BY <2>1, <3>1 DEF Store!OnNoFd
  <2>5. ASSUME NEW n \in Counts, Read(d, n)
        PROVE  StoreInv' /\ StateSeen = "mounted" /\ d \notin DOMAIN OpenedSeen /\ Store!OnNoFd(d)
    <3>1. BadFd(d, <<"read", d, n>>)
      BY <1>1, <2>5 DEF Read
    <3> QED BY <2>1, <3>1 DEF Store!OnNoFd
  <2>6. ASSUME NEW buf \in Buffers, Write(d, buf)
        PROVE  StoreInv' /\ StateSeen = "mounted" /\ d \notin DOMAIN OpenedSeen /\ Store!OnNoFd(d)
    <3>1. BadFd(d, <<"write", d, buf>>)
      BY <1>1, <2>6 DEF Write
    <3> QED BY <2>1, <3>1 DEF Store!OnNoFd
  <2> QED BY <2>2, <2>3, <2>4, <2>5, <2>6, <2>1
<1>2. CASE fildes[d].used
  <2>1. CASE Close(d)
    BY <1>2, <2>1, CloseStored DEF Store!OnFd
  <2>2. CASE Filesize(d)
    BY <1>2, <2>2, FilesizeStored DEF Store!OnFd
  <2>3. ASSUME NEW o \in 0 .. MAX_F_SIZE, Lseek(d, o)
        PROVE  StoreInv' /\ StateSeen = "mounted" /\ d \in DOMAIN OpenedSeen /\ Store!OnFd(d)
    BY <1>2, <2>3, LseekStored DEF Store!OnFd
  <2>4. ASSUME NEW n \in Counts, Read(d, n)
        PROVE  StoreInv' /\ StateSeen = "mounted" /\ d \in DOMAIN OpenedSeen /\ Store!OnFd(d)
    <3>1. n \in Nat \ {0}
      BY InputAssumption DEF Plain
    <3> QED BY <1>2, <2>4, <3>1, ReadStored DEF Store!OnFd
  <2>5. ASSUME NEW buf \in Buffers, Write(d, buf)
        PROVE  StoreInv' /\ StateSeen = "mounted" /\ d \in DOMAIN OpenedSeen /\ Store!OnFd(d)
    <3>1. Covered(DIR', FAT')
      <4>1. mount'
        BY <1>0, <2>5 DEF Write, BadFd, Fails, Faults, Ready
      <4> QED BY <4>1 DEF HasRoom, Covered, Files
    <3> QED BY <1>2, <2>5, <3>1, WriteStored DEF Store!OnFd
  <2> QED BY <2>1, <2>2, <2>3, <2>4, <2>5
<1> QED BY <1>1, <1>2

(* Every call on a mounted disk is one of the store.                        *)
LEMMA CallsStored ==
  ASSUME Plain, IInv, StoreInv, IInv', HasRoom', Calls
  PROVE  StoreInv' /\ Stored
<1>0. Up'
  BY DEF HasRoom
<1>1. ASSUME NEW n \in Names, Open(n) \/ Create(n) \/ Delete(n)
      PROVE  StoreInv' /\ StateSeen = "mounted" /\ Store!InStore
  BY <1>0, <1>1, OpenStored, CreateStored, DeleteStored DEF Store!InStore
<1>2. CASE Listfiles
  BY <1>2, ListfilesStored DEF Store!InStore, Stored, Store!StoreNext
<1>3. ASSUME NEW d \in Fds,
             \/ Close(d) \/ Filesize(d)
             \/ \E o \in 0 .. MAX_F_SIZE : Lseek(d, o)
             \/ \E n \in Counts : Read(d, n)
             \/ \E buf \in Buffers : Write(d, buf)
      PROVE  StoreInv' /\ StateSeen = "mounted" /\ Store!InStore
  BY <1>3, FdCallsStored DEF Store!InStore
<1>4. \A d \in Fds : ~\E len \in Lengths : Truncate(d, len)
  BY DEF Plain
<1> QED BY <1>1, <1>2, <1>3, <1>4 DEF Calls, Stored, Store!StoreNext

(* Every step is a step of the store or changes nothing a program sees.     *)
LEMMA NextStored ==
  ASSUME Plain, SyncInv, StoreInv, [Next]_vars, [SafeSync]_vars, IInv', HasRoom'
  PROVE  StoreInv' /\ Stored
<1>0. IInv
  BY DEF SyncInv
<1>1. CASE UNCHANGED vars
  <2>1. UNCHANGED <<memory, mount, super, disk, data, fault, ret>>
    BY <1>1 DEF vars
  <2>2. UNCHANGED <<StateSeen, FilesSeen, OpenedSeen>> /\ StoreInv' /\ ResultSeen' = ret'
    BY <2>1, SameSeen
  <2>3. ResultSeen = ret
    BY SeenIs DEF StoreInv
  <2> QED BY <2>1, <2>2, <2>3 DEF Stored, Store!storeVars
<1>2. CASE Disk /\ vars' # vars
  BY <1>2, DiskStored DEF Plain
<1>3. CASE Calls
  BY <1>0, <1>3, CallsStored
<1>4. ~Stopped
  BY DEF Stopped, StoreInv
<1> QED BY <1>1, <1>2, <1>3, <1>4 DEF Next

(* At first there is no disk, no file and no descriptor.                    *)
LEMMA InitStored == Init => StoreInv /\ Store!StoreInit
<1> SUFFICES ASSUME Init PROVE StoreInv /\ Store!StoreInit
  OBVIOUS
<1>1. Up /\ ~mount /\ super = "none" /\ disk = EmptyDisk /\ TypeOK
  BY InitIInv DEF Init, Up, IInv
<1>2. /\ StateSeen = "none" /\ OpenedSeen = [x \in {} |-> x] /\ ResultSeen = ret
      /\ FilesSeen = Library(DirSeen, FatSeen, data) /\ DirSeen = EmptyDisk.dir
  BY <1>1, SeenIs
<1>3. FilesSeen = [x \in {} |-> x] /\ Whole(DirSeen, FatSeen)
  BY <1>2, EmptyStore
<1> QED BY <1>1, <1>2, <1>3 DEF Init, StoreInv, Store!StoreInit, Store!Nothing

(* As long as the disk has room and the files are where umount_fs and       *)
(* mount_fs keep them, a program sees the file store of the README, on a    *)
(* disk of any size: blocks, FAT, descriptors and remounts never show       *)
(* (fs.c:193-790).                                                          *)
THEOREM KeepsStoreAlways ==
  ASSUME Plain
  PROVE  Spec /\ SafeSyncs /\ []HasRoom => KeepsStore
<1>1. Init => StoreInv /\ Store!StoreInit
  BY InitStored
<1>2. SyncInv /\ StoreInv /\ [Next]_vars /\ [SafeSync]_vars /\ SyncInv' /\ HasRoom'
        => StoreInv' /\ [Store!StoreNext]_<<StateSeen, FilesSeen, OpenedSeen, ResultSeen>>
  <2> SUFFICES ASSUME SyncInv, StoreInv, [Next]_vars, [SafeSync]_vars, SyncInv', HasRoom'
               PROVE  StoreInv' /\ Stored
    BY DEF Stored, Store!storeVars
  <2>1. IInv'
    BY DEF SyncInv
  <2> QED BY <2>1, NextStored
<1> QED BY <1>1, <1>2, SyncInvariance, PTL
        DEF Spec, SafeSyncs, KeepsStore, Store!StoreSpec, Store!storeVars

=============================================================================
