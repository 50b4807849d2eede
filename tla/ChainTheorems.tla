-------------------------- MODULE ChainTheorems --------------------------
(***************************************************************************)
(* What the operators of FileSystem on the FAT do, for a disk of any size:  *)
(* the chains of blocks, and what linking, freeing and cutting do to them.  *)
(***************************************************************************)
EXTENDS FileSystem, FiniteSetTheorems, TLAPS

-----------------------------------------------------------------------------
(* Least and greatest numbers.  A set of naturals has a least element since *)
(* the initial segments 0 .. x are well-founded under inclusion.            *)
LEMMA LeastNat == ASSUME NEW S, S \subseteq Nat, S # {}
                  PROVE  \E x \in S : \A y \in S : x <= y
<1> DEFINE below == {0 .. x : x \in S}
<1>1. below \subseteq FiniteSubsetsOf(Nat) /\ below # {}
  <2>1. ASSUME NEW x \in S PROVE IsFiniteSet(0 .. x) /\ 0 .. x \subseteq Nat
    BY <2>1, FS_Interval
  <2> QED BY <2>1 DEF FiniteSubsetsOf
<1> DEFINE R == StrictSubsetOrdering(Nat)
<1>2. IsWellFoundedOn(R, FiniteSubsetsOf(Nat))
  BY FS_StrictSubsetOrderingWellFounded
<1>3. PICK A \in below : \A B \in below : <<B, A>> \notin R
  <2> HIDE DEF below, R
  <2> QED BY <1>1, <1>2, WFMin
<1>4. PICK x \in S : A = 0 .. x
  OBVIOUS
<1>5. ASSUME NEW y \in S, y < x PROVE FALSE
  <2>1. 0 .. y \subseteq 0 .. x /\ x \in 0 .. x /\ x \notin 0 .. y
    BY <1>5
  <2>2. <<0 .. y, A>> \in R
    BY <1>4, <2>1, <1>1 DEF StrictSubsetOrdering, FiniteSubsetsOf
  <2> QED BY <1>3, <2>2
<1> QED BY <1>5

LEMMA LeastOf == ASSUME NEW S, S \subseteq Nat, S # {}
                 PROVE  Min(S) \in S /\ \A y \in S : Min(S) <= y
BY LeastNat DEF Min

LEMMA GreatestOf == ASSUME NEW n \in Nat, NEW S, S \subseteq 0 .. n, S # {}
                    PROVE  Max(S) \in S /\ \A y \in S : Max(S) >= y
<1> DEFINE T == {n - x : x \in S}
<1>1. T \subseteq Nat /\ T # {}
  <2>1. T \subseteq Nat
    OBVIOUS
  <2>2. PICK s \in S : TRUE
    OBVIOUS
  <2>3. n - s \in T
    OBVIOUS
  <2> QED BY <2>1, <2>3
<1>2. PICK z \in T : \A y \in T : z <= y
  <2> HIDE DEF T
  <2> QED BY <1>1, LeastNat
<1>3. PICK x \in S : z = n - x
  OBVIOUS
<1>4. \A y \in S : x >= y
  <2> TAKE y \in S
  <2>1. n - y \in T
    OBVIOUS
  <2>2. z <= n - y
    BY <1>2, <2>1
  <2> QED BY <1>3, <2>2
<1> QED BY <1>4 DEF Max
-----------------------------------------------------------------------------
(* Chains *)

(* The chain of h is the least closed set of blocks that holds h.           *)
LEMMA ChainLeast ==
  ASSUME NEW F, NEW h \in DataBlocks
  PROVE  /\ Chain(F, h) \subseteq DataBlocks
         /\ h \in Chain(F, h)
         /\ Closed(F, Chain(F, h))
         /\ \A T \in SUBSET DataBlocks : h \in T /\ Closed(F, T) => Chain(F, h) \subseteq T
BY DEF Chain, Closed

(* It holds the chain of each of its blocks.                                *)
LEMMA ChainOfMember ==
  ASSUME NEW F, NEW h \in DataBlocks, NEW a \in Chain(F, h)
  PROVE  a \in DataBlocks /\ Chain(F, a) \subseteq Chain(F, h)
BY ChainLeast

(* It is h and the chain of the block after h.                              *)
LEMMA ChainUnfolds ==
  ASSUME NEW F, NEW h \in DataBlocks
  PROVE  /\ F[h] \in DataBlocks => Chain(F, h) = {h} \cup Chain(F, F[h])
         /\ F[h] \notin DataBlocks => Chain(F, h) = {h}
<1>1. CASE F[h] \in DataBlocks
  <2> DEFINE T == {h} \cup Chain(F, F[h])
  <2>1. T \in SUBSET DataBlocks /\ h \in T
    BY <1>1, ChainLeast
  <2>2. Closed(F, T)
    BY <1>1, ChainLeast DEF Closed
  <2>3. Chain(F, h) \subseteq T
    BY <2>1, <2>2, ChainLeast
  <2>4. F[h] \in Chain(F, h)
    BY <1>1, ChainLeast DEF Closed
  <2>5. T \subseteq Chain(F, h)
    BY <2>4, ChainLeast, ChainOfMember
  <2> QED BY <1>1, <2>3, <2>5
<1>2. CASE F[h] \notin DataBlocks
  <2>1. Closed(F, {h})
    BY <1>2 DEF Closed
  <2> QED BY <1>2, <2>1, ChainLeast
<1> QED BY <1>1, <1>2

(* It depends on nothing but the entries of its own blocks.                 *)
LEMMA ChainIsLocal ==
  ASSUME NEW F, NEW G, NEW h \in DataBlocks, \A b \in Chain(F, h) : G[b] = F[b]
  PROVE  Chain(G, h) = Chain(F, h) /\ (Ends(F, h) => Ends(G, h))
<1>1. Closed(G, Chain(F, h))
  BY ChainLeast DEF Closed
<1>2. Chain(G, h) \subseteq Chain(F, h)
  BY <1>1, ChainLeast
<1>3. Closed(F, Chain(G, h))
  BY <1>2, ChainLeast DEF Closed
<1>4. Chain(F, h) \subseteq Chain(G, h)
  BY <1>3, ChainLeast
<1> QED BY <1>2, <1>4 DEF Ends

(* Of two blocks of a chain, one comes after the other.                     *)
LEMMA ChainIsLinear ==
  ASSUME NEW F, NEW h \in DataBlocks, NEW a \in Chain(F, h), NEW b \in Chain(F, h)
  PROVE  a \in Chain(F, b) \/ b \in Chain(F, a)
<1> DEFINE T == {x \in Chain(F, h) : \A y \in Chain(F, h) : x \in Chain(F, y) \/ y \in Chain(F, x)}
<1>1. T \in SUBSET DataBlocks /\ h \in T
  BY ChainLeast
<1>2. ASSUME NEW x \in T, F[x] \in DataBlocks
      PROVE  F[x] \in T
  <2>1. x \in DataBlocks /\ F[x] \in Chain(F, h)
    BY <1>2, ChainLeast DEF Closed
  <2>2. ASSUME NEW y \in Chain(F, h) PROVE F[x] \in Chain(F, y) \/ y \in Chain(F, F[x])
    <3>1. y \in DataBlocks
      BY ChainLeast
    <3>2. CASE x \in Chain(F, y)
      BY <1>2, <3>1, <3>2, ChainLeast DEF Closed
    <3>3. CASE y \in Chain(F, x)
      BY <1>2, <2>1, <3>3, ChainUnfolds
    <3> QED BY <3>2, <3>3
  <2> QED BY <2>1, <2>2
<1>3. Closed(F, T)
  BY <1>2 DEF Closed
<1>4. Chain(F, h) \subseteq T
  <2> HIDE DEF T
  <2> QED BY <1>1, <1>3, ChainLeast
<1> QED BY <1>4

(* If a chain ends, so does the chain of each of its blocks, there.         *)
LEMMA ChainEndsBehind ==
  ASSUME NEW F, NEW h \in DataBlocks, NEW a \in Chain(F, h),
         NEW e \in Chain(F, h), F[e] = Eof
  PROVE  e \in Chain(F, a) /\ Chain(F, e) = {e}
<1>1. a \in DataBlocks /\ e \in DataBlocks /\ Eof \notin DataBlocks
  BY ChainLeast, DiskAssumption DEF Eof, DataBlocks, data_idx, fat_len
<1>2. Chain(F, e) = {e}
  BY <1>1, ChainUnfolds
<1> QED BY <1>1, <1>2, ChainIsLinear, ChainLeast

(* A chain that ends has no cycle.                                          *)
LEMMA ChainHasNoCycle ==
  ASSUME NEW F, NEW h \in DataBlocks, Ends(F, h),
         NEW a \in Chain(F, h), NEW b \in Chain(F, h),
         a \in Chain(F, b), b \in Chain(F, a)
  PROVE  a = b
<1> SUFFICES ASSUME a # b PROVE FALSE
  OBVIOUS
<1>1. PICK e \in Chain(F, h) : F[e] = Eof
  BY DEF Ends
<1>2. a \in DataBlocks /\ b \in DataBlocks /\ e \in Chain(F, a) /\ Chain(F, e) = {e}
  BY <1>1, ChainEndsBehind, ChainLeast
<1> DEFINE T == {y \in Chain(F, a) : a \in Chain(F, y)}
<1>3. T \in SUBSET DataBlocks /\ a \in T
  BY <1>2, ChainLeast
<1>4. ASSUME NEW y \in T, F[y] \in DataBlocks PROVE F[y] \in T
  <2>1. y \in DataBlocks /\ F[y] \in Chain(F, a)
    BY <1>2, <1>4, ChainLeast DEF Closed
  <2>2. CASE y = a
    <3>1. b \in Chain(F, F[a])
      BY <1>2, <1>4, <2>2, ChainUnfolds
    <3>2. a \in Chain(F, F[a])
      BY <1>4, <2>2, <3>1, ChainOfMember
    <3> QED BY <2>1, <2>2, <3>2
  <2>3. CASE y # a
    BY <1>4, <2>1, <2>3, ChainUnfolds
  <2> QED BY <2>2, <2>3
<1>5. Chain(F, a) \subseteq T
  <2>1. Closed(F, T)
    BY <1>4 DEF Closed
  <2> HIDE DEF T
  <2> QED BY <1>2, <1>3, <2>1, ChainLeast
<1>6. a = e
  BY <1>2, <1>5
<1> QED BY <1>2, <1>6

-----------------------------------------------------------------------------
(* The table *)

Table == [Blocks -> DataBlocks \cup {Free, Eof}]

LEMMA TableFacts ==
  /\ DataBlocks \subseteq Blocks /\ DataBlocks \subseteq Nat /\ DataBlocks \subseteq 0 .. DISK_BLOCKS
  /\ DISK_BLOCKS \in Nat
  /\ Free \notin DataBlocks /\ Eof \notin DataBlocks /\ Free # Eof
  /\ IsFiniteSet(DataBlocks)
<1>1. /\ DISK_BLOCKS \in Nat /\ IntsPerBlock \in Nat \ {0}
      /\ data_idx \in Blocks /\ fat_len \in Nat /\ data_idx = 2 + fat_len
  BY DiskAssumption DEF data_idx, fat_len, Blocks
<1>2. IsFiniteSet(0 .. DISK_BLOCKS)
  BY <1>1, FS_Interval
<1>3. /\ DataBlocks \subseteq Blocks /\ DataBlocks \subseteq Nat
      /\ DataBlocks \subseteq 0 .. DISK_BLOCKS
  BY <1>1 DEF Blocks, DataBlocks
<1>4. IsFiniteSet(DataBlocks)
  BY <1>2, <1>3, FS_Subset
<1> QED BY <1>1, <1>3, <1>4 DEF Blocks, DataBlocks, Free, Eof

(* Appending to a one-block chain yields the chain of its block and those.  *)
LEMMA LinkedChain ==
  ASSUME NEW F \in Table, NEW h \in DataBlocks, NEW G \in SUBSET DataBlocks, h \notin G
  PROVE  LET L == Linked(F, h, G)
         IN  /\ L \in Table
             /\ Chain(L, h) = {h} \cup G
             /\ Ends(L, h)
             /\ \A b \in Blocks \ ({h} \cup G) : L[b] = F[b]
             /\ \A b \in {h} \cup G : L[b] # Free
<1> DEFINE L == Linked(F, h, G)
           S == {h} \cup G
           after(b) == IF b = h THEN G ELSE {c \in G : c > b}
<1>1. /\ S \subseteq DataBlocks /\ S \subseteq Blocks /\ G \subseteq Nat
      /\ G \subseteq 0 .. DISK_BLOCKS /\ DISK_BLOCKS \in Nat /\ Eof \notin DataBlocks
      /\ Free \notin DataBlocks /\ Free # Eof
  BY TableFacts
<1>2. ASSUME NEW b \in S
      PROVE  /\ after(b) = {} => L[b] = Eof
             /\ after(b) # {} => L[b] \in after(b) /\ \A c \in after(b) : L[b] <= c
  <2>1. L[b] = IF after(b) = {} THEN Eof ELSE Min(after(b))
    BY <1>1 DEF Linked
  <2>2. after(b) \subseteq Nat
    BY <1>1
  <2> HIDE DEF L, after
  <2> QED BY <2>1, <2>2, LeastOf
<1>3. \A b \in Blocks \ S : L[b] = F[b]
  BY DEF Linked
<1>4. L \in Table
  <2>1. L = [b \in Blocks |-> L[b]]
    BY DEF Linked
  <2>2. \A b \in Blocks : L[b] \in DataBlocks \cup {Free, Eof}
    <3>1. ASSUME NEW b \in S PROVE L[b] \in DataBlocks \cup {Eof}
      BY <1>1, <1>2
    <3> QED BY <1>3, <3>1 DEF Table
  <2> HIDE DEF L
  <2> QED BY <2>1, <2>2 DEF Table
<1> DEFINE T == Chain(L, h)
<1>5. T \subseteq S
  <2>1. Closed(L, S)
    <3> SUFFICES ASSUME NEW b \in S, L[b] \in DataBlocks PROVE L[b] \in S
      BY DEF Closed
    <3> QED BY <1>1, <1>2
  <2> HIDE DEF L, S
  <2>2. h \in S
    BY DEF S
  <2> QED BY <1>1, <2>1, <2>2, ChainLeast
<1>6. G \subseteq T
  <2> SUFFICES ASSUME G \ T # {} PROVE FALSE
    OBVIOUS
  <2>1. PICK x \in G \ T : \A y \in G \ T : x <= y
    <3> HIDE DEF T
    <3> QED BY <1>1, LeastNat
  <2>2. h \in T /\ \A b \in T : L[b] \in DataBlocks => L[b] \in T
    BY ChainLeast DEF Closed
  <2> DEFINE P == {c \in G : c < x}
  <2>3. CASE P = {}
    <3>1. L[h] \in G /\ L[h] <= x
      BY <1>2, <2>1
    <3>2. ~(L[h] < x)
      BY <2>3, <3>1
    <3>3. L[h] \in Nat /\ x \in Nat
      BY <1>1, <3>1
    <3>4. L[h] = x
      <4> HIDE DEF L
      <4> QED BY <3>1, <3>2, <3>3
    <3> QED BY <1>1, <2>1, <2>2, <3>4
  <2>4. CASE P # {}
    <3>1. P \subseteq 0 .. DISK_BLOCKS
      BY <1>1
    <3>2. PICK p \in P : \A y \in P : p >= y
      <4> HIDE DEF P
      <4> QED BY <1>1, <2>4, <3>1, GreatestOf
    <3>3. p \in T
      BY <1>1, <2>1, <3>2
    <3>4. p # h /\ x \in after(p)
      BY <3>2
    <3>5. L[p] \in G /\ L[p] > p /\ L[p] <= x
      BY <1>2, <3>2, <3>4
    <3>6. L[p] \in Nat /\ x \in Nat /\ p \in Nat
      BY <1>1, <3>5
    <3>7. L[p] < x => L[p] \in P
      BY <3>5
    <3>8. L[p] < x => p >= L[p]
      BY <3>2, <3>7
    <3>9. L[p] = x
      <4> HIDE DEF L
      <4> QED BY <3>5, <3>6, <3>8
    <3> QED BY <1>1, <2>1, <2>2, <3>3, <3>9
  <2> QED BY <2>3, <2>4
<1>7. T = S
  BY <1>5, <1>6, ChainLeast
<1>8. \E e \in S : L[e] = Eof
  <2>1. CASE G = {}
    BY <1>2, <2>1
  <2>2. CASE G # {}
    <3>1. PICK g \in G : \A y \in G : g >= y
      BY <1>1, <2>2, GreatestOf
    <3>2. g # h /\ \A c \in G : ~(c > g)
      BY <1>1, <3>1
    <3>3. after(g) = {}
      BY <3>2
    <3> QED BY <1>2, <3>3
  <2> QED BY <2>1, <2>2
<1>9. \A b \in S : L[b] # Free
  BY <1>1, <1>2
<1> QED BY <1>3, <1>4, <1>7, <1>8, <1>9 DEF Ends

(* fs_write takes no more blocks than it asks for.                          *)
LEMMA LowestFreeFacts ==
  ASSUME NEW F \in Table, NEW n \in Nat
  PROVE  LET G == LowestFree(F, n)
         IN  /\ G \subseteq FreeBlocks(F) /\ G \subseteq DataBlocks
             /\ IsFiniteSet(G) /\ Cardinality(G) <= n
<1> DEFINE G == LowestFree(F, n)
<1>1. /\ G \subseteq FreeBlocks(F) /\ G \subseteq DataBlocks /\ G \subseteq 0 .. DISK_BLOCKS
      /\ DISK_BLOCKS \in Nat /\ IsFiniteSet(DataBlocks)
  BY TableFacts DEF LowestFree, FreeBlocks
<1>2. IsFiniteSet(G)
  BY <1>1, FS_Subset
<1>3. CASE G = {}
  BY <1>1, <1>2, <1>3, FS_EmptySet
<1>4. CASE G # {}
  <2>1. PICK m \in G : \A y \in G : m >= y
    <3> HIDE DEF G
    <3> QED BY <1>1, <1>4, GreatestOf
  <2> DEFINE B == {c \in FreeBlocks(F) : c < m}
  <2>2. Cardinality(B) < n
    BY <2>1 DEF LowestFree
  <2>3. B \subseteq DataBlocks /\ IsFiniteSet(B) /\ Cardinality(B) \in Nat
    <3>1. B \subseteq DataBlocks
      BY DEF FreeBlocks
    <3> HIDE DEF B
    <3> QED BY <1>1, <3>1, FS_Subset, FS_CardinalityType
  <2>4. G \subseteq B \cup {m}
    BY <1>1, <2>1
  <2>5. m \notin B
    BY <1>1
  <2> HIDE DEF G, B
  <2>6. IsFiniteSet(B \cup {m}) /\ Cardinality(B \cup {m}) = Cardinality(B) + 1
    BY <2>3, <2>5, FS_AddElement
  <2>7. Cardinality(G) <= Cardinality(B \cup {m}) /\ Cardinality(G) \in Nat
    BY <1>2, <2>4, <2>6, FS_Subset, FS_CardinalityType
  <2> QED BY <1>1, <1>2, <2>2, <2>3, <2>6, <2>7 DEF G
<1> QED BY <1>3, <1>4

(* What fs_write does to the table: the chain of its file keeps its blocks,  *)
(* takes in free ones only, and ends; nothing else changes.                 *)
LEMMA GrownChain ==
  ASSUME NEW F \in Table, NEW h \in DataBlocks, NEW n \in Nat,
         Ends(F, h), \A b \in Chain(F, h) : F[b] # Free
  PROVE  LET L == Grown(F, h, n)
         IN  /\ L \in Table
             /\ Ends(L, h)
             /\ Chain(F, h) \subseteq Chain(L, h)
             /\ Chain(L, h) \ Chain(F, h) \subseteq FreeBlocks(F)
             /\ \A b \in Blocks \ Chain(L, h) : L[b] = F[b]
             /\ \A b \in Chain(L, h) : L[b] # Free
             /\ Chain(L, h) = Chain(F, h) \/ Cardinality(Chain(L, h)) <= n + 1
<1> DEFINE G == LowestFree(F, n)
<1>1. CASE F[h] = Eof
  <2>1. G \subseteq FreeBlocks(F) /\ G \in SUBSET DataBlocks /\ IsFiniteSet(G) /\ Cardinality(G) <= n
    BY LowestFreeFacts
  <2>2. h \notin G /\ Chain(F, h) = {h}
    BY <1>1, <2>1, TableFacts, ChainUnfolds DEF FreeBlocks
  <2>3. Grown(F, h, n) = Linked(F, h, G)
    BY <1>1 DEF Grown
  <2> HIDE DEF G
  <2> DEFINE L == Linked(F, h, G)
  <2>4. /\ L \in Table /\ Chain(L, h) = {h} \cup G /\ Ends(L, h)
        /\ \A b \in Blocks \ ({h} \cup G) : L[b] = F[b]
        /\ \A b \in {h} \cup G : L[b] # Free
    BY <2>1, <2>2, LinkedChain
  <2>5. Cardinality({h} \cup G) <= n + 1
    <3>1. Cardinality(G \cup {h}) = Cardinality(G) + 1 /\ Cardinality(G) \in Nat
      BY <2>1, <2>2, FS_AddElement, FS_CardinalityType
    <3>2. {h} \cup G = G \cup {h}
      OBVIOUS
    <3>3. Cardinality({h} \cup G) = Cardinality(G) + 1
      BY <3>1, <3>2, Zenon
    <3> QED BY <2>1, <3>1, <3>3
  <2> HIDE DEF L
  <2>6. Chain(L, h) \ Chain(F, h) \subseteq FreeBlocks(F) /\ Chain(F, h) \subseteq Chain(L, h)
    BY <2>1, <2>2, <2>4
  <2> QED BY <2>3, <2>4, <2>5, <2>6 DEF L
<1>2. CASE F[h] # Eof
  BY <1>2 DEF Grown
<1> QED BY <1>1, <1>2

(* What fs_delete does: the blocks of the chain become free.                *)
LEMMA FreedChain ==
  ASSUME NEW F \in Table, NEW h \in DataBlocks
  PROVE  LET L == ChainFreed(F, h)
         IN  /\ L \in Table
             /\ \A b \in Blocks \ Chain(F, h) : L[b] = F[b]
             /\ \A b \in Chain(F, h) : L[b] = Free
BY ChainLeast, TableFacts DEF ChainFreed, Table

(* What fs_truncate does: the chain ends at "last", the blocks behind it    *)
(* become free.  Without a cycle the cut spares what comes before.          *)
LEMMA CutChain ==
  ASSUME NEW F \in Table, NEW h \in DataBlocks, Ends(F, h),
         NEW last \in Chain(F, h)
  PROVE  LET L == CutAfter(F, last)
         IN  /\ L \in Table
             /\ Chain(L, h) = Chain(F, h) \ Behind(F, last)
             /\ Ends(L, h)
             /\ Behind(F, last) \subseteq Chain(F, h)
             /\ \A b \in Blocks \ Chain(F, h) : L[b] = F[b]
             /\ \A b \in Behind(F, last) : L[b] = Free
             /\ \A b \in Chain(L, h) : L[b] = F[b] \/ L[b] = Eof
<1> DEFINE L == CutAfter(F, last)
           C == Chain(F, h)
           cut == Behind(F, last)
           U == C \ cut
           T == Chain(L, h)
<1>1. /\ last \in DataBlocks /\ h \in C /\ C \subseteq DataBlocks /\ DataBlocks \subseteq Blocks
      /\ cut \subseteq C /\ last \notin cut /\ Chain(F, last) = cut \cup {last}
      /\ Eof \notin DataBlocks /\ Free \notin DataBlocks
  <2>1. last \in DataBlocks /\ Chain(F, last) \subseteq C
    BY ChainOfMember
  <2>2. last \in Chain(F, last) /\ h \in C /\ C \subseteq DataBlocks
    BY <2>1, ChainLeast
  <2> QED BY <2>1, <2>2, TableFacts DEF Behind
<1>2. /\ L \in Table
      /\ \A b \in Blocks \ C : L[b] = F[b]
      /\ \A b \in cut : L[b] = Free
      /\ L[last] = Eof
      /\ \A b \in U : b = last \/ L[b] = F[b]
  BY <1>1, TableFacts DEF CutAfter, Table
<1>3. \A b \in C : last \in Chain(F, b) /\ b \in Chain(F, last) => b = last
  BY ChainHasNoCycle
<1>4. ASSUME NEW b \in U, L[b] \in DataBlocks PROVE L[b] \in U
  <2>1. b # last /\ L[b] = F[b] /\ b \in DataBlocks
    BY <1>1, <1>2, <1>4
  <2>2. F[b] \in C
    BY <1>4, <2>1, ChainLeast DEF Closed
  <2>3. b \notin Chain(F, last) /\ last \in Chain(F, b)
    BY <1>1, <2>1, ChainIsLinear
  <2>4. last \in Chain(F, F[b])
    BY <1>4, <2>1, <2>3, ChainUnfolds
  <2>5. F[b] \notin cut
    BY <1>1, <1>3, <2>2, <2>4
  <2> QED BY <2>1, <2>2, <2>5
<1>5. h \in U
  BY <1>1, <1>3
<1>6. T \subseteq U
  <2>1. Closed(L, U)
    BY <1>4 DEF Closed
  <2>2. U \in SUBSET DataBlocks
    BY <1>1
  <2> HIDE DEF U, L
  <2> QED BY <1>5, <2>1, <2>2, ChainLeast
<1>7. T \in SUBSET DataBlocks /\ h \in T /\ Closed(L, T)
  BY ChainLeast
<1>8. last \in T
  <2> SUFFICES ASSUME last \notin T PROVE FALSE
    OBVIOUS
  <2>1. Closed(F, T)
    BY <1>2, <1>6, <1>7 DEF Closed
  <2>2. C \subseteq T
    <3> HIDE DEF T
    <3> QED BY <1>7, <2>1, ChainLeast
  <2> QED BY <2>2
<1>9. C \subseteq T \cup Chain(F, last)
  <2>1. Closed(F, T \cup Chain(F, last))
    BY <1>1, <1>2, <1>6, <1>7, ChainLeast DEF Closed
  <2>2. T \cup Chain(F, last) \in SUBSET DataBlocks
    BY <1>1, <1>7
  <2> HIDE DEF T
  <2> QED BY <1>7, <2>1, <2>2, ChainLeast
<1>10. T = U
  BY <1>1, <1>6, <1>8, <1>9
<1>11. \E e \in T : L[e] = Eof
  BY <1>2, <1>8
<1> HIDE DEF L, cut
<1>12. \A b \in T : L[b] = F[b] \/ L[b] = Eof
  BY <1>2, <1>10
<1> QED BY <1>1, <1>2, <1>10, <1>11, <1>12 DEF Ends, L, cut

-----------------------------------------------------------------------------
(* Walks along the table *)

(* Induction on sets of numbers.                                            *)
LEMMA AllNats ==
  ASSUME NEW m \in Nat, NEW S, 0 \in S, \A n \in 0 .. m - 1 : n \in S => n + 1 \in S
  PROVE  0 .. m \subseteq S
<1> DEFINE Missing == 0 .. m \ S
<1>1. CASE Missing = {}
  BY <1>1
<1>2. CASE Missing # {}
  <2>0. Missing \subseteq Nat
    OBVIOUS
  <2>1. PICK x \in Missing : \A y \in Missing : x <= y
    <3> HIDE DEF Missing
    <3> QED BY <1>2, <2>0, LeastNat
  <2>2. x # 0 /\ x \in 1 .. m
    BY <2>1
  <2>3. x - 1 \in 0 .. m - 1 /\ x - 1 \in S
    BY <2>1, <2>2
  <2>4. (x - 1) + 1 \in S
    BY <2>3
  <2>5. x \in S
    BY <2>2, <2>4
  <2> QED BY <2>1, <2>5
<1> QED BY <1>1, <1>2

(* One step of a walk, and a walk of k steps.                               *)
After(F, b) == IF b \in DataBlocks THEN F[b] ELSE Eof
IsWalk(f, F, h, k) == f = [n \in 0 .. k |-> IF n = 0 THEN h ELSE After(F, f[n - 1])]

(* A walk starts at h and goes one step at a time.                          *)
LEMMA WalkSteps ==
  ASSUME NEW f, NEW F, NEW h, NEW k \in Nat, IsWalk(f, F, h, k)
  PROVE  f[0] = h /\ \A n \in 0 .. k - 1 : f[n + 1] = After(F, f[n])
<1>1. f[0] = h
  BY DEF IsWalk
<1>2. ASSUME NEW n \in 0 .. k - 1 PROVE f[n + 1] = After(F, f[n])
  <2>1. n + 1 \in 0 .. k /\ n + 1 # 0 /\ (n + 1) - 1 = n
    OBVIOUS
  <2>2. \A m \in 0 .. k : f[m] = IF m = 0 THEN h ELSE After(F, f[m - 1])
    BY DEF IsWalk
  <2> QED BY <2>1, <2>2
<1> QED BY <1>1, <1>2

(* There is a walk of any length.                                           *)
LEMMA WalkExists ==
  ASSUME NEW F, NEW h, NEW k \in Nat
  PROVE  \E f : IsWalk(f, F, h, k)
<1> DEFINE Good == {m \in 0 .. k : \E f : IsWalk(f, F, h, m)}
<1>1. 0 \in Good
  <2>1. IsWalk([n \in 0 .. 0 |-> h], F, h, 0)
    BY DEF IsWalk
  <2> QED BY <2>1
<1>2. ASSUME NEW m \in 0 .. k - 1, m \in Good PROVE m + 1 \in Good
  <2>1. PICK f : IsWalk(f, F, h, m)
    BY <1>2
  <2> DEFINE g == [n \in 0 .. m + 1 |-> IF n = m + 1 THEN After(F, f[m]) ELSE f[n]]
  <2>2. ASSUME NEW n \in 0 .. m + 1
        PROVE  g[n] = IF n = 0 THEN h ELSE After(F, g[n - 1])
    <3>1. f[0] = h /\ \A l \in 0 .. m - 1 : f[l + 1] = After(F, f[l])
      BY <2>1, WalkSteps
    <3>2. CASE n = 0
      BY <3>1, <3>2
    <3>3. CASE n = m + 1
      BY <3>3
    <3>4. CASE n # 0 /\ n # m + 1
      <4>1. n - 1 \in 0 .. m - 1 /\ (n - 1) + 1 = n
        BY <3>4
      <4>2. f[n] = After(F, f[n - 1])
        BY <3>1, <4>1
      <4>3. g[n] = f[n] /\ g[n - 1] = f[n - 1]
        BY <3>4, <4>1
      <4> QED BY <3>4, <4>2, <4>3
    <3> QED BY <3>2, <3>3, <3>4
  <2>3. g = [n \in 0 .. m + 1 |-> g[n]]
    OBVIOUS
  <2> HIDE DEF g
  <2>4. IsWalk(g, F, h, m + 1)
    BY <2>2, <2>3 DEF IsWalk
  <2> QED BY <2>4
<1>3. 0 .. k \subseteq Good
  <2> HIDE DEF Good
  <2> QED BY <1>1, <1>2, AllNats
<1> QED BY <1>3

(* A longer walk begins like a shorter one.                                 *)
LEMMA WalksAgree ==
  ASSUME NEW F, NEW h, NEW k \in Nat, NEW m \in Nat, k <= m,
         NEW f, NEW g, IsWalk(f, F, h, k), IsWalk(g, F, h, m)
  PROVE  f[k] = g[k]
<1> DEFINE Good == {n \in 0 .. k : f[n] = g[n]}
<1>1. f[0] = h /\ \A n \in 0 .. k - 1 : f[n + 1] = After(F, f[n])
  BY WalkSteps
<1>2. g[0] = h /\ \A n \in 0 .. m - 1 : g[n + 1] = After(F, g[n])
  BY WalkSteps
<1>3. 0 \in Good
  BY <1>1, <1>2
<1>4. ASSUME NEW n \in 0 .. k - 1, n \in Good PROVE n + 1 \in Good
  BY <1>1, <1>2, <1>4
<1>5. 0 .. k \subseteq Good
  <2> HIDE DEF Good
  <2> QED BY <1>3, <1>4, AllNats
<1> QED BY <1>5

(* BlockAt is where a walk is after k steps.                                *)
LEMMA BlockAtIsWalk ==
  ASSUME NEW F, NEW h, NEW k \in Nat
  PROVE  \E f : IsWalk(f, F, h, k) /\ BlockAt(F, h, k) = f[k]
<1>1. PICK f : IsWalk(f, F, h, k)
  BY WalkExists
<1> DEFINE Eq(g) == g = [n \in 0 .. k |->
             IF n = 0 THEN h
             ELSE LET b == g[n - 1] IN IF b \in DataBlocks THEN F[b] ELSE Eof]
<1>2. \A g : Eq(g) <=> IsWalk(g, F, h, k)
  BY DEF IsWalk, After
<1>3. Eq(f)
  BY <1>1, <1>2
<1>4. Eq(CHOOSE g : Eq(g))
  <2> HIDE DEF Eq
  <2> QED BY <1>3
<1>5. BlockAt(F, h, k) = (CHOOSE g : Eq(g))[k]
  BY DEF BlockAt
<1> HIDE DEF Eq
<1> QED BY <1>2, <1>4, <1>5

(* The k-th block of the walk from h.                                       *)
LEMMA BlockAtSteps ==
  ASSUME NEW F, NEW h, NEW k \in Nat
  PROVE  /\ BlockAt(F, h, 0) = h
         /\ BlockAt(F, h, k + 1) = After(F, BlockAt(F, h, k))
<1>1. PICK e : IsWalk(e, F, h, 0) /\ BlockAt(F, h, 0) = e[0]
  BY BlockAtIsWalk
<1>2. PICK f : IsWalk(f, F, h, k) /\ BlockAt(F, h, k) = f[k]
  BY BlockAtIsWalk
<1>3. k + 1 \in Nat /\ k \in 0 .. (k + 1) - 1 /\ k <= k + 1
  OBVIOUS
<1>4. PICK g : IsWalk(g, F, h, k + 1) /\ BlockAt(F, h, k + 1) = g[k + 1]
  BY <1>3, BlockAtIsWalk
<1>5. e[0] = h
  BY <1>1, WalkSteps
<1>6. g[k + 1] = After(F, g[k])
  BY <1>3, <1>4, WalkSteps
<1>7. f[k] = g[k]
  BY <1>2, <1>3, <1>4, WalksAgree
<1> QED BY <1>1, <1>2, <1>4, <1>5, <1>6, <1>7

(* While the walk is on the disk it is in the chain of h, and it comes to   *)
(* every block of that chain.                                               *)
LEMMA BlocksOfChain ==
  ASSUME NEW F, NEW h \in DataBlocks
  PROVE  Chain(F, h) = {BlockAt(F, h, k) : k \in Nat} \cap DataBlocks
<1> DEFINE T == {BlockAt(F, h, k) : k \in Nat} \cap DataBlocks
<1>1. h \in T
  <2>1. BlockAt(F, h, 0) = h
    BY BlockAtSteps
  <2> QED BY <2>1
<1>2. Closed(F, T)
  <2> SUFFICES ASSUME NEW k \in Nat, BlockAt(F, h, k) \in DataBlocks,
                      F[BlockAt(F, h, k)] \in DataBlocks
               PROVE  F[BlockAt(F, h, k)] \in T
    BY DEF Closed
  <2>1. BlockAt(F, h, k + 1) = F[BlockAt(F, h, k)] /\ k + 1 \in Nat
    BY BlockAtSteps DEF After
  <2> QED BY <2>1
<1>3. Chain(F, h) \subseteq T
  <2> HIDE DEF T
  <2>1. T \in SUBSET DataBlocks
    BY DEF T
  <2> QED BY <1>1, <1>2, <2>1, ChainLeast
<1>4. ASSUME NEW k \in Nat, BlockAt(F, h, k) \in DataBlocks
      PROVE  BlockAt(F, h, k) \in Chain(F, h)
  <2> DEFINE Good == {n \in 0 .. k : BlockAt(F, h, n) \in DataBlocks => BlockAt(F, h, n) \in Chain(F, h)}
  <2>1. 0 \in Good
    BY BlockAtSteps, ChainLeast
  <2>2. ASSUME NEW n \in 0 .. k - 1, n \in Good PROVE n + 1 \in Good
    <3>1. n \in Nat /\ n + 1 \in 0 .. k /\ BlockAt(F, h, n + 1) = After(F, BlockAt(F, h, n))
      BY BlockAtSteps
    <3>2. CASE BlockAt(F, h, n) \in DataBlocks
      BY <2>2, <3>1, <3>2, ChainLeast DEF Closed, After
    <3>3. CASE BlockAt(F, h, n) \notin DataBlocks
      BY <3>1, <3>3, TableFacts DEF After
    <3> QED BY <3>2, <3>3
  <2>3. 0 .. k \subseteq Good
    <3> HIDE DEF Good
    <3> QED BY <2>1, <2>2, AllNats
  <2> QED BY <1>4, <2>3
<1> QED BY <1>3, <1>4

(* It does not leave the disk and come back.                                *)
LEMMA BlocksBehind ==
  ASSUME NEW F, NEW h \in DataBlocks, NEW i \in Nat, NEW d \in Nat,
         BlockAt(F, h, i + d) \in DataBlocks
  PROVE  /\ BlockAt(F, h, i) \in DataBlocks
         /\ BlockAt(F, h, i + d) \in Chain(F, BlockAt(F, h, i))
<1> DEFINE B == BlockAt(F, h, i)
           Good == {n \in 0 .. d : BlockAt(F, h, i + n) \in DataBlocks
                                   => B \in DataBlocks /\ BlockAt(F, h, i + n) \in Chain(F, B)}
<1>1. 0 \in Good
  <2>1. i + 0 = i
    OBVIOUS
  <2> QED BY <2>1, ChainLeast
<1>2. ASSUME NEW n \in 0 .. d - 1, n \in Good PROVE n + 1 \in Good
  <2>1. i + n \in Nat /\ (i + n) + 1 = i + (n + 1) /\ n + 1 \in 0 .. d
    OBVIOUS
  <2>2. BlockAt(F, h, i + (n + 1)) = After(F, BlockAt(F, h, i + n))
    BY <2>1, BlockAtSteps
  <2>3. CASE BlockAt(F, h, i + n) \in DataBlocks
    <3>1. B \in DataBlocks /\ BlockAt(F, h, i + n) \in Chain(F, B)
      BY <1>2, <2>3
    <3> HIDE DEF B
    <3>2. F[BlockAt(F, h, i + n)] \in DataBlocks => F[BlockAt(F, h, i + n)] \in Chain(F, B)
      BY <3>1, ChainLeast DEF Closed
    <3> QED BY <2>1, <2>2, <2>3, <3>1, <3>2 DEF After, B
  <2>4. CASE BlockAt(F, h, i + n) \notin DataBlocks
    BY <2>1, <2>2, <2>4, TableFacts DEF After
  <2> QED BY <2>3, <2>4
<1>3. 0 .. d \subseteq Good
  <2> HIDE DEF Good
  <2> QED BY <1>1, <1>2, AllNats
<1> QED BY <1>3

(* It comes to no block twice, if the chain ends.                           *)
LEMMA BlocksDistinct ==
  ASSUME NEW F, NEW h \in DataBlocks, Ends(F, h), NEW i \in Nat, NEW j \in Nat, i < j,
         BlockAt(F, h, j) \in DataBlocks
  PROVE  BlockAt(F, h, i) # BlockAt(F, h, j)
<1> DEFINE a == BlockAt(F, h, i)
           c == BlockAt(F, h, i + 1)
<1> SUFFICES ASSUME a = BlockAt(F, h, j) PROVE FALSE
  OBVIOUS
<1>1. j - (i + 1) \in Nat /\ i + 1 \in Nat /\ (i + 1) + (j - (i + 1)) = j
  OBVIOUS
<1>2. c \in DataBlocks /\ a \in Chain(F, c)
  BY <1>1, BlocksBehind
<1>3. c \in Chain(F, a)
  BY <1>2, BlocksBehind
<1>4. a \in Chain(F, h) /\ c \in Chain(F, h)
  BY <1>1, <1>2, BlocksOfChain
<1>5. a = c
  BY <1>2, <1>3, <1>4, ChainHasNoCycle
<1>6. c = F[a]
  BY BlockAtSteps DEF After
<1>7. PICK e \in Chain(F, h) : F[e] = Eof
  BY DEF Ends
<1>8. e \in Chain(F, a)
  BY <1>4, <1>7, ChainEndsBehind
<1>9. Closed(F, {a}) /\ a \in DataBlocks
  BY <1>2, <1>5, <1>6 DEF Closed
<1>10. Chain(F, a) \subseteq {a}
  BY <1>9, ChainLeast
<1> QED BY <1>5, <1>6, <1>7, <1>8, <1>9, <1>10, TableFacts

(* So Index finds the place of each of its blocks.                          *)
LEMMA IndexOf ==
  ASSUME NEW F, NEW h \in DataBlocks, Ends(F, h), NEW k \in Nat,
         BlockAt(F, h, k) \in DataBlocks
  PROVE  Index(F, h, BlockAt(F, h, k)) = k
<1>1. k <= DISK_BLOCKS
  <2> DEFINE f == [n \in 0 .. k |-> BlockAt(F, h, n)]
  <2>1. ASSUME NEW n \in 0 .. k PROVE BlockAt(F, h, n) \in DataBlocks
    <3>1. n \in Nat /\ k - n \in Nat /\ n + (k - n) = k
      OBVIOUS
    <3> QED BY <3>1, BlocksBehind
  <2>2. ASSUME NEW n \in 0 .. k, NEW m \in 0 .. k, n # m
        PROVE  BlockAt(F, h, n) # BlockAt(F, h, m)
    <3>1. n \in Nat /\ m \in Nat /\ (n < m \/ m < n)
      BY <2>2
    <3> QED BY <2>1, <3>1, BlocksDistinct
  <2>3. f \in Injection(0 .. k, DataBlocks)
    <3>1. f \in [0 .. k -> DataBlocks] /\ \A n \in 0 .. k : f[n] = BlockAt(F, h, n)
      BY <2>1
    <3> HIDE DEF f
    <3>2. \A n, m \in 0 .. k : f[n] = f[m] => n = m
      BY <2>2, <3>1
    <3> QED BY <3>1, <3>2 DEF Injection, IsInjective
  <2>4. Cardinality(0 .. k) <= Cardinality(DataBlocks) /\ Cardinality(0 .. k) = k + 1
    <3> HIDE DEF f
    <3> QED BY <2>3, TableFacts, FS_Injection, FS_Interval
  <2>5. Cardinality(DataBlocks) <= DISK_BLOCKS + 1 /\ Cardinality(DataBlocks) \in Nat
    <3>1. IsFiniteSet(0 .. DISK_BLOCKS) /\ Cardinality(0 .. DISK_BLOCKS) = DISK_BLOCKS + 1
      BY TableFacts, FS_Interval
    <3> QED BY <3>1, TableFacts, FS_Subset, FS_CardinalityType
  <2> QED BY <2>4, <2>5, TableFacts
<1> DEFINE l == Index(F, h, BlockAt(F, h, k))
<1>2. k \in 0 .. DISK_BLOCKS
  BY <1>1, TableFacts
<1>3. l \in 0 .. DISK_BLOCKS /\ BlockAt(F, h, l) = BlockAt(F, h, k)
  BY <1>2 DEF Index
<1> HIDE DEF l
<1>4. l \in Nat /\ (l = k \/ l < k \/ k < l)
  BY <1>3, TableFacts
<1>5. ~(l < k) /\ ~(k < l)
  BY <1>3, <1>4, BlocksDistinct
<1> QED BY <1>4, <1>5 DEF l

(* It depends on nothing but the entries of the chain.                      *)
LEMMA BlocksAreLocal ==
  ASSUME NEW F, NEW G, NEW h \in DataBlocks, \A b \in Chain(F, h) : G[b] = F[b], NEW k \in Nat
  PROVE  BlockAt(G, h, k) = BlockAt(F, h, k)
<1> DEFINE Good == {n \in 0 .. k : BlockAt(G, h, n) = BlockAt(F, h, n)}
<1>1. 0 \in Good
  BY BlockAtSteps
<1>2. ASSUME NEW n \in 0 .. k - 1, n \in Good PROVE n + 1 \in Good
  <2>1. /\ n \in Nat /\ n + 1 \in 0 .. k /\ BlockAt(G, h, n) = BlockAt(F, h, n)
        /\ BlockAt(F, h, n + 1) = After(F, BlockAt(F, h, n))
        /\ BlockAt(G, h, n + 1) = After(G, BlockAt(G, h, n))
    BY <1>2, BlockAtSteps
  <2>2. BlockAt(F, h, n) \in DataBlocks => BlockAt(F, h, n) \in Chain(F, h)
    BY <2>1, BlocksOfChain
  <2> QED BY <2>1, <2>2 DEF After
<1>3. 0 .. k \subseteq Good
  <2> HIDE DEF Good
  <2> QED BY <1>1, <1>2, AllNats
<1> QED BY <1>3

(* What fs_write adds comes after what there was.                           *)
LEMMA BlocksGrown ==
  ASSUME NEW F, NEW h \in DataBlocks, NEW n, NEW k \in Nat,
         BlockAt(F, h, k) \in DataBlocks
  PROVE  BlockAt(Grown(F, h, n), h, k) = BlockAt(F, h, k)
<1>1. CASE F[h] = Eof
  <2>1. k = 0
    <3> SUFFICES ASSUME k # 0 PROVE FALSE
      OBVIOUS
    <3>1. k - 1 \in Nat /\ 1 + (k - 1) = k /\ 0 + 1 = 1
      OBVIOUS
    <3>2. BlockAt(F, h, 1) \in DataBlocks
      BY <3>1, BlocksBehind
    <3>3. BlockAt(F, h, 1) = F[h]
      BY <3>1, BlockAtSteps DEF After
    <3> QED BY <1>1, <3>2, <3>3, TableFacts
  <2> QED BY <2>1, BlockAtSteps
<1>2. CASE F[h] # Eof
  BY <1>2 DEF Grown
<1> QED BY <1>1, <1>2

=============================================================================
