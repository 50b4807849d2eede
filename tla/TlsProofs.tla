----------------------------- MODULE TlsProofs -----------------------------
(***************************************************************************)
(* Proofs about Tls, for any number of threads, elements and pages, any     *)
(* sizes and any arguments: the table, the reference counts, protection and *)
(* the refinement of LocalStore, for a program whose calls on one bucket,   *)
(* and on shared pages, never overlap.                                      *)
(***************************************************************************)
EXTENDS Tls, FiniteSetTheorems, TLAPS

(* The program's discipline: calls on threads of one bucket, and calls on   *)
(* shared pages, never overlap.                                             *)
CallsApart == KeptApart = {"bucket", "pages"}

Bucket == 0 .. HASH_SIZE - 1
Labels == {"idle", "link", "insert", "share", "write", "copy", "drop", "put", "read",
           "protect", "release", "unlink"}
CallRecords ==
  [at : Labels, elem : Element \cup {NULL}, src : Element \cup {NULL},
   peer : Thread \cup {NoThread}, idx : Nat, upto : Nat, byte : Bytes,
   main_page : Page \cup {NULL}, held : SUBSET Page]
Elements ==
  [state : {"unused", "live", "stale", "reused"}, tid : Thread \cup {NoThread},
   size : Nat, pages : Seq(Page), next : Element \cup {NULL}]
Pages ==
  [mapped : BOOLEAN, lost : BOOLEAN, open : BOOLEAN, ref_count : Nat,
   bytes : [0 .. page_size - 1 -> Bytes]]

Typed ==
  /\ hash_table \in [Bucket -> Element \cup {NULL}]
  /\ elem \in [Element -> Elements]
  /\ page \in [Page -> Pages]
  /\ call \in [Thread -> CallRecords]
  /\ proc \in {"running", "nomemory", "stray"}

Accessing == {"write", "copy", "drop", "put", "read", "protect"}
Destroying == {"release", "unlink"}
Building == {"share", "link", "insert"}

(* Calls in progress are on buckets of their own, and each is on a live     *)
(* element of the thread that makes it.                                     *)
IdleFor(t) == call[t].at = "idle" => call[t] = Idle
ApartFrom(t, u) == \A s \in Parties(t), v \in Parties(u) : Hash(s) # Hash(v)
OwnedBy(e, t) == e \in Element /\ elem[e].state = "live" /\ elem[e].tid = t
CallsOK ==
  /\ \A t \in Thread : IdleFor(t)
  /\ \A t, u \in Busy : t # u => ApartFrom(t, u)
  /\ \A t \in Busy : OwnedBy(call[t].elem, t)

(* The table: what leads to an element in use is the head of its bucket or  *)
(* one other element of the bucket; only an element that is about to become *)
(* the head leads to the head.                                              *)
InBucket(e, b) == e \in Element /\ elem[e].state # "unused" /\ Hash(elem[e].tid) = b
Tids == \A e \in Element : elem[e].state # "unused" => elem[e].tid \in Thread
Heads == \A b \in Bucket : hash_table[b] = NULL \/ InBucket(hash_table[b], b)
Nexts == \A e \in Element : elem[e].next # NULL =>
  elem[e].state # "unused" /\ InBucket(elem[e].next, Hash(elem[e].tid))
OneBefore == \A e, f \in Element : elem[e].next = elem[f].next /\ elem[e].next # NULL => e = f
HeadsFirst == \A e \in Element, b \in Bucket :
  hash_table[b] = elem[e].next /\ elem[e].next # NULL
    => \E t \in Thread : call[t].at = "insert" /\ call[t].elem = e
NewFor(t) == call[t].at \in Building =>
  /\ \A b \in Bucket : hash_table[b] # call[t].elem
  /\ \A e \in Element : elem[e].next # call[t].elem
OldFor(t) == call[t].at \in Destroying => call[t].elem \in Chain(Hash(t))
TableOK ==
  /\ Tids /\ Heads /\ Nexts /\ OneBefore /\ HeadsFirst
  /\ \A t \in Thread : NewFor(t) /\ OldFor(t)

(* The stores: a page is in a store once, and a store has the pages its     *)
(* size calls for, but for a clone that is still being made.                *)
Unfinished == {call[t].elem : t \in {u \in Thread : call[u].at = "share"}}
StoreAt(e) == elem[e].state = "live" =>
  /\ \A i, j \in DOMAIN elem[e].pages : elem[e].pages[i] = elem[e].pages[j] => i = j
  /\ e \notin Unfinished => Len(elem[e].pages) = PagesFor(elem[e].size)
CloneFor(t) == call[t].at = "share" =>
  LET e == call[t].elem
      s == call[t].src
  IN  /\ call[t].peer \in Thread \ {t} /\ OwnedBy(s, call[t].peer)
      /\ elem[e].size = elem[s].size
      /\ Len(elem[e].pages) <= Len(elem[s].pages)
      /\ \A i \in 1 .. Len(elem[e].pages) : elem[e].pages[i] = elem[s].pages[i]
WithinFor(t) ==
  /\ call[t].at \in Accessing => call[t].upto <= elem[call[t].elem].size
  /\ call[t].at \in {"copy", "drop", "put"} => call[t].idx < call[t].upto
  /\ call[t].at = "release" => call[t].idx > 0
StoresOK ==
  /\ \A e \in Element : StoreAt(e)
  /\ \A t \in Thread : CloneFor(t) /\ WithinFor(t)

(* The pages an element accounts for: its store's, less those tls_destroy   *)
(* has given back, and the one a tls_write has copied but not yet dropped.  *)
Kept(e) ==
  IF elem[e].state # "live" THEN {}
  ELSE LET c == call[elem[e].tid]
       IN  IF c.elem # e THEN PagesOf(e)
           ELSE CASE c.at = "release" ->
                       {elem[e].pages[i] : i \in {j \in DOMAIN elem[e].pages : j >= c.idx}}
                  [] c.at = "unlink" -> {}
                  [] c.at = "drop" -> PagesOf(e) \cup {c.main_page}
                  [] OTHER -> PagesOf(e)
Refs(p) == {e \in Element : p \in Kept(e)}

(* The pages whose counts or protection a call may change, or relies on.    *)
Touched(t) ==
  IF call[t].at = "share" THEN Kept(call[t].src)
  ELSE IF call[t].at \in Accessing \cup Destroying THEN Kept(call[t].elem)
  ELSE {}

CountedAt(p) ==
  IF page[p].lost THEN page[p].mapped /\ Refs(p) = {}
  ELSE page[p].ref_count = Cardinality(Refs(p)) /\ (page[p].mapped <=> Refs(p) # {})
SharedFor(t) ==
  /\ call[t].at = "copy" => page[Working(t)].ref_count > 1
  /\ call[t].at = "drop" => /\ call[t].main_page \in Page \ PagesOf(call[t].elem)
                            /\ page[call[t].main_page].ref_count > 1
HeldFor(t) == \A p \in Touched(t) : p \in call[t].held \/ Refs(p) = {call[t].elem}
OpenFor(t) == call[t].at \in Accessing \ {"protect"} =>
  \A p \in PagesOf(call[t].elem) : page[p].open
OpenedAt(p) == page[p].open =>
  \E t \in Thread : call[t].at \in Accessing /\ p \in Touched(t)
PagesOK ==
  /\ \A p \in Page : CountedAt(p) /\ OpenedAt(p)
  /\ \A t \in Thread : SharedFor(t) /\ HeldFor(t) /\ OpenFor(t)
  /\ \A t, u \in Thread : t # u => Touched(t) \cap Touched(u) = {}

IInv == Typed /\ CallsOK /\ TableOK /\ StoresOK /\ PagesOK
-----------------------------------------------------------------------------
(* Numbers *)

(* What the assumptions on the constants say of elements, pages and threads. *)
LEMMA Numbers ==
  /\ HASH_SIZE \in Nat \ {0} /\ page_size \in Nat \ {0} /\ UINT \in Nat \ {0}
  /\ Thread \subseteq Nat /\ NoThread \notin Thread
  /\ Element \subseteq Nat /\ NULL \notin Element
  /\ Page \subseteq Nat /\ NULL \notin Page
  /\ Sizes \subseteq Nat /\ Offsets \subseteq Nat /\ Lengths \subseteq Nat
  /\ IsFiniteSet(Page) /\ IsFiniteSet(Element)
  /\ MaxElements \in Nat /\ MaxPages \in Nat
<1>1. MaxElements \in Nat /\ MaxPages \in Nat /\ UINT \in Nat
  BY TlsAssumption
<1>2. IsFiniteSet(Page) /\ IsFiniteSet(Element)
  BY <1>1, FS_Interval DEF Page, Element
<1>3. Sizes \cup Offsets \cup Lengths \subseteq Nat
  BY <1>1, TlsAssumption
<1> QED BY <1>1, <1>2, <1>3, TlsAssumption DEF Element, Page, NULL, NoThread

(* hash gives a bucket of the table (37-38).                                *)
LEMMA HashTyped == \A t \in Thread : Hash(t) \in Bucket
BY Numbers DEF Hash, Bucket

(* A set of naturals has a least element, since the initial segments 0 .. x *)
(* are well-founded under inclusion.                                        *)
LEMMA LeastNat == ASSUME NEW S, S \subseteq Nat, S # {}
                  PROVE  \E x \in S : \A y \in S : x <= y
<1> DEFINE below == {0 .. x : x \in S}
<1>1. below \subseteq FiniteSubsetsOf(Nat) /\ below # {}
  <2>1. ASSUME NEW x \in S PROVE IsFiniteSet(0 .. x) /\ 0 .. x \subseteq Nat
    BY <2>1, FS_Interval
  <2> QED BY <2>1 DEF FiniteSubsetsOf
<1> DEFINE R == StrictSubsetOrdering(Nat)
<1>2. IsWellFoundedOn(R, FiniteSubsetsOf(Nat))
  BY FS_StrictSubsetOrderingWellFounded
<1>3. PICK A \in below : \A B \in below : <<B, A>> \notin R
  <2> HIDE DEF below, R
  <2> QED BY <1>1, <1>2, WFMin
<1>4. PICK x \in S : A = 0 .. x
  OBVIOUS
<1>5. ASSUME NEW y \in S, y < x PROVE FALSE
  <2>1. 0 .. y \subseteq 0 .. x /\ x \in 0 .. x /\ x \notin 0 .. y
    BY <1>5
  <2>2. <<0 .. y, A>> \in R
    BY <1>4, <2>1, <1>1 DEF StrictSubsetOrdering, FiniteSubsetsOf
  <2> QED BY <1>3, <2>2
<1> QED BY <1>5

(* Induction on sets of numbers.                                            *)
LEMMA AllNats ==
  ASSUME NEW m \in Nat, NEW S, 0 \in S, \A n \in 0 .. m - 1 : n \in S => n + 1 \in S
  PROVE  0 .. m \subseteq S
<1> DEFINE Missing == 0 .. m \ S
<1>1. CASE Missing = {}
  BY <1>1
<1>2. CASE Missing # {}
  <2>0. Missing \subseteq Nat
    OBVIOUS
  <2>1. PICK x \in Missing : \A y \in Missing : x <= y
    <3> HIDE DEF Missing
    <3> QED BY <1>2, <2>0, LeastNat
  <2>2. x # 0 /\ x \in 1 .. m
    BY <2>1
  <2>3. x - 1 \in 0 .. m - 1 /\ x - 1 \in S
    BY <2>1, <2>2
  <2>4. (x - 1) + 1 \in S
    BY <2>3
  <2>5. x \in S
    BY <2>2, <2>4
  <2> QED BY <2>1, <2>5
<1> QED BY <1>1, <1>2

(* A byte of a store lies on one of its pages (120-121, 181).               *)
LEMMA PageOfByte ==
  ASSUME NEW size \in Nat, NEW i \in Nat, i < size
  PROVE  PagesFor(size) \in Nat /\ i \div page_size + 1 \in 1 .. PagesFor(size)
<1> DEFINE q == i \div page_size
           r == size \div page_size
           m == size % page_size
<1>1. /\ q \in Nat /\ r \in Nat /\ m \in Nat /\ page_size \in Nat \ {0}
      /\ page_size * q <= i
      /\ size = page_size * r + m
  BY Numbers
<1>2. PagesFor(size) = r + (IF m > 0 THEN 1 ELSE 0)
  BY DEF PagesFor
<1> HIDE DEF q, r, m
<1>3. q <= r
  <2> SUFFICES ASSUME q > r PROVE FALSE
    BY <1>1
  <2>1. m < page_size
    BY Numbers DEF m
  <2>2. page_size * (r + 1) <= page_size * q
    BY <1>1
  <2>3. page_size * (r + 1) = page_size * r + page_size
    BY <1>1
  <2> QED BY <1>1, <2>1, <2>2, <2>3
<1>4. ASSUME m = 0, q = r PROVE FALSE
  BY <1>1, <1>4
<1> QED BY <1>1, <1>2, <1>3, <1>4 DEF q

(* A store has a natural number of pages (120-121).                         *)
LEMMA PagesForTyped == ASSUME NEW size \in Nat PROVE PagesFor(size) \in Nat
BY Numbers DEF PagesFor

-----------------------------------------------------------------------------
(* Fresh pages: the n lowest of a set of pages, in ascending order *)

(* Every set of pages with n members has n that are below the others.       *)
LEMMA LowestExists ==
  ASSUME NEW S, S \subseteq Page, NEW n \in Nat, n <= Cardinality(S)
  PROVE  \E T \in SUBSET S : Cardinality(T) = n /\ \A x \in T, y \in S \ T : x < y
<1> DEFINE Fine(k) == \E T \in SUBSET S : Cardinality(T) = k /\ \A x \in T, y \in S \ T : x < y
           Good == {k \in Nat : Fine(k)}
<1>1. IsFiniteSet(S) /\ S \subseteq Nat /\ Cardinality(S) \in Nat
  BY Numbers, FS_Subset, FS_CardinalityType
<1>2. 0 \in Good
  <2>1. Cardinality({}) = 0
    BY FS_EmptySet
  <2> QED BY <2>1
<1>3. ASSUME NEW k \in 0 .. n - 1, k \in Good PROVE k + 1 \in Good
  <2>1. PICK T \in SUBSET S : Cardinality(T) = k /\ \A x \in T, y \in S \ T : x < y
    BY <1>3
  <2>2. S \ T # {}
    <3>1. k < Cardinality(S)
      BY <1>1
    <3> QED BY <2>1, <3>1
  <2>3. PICK z \in S \ T : \A y \in S \ T : z <= y
    BY <1>1, <2>2, LeastNat
  <2>4. IsFiniteSet(T)
    BY <1>1, FS_Subset
  <2>5. Cardinality(T \cup {z}) = k + 1
    BY <2>1, <2>3, <2>4, FS_AddElement
  <2>6. ASSUME NEW x \in T \cup {z}, NEW y \in S \ (T \cup {z}) PROVE x < y
    BY <1>1, <2>1, <2>3
  <2>7. T \cup {z} \in SUBSET S
    OBVIOUS
  <2>8. Fine(k + 1)
    BY <2>5, <2>6, <2>7
  <2> QED BY <2>8
<1>4. 0 .. n \subseteq Good
  <2> HIDE DEF Good
  <2> QED BY <1>2, <1>3, AllNats
<1> QED BY <1>4

(* Lowest(n, S), which is chosen, is such a set.                            *)
LEMMA LowestFacts ==
  ASSUME NEW S, S \subseteq Page, NEW n \in Nat, n <= Cardinality(S)
  PROVE  Lowest(n, S) \subseteq S /\ Cardinality(Lowest(n, S)) = n
         /\ \A x \in Lowest(n, S), y \in S \ Lowest(n, S) : x < y
BY LowestExists DEF Lowest

(* How many are below tells the members of a finite set apart.              *)
LEMMA AscendingFacts ==
  ASSUME NEW S, S \subseteq Page
  PROVE  /\ Cardinality(S) \in Nat
         /\ Ascending(S) \in [1 .. Cardinality(S) -> S]
         /\ \A i, j \in 1 .. Cardinality(S) : Ascending(S)[i] = Ascending(S)[j] => i = j
         /\ \A x \in S : \E i \in 1 .. Cardinality(S) : Ascending(S)[i] = x
<1> DEFINE Below(x) == {y \in S : y < x}
           n == Cardinality(S)
<1>1. IsFiniteSet(S) /\ S \subseteq Nat /\ n \in Nat
  BY Numbers, FS_Subset, FS_CardinalityType
<1>2. ASSUME NEW x \in S
      PROVE  /\ IsFiniteSet(Below(x)) /\ Cardinality(Below(x)) \in Nat
             /\ Cardinality(Below(x)) < n
  <2>1. IsFiniteSet(Below(x)) /\ Cardinality(Below(x)) \in Nat
    BY <1>1, FS_Subset, FS_CardinalityType
  <2>2. x \notin Below(x) /\ Below(x) \cup {x} \in SUBSET S
    BY <1>1
  <2>3. Cardinality(Below(x) \cup {x}) = Cardinality(Below(x)) + 1
    BY <2>1, <2>2, FS_AddElement
  <2>4. Cardinality(Below(x) \cup {x}) <= n
    BY <1>1, <2>2, FS_Subset
  <2> QED BY <1>1, <2>1, <2>3, <2>4
<1>3. ASSUME NEW x \in S, NEW z \in S, x < z PROVE Cardinality(Below(x)) < Cardinality(Below(z))
  <2>1. x \in Nat /\ z \in Nat /\ x \notin Below(x) /\ x \in Below(z)
    BY <1>1, <1>3
  <2>2. ASSUME NEW a \in Below(x) PROVE a \in Below(z)
    <3>1. a \in S /\ a < x
      BY <2>2
    <3>2. a < z
      BY <1>1, <1>3, <2>1, <3>1
    <3> QED BY <3>1, <3>2
  <2>3. Below(x) \cup {x} \in SUBSET Below(z)
    <3> HIDE DEF Below
    <3> QED BY <2>1, <2>2
  <2>4. Cardinality(Below(x) \cup {x}) = Cardinality(Below(x)) + 1
    BY <1>2, <2>1, FS_AddElement
  <2>5. Cardinality(Below(x) \cup {x}) <= Cardinality(Below(z))
    BY <1>2, <2>3, FS_Subset
  <2> QED BY <1>2, <2>4, <2>5
<1>4. ASSUME NEW i \in 1 .. n PROVE \E x \in S : Cardinality(Below(x)) = i - 1
  <2>1. i - 1 \in Nat /\ i - 1 <= n /\ i - 1 < n
    BY <1>1
  <2>2. PICK T \in SUBSET S : Cardinality(T) = i - 1 /\ \A x \in T, y \in S \ T : x < y
    BY <2>1, LowestExists
  <2>3. S \ T # {}
    <3>1. T # S
      BY <1>1, <2>1, <2>2
    <3> QED BY <3>1
  <2>4. PICK z \in S \ T : \A y \in S \ T : z <= y
    BY <1>1, <2>3, LeastNat
  <2>5. Below(z) = T
    <3>1. ASSUME NEW y \in S PROVE y < z <=> y \in T
      BY <1>1, <2>2, <2>4
    <3> QED BY <3>1
  <2> QED BY <2>2, <2>4, <2>5
<1>5. ASSUME NEW i \in 1 .. n
      PROVE  Ascending(S)[i] \in S /\ Cardinality(Below(Ascending(S)[i])) = i - 1
  BY <1>4 DEF Ascending
<1>6. Ascending(S) \in [1 .. n -> S]
  BY <1>5 DEF Ascending
<1>7. ASSUME NEW i \in 1 .. n, NEW j \in 1 .. n, Ascending(S)[i] = Ascending(S)[j] PROVE i = j
  <2>1. i - 1 = j - 1
    BY <1>5, <1>7
  <2> QED BY <1>1, <2>1
<1>8. ASSUME NEW x \in S PROVE \E i \in 1 .. n : Ascending(S)[i] = x
  <2> DEFINE i == Cardinality(Below(x)) + 1
             a == Ascending(S)[i]
  <2>1. i \in 1 .. n /\ i - 1 = Cardinality(Below(x))
    BY <1>1, <1>2
  <2>2. a \in S /\ Cardinality(Below(a)) = Cardinality(Below(x))
    BY <1>5, <2>1
  <2> HIDE DEF a, i
  <2>3. a = x
    <3>1. ~(a < x) /\ ~(x < a)
      BY <1>2, <1>3, <2>2
    <3> QED BY <1>1, <2>2, <3>1
  <2> QED BY <2>1, <2>3 DEF a
<1> QED BY <1>1, <1>6, <1>7, <1>8
-----------------------------------------------------------------------------
(* Walks along the table *)

IsWalk(f, h, nx) ==
  /\ f \in [0 .. MaxElements -> Element \cup {NULL}]
  /\ f[0] = h
  /\ \A n \in 1 .. MaxElements : f[n] = IF f[n - 1] = NULL THEN NULL ELSE nx[f[n - 1]]

Successor == [e \in Element |-> elem[e].next]

(* From each head there is a walk along next.                               *)
LEMMA WalkExists ==
  ASSUME NEW h \in Element \cup {NULL}, NEW nx \in [Element -> Element \cup {NULL}]
  PROVE  \E f : IsWalk(f, h, nx)
<1> DEFINE Fine(k) == \E f \in [0 .. k -> Element \cup {NULL}] :
             f[0] = h /\ \A n \in 1 .. k : f[n] = IF f[n - 1] = NULL THEN NULL ELSE nx[f[n - 1]]
           Good == {k \in Nat : Fine(k)}
<1>1. 0 \in Good
  <2>1. [n \in 0 .. 0 |-> h] \in [0 .. 0 -> Element \cup {NULL}]
    OBVIOUS
  <2>2. [n \in 0 .. 0 |-> h][0] = h /\ 1 .. 0 = {}
    OBVIOUS
  <2>3. Fine(0)
    BY <2>1, <2>2
  <2> QED BY <2>3
<1>2. ASSUME NEW k \in 0 .. MaxElements - 1, k \in Good PROVE k + 1 \in Good
  <2>1. PICK f \in [0 .. k -> Element \cup {NULL}] :
          f[0] = h /\ \A n \in 1 .. k : f[n] = IF f[n - 1] = NULL THEN NULL ELSE nx[f[n - 1]]
    BY <1>2
  <2> DEFINE x == IF f[k] = NULL THEN NULL ELSE nx[f[k]]
             g == [n \in 0 .. k + 1 |-> IF n = k + 1 THEN x ELSE f[n]]
  <2>2. k \in Nat /\ k \in 0 .. k /\ x \in Element \cup {NULL}
    <3>1. k \in Nat /\ k \in 0 .. k
      BY Numbers
    <3>2. f[k] \in Element \cup {NULL}
      BY <3>1
    <3> QED BY <3>1, <3>2
  <2>3. g \in [0 .. k + 1 -> Element \cup {NULL}]
    <3>1. ASSUME NEW n \in 0 .. k + 1, n # k + 1 PROVE n \in 0 .. k
      BY <2>2, <3>1
    <3> HIDE DEF x
    <3> QED BY <2>2, <3>1
  <2>4. g[0] = h
    BY <2>1, <2>2
  <2>5. ASSUME NEW n \in 1 .. k + 1
        PROVE  g[n] = IF g[n - 1] = NULL THEN NULL ELSE nx[g[n - 1]]
    <3>1. CASE n = k + 1
      <4>1. g[n] = x /\ g[n - 1] = f[k]
        BY <2>2, <3>1
      <4> QED BY <4>1
    <3>2. CASE n # k + 1
      <4>1. n \in 1 .. k /\ g[n] = f[n] /\ g[n - 1] = f[n - 1]
        BY <2>2, <3>2
      <4> QED BY <2>1, <4>1
    <3> QED BY <3>1, <3>2
  <2> HIDE DEF g
  <2>6. Fine(k + 1)
    BY <2>3, <2>4, <2>5
  <2> QED BY <2>2, <2>6
<1>3. 0 .. MaxElements \subseteq Good
  <2> HIDE DEF Good
  <2> QED BY <1>1, <1>2, AllNats, Numbers
<1>4. Fine(MaxElements)
  <2>1. MaxElements \in Good
    <3> HIDE DEF Good
    <3> QED BY <1>3, Numbers
  <2> HIDE DEF Fine
  <2> QED BY <2>1
<1> QED BY <1>4 DEF IsWalk

(* Walk(b) is what its definition says.                                     *)
LEMMA WalkIsWalk ==
  ASSUME Typed, NEW b \in Bucket
  PROVE  IsWalk(Walk(b), hash_table[b], Successor)
<1>1. hash_table[b] \in Element \cup {NULL} /\ Successor \in [Element -> Element \cup {NULL}]
  BY DEF Typed, Elements, Successor
<1>2. PICK f : IsWalk(f, hash_table[b], Successor)
  BY <1>1, WalkExists
<1> DEFINE Eq(g) == g = [n \in 0 .. MaxElements |->
             IF n = 0 THEN hash_table[b]
             ELSE IF g[n - 1] = NULL THEN NULL ELSE elem[g[n - 1]].next]
<1>3. Eq(f)
  <2>1. f = [n \in 0 .. MaxElements |-> f[n]]
    BY <1>2 DEF IsWalk
  <2>2. ASSUME NEW n \in 0 .. MaxElements
        PROVE  f[n] = IF n = 0 THEN hash_table[b]
                      ELSE IF f[n - 1] = NULL THEN NULL ELSE elem[f[n - 1]].next
    <3>1. CASE n = 0
      BY <1>2, <3>1 DEF IsWalk
    <3>2. CASE n # 0
      <4>1. n \in 1 .. MaxElements /\ n - 1 \in 0 .. MaxElements
        BY <3>2, Numbers
      <4>2. f[n - 1] \in Element \cup {NULL}
        BY <1>2, <4>1 DEF IsWalk
      <4>3. f[n - 1] # NULL => Successor[f[n - 1]] = elem[f[n - 1]].next
        BY <4>2 DEF Successor
      <4> QED BY <1>2, <3>2, <4>1, <4>3 DEF IsWalk
    <3> QED BY <3>1, <3>2
  <2> QED BY <2>1, <2>2
<1>4. Eq(Walk(b))
  BY <1>3 DEF Walk
<1> DEFINE w == Walk(b)
<1>5. w = [n \in 0 .. MaxElements |->
             IF n = 0 THEN hash_table[b]
             ELSE IF w[n - 1] = NULL THEN NULL ELSE elem[w[n - 1]].next]
  BY <1>4
<1> HIDE DEF w
<1>6. w[0] = hash_table[b]
  BY <1>5, Numbers
<1>7. ASSUME NEW n \in 1 .. MaxElements
      PROVE  n \in 0 .. MaxElements /\ n # 0
             /\ w[n] = IF w[n - 1] = NULL THEN NULL ELSE elem[w[n - 1]].next
  BY <1>5, Numbers
<1> DEFINE OnElements == {n \in 0 .. MaxElements : w[n] \in Element \cup {NULL}}
<1>8. 0 .. MaxElements \subseteq OnElements
  <2>1. 0 \in OnElements
    BY <1>1, <1>6, Numbers
  <2>2. ASSUME NEW n \in 0 .. MaxElements - 1, n \in OnElements PROVE n + 1 \in OnElements
    <3>1. n + 1 \in 1 .. MaxElements /\ (n + 1) - 1 = n
      BY Numbers
    <3>2. w[n + 1] = IF w[n] = NULL THEN NULL ELSE elem[w[n]].next
      BY <1>7, <3>1
    <3>3. w[n] \in Element \cup {NULL}
      BY <2>2
    <3>4. w[n] \in Element => elem[w[n]].next \in Element \cup {NULL}
      BY DEF Typed, Elements
    <3> QED BY <3>1, <3>2, <3>3, <3>4
  <2> HIDE DEF OnElements
  <2> QED BY <2>1, <2>2, AllNats, Numbers
<1>9. w \in [0 .. MaxElements -> Element \cup {NULL}]
  BY <1>5, <1>8
<1>10. ASSUME NEW n \in 1 .. MaxElements
       PROVE  w[n] = IF w[n - 1] = NULL THEN NULL ELSE Successor[w[n - 1]]
  <2>1. n - 1 \in 0 .. MaxElements
    BY Numbers
  <2>2. w[n - 1] # NULL => Successor[w[n - 1]] = elem[w[n - 1]].next
    BY <1>9, <2>1 DEF Successor
  <2> QED BY <1>7, <2>2
<1> QED BY <1>6, <1>9, <1>10 DEF IsWalk, w

(* A chain is the elements of its walk.                                     *)
LEMMA ChainTyped ==
  ASSUME Typed, NEW b \in Bucket
  PROVE  Chain(b) = {Walk(b)[n] : n \in 0 .. MaxElements} \ {NULL} /\ Chain(b) \subseteq Element
<1>1. Walk(b) \in [0 .. MaxElements -> Element \cup {NULL}]
  BY WalkIsWalk DEF IsWalk
<1>2. Chain(b) = {Walk(b)[n] : n \in 0 .. MaxElements} \ {NULL}
  BY DEF Chain
<1> QED BY <1>1, <1>2

(* The two facts in one, for the current state ...                          *)
LEMMA WalksAndChains ==
  Typed => \A b \in Bucket :
    /\ IsWalk(Walk(b), hash_table[b], Successor)
    /\ Chain(b) = {Walk(b)[n] : n \in 0 .. MaxElements} \ {NULL}
BY WalkIsWalk, ChainTyped

(* ... and for the next.                                                    *)
LEMMA WalksAndChainsAfter ==
  (Typed => \A b \in Bucket :
    /\ IsWalk(Walk(b), hash_table[b], Successor)
    /\ Chain(b) = {Walk(b)[n] : n \in 0 .. MaxElements} \ {NULL})'
BY WalksAndChains, PTL

(* A chain stays in its bucket.                                             *)
LEMMA ChainInBucket ==
  ASSUME Typed, Heads, Nexts, NEW b \in Bucket
  PROVE  \A e \in Chain(b) : InBucket(e, b)
<1> DEFINE w == Walk(b)
           Good == {n \in 0 .. MaxElements : w[n] # NULL => InBucket(w[n], b)}
<1>1. IsWalk(w, hash_table[b], Successor)
  BY WalkIsWalk
<1> HIDE DEF w
<1>2. 0 \in Good
  BY <1>1, Numbers DEF IsWalk, Heads, Bucket
<1>3. ASSUME NEW n \in 0 .. MaxElements - 1, n \in Good PROVE n + 1 \in Good
  <2>1. n + 1 \in 1 .. MaxElements /\ (n + 1) - 1 = n /\ n \in 0 .. MaxElements
        /\ n + 1 \in 0 .. MaxElements
    BY Numbers
  <2>2. w[n + 1] = IF w[n] = NULL THEN NULL ELSE Successor[w[n]]
    BY <1>1, <2>1 DEF IsWalk
  <2>3. CASE w[n] = NULL
    BY <2>1, <2>2, <2>3
  <2>4. CASE w[n] # NULL
    <3>1. InBucket(w[n], b) /\ w[n] \in Element
      BY <1>1, <1>3, <2>1, <2>4 DEF IsWalk
    <3>2. w[n + 1] = elem[w[n]].next
      BY <2>2, <2>4, <3>1 DEF Successor
    <3> QED BY <2>1, <3>1, <3>2 DEF Nexts, InBucket
  <2> QED BY <2>3, <2>4
<1>4. 0 .. MaxElements \subseteq Good
  <2> HIDE DEF Good
  <2> QED BY <1>2, <1>3, AllNats, Numbers
<1> QED BY <1>4, ChainTyped DEF w

(* An element of a chain is its head, or follows another element of it.     *)
LEMMA ChainBefore ==
  ASSUME Typed, NEW b \in Bucket, NEW e \in Chain(b), e # hash_table[b]
  PROVE  \E f \in Chain(b) : f # e /\ elem[f].next = e
<1> DEFINE w == Walk(b)
           At == {n \in 0 .. MaxElements : w[n] = e}
<1>1. IsWalk(w, hash_table[b], Successor) /\ e # NULL /\ At # {} /\ At \subseteq Nat
  BY WalkIsWalk, ChainTyped
<1> HIDE DEF w
<1>2. PICK n \in At : \A m \in At : n <= m
  <2> HIDE DEF At
  <2> QED BY <1>1, LeastNat
<1>3. n # 0
  BY <1>1, <1>2 DEF IsWalk
<1>4. n \in 1 .. MaxElements /\ n - 1 \in 0 .. MaxElements /\ n - 1 \notin At
  BY <1>2, <1>3, Numbers
<1>5. w[n] = e /\ w[n] = IF w[n - 1] = NULL THEN NULL ELSE Successor[w[n - 1]]
  BY <1>1, <1>2, <1>4 DEF IsWalk
<1>6. w[n - 1] \in Element /\ w[n - 1] # e /\ w[n - 1] # NULL
  BY <1>1, <1>4, <1>5 DEF IsWalk
<1>7. elem[w[n - 1]].next = e
  BY <1>5, <1>6 DEF Successor
<1>8. w[n - 1] \in Chain(b)
  BY <1>4, <1>6, ChainTyped DEF w
<1> QED BY <1>6, <1>7, <1>8

(* A chain is not affected by what happens elsewhere.                       *)
LEMMA ChainKept ==
  ASSUME Typed, Typed', NEW b \in Bucket, hash_table'[b] = hash_table[b],
         \A e \in Chain(b) : elem'[e].next = elem[e].next
  PROVE  Chain(b)' = Chain(b)
<1> DEFINE w == Walk(b)
           v == Walk(b)'
           Good == {n \in 0 .. MaxElements : v[n] = w[n]}
<1>1. IsWalk(w, hash_table[b], Successor) /\ IsWalk(v, hash_table'[b], Successor')
  BY WalksAndChainsAfter, WalkIsWalk
<1>2. Chain(b) = {w[n] : n \in 0 .. MaxElements} \ {NULL}
      /\ Chain(b)' = {v[n] : n \in 0 .. MaxElements} \ {NULL}
  BY WalksAndChainsAfter, ChainTyped
<1> HIDE DEF w, v
<1>3. 0 \in Good
  BY <1>1, Numbers DEF IsWalk
<1>4. ASSUME NEW n \in 0 .. MaxElements - 1, n \in Good PROVE n + 1 \in Good
  <2>1. n + 1 \in 1 .. MaxElements /\ (n + 1) - 1 = n /\ n \in 0 .. MaxElements
        /\ n + 1 \in 0 .. MaxElements
    BY Numbers
  <2>2. w[n + 1] = IF w[n] = NULL THEN NULL ELSE Successor[w[n]]
    BY <1>1, <2>1 DEF IsWalk
  <2>3. v[n + 1] = IF v[n] = NULL THEN NULL ELSE Successor'[v[n]]
    BY <1>1, <2>1 DEF IsWalk
  <2>4. v[n] = w[n] /\ w[n] \in Element \cup {NULL}
    BY <1>1, <1>4, <2>1 DEF IsWalk
  <2>5. w[n] # NULL => Successor[w[n]] = elem[w[n]].next /\ Successor'[w[n]] = elem'[w[n]].next
    BY <2>4 DEF Successor
  <2>6. w[n] # NULL => w[n] \in Chain(b)
    BY <1>2, <2>1
  <2> QED BY <2>1, <2>2, <2>3, <2>4, <2>5, <2>6
<1>5. 0 .. MaxElements \subseteq Good
  <2> HIDE DEF Good
  <2> QED BY <1>3, <1>4, AllNats, Numbers
<1> QED BY <1>2, <1>5

(* What hash_search finds is the thread's own.                              *)
LEMMA Found ==
  ASSUME Typed, NEW t \in Thread, hash_search(t) # NULL
  PROVE  /\ hash_search(t) \in Entries(t)
         /\ hash_search(t) \in Chain(Hash(t)) /\ hash_search(t) \in Element
         /\ elem[hash_search(t)].state = "live" /\ elem[hash_search(t)].tid = t
<1>1. Hash(t) \in Bucket
  BY HashTyped
<1>2. hash_search(t) \in Entries(t)
  BY DEF hash_search
<1> QED BY <1>1, <1>2, ChainTyped DEF Entries
-----------------------------------------------------------------------------
(* Consequences of the invariant *)

(* A call is in progress exactly when it has left idle.                     *)
LEMMA BusyFacts ==
  ASSUME Typed, NEW t \in Thread
  PROVE  /\ t \in Busy <=> call[t].at # "idle"
         /\ call[t] \in CallRecords
BY DEF Typed, Busy, CallRecords, Labels

(* Calls in progress work on elements of their own.                         *)
LEMMA OwnElements ==
  ASSUME IInv, NEW t \in Busy, NEW u \in Busy, t # u
  PROVE  /\ call[t].elem # call[u].elem
         /\ call[t].at = "share" => call[t].src # call[u].elem
         /\ call[t].at = "share" /\ call[u].at = "share" => call[t].src # call[u].src
<1>1. t \in Thread /\ u \in Thread /\ t # NoThread /\ u # NoThread
  BY Numbers DEF Busy
<1>2. ApartFrom(t, u) /\ t \in Parties(t) /\ u \in Parties(u)
  BY <1>1 DEF IInv, CallsOK, Parties
<1>3. OwnedBy(call[t].elem, t) /\ OwnedBy(call[u].elem, u)
  BY DEF IInv, CallsOK
<1>4. call[t].at = "share" => OwnedBy(call[t].src, call[t].peer) /\ call[t].peer \in Parties(t)
  BY <1>1, Numbers DEF IInv, StoresOK, CloneFor, Parties
<1>5. call[u].at = "share" => OwnedBy(call[u].src, call[u].peer) /\ call[u].peer \in Parties(u)
  BY <1>1, Numbers DEF IInv, StoresOK, CloneFor, Parties
<1>6. \A s \in Parties(t), v \in Parties(u) : s # v
  BY <1>2 DEF ApartFrom
<1> QED BY <1>2, <1>3, <1>4, <1>5, <1>6 DEF OwnedBy

(* The owner of the store that is cloned makes no call.                     *)
LEMMA SourceIdle ==
  ASSUME IInv, NEW t \in Thread, call[t].at = "share"
  PROVE  /\ call[t].src \in Element /\ call[t].src # call[t].elem
         /\ call[call[t].peer] = Idle /\ Kept(call[t].src) = PagesOf(call[t].src)
<1> DEFINE s == call[t].src
           o == call[t].peer
<1>1. t \in Busy /\ OwnedBy(call[t].elem, t) /\ o \in Thread \ {t} /\ OwnedBy(s, o)
  BY BusyFacts DEF IInv, CallsOK, StoresOK, CloneFor
<1>2. o \in Parties(t) /\ o \in Parties(o)
  BY <1>1, Numbers DEF Parties
<1>3. o \notin Busy
  <2> SUFFICES ASSUME o \in Busy PROVE FALSE
    OBVIOUS
  <2>1. ApartFrom(t, o)
    BY <1>1 DEF IInv, CallsOK
  <2> QED BY <1>2, <2>1 DEF ApartFrom
<1>4. call[o] = Idle
  BY <1>1, <1>3, BusyFacts DEF IInv, CallsOK, IdleFor
<1>5. elem[s].state = "live" /\ elem[s].tid = o /\ s \in Element
  BY <1>1 DEF OwnedBy
<1>6. Idle.elem # s
  BY <1>5, Numbers DEF Idle
<1>7. Kept(s) = PagesOf(s)
  BY <1>4, <1>5, <1>6 DEF Kept
<1> QED BY <1>1, <1>4, <1>5, <1>7 DEF OwnedBy

(* The pages of an element of a call, from its label.                       *)
LEMMA KeptByLabel ==
  ASSUME IInv, NEW t \in Busy
  PROVE  LET e == call[t].elem
         IN  /\ call[t].at \notin {"release", "unlink", "drop"} => Kept(e) = PagesOf(e)
             /\ call[t].at = "drop" => Kept(e) = PagesOf(e) \cup {call[t].main_page}
             /\ call[t].at = "unlink" => Kept(e) = {}
             /\ call[t].at = "release" =>
                  Kept(e) = {elem[e].pages[i] : i \in {j \in DOMAIN elem[e].pages : j >= call[t].idx}}
<1> DEFINE e == call[t].elem
<1>1. OwnedBy(e, t)
  BY DEF IInv, CallsOK
<1>2. elem[e].state = "live" /\ elem[e].tid = t
  BY <1>1 DEF OwnedBy
<1> QED BY <1>2 DEF Kept

(* The pages of an element are pages.                                       *)
LEMMA PagesTyped ==
  ASSUME Typed, NEW e \in Element
  PROVE  /\ elem[e].pages \in Seq(Page) /\ Len(elem[e].pages) \in Nat
         /\ DOMAIN elem[e].pages = 1 .. Len(elem[e].pages)
         /\ \A i \in DOMAIN elem[e].pages : elem[e].pages[i] \in Page
         /\ PagesOf(e) \subseteq Page
         /\ elem[e].size \in Nat
<1>1. elem[e].pages \in Seq(Page) /\ elem[e].size \in Nat
  BY DEF Typed, Elements
<1> QED BY <1>1 DEF PagesOf

(* The elements that account for a page are finitely many.                  *)
LEMMA RefsFacts ==
  ASSUME NEW p
  PROVE  Refs(p) \subseteq Element /\ IsFiniteSet(Refs(p)) /\ Cardinality(Refs(p)) \in Nat
<1>1. Refs(p) \subseteq Element
  BY DEF Refs
<1> QED BY <1>1, Numbers, FS_Subset, FS_CardinalityType

(* A page some element accounts for is mapped and counted.                  *)
LEMMA KeptCounted ==
  ASSUME IInv, NEW e \in Element, NEW p \in Page, p \in Kept(e)
  PROVE  /\ e \in Refs(p) /\ page[p].mapped /\ ~page[p].lost
         /\ page[p].ref_count = Cardinality(Refs(p))
<1>1. e \in Refs(p)
  BY DEF Refs
<1>2. CountedAt(p)
  BY DEF IInv, PagesOK
<1> QED BY <1>1, <1>2 DEF CountedAt

(* What a call touches some element accounts for.                           *)
LEMMA TouchedFacts ==
  ASSUME IInv, NEW t \in Thread
  PROVE  /\ \A p \in Touched(t) : \E e \in Element : p \in Kept(e)
         /\ call[t].at = "idle" => Touched(t) = {}
<1>1. CASE call[t].at = "share"
  BY <1>1, SourceIdle DEF Touched
<1>2. CASE call[t].at \in Accessing \cup Destroying
  <2>1. t \in Busy
    BY <1>2, BusyFacts DEF IInv, Accessing, Destroying
  <2>2. call[t].elem \in Element
    BY <2>1 DEF IInv, CallsOK, OwnedBy
  <2> QED BY <1>2, <2>1, <2>2 DEF Touched, Accessing, Destroying
<1>3. CASE ~(call[t].at = "share") /\ ~(call[t].at \in Accessing \cup Destroying)
  BY <1>3 DEF Touched
<1> QED BY <1>1, <1>2, <1>3 DEF Accessing, Destroying

(* So it is mapped.                                                         *)
LEMMA TouchedMapped ==
  ASSUME IInv, NEW t \in Thread, NEW p \in Touched(t), p \in Page
  PROVE  page[p].mapped
BY TouchedFacts, KeptCounted

(* The page tls_write and tls_read are at is one of the store's.            *)
LEMMA WorkingFacts ==
  ASSUME IInv, NEW t \in Thread, call[t].at \in {"write", "copy", "drop", "put", "read"},
         call[t].idx < call[t].upto
  PROVE  /\ call[t].idx \div page_size + 1 \in DOMAIN elem[call[t].elem].pages
         /\ Working(t) \in Page /\ Working(t) \in PagesOf(call[t].elem)
         /\ PageOffset(t) \in 0 .. page_size - 1
<1> DEFINE e == call[t].elem
<1>1. t \in Busy /\ call[t] \in CallRecords
  BY BusyFacts DEF IInv
<1>2. e \in Element /\ elem[e].state = "live"
  BY <1>1 DEF IInv, CallsOK, OwnedBy
<1>3. e \notin Unfinished
  <2> SUFFICES ASSUME NEW u \in Thread, call[u].at = "share", call[u].elem = e PROVE FALSE
    BY DEF Unfinished
  <2>1. u \in Busy /\ u # t
    BY BusyFacts DEF IInv
  <2> QED BY <1>1, <2>1, OwnElements
<1>4. Len(elem[e].pages) = PagesFor(elem[e].size) /\ elem[e].size \in Nat
      /\ DOMAIN elem[e].pages = 1 .. Len(elem[e].pages)
      /\ \A i \in DOMAIN elem[e].pages : elem[e].pages[i] \in Page
  BY <1>2, <1>3, PagesTyped DEF IInv, StoresOK, StoreAt
<1>5. call[t].upto <= elem[e].size /\ call[t].idx \in Nat /\ call[t].upto \in Nat
  BY <1>1 DEF IInv, StoresOK, WithinFor, CallRecords, Accessing
<1>6. call[t].idx < elem[e].size
  BY <1>4, <1>5
<1>7. call[t].idx \div page_size + 1 \in DOMAIN elem[e].pages
  BY <1>4, <1>5, <1>6, PageOfByte
<1>8. PageOffset(t) \in 0 .. page_size - 1
  BY <1>5, Numbers DEF PageOffset
<1> QED BY <1>4, <1>7, <1>8 DEF Working, PagesOf
-----------------------------------------------------------------------------
(* What a step of thread t leaves alone *)

OnlyCall(t) == \A u \in Thread \ {t} : call'[u] = call[u]

(* The rest of an element than its link.                                    *)
SameStore(e) ==
  /\ elem'[e].state = elem[e].state /\ elem'[e].tid = elem[e].tid
  /\ elem'[e].size = elem[e].size /\ elem'[e].pages = elem[e].pages

(* A step of one call keeps CallsOK if the call stays apart from the others. *)
LEMMA CallsStep ==
  ASSUME IInv, NEW t \in Thread, OnlyCall(t), call' \in [Thread -> CallRecords], IdleFor(t)',
         \A u \in Busy \ {t} : SameStore(call[u].elem),
         call'[t].at # "idle" =>
           /\ OwnedBy(call[t].elem, t)'
           /\ \A u \in Busy \ {t} : ApartFrom(t, u)'
  PROVE  CallsOK'
<1>1. ASSUME NEW u \in Thread PROVE IdleFor(u)'
  BY DEF IInv, CallsOK, IdleFor, OnlyCall
<1>2. \A u \in Thread : u \in Busy' <=> call'[u].at # "idle"
  BY DEF Busy, CallRecords, Labels
<1>3. \A u \in Thread \ {t} : u \in Busy' <=> u \in Busy
  BY <1>2, BusyFacts DEF OnlyCall, IInv
<1>4. ASSUME NEW u \in Busy', NEW v \in Busy', u # v PROVE ApartFrom(u, v)'
  <2>0. u \in Thread /\ v \in Thread
    BY DEF Busy
  <2>1. CASE u = t
    BY <1>2, <1>3, <1>4, <2>0, <2>1
  <2>2. CASE v = t
    <3>1. ApartFrom(v, u)'
      BY <1>2, <1>3, <1>4, <2>0, <2>2
    <3> QED BY <3>1 DEF ApartFrom
  <2>3. CASE u # t /\ v # t
    <3>1. ApartFrom(u, v)
      BY <1>3, <1>4, <2>0, <2>3 DEF IInv, CallsOK
    <3>2. Parties(u)' = Parties(u) /\ Parties(v)' = Parties(v)
      BY <2>0, <2>3 DEF Parties, OnlyCall
    <3> QED BY <3>1, <3>2 DEF ApartFrom, Hash
  <2> QED BY <2>1, <2>2, <2>3
<1>5. ASSUME NEW u \in Busy' PROVE OwnedBy(call[u].elem, u)'
  <2>0. u \in Thread
    BY DEF Busy
  <2>1. CASE u = t
    BY <1>2, <1>5, <2>0, <2>1
  <2>2. CASE u # t
    BY <1>3, <1>5, <2>0, <2>2 DEF IInv, CallsOK, OwnedBy, OnlyCall, SameStore
  <2> QED BY <2>1, <2>2
<1> QED BY <1>1, <1>4, <1>5 DEF CallsOK

(* A call that goes on stays apart from the others.                         *)
LEMMA StaysApart ==
  ASSUME IInv, NEW t \in Busy, OnlyCall(t), call'[t].peer \in {call[t].peer, NoThread},
         NEW u \in Busy \ {t}
  PROVE  ApartFrom(t, u)'
<1>1. ApartFrom(t, u)
  BY DEF IInv, CallsOK
<1>2. Parties(t)' \subseteq Parties(t) /\ Parties(u)' = Parties(u)
  BY DEF Parties, OnlyCall, Busy
<1> QED BY <1>1, <1>2 DEF ApartFrom, Hash

(* A call that starts is on buckets no other call is on.                    *)
LEMMA StartsApart ==
  ASSUME IInv, CallsApart, NEW t \in Thread, NEW S, MayCall(t, S), OnlyCall(t),
         Parties(t)' \subseteq S,
         NEW u \in Busy \ {t}
  PROVE  ApartFrom(t, u)'
<1>1. \A s \in S, v \in Parties(u) : Hash(s) # Hash(v)
  BY DEF MayCall, CallsApart
<1>2. Parties(u)' = Parties(u)
  BY DEF Parties, OnlyCall, Busy
<1> QED BY <1>1, <1>2 DEF ApartFrom, Hash

(* A step that follows the table but does not write it keeps TableOK.       *)
LEMMA TableStep ==
  ASSUME IInv, Typed', NEW t \in Thread, OnlyCall(t), hash_table' = hash_table,
         \A e \in Element : /\ elem'[e].state = "unused" <=> elem[e].state = "unused"
                            /\ elem'[e].tid = elem[e].tid /\ elem'[e].next = elem[e].next,
         call[t].at # "insert",
         call'[t].at \in Building =>
           call[t].at \in Building /\ call'[t].elem = call[t].elem,
         call'[t].at \in Destroying => call'[t].elem \in Chain(Hash(t))
  PROVE  TableOK'
<1>1. \A e, b : InBucket(e, b)' <=> InBucket(e, b)
  BY DEF InBucket, Hash
<1>2. Tids' /\ Heads' /\ Nexts' /\ OneBefore'
  BY <1>1 DEF IInv, TableOK, Tids, Heads, Nexts, OneBefore, Hash
<1>3. HeadsFirst'
  <2> SUFFICES ASSUME NEW e \in Element, NEW b \in Bucket,
                      hash_table[b] = elem[e].next, elem[e].next # NULL
               PROVE  \E u \in Thread : call'[u].at = "insert" /\ call'[u].elem = e
    BY DEF HeadsFirst
  <2>1. PICK u \in Thread : call[u].at = "insert" /\ call[u].elem = e
    BY DEF IInv, TableOK, HeadsFirst
  <2> QED BY <2>1 DEF OnlyCall
<1>4. ASSUME NEW u \in Thread PROVE NewFor(u)'
  <2>1. CASE u = t
    BY <2>1 DEF IInv, TableOK, NewFor
  <2>2. CASE u # t
    BY <2>2 DEF IInv, TableOK, NewFor, OnlyCall
  <2> QED BY <2>1, <2>2
<1>5. ASSUME NEW u \in Thread PROVE OldFor(u)'
  <2>1. Hash(u) \in Bucket
    BY HashTyped
  <2>2. Chain(Hash(u)) \subseteq Element
    BY <2>1, ChainTyped DEF IInv
  <2>3. Chain(Hash(u))' = Chain(Hash(u))
    <3>1. \A b \in Bucket : Chain(b) \subseteq Element => Chain(b)' = Chain(b)
      BY ChainKept DEF IInv
    <3> QED BY <2>1, <2>2, <3>1
  <2>4. CASE u = t
    BY <2>3, <2>4 DEF OldFor
  <2>5. CASE u # t
    BY <2>3, <2>5 DEF IInv, TableOK, OldFor, OnlyCall
  <2> QED BY <2>4, <2>5
<1> QED BY <1>2, <1>3, <1>4, <1>5 DEF TableOK

(* What the other calls rely on in their stores.                            *)
LEMMA OthersStores ==
  ASSUME IInv, NEW t \in Thread, OnlyCall(t),
         \A u \in Busy \ {t} : /\ SameStore(call[u].elem)
                               /\ call[u].at = "share" => SameStore(call[u].src)
  PROVE  \A u \in Thread \ {t} : CloneFor(u)' /\ WithinFor(u)'
<1> SUFFICES ASSUME NEW u \in Thread \ {t} PROVE CloneFor(u)' /\ WithinFor(u)'
  OBVIOUS
<1>1. CASE u \in Busy
  <2>1. call'[u] = call[u] /\ SameStore(call[u].elem)
        /\ (call[u].at = "share" => SameStore(call[u].src))
    BY <1>1 DEF OnlyCall
  <2>2. CloneFor(u) /\ WithinFor(u)
    BY DEF IInv, StoresOK
  <2>3. CloneFor(u)'
    BY <2>1, <2>2 DEF CloneFor, SameStore, OwnedBy
  <2>4. WithinFor(u)'
    BY <2>1, <2>2 DEF WithinFor, SameStore
  <2> QED BY <2>3, <2>4
<1>2. CASE u \notin Busy
  <2>1. call'[u].at = "idle"
    BY <1>2, BusyFacts DEF OnlyCall, IInv
  <2> QED BY <2>1 DEF CloneFor, WithinFor, Accessing
<1> QED BY <1>1, <1>2

(* A step that leaves the pages of live stores alone keeps StoresOK.        *)
LEMMA StoresStep ==
  ASSUME IInv, NEW t \in Thread, OnlyCall(t),
         \A e \in Element : elem'[e].state = "live" => SameStore(e),
         \A u \in Busy \ {t} : /\ SameStore(call[u].elem)
                               /\ call[u].at = "share" => SameStore(call[u].src),
         call[t].at # "share", call'[t].at # "share", WithinFor(t)'
  PROVE  StoresOK'
<1>1. Unfinished' = Unfinished
  BY DEF Unfinished, OnlyCall
<1>2. ASSUME NEW e \in Element PROVE StoreAt(e)'
  BY <1>1 DEF IInv, StoresOK, StoreAt, SameStore, PagesFor
<1>3. \A u \in Thread \ {t} : CloneFor(u)' /\ WithinFor(u)'
  BY OthersStores
<1>4. CloneFor(t)'
  BY DEF CloneFor
<1> QED BY <1>2, <1>3, <1>4 DEF StoresOK

(* A step changes counts and protection within a zone no other call touches. *)
LEMMA PagesStep ==
  ASSUME IInv, NEW t \in Thread, NEW Z, OnlyCall(t),
         \A u \in Thread \ {t} : Touched(u)' = Touched(u) /\ Z \cap Touched(u) = {},
         \A u \in Busy \ {t} : SameStore(call[u].elem),
         Touched(t)' \subseteq Z,
         \A p \in Touched(t) \ Z : ~page'[p].open,
         \A p \in Page \ Z :
           /\ page'[p].mapped = page[p].mapped /\ page'[p].lost = page[p].lost
           /\ page'[p].ref_count = page[p].ref_count
           /\ p \notin Touched(t) => page'[p].open = page[p].open
           /\ Refs(p)' = Refs(p),
         \A p \in Page \cap Z : CountedAt(p)' /\ OpenedAt(p)',
         SharedFor(t)', HeldFor(t)', OpenFor(t)'
  PROVE  PagesOK'
<1>1. ASSUME NEW p \in Page PROVE CountedAt(p)'
  BY DEF IInv, PagesOK, CountedAt
<1>2. ASSUME NEW p \in Page PROVE OpenedAt(p)'
  <2>1. CASE p \in Z
    BY <2>1
  <2>2. CASE p \notin Z
    <3> SUFFICES ASSUME page'[p].open
                 PROVE  \E u \in Thread : call'[u].at \in Accessing /\ p \in Touched(u)'
      BY DEF OpenedAt
    <3>1. page[p].open /\ p \notin Touched(t)
      BY <2>2
    <3>2. PICK u \in Thread : call[u].at \in Accessing /\ p \in Touched(u)
      BY <3>1 DEF IInv, PagesOK, OpenedAt
    <3> QED BY <3>1, <3>2 DEF OnlyCall
  <2> QED BY <2>1, <2>2
<1>3. ASSUME NEW u \in Thread \ {t} PROVE SharedFor(u)' /\ HeldFor(u)' /\ OpenFor(u)'
  <2>1. CASE u \notin Busy
    <3>1. call'[u].at = "idle" /\ Touched(u)' = {}
      BY <2>1, BusyFacts, TouchedFacts DEF IInv, OnlyCall
    <3> QED BY <3>1 DEF SharedFor, HeldFor, OpenFor, Accessing
  <2>2. CASE u \in Busy
    <3> DEFINE e == call[u].elem
    <3>1. e \in Element /\ PagesOf(e)' = PagesOf(e) /\ PagesOf(e) \subseteq Page
      <4>1. e \in Element /\ SameStore(e)
        BY <2>2 DEF IInv, CallsOK, OwnedBy
      <4>2. PagesOf(e)' = PagesOf(e)
        BY <4>1 DEF SameStore, PagesOf, OnlyCall
      <4> QED BY <4>1, <4>2, PagesTyped DEF IInv
    <3>2. call[u].at \in Accessing => PagesOf(e) \subseteq Touched(u)
      <4>1. call[u].at \in Accessing => Touched(u) = Kept(e)
        BY DEF Touched, Accessing
      <4>2. /\ call[u].at \notin {"release", "unlink", "drop"} => Kept(e) = PagesOf(e)
            /\ call[u].at = "drop" => Kept(e) = PagesOf(e) \cup {call[u].main_page}
        BY <2>2, KeptByLabel
      <4>3. call[u].at \in Accessing =>
              call[u].at = "drop" \/ call[u].at \notin {"release", "unlink", "drop"}
        BY DEF Accessing
      <4> HIDE DEF e
      <4> QED BY <4>1, <4>2, <4>3
    <3>3. \A p \in Touched(u) : p \notin Z /\ p \notin Touched(t)
      BY DEF IInv, PagesOK
    <3>4. HeldFor(u)'
      <4> SUFFICES ASSUME NEW p \in Touched(u) PROVE p \in call[u].held \/ Refs(p)' = {e}
        BY DEF HeldFor, OnlyCall
      <4>1. p \in Page
        <5>1. PICK f \in Element : p \in Kept(f)
          BY TouchedFacts
        <5>2. \/ p \in PagesOf(f)
              \/ /\ elem[f].tid \in Thread /\ call[elem[f].tid].at = "drop"
                 /\ call[elem[f].tid].elem = f /\ p = call[elem[f].tid].main_page
          BY <5>1 DEF Kept, PagesOf, IInv, TableOK, Tids
        <5> QED BY <5>2, PagesTyped DEF IInv, PagesOK, SharedFor
      <4>2. Refs(p)' = Refs(p)
        BY <3>3, <4>1
      <4> QED BY <4>2 DEF IInv, PagesOK, HeldFor
    <3>5. OpenFor(u)'
      <4> SUFFICES ASSUME call[u].at \in Accessing \ {"protect"}, NEW p \in PagesOf(e)
                   PROVE  page'[p].open
        BY <3>1 DEF OpenFor, OnlyCall
      <4>1. page[p].open /\ p \in Page
        BY <3>1 DEF IInv, PagesOK, OpenFor
      <4> QED BY <3>2, <3>3, <4>1
    <3>6. SharedFor(u)'
      <4>1. CASE call[u].at = "copy"
        <5>1. Working(u) \in Page /\ Working(u) \in PagesOf(e) /\ page[Working(u)].ref_count > 1
          BY <4>1, WorkingFacts DEF IInv, PagesOK, SharedFor, StoresOK, WithinFor
        <5>2. Working(u)' = Working(u)
          BY <2>2 DEF Working, OnlyCall, SameStore
        <5>3. page'[Working(u)].ref_count = page[Working(u)].ref_count
          BY <3>2, <3>3, <4>1, <5>1 DEF Accessing
        <5> QED BY <4>1, <5>1, <5>2, <5>3 DEF SharedFor, OnlyCall
      <4>2. CASE call[u].at = "drop"
        <5> DEFINE m == call[u].main_page
        <5>1. m \in Page \ PagesOf(e) /\ page[m].ref_count > 1
          BY <4>2 DEF IInv, PagesOK, SharedFor
        <5>2. m \in Touched(u)
          BY <2>2, <4>2, KeptByLabel DEF Touched, Accessing
        <5>3. page'[m].ref_count = page[m].ref_count
          BY <3>3, <5>1, <5>2
        <5> QED BY <3>1, <4>2, <5>1, <5>3 DEF SharedFor, OnlyCall
      <4>3. CASE call[u].at \notin {"copy", "drop"}
        BY <4>3 DEF SharedFor, OnlyCall
      <4> QED BY <4>1, <4>2, <4>3
    <3> QED BY <3>4, <3>5, <3>6
  <2> QED BY <2>1, <2>2
<1>4. ASSUME NEW u \in Thread, NEW v \in Thread, u # v PROVE Touched(u)' \cap Touched(v)' = {}
  <2>1. CASE u = t
    BY <1>4, <2>1
  <2>2. CASE v = t
    BY <1>4, <2>2
  <2>3. CASE u # t /\ v # t
    BY <1>4, <2>3 DEF IInv, PagesOK
  <2> QED BY <2>1, <2>2, <2>3
<1> QED BY <1>1, <1>2, <1>3, <1>4 DEF PagesOK

(* Only the element of its own call accounts for other pages after a step.  *)
LEMMA OthersKeep ==
  ASSUME IInv, NEW t \in Thread, OnlyCall(t), NEW E,
         call[t].elem \in E \cup {NULL}, call'[t].elem \in E \cup {NULL},
         \A f \in Element \ E : SameStore(f) \/ {elem[f].state, elem'[f].state} \cap {"live"} = {}
  PROVE  \A f \in Element \ E : Kept(f)' = Kept(f)
<1> SUFFICES ASSUME NEW f \in Element \ E PROVE Kept(f)' = Kept(f)
  OBVIOUS
<1>1. CASE elem[f].state # "live"
  BY <1>1 DEF Kept, SameStore
<1>2. CASE elem[f].state = "live"
  <2>1. SameStore(f) /\ elem[f].tid \in Thread /\ f # NULL
    BY <1>2, Numbers DEF IInv, TableOK, Tids
  <2>2. PagesOf(f)' = PagesOf(f)
    BY <2>1 DEF PagesOf, SameStore
  <2>3. CASE elem[f].tid = t
    <3>1. call[t].elem # f /\ call'[t].elem # f
      BY <2>1
    <3> QED BY <1>2, <2>1, <2>2, <2>3, <3>1 DEF Kept, SameStore
  <2>4. CASE elem[f].tid # t
    <3>1. call'[elem[f].tid] = call[elem[f].tid]
      BY <2>1, <2>4 DEF OnlyCall
    <3> QED BY <1>2, <2>1, <2>2, <3>1 DEF Kept, SameStore
  <2> QED BY <2>3, <2>4
<1> QED BY <1>1, <1>2

(* The other calls touch after a step what they touched before.             *)
LEMMA OthersTouch ==
  ASSUME IInv, NEW t \in Thread, OnlyCall(t), NEW E,
         \A f \in Element \ E : Kept(f)' = Kept(f),
         \A u \in Busy \ {t} : call[u].elem \notin E
           /\ (call[u].at = "share" => call[u].src \notin E)
  PROVE  \A u \in Thread \ {t} : Touched(u)' = Touched(u)
<1> SUFFICES ASSUME NEW u \in Thread \ {t} PROVE Touched(u)' = Touched(u)
  OBVIOUS
<1>1. call'[u] = call[u]
  BY DEF OnlyCall
<1>2. CASE call[u].at = "share"
  <2>1. u \in Busy \ {t} /\ call[u].src \in Element
    BY <1>2, BusyFacts, SourceIdle DEF IInv
  <2>2. PICK s \in Element \ E : s = call[u].src
    BY <1>2, <2>1
  <2>3. Kept(s)' = Kept(s)
    BY <2>2
  <2> QED BY <1>1, <1>2, <2>2, <2>3 DEF Touched
<1>3. CASE call[u].at \in Accessing \cup Destroying
  <2>1. u \in Busy \ {t} /\ call[u].elem \in Element
    BY <1>3, BusyFacts DEF IInv, CallsOK, OwnedBy, Accessing, Destroying
  <2>2. PICK s \in Element \ E : s = call[u].elem
    BY <1>3, <2>1
  <2>3. Kept(s)' = Kept(s)
    BY <2>2
  <2> QED BY <1>1, <1>3, <2>2, <2>3 DEF Touched, Accessing, Destroying
<1>4. CASE ~(call[u].at = "share") /\ ~(call[u].at \in Accessing \cup Destroying)
  BY <1>1, <1>4 DEF Touched
<1> QED BY <1>2, <1>3, <1>4

(* What a call touches are pages.                                           *)
LEMMA TouchedPages ==
  ASSUME IInv, NEW t \in Thread
  PROVE  Touched(t) \subseteq Page
<1> SUFFICES ASSUME NEW p \in Touched(t) PROVE p \in Page
  OBVIOUS
<1>1. PICK f \in Element : p \in Kept(f)
  BY TouchedFacts
<1>2. \/ p \in PagesOf(f)
      \/ /\ elem[f].tid \in Thread /\ call[elem[f].tid].at = "drop"
         /\ call[elem[f].tid].elem = f /\ p = call[elem[f].tid].main_page
  BY <1>1 DEF Kept, PagesOf, IInv, TableOK, Tids
<1> QED BY <1>2, PagesTyped DEF IInv, PagesOK, SharedFor

(* A step of a call that is in progress changes only its own element.       *)
LEMMA Ongoing ==
  ASSUME IInv, NEW t \in Busy, NEW e, e = call[t].elem, OnlyCall(t),
         call' \in [Thread -> CallRecords], IdleFor(t)',
         call'[t].elem \in {e, NULL}, call'[t].peer \in {call[t].peer, NoThread},
         \A f \in Element \ {e} : SameStore(f),
         call'[t].at # "idle" => call'[t].elem = e /\ OwnedBy(e, t)'
  PROVE  /\ t \in Thread /\ OwnedBy(e, t) /\ CallsOK'
         /\ \A f \in Element \ {e} : Kept(f)' = Kept(f)
         /\ \A u \in Thread \ {t} : /\ Touched(u)' = Touched(u) /\ Touched(t) \cap Touched(u) = {}
                                    /\ Touched(u) \subseteq Page
                                    /\ \A p \in Touched(u) : page[p].mapped
         /\ \A u \in Busy \ {t} : /\ SameStore(call[u].elem)
                                  /\ call[u].at = "share" => SameStore(call[u].src)
<1>1. t \in Thread /\ OwnedBy(e, t)
  BY DEF Busy, IInv, CallsOK
<1>2. ASSUME NEW u \in Busy \ {t}
      PROVE  /\ call[u].elem \in Element \ {e}
             /\ call[u].at = "share" => call[u].src \in Element \ {e}
  <2>1. call[u].elem # e /\ (call[u].at = "share" => call[u].src # e)
    BY OwnElements
  <2>2. u \in Thread /\ call[u].elem \in Element
    BY DEF IInv, CallsOK, OwnedBy, Busy
  <2> QED BY <2>1, <2>2, SourceIdle
<1>3. \A u \in Busy \ {t} : /\ SameStore(call[u].elem)
                            /\ call[u].at = "share" => SameStore(call[u].src)
  BY <1>2
<1>4. CallsOK'
  <2>1. \A u \in Busy \ {t} : ApartFrom(t, u)'
    BY StaysApart
  <2>2. call'[t].at # "idle" => OwnedBy(call[t].elem, t)'
    BY DEF OwnedBy
  <2> QED BY <1>1, <1>3, <2>1, <2>2, CallsStep
<1>5. \A f \in Element \ {e} : Kept(f)' = Kept(f)
  BY <1>1, OthersKeep
<1>6. \A u \in Thread \ {t} : Touched(u)' = Touched(u)
  <2> DEFINE E == {e}
  <2>1. \A f \in Element \ E : Kept(f)' = Kept(f)
    BY <1>5
  <2>2. \A u \in Busy \ {t} : call[u].elem \notin E
          /\ (call[u].at = "share" => call[u].src \notin E)
    BY <1>2
  <2> HIDE DEF E
  <2> QED BY <1>1, <2>1, <2>2, OthersTouch
<1>7. \A u \in Thread \ {t} : Touched(t) \cap Touched(u) = {}
  BY <1>1 DEF IInv, PagesOK
<1>8. \A u \in Thread : Touched(u) \subseteq Page /\ \A p \in Touched(u) : page[p].mapped
  BY TouchedPages, TouchedMapped
<1> QED BY <1>1, <1>3, <1>4, <1>5, <1>6, <1>7, <1>8

(* The elements that account for a page, but for the one of the call.       *)
LEMMA RefsStep ==
  ASSUME NEW e \in Element, \A f \in Element \ {e} : Kept(f)' = Kept(f), NEW p
  PROVE  /\ Refs(p)' = IF p \in Kept(e)' THEN Refs(p) \cup {e} ELSE Refs(p) \ {e}
         /\ e \in Refs(p) <=> p \in Kept(e)
<1>1. e \in Refs(p) <=> p \in Kept(e)
  BY DEF Refs
<1>2. ASSUME NEW f PROVE f \in Refs(p)' <=> IF f = e THEN p \in Kept(e)' ELSE f \in Refs(p)
  BY DEF Refs
<1> QED BY <1>1, <1>2

(* A step that moves a call on and changes neither counts nor protection.   *)
LEMMA QuietStep ==
  ASSUME IInv, Typed', NEW t \in Busy, NEW e, e = call[t].elem, OnlyCall(t),
         hash_table' = hash_table, elem' = elem,
         \A p \in Page : /\ page'[p].mapped = page[p].mapped /\ page'[p].lost = page[p].lost
                         /\ page'[p].ref_count = page[p].ref_count /\ page'[p].open = page[p].open,
         call'[t].elem = call[t].elem, call'[t].peer = call[t].peer, call'[t].held = call[t].held,
         \/ {call[t].at, call'[t].at} \subseteq Accessing \ {"drop"}
         \/ call[t].at = "release" /\ call'[t].at \in Destroying,
         call[t].at = "protect" => call'[t].at = "protect",
         Kept(e)' = Kept(e),
         WithinFor(t)', SharedFor(t)'
  PROVE  IInv'
<1> DEFINE Z == Touched(t)
<1>2. t \in Thread /\ OwnedBy(e, t) /\ e \in Element
  BY DEF IInv, CallsOK, Busy, OwnedBy
<1>3. call' \in [Thread -> CallRecords] /\ call'[t].at # "idle" /\ IdleFor(t)'
      /\ call[t].at # "share" /\ call'[t].at # "share" /\ call'[t].at \notin Building
      /\ call[t].at # "insert"
  BY DEF Typed, Accessing, Destroying, IdleFor, Building
<1>4. \A f \in Element : SameStore(f)
  BY DEF SameStore
<1>5. OwnedBy(e, t)'
  BY <1>2 DEF OwnedBy
<1>6. /\ CallsOK'
      /\ \A f \in Element \ {e} : Kept(f)' = Kept(f)
      /\ \A u \in Thread \ {t} : Touched(u)' = Touched(u) /\ Z \cap Touched(u) = {}
      /\ \A u \in Busy \ {t} : /\ SameStore(call[u].elem)
                               /\ call[u].at = "share" => SameStore(call[u].src)
  BY <1>2, <1>3, <1>4, <1>5, Ongoing
<1>7. TableOK'
  <2>1. call'[t].at \in Destroying => call'[t].elem \in Chain(Hash(t))
    BY <1>2 DEF IInv, TableOK, OldFor, Accessing, Destroying
  <2> QED BY <1>2, <1>3, <2>1, TableStep
<1>8. StoresOK'
  BY <1>2, <1>3, <1>4, <1>6, StoresStep
<1>9. Touched(t)' = Kept(e) /\ Touched(t) = Kept(e)
  <2>0. {call[t].at, call'[t].at} \subseteq Accessing \cup Destroying
    BY DEF Accessing, Destroying
  <2>1. Touched(t) = Kept(e)
    BY <1>3, <2>0 DEF Touched
  <2>2. Touched(t)' = Kept(call[t].elem)'
    BY <1>3, <2>0 DEF Touched
  <2>3. Kept(call[t].elem)' = Kept(e)'
    <3>1. call'[t].elem = e
      OBVIOUS
    <3> QED BY ONLY <3>1 DEF Kept, PagesOf
  <2> QED BY <2>1, <2>2, <2>3
<1>10. \A p : Refs(p)' = Refs(p)
  BY <1>2, <1>6, <1>9, RefsStep
<1>11. PagesOK'
  <2>1. \A p \in Page \cap Z : CountedAt(p)' /\ OpenedAt(p)'
    <3> SUFFICES ASSUME NEW p \in Page, p \in Z PROVE CountedAt(p)' /\ OpenedAt(p)'
      OBVIOUS
    <3>1. CountedAt(p)'
      BY <1>10 DEF IInv, PagesOK, CountedAt
    <3>2. ASSUME page'[p].open
          PROVE  \E u \in Thread : call'[u].at \in Accessing /\ p \in Touched(u)'
      <4>1. PICK u \in Thread : call[u].at \in Accessing /\ p \in Touched(u)
        BY <3>2 DEF IInv, PagesOK, OpenedAt
      <4>2. u = t
        BY <1>6, <4>1
      <4>3. call'[t].at \in Accessing
        BY <4>1, <4>2 DEF Accessing
      <4> QED BY <1>2, <1>9, <4>3
    <3> QED BY <3>1, <3>2 DEF OpenedAt
  <2>2. HeldFor(t)'
    BY <1>2, <1>9, <1>10 DEF IInv, PagesOK, HeldFor
  <2>3. OpenFor(t)'
    <3>1. PagesOf(e)' = PagesOf(e) /\ PagesOf(e) \subseteq Page
      BY <1>2, PagesTyped DEF PagesOf, IInv
    <3>2. call'[t].at \in Accessing \ {"protect"} => call[t].at \in Accessing \ {"protect"}
      BY DEF Accessing, Destroying
    <3>3. PagesOf(call[t].elem)' = PagesOf(e)
      BY DEF PagesOf
    <3> QED BY <1>2, <3>1, <3>2, <3>3 DEF IInv, PagesOK, OpenFor
  <2>4. \A p \in Page \ Z :
           /\ page'[p].mapped = page[p].mapped /\ page'[p].lost = page[p].lost
           /\ page'[p].ref_count = page[p].ref_count
           /\ p \notin Touched(t) => page'[p].open = page[p].open
           /\ Refs(p)' = Refs(p)
    BY <1>10
  <2>5. Touched(t)' \subseteq Z /\ \A p \in Touched(t) \ Z : ~page'[p].open
    BY <1>9
  <2>6. \A u \in Thread \ {t} : Touched(u)' = Touched(u) /\ Z \cap Touched(u) = {}
    BY <1>6
  <2>7. \A u \in Busy \ {t} : SameStore(call[u].elem)
    BY <1>6
  <2> HIDE DEF Z
  <2> QED BY <1>2, <2>1, <2>2, <2>3, <2>4, <2>5, <2>6, <2>7, PagesStep
<1> QED BY <1>6, <1>7, <1>8, <1>11 DEF IInv

(* The pages of the element of a call, after a step.                        *)
LEMMA TouchedAfter ==
  ASSUME NEW t, NEW e, call'[t].elem = e
  PROVE  /\ call'[t].at \in Accessing \cup Destroying => Touched(t)' = Kept(e)'
         /\ call'[t].at \notin Accessing \cup Destroying \cup {"share"} => Touched(t)' = {}
         /\ PagesOf(call[t].elem)' = PagesOf(e)'
<1>1. Kept(call[t].elem)' = Kept(e)'
  BY DEF Kept, PagesOf
<1>2. call'[t].at \in Accessing \cup Destroying => Touched(t)' = Kept(call[t].elem)'
  BY DEF Touched, Accessing, Destroying
<1>3. call'[t].at \notin Accessing \cup Destroying \cup {"share"} => Touched(t)' = {}
  BY DEF Touched
<1>4. PagesOf(call[t].elem)' = PagesOf(e)'
  BY DEF PagesOf
<1> QED BY <1>1, <1>2, <1>3, <1>4

(* The pages an element accounts for after a step, from the label.          *)
LEMMA KeptAfter ==
  ASSUME NEW t, NEW e, call'[t].elem = e, OwnedBy(e, t)'
  PROVE  /\ call'[t].at \notin {"release", "unlink", "drop"} => Kept(e)' = PagesOf(e)'
         /\ call'[t].at = "drop" => Kept(e)' = PagesOf(e)' \cup {call'[t].main_page}
         /\ call'[t].at = "unlink" => Kept(e)' = {}
         /\ call'[t].at = "release" =>
              Kept(e)' = {elem'[e].pages[i] : i \in {j \in DOMAIN elem'[e].pages : j >= call'[t].idx}}
<1>1. elem'[e].state = "live" /\ elem'[e].tid = t
  BY DEF OwnedBy
<1> QED BY <1>1 DEF Kept

-----------------------------------------------------------------------------
(* The steps of the calls, one lemma for each action *)

(* A call in progress has a live element of its own thread.                 *)
LEMMA StepFacts ==
  ASSUME IInv, NEW t \in Thread, call[t].at # "idle"
  PROVE  /\ t \in Busy /\ call[t] \in CallRecords /\ OwnedBy(call[t].elem, t)
         /\ call[t].elem \in Element /\ elem[call[t].elem].state = "live"
         /\ elem[call[t].elem].tid = t
BY BusyFacts DEF IInv, CallsOK, OwnedBy

(* Only proc changes.                                                       *)
LEMMA FaultStep ==
  ASSUME IInv, UNCHANGED <<heap, call>>, proc' \in {"running", "nomemory", "stray"}
  PROVE  IInv'
<1> USE DEF heap
<1>1. Typed'
  BY DEF IInv, Typed
<1>2. CallsOK'
  BY DEF IInv, CallsOK, IdleFor, ApartFrom, OwnedBy, Busy, Parties, Hash
<1>3. TableOK'
  BY DEF IInv, TableOK, Tids, Heads, Nexts, OneBefore, HeadsFirst, NewFor, OldFor, InBucket, Hash,
     Chain, Walk
<1>4. StoresOK'
  BY DEF IInv, StoresOK, StoreAt, CloneFor, WithinFor, Unfinished, OwnedBy, PagesFor
<1>5. PagesOK'
  <2>1. \A p : Refs(p)' = Refs(p)
    BY DEF Refs, Kept, PagesOf
  <2>2. \A t : Touched(t)' = Touched(t)
    BY DEF Touched, Kept, PagesOf
  <2>3. \A t : PagesOf(call[t].elem)' = PagesOf(call[t].elem) /\ Working(t)' = Working(t)
    BY DEF PagesOf, Working
  <2>4. ASSUME NEW p \in Page PROVE CountedAt(p)' /\ OpenedAt(p)'
    BY <2>1, <2>2 DEF IInv, PagesOK, CountedAt, OpenedAt
  <2>5. ASSUME NEW t \in Thread PROVE SharedFor(t)' /\ HeldFor(t)' /\ OpenFor(t)'
    <3>1. SharedFor(t) /\ HeldFor(t) /\ OpenFor(t)
      BY DEF IInv, PagesOK
    <3>2. SharedFor(t)' /\ OpenFor(t)'
      BY <2>3, <3>1 DEF SharedFor, OpenFor
    <3>3. HeldFor(t)'
      BY <2>1, <2>2, <3>1 DEF HeldFor
    <3> QED BY <3>2, <3>3
  <2> QED BY <2>2, <2>4, <2>5 DEF IInv, PagesOK
<1> QED BY <1>1, <1>2, <1>3, <1>4, <1>5 DEF IInv

(* tls_write tests a page (174-187).                                        *)
LEMMA WriteTestsStep ==
  ASSUME IInv, NEW t \in Thread, WriteTests(t)
  PROVE  IInv'
<1> DEFINE l == IF Complete(t) THEN "protect" ELSE IF MustCopy(t) THEN "copy" ELSE "put"
<1>1. /\ call[t].at = "write" /\ call' = [call EXCEPT ![t].at = l]
      /\ UNCHANGED <<hash_table, elem, page, proc>>
  BY DEF WriteTests, In, Step, heap
<1>2. t \in Busy /\ call[t] \in CallRecords /\ OwnedBy(call[t].elem, t) /\ call[t].elem \in Element
  BY <1>1, StepFacts
<1>3. PICK e \in Element : e = call[t].elem
  BY <1>2
<1>4. call'[t] = [call[t] EXCEPT !.at = l] /\ OnlyCall(t) /\ call' \in [Thread -> CallRecords]
      /\ l \in {"protect", "copy", "put"}
  BY <1>1, <1>2 DEF IInv, Typed, CallRecords, Labels, OnlyCall
<1>5. Typed'
  BY <1>1, <1>4 DEF IInv, Typed
<1>6. Kept(e)' = Kept(e)
  <2>1. OwnedBy(e, t)' /\ call'[t].elem = e /\ call'[t].at \notin {"release", "unlink", "drop"}
    BY <1>1, <1>2, <1>3, <1>4 DEF OwnedBy, CallRecords
  <2>2. PagesOf(e)' = PagesOf(e)
    BY <1>1 DEF PagesOf
  <2> QED BY <1>1, <1>2, <1>3, <2>1, <2>2, KeptByLabel, KeptAfter
<1>7. WithinFor(t)' /\ SharedFor(t)'
  <2>1. call'[t].upto = call[t].upto /\ call'[t].idx = call[t].idx
          /\ call'[t].elem = call[t].elem /\ call'[t].at = l
    BY <1>2, <1>4 DEF CallRecords
  <2>2. call[t].idx \in Nat /\ call[t].upto \in Nat
    BY <1>2 DEF CallRecords
  <2>3. WithinFor(t)'
    BY <1>1, <1>4, <2>1, <2>2 DEF IInv, StoresOK, WithinFor, Complete, Accessing
  <2>4. Working(t)' = Working(t)
    BY <1>1, <2>1 DEF Working
  <2>5. SharedFor(t)'
    BY <1>1, <1>4, <2>1, <2>4 DEF SharedFor, MustCopy
  <2> QED BY <2>3, <2>5
<1>8. {call[t].at, call'[t].at} \subseteq Accessing \ {"drop"}
      /\ call'[t].elem = call[t].elem /\ call'[t].peer = call[t].peer
      /\ call'[t].held = call[t].held
  BY <1>1, <1>2, <1>4 DEF Accessing, CallRecords
<1>9. \A p \in Page : page'[p].mapped = page[p].mapped /\ page'[p].lost = page[p].lost
         /\ page'[p].ref_count = page[p].ref_count /\ page'[p].open = page[p].open
  BY <1>1
<1> HIDE DEF l
<1> QED BY <1>1, <1>2, <1>3, <1>4, <1>5, <1>6, <1>7, <1>8, <1>9, QuietStep

(* An assignment to the call of one thread leaves the other calls alone.    *)
LEMMA CallStep ==
  ASSUME IInv, NEW t \in Thread, NEW r \in CallRecords, call' = [call EXCEPT ![t] = r]
  PROVE  OnlyCall(t) /\ call'[t] = r /\ call' \in [Thread -> CallRecords]
BY DEF IInv, Typed, OnlyCall

(* A step of tls_write or tls_read to the next byte, or between two labels  *)
(* under which the call accounts for the pages of its store.                *)
LEMMA AccessMoves ==
  ASSUME IInv, Typed', NEW t \in Thread, NEW r \in CallRecords, call' = [call EXCEPT ![t] = r],
         UNCHANGED <<hash_table, elem>>,
         \A p \in Page : /\ page'[p].mapped = page[p].mapped /\ page'[p].lost = page[p].lost
                         /\ page'[p].ref_count = page[p].ref_count /\ page'[p].open = page[p].open,
         call[t].at \in {"write", "copy", "put", "read"},
         r.at \in {"write", "put", "read", "protect"},
         r.elem = call[t].elem, r.peer = call[t].peer, r.held = call[t].held,
         r.upto = call[t].upto,
         r.at = "put" => r.idx < r.upto
  PROVE  IInv'
<1>1. OnlyCall(t) /\ call'[t] = r /\ call' \in [Thread -> CallRecords]
  BY CallStep
<1>2. t \in Busy /\ call[t] \in CallRecords /\ OwnedBy(call[t].elem, t) /\ call[t].elem \in Element
  BY StepFacts
<1>3. PICK e \in Element : e = call[t].elem
  BY <1>2
<1>4. Kept(e)' = Kept(e)
  <2>1. OwnedBy(e, t)' /\ call'[t].elem = e /\ call'[t].at \notin {"release", "unlink", "drop"}
    BY <1>1, <1>2, <1>3 DEF OwnedBy
  <2>2. PagesOf(e)' = PagesOf(e)
    BY DEF PagesOf
  <2> QED BY <1>2, <1>3, <2>1, <2>2, KeptByLabel, KeptAfter
<1>5. WithinFor(t)' /\ SharedFor(t)'
  <2>1. call[t].upto <= elem[call[t].elem].size
    BY DEF IInv, StoresOK, WithinFor, Accessing
  <2> QED BY <1>1, <2>1 DEF WithinFor, SharedFor
<1>6. {call[t].at, call'[t].at} \subseteq Accessing \ {"drop"} /\ call[t].at # "protect"
  BY <1>1 DEF Accessing
<1> QED BY <1>1, <1>2, <1>3, <1>4, <1>5, <1>6, QuietStep

(* tls_write stores a byte (202-203).                                       *)
LEMMA WritePutsStep ==
  ASSUME IInv, NEW t \in Thread, WritePuts(t)
  PROVE  IInv'
<1> DEFINE p == Working(t)
           r == [call[t] EXCEPT !.at = "write", !.idx = @ + 1]
<1>1. call[t].at = "put"
  BY DEF WritePuts, In
<1>2. t \in Busy /\ call[t] \in CallRecords
  BY <1>1, StepFacts
<1>3. call[t].idx < call[t].upto
  BY <1>1 DEF IInv, StoresOK, WithinFor
<1>4. p \in Page /\ p \in PagesOf(call[t].elem) /\ PageOffset(t) \in 0 .. page_size - 1
  BY <1>1, <1>3, WorkingFacts
<1>5. page[p].open
  BY <1>1, <1>4 DEF IInv, PagesOK, OpenFor, Accessing
<1>6. /\ page' = [page EXCEPT ![p].bytes[PageOffset(t)] = call[t].byte]
      /\ call' = [call EXCEPT ![t].at = "write", ![t].idx = @ + 1]
      /\ UNCHANGED <<hash_table, elem, proc>>
  BY <1>5 DEF WritePuts
<1>7. r \in CallRecords /\ call' = [call EXCEPT ![t] = r]
  BY <1>2, <1>6 DEF CallRecords, Labels, IInv, Typed
<1>8. page' \in [Page -> Pages]
      /\ \A x \in Page : /\ page'[x].mapped = page[x].mapped /\ page'[x].lost = page[x].lost
                         /\ page'[x].ref_count = page[x].ref_count /\ page'[x].open = page[x].open
  <2>1. page \in [Page -> Pages] /\ call[t].byte \in Bytes
    BY <1>2 DEF IInv, Typed, CallRecords
  <2>2. page' = [page EXCEPT ![p] = [page[p] EXCEPT !.bytes
          = [page[p].bytes EXCEPT ![PageOffset(t)] = call[t].byte]]]
    BY <1>6
  <2>3. [page[p].bytes EXCEPT ![PageOffset(t)] = call[t].byte] \in [0 .. page_size - 1 -> Bytes]
    BY <1>4, <2>1 DEF Pages
  <2>4. [page[p] EXCEPT !.bytes = [page[p].bytes EXCEPT ![PageOffset(t)] = call[t].byte]] \in Pages
    BY <1>4, <2>1, <2>3 DEF Pages
  <2> HIDE DEF p
  <2> QED BY <1>4, <2>1, <2>2, <2>4 DEF Pages
<1>9. Typed'
  BY <1>6, <1>7, <1>8, CallStep DEF IInv, Typed
<1>10. r.at = "write" /\ r.elem = call[t].elem /\ r.peer = call[t].peer /\ r.held = call[t].held
       /\ r.upto = call[t].upto
  BY <1>2 DEF CallRecords
<1> HIDE DEF r
<1> QED BY <1>1, <1>6, <1>7, <1>8, <1>9, <1>10, AccessMoves

(* tls_read copies a byte (231-244).                                        *)
LEMMA ReadGetsStep ==
  ASSUME IInv, NEW t \in Thread, ReadGets(t)
  PROVE  IInv'
<1> DEFINE p == Working(t)
<1>1. call[t].at = "read"
  BY DEF ReadGets, In
<1>2. t \in Busy /\ call[t] \in CallRecords
  BY <1>1, StepFacts
<1>3. CASE Complete(t)
  <2> DEFINE r == [call[t] EXCEPT !.at = "protect"]
  <2>1. call' = [call EXCEPT ![t].at = "protect"] /\ UNCHANGED <<heap, proc>>
    BY <1>3 DEF ReadGets, Step
  <2>2. r \in CallRecords /\ call' = [call EXCEPT ![t] = r]
    BY <1>2, <2>1 DEF CallRecords, Labels
  <2>3. Typed'
    BY <2>1, <2>2, CallStep DEF IInv, Typed, heap
  <2>4. r.at = "protect" /\ r.elem = call[t].elem /\ r.peer = call[t].peer /\ r.held = call[t].held
        /\ r.upto = call[t].upto
    BY <1>2 DEF CallRecords
  <2> HIDE DEF r
  <2> QED BY <1>1, <2>1, <2>2, <2>3, <2>4, AccessMoves DEF heap
<1>4. CASE ~Complete(t)
  <2>1. call[t].idx < call[t].upto
    BY <1>2, <1>4 DEF Complete, CallRecords
  <2>2. p \in Page /\ p \in PagesOf(call[t].elem) /\ PageOffset(t) \in 0 .. page_size - 1
    BY <1>1, <2>1, WorkingFacts
  <2>3. page[p].open /\ page[p].bytes[PageOffset(t)] \in Bytes
    BY <1>1, <2>2 DEF IInv, PagesOK, OpenFor, Accessing, Typed, Pages
  <2>8. PICK b \in Bytes : b = page[p].bytes[PageOffset(t)]
    BY <2>3
  <2> DEFINE r == [call[t] EXCEPT !.idx = @ + 1, !.byte = b]
  <2>4. /\ call' = [call EXCEPT ![t].idx = @ + 1, ![t].byte = b]
        /\ UNCHANGED <<heap, proc>>
    BY <1>4, <2>3, <2>8 DEF ReadGets
  <2>5. r \in CallRecords /\ call' = [call EXCEPT ![t] = r]
    <3>1. call[t].idx + 1 \in Nat
      BY <1>2 DEF CallRecords
    <3>2. r = [call[t] EXCEPT !.idx = call[t].idx + 1, !.byte = b]
      BY <1>2 DEF CallRecords
    <3>3. r \in CallRecords
      BY <1>2, <3>1, <3>2 DEF CallRecords
    <3>4. call' = [call EXCEPT ![t] = r]
      BY <1>2, <2>4 DEF CallRecords, IInv, Typed
    <3> QED BY <3>3, <3>4
  <2>6. Typed'
    BY <2>4, <2>5, CallStep DEF IInv, Typed, heap
  <2>7. r.at = "read" /\ r.elem = call[t].elem /\ r.peer = call[t].peer /\ r.held = call[t].held
        /\ r.upto = call[t].upto
    BY <1>1, <1>2 DEF CallRecords
  <2> HIDE DEF r
  <2> QED BY <1>1, <2>4, <2>5, <2>6, <2>7, AccessMoves DEF heap
<1> QED BY <1>3, <1>4

(* A step within one store: the links and the other stores stay.            *)
LEMMA StoreStep ==
  ASSUME IInv, Typed', NEW t \in Busy, NEW e, e = call[t].elem, OnlyCall(t),
         call' \in [Thread -> CallRecords], IdleFor(t)',
         hash_table' = hash_table,
         elem'[e].state = elem[e].state, elem'[e].tid = elem[e].tid, elem'[e].next = elem[e].next,
         \A f \in Element \ {e} : elem'[f] = elem[f],
         call'[t].peer \in {call[t].peer, NoThread},
         \/ call'[t].elem = e
         \/ call'[t].elem = NULL /\ call'[t].at = "idle",
         call[t].at # "insert",
         call'[t].at \in Building => call[t].at \in Building,
         call'[t].at \in Destroying => call[t].at \in Destroying
  PROVE  /\ CallsOK' /\ TableOK' /\ t \in Thread /\ e \in Element /\ OwnedBy(e, t) /\ OwnedBy(e, t)'
         /\ \A f \in Element \ {e} : Kept(f)' = Kept(f) /\ SameStore(f)
         /\ \A u \in Thread \ {t} : /\ Touched(u)' = Touched(u) /\ Touched(t) \cap Touched(u) = {}
                                    /\ Touched(u) \subseteq Page
                                    /\ \A p \in Touched(u) : page[p].mapped
         /\ \A u \in Busy \ {t} : /\ SameStore(call[u].elem)
                                  /\ call[u].at = "share" => SameStore(call[u].src)
<1>1. \A f \in Element \ {e} : SameStore(f)
  BY DEF SameStore
<1>2. OwnedBy(e, t) /\ e \in Element /\ t \in Thread
  BY DEF IInv, CallsOK, OwnedBy, Busy
<1>3. OwnedBy(e, t)'
  BY <1>2 DEF OwnedBy
<1>4. /\ CallsOK'
      /\ \A f \in Element \ {e} : Kept(f)' = Kept(f)
      /\ \A u \in Thread \ {t} : /\ Touched(u)' = Touched(u) /\ Touched(t) \cap Touched(u) = {}
                                 /\ Touched(u) \subseteq Page
                                 /\ \A p \in Touched(u) : page[p].mapped
      /\ \A u \in Busy \ {t} : /\ SameStore(call[u].elem)
                               /\ call[u].at = "share" => SameStore(call[u].src)
  BY <1>1, <1>2, <1>3, Ongoing
<1>5. TableOK'
  <2>1. call'[t].at \in Destroying => call'[t].elem \in Chain(Hash(t))
    BY <1>2 DEF IInv, TableOK, OldFor, Destroying
  <2>2. call'[t].at \in Building => call[t].at \in Building /\ call'[t].elem = call[t].elem
    BY DEF Building
  <2>3. \A f \in Element : /\ elem'[f].state = elem[f].state /\ elem'[f].tid = elem[f].tid
                           /\ elem'[f].next = elem[f].next
    OBVIOUS
  <2> QED BY <1>2, <2>1, <2>2, <2>3, TableStep
<1> QED BY <1>1, <1>2, <1>3, <1>4, <1>5

(* But for a clone, a call touches what its own element accounts for.       *)
LEMMA OwnTouched ==
  ASSUME IInv, NEW t \in Thread, call[t].at \in Accessing \cup Destroying
  PROVE  Touched(t) = Kept(call[t].elem)
BY DEF Touched, Accessing, Destroying

(* No element accounts for a free page.                                     *)
LEMMA FreeUncounted ==
  ASSUME IInv, NEW q \in FreePages
  PROVE  q \in Page /\ ~page[q].mapped /\ ~page[q].lost /\ Refs(q) = {}
<1>1. q \in Page /\ ~page[q].mapped
  BY DEF FreePages
<1>2. CountedAt(q)
  BY <1>1 DEF IInv, PagesOK
<1> QED BY <1>1, <1>2 DEF CountedAt

(* The page mmap gives is free.                                             *)
LEMMA FreshPage ==
  ASSUME FreePages # {}
  PROVE  (CHOOSE x \in Lowest(1, FreePages) : TRUE) \in FreePages
<1>1. FreePages \subseteq Page /\ IsFiniteSet(FreePages)
  BY Numbers, FS_Subset DEF FreePages
<1>2. 1 <= Cardinality(FreePages)
  BY <1>1, FS_EmptySet, FS_CardinalityType
<1>3. Lowest(1, FreePages) \subseteq FreePages /\ Cardinality(Lowest(1, FreePages)) = 1
  BY <1>1, <1>2, LowestFacts
<1>4. Lowest(1, FreePages) # {}
  BY <1>3, FS_EmptySet
<1> QED BY <1>3, <1>4

(* tls_write copies a shared page (189-195).                                *)
LEMMA WriteCopiesStep ==
  ASSUME IInv, NEW t \in Thread, WriteCopies(t)
  PROVE  IInv'
<1>1. call[t].at = "copy" /\ proc = "running"
  BY DEF WriteCopies, In
<1>2. t \in Busy /\ call[t] \in CallRecords /\ OwnedBy(call[t].elem, t)
  BY <1>1, StepFacts
<1>3. PICK e \in Element : e = call[t].elem
  BY <1>2 DEF OwnedBy
<1>4. PICK p : p = Working(t)
  OBVIOUS
<1>5. PICK i : i = call[t].idx \div page_size + 1
  OBVIOUS
<1>6. /\ i \in DOMAIN elem[e].pages /\ p = elem[e].pages[i] /\ p \in Page /\ p \in PagesOf(e)
      /\ call[t].idx < call[t].upto
  BY <1>1, <1>3, <1>4, <1>5, WorkingFacts DEF Working, IInv, StoresOK, WithinFor
<1>7. page[p].open
  BY <1>1, <1>3, <1>6 DEF IInv, PagesOK, OpenFor, Accessing
<1>8. CASE FreePages = {}
  BY <1>8, FaultStep DEF WriteCopies, Fault
<1>9. CASE FreePages # {}
  <2>1. PICK q : q = CHOOSE x \in Lowest(1, FreePages) : TRUE
    OBVIOUS
  <2>2. q \in FreePages
    BY <1>9, <2>1, FreshPage
  <2> DEFINE r == [call[t] EXCEPT !.at = "drop", !.main_page = p]
  <2>3. /\ page' = [page EXCEPT ![q] = [page[p] EXCEPT !.ref_count = 1]]
        /\ elem' = [elem EXCEPT ![e].pages[i] = q]
        /\ call' = [call EXCEPT ![t].at = "drop", ![t].main_page = p]
        /\ UNCHANGED <<hash_table, proc>>
    BY <1>3, <1>4, <1>5, <1>7, <1>9, <2>1 DEF WriteCopies
  <2>4. r \in CallRecords /\ call' = [call EXCEPT ![t] = r]
    BY <1>2, <1>6, <2>3 DEF CallRecords, Labels, IInv, Typed
  <2>5. OnlyCall(t) /\ call'[t] = r /\ call' \in [Thread -> CallRecords]
    BY <2>4, CallStep
  <2>6. /\ call'[t].at = "drop" /\ call'[t].main_page = p /\ call'[t].elem = e
        /\ call'[t].peer = call[t].peer /\ call'[t].idx = call[t].idx
        /\ call'[t].upto = call[t].upto /\ call'[t].held = call[t].held
    BY <1>2, <1>3, <2>5 DEF CallRecords
  <2> HIDE DEF r
  <2>7. /\ q \in Page /\ ~page[q].mapped /\ ~page[q].lost /\ Refs(q) = {}
        /\ Kept(e) = PagesOf(e) /\ Touched(t) = Kept(e)
        /\ page[p].mapped /\ ~page[p].lost /\ e \in Refs(p)
        /\ p # q /\ q \notin PagesOf(e) /\ PagesOf(e) \subseteq Page
    <3>1. q \in Page /\ ~page[q].mapped /\ ~page[q].lost /\ Refs(q) = {}
      BY <2>2, FreeUncounted
    <3>2. Kept(e) = PagesOf(e) /\ Touched(t) = Kept(e)
      BY <1>1, <1>2, <1>3, KeptByLabel, OwnTouched DEF Accessing
    <3>3. page[p].mapped /\ ~page[p].lost /\ e \in Refs(p)
      BY <1>6, <3>2, KeptCounted
    <3>4. PagesOf(e) \subseteq Page
      BY PagesTyped DEF IInv
    <3>5. q \notin PagesOf(e)
      BY <3>1, <3>2 DEF Refs
    <3> QED BY <3>1, <3>2, <3>3, <3>4, <3>5
  <2>8. elem \in [Element -> Elements] /\ page \in [Page -> Pages] /\ elem[e].pages \in Seq(Page)
        /\ DOMAIN elem[e].pages = 1 .. Len(elem[e].pages)
    BY PagesTyped DEF IInv, Typed
  <2>9. [elem[e].pages EXCEPT ![i] = q] \in Seq(Page)
    BY <1>6, <2>7, <2>8
  <2>10. elem' = [elem EXCEPT ![e] = [elem[e] EXCEPT !.pages = [elem[e].pages EXCEPT ![i] = q]]]
    BY <2>3
  <2>11. [elem[e] EXCEPT !.pages = [elem[e].pages EXCEPT ![i] = q]] \in Elements
    BY <2>8, <2>9 DEF Elements
  <2>12. /\ elem'[e].state = elem[e].state /\ elem'[e].tid = elem[e].tid
         /\ elem'[e].next = elem[e].next /\ elem'[e].size = elem[e].size
         /\ elem'[e].pages = [elem[e].pages EXCEPT ![i] = q]
         /\ \A f \in Element \ {e} : elem'[f] = elem[f]
         /\ elem' \in [Element -> Elements]
    BY <2>8, <2>10, <2>11 DEF Elements
  <2>13. page' \in [Page -> Pages]
    <3>1. [page[p] EXCEPT !.ref_count = 1] \in Pages
      BY <1>6, <2>8 DEF Pages
    <3> QED BY <2>3, <2>7, <2>8, <3>1
  <2>14. /\ \A x \in Page \ {q} : page'[x] = page[x]
         /\ page'[q].ref_count = 1 /\ page'[q].mapped /\ ~page'[q].lost /\ page'[q].open
    BY <1>6, <1>7, <2>3, <2>7, <2>8 DEF Pages
  <2>15. Typed'
    BY <2>3, <2>5, <2>12, <2>13 DEF IInv, Typed
  <2>16. IdleFor(t)'
    BY <2>6 DEF IdleFor
  <2>17. /\ CallsOK' /\ TableOK' /\ OwnedBy(e, t)'
         /\ \A f \in Element \ {e} : Kept(f)' = Kept(f) /\ SameStore(f)
         /\ \A u \in Thread \ {t} : /\ Touched(u)' = Touched(u) /\ Touched(t) \cap Touched(u) = {}
                                    /\ Touched(u) \subseteq Page
                                    /\ \A x \in Touched(u) : page[x].mapped
         /\ \A u \in Busy \ {t} : /\ SameStore(call[u].elem)
                                  /\ call[u].at = "share" => SameStore(call[u].src)
    BY <1>1, <1>2, <1>3, <2>3, <2>5, <2>6, <2>12, <2>15, <2>16, StoreStep DEF Building, Destroying
  <2>18. \A j, k \in DOMAIN elem[e].pages : elem[e].pages[j] = elem[e].pages[k] => j = k
    BY <1>2, <1>3 DEF IInv, StoresOK, StoreAt, OwnedBy
  <2>19. PagesOf(e)' = (PagesOf(e) \ {p}) \cup {q}
    BY <1>6, <2>12, <2>18 DEF PagesOf
  <2>20. StoresOK'
    <3>1. Unfinished' = Unfinished
      BY <1>1, <2>5, <2>6 DEF Unfinished, OnlyCall
    <3>2. ASSUME NEW f \in Element PROVE StoreAt(f)'
      <4>1. CASE f = e
        <5>1. Len(elem'[e].pages) = Len(elem[e].pages)
                /\ DOMAIN elem'[e].pages = DOMAIN elem[e].pages
          BY <2>8, <2>9, <2>12
        <5>2. \A j, k \in DOMAIN elem[e].pages : elem'[e].pages[j] = elem'[e].pages[k] => j = k
          BY <1>6, <2>7, <2>12, <2>18 DEF PagesOf
        <5>3. StoreAt(e)
          BY DEF IInv, StoresOK
        <5> QED BY <2>12, <3>1, <4>1, <5>1, <5>2, <5>3 DEF StoreAt, PagesFor
      <4>2. CASE f # e
        BY <2>12, <3>1, <4>2 DEF IInv, StoresOK, StoreAt, PagesFor
      <4> QED BY <4>1, <4>2
    <3>3. ASSUME NEW u \in Thread PROVE CloneFor(u)' /\ WithinFor(u)'
      <4>1. CASE u = t
        BY <1>1, <1>3, <1>6, <2>6, <2>12, <4>1 DEF CloneFor, WithinFor, IInv, StoresOK, Accessing
      <4>2. CASE u # t
        BY <2>5, <2>17, <4>2, OthersStores
      <4> QED BY <4>1, <4>2
    <3> QED BY <3>2, <3>3 DEF StoresOK
  <2>21. PagesOK'
    <3> DEFINE Z == Touched(t) \cup {q}
    <3>1. Kept(e)' = Kept(e) \cup {q}
      BY <1>6, <2>6, <2>7, <2>17, <2>19, KeptAfter
    <3>2. Touched(t)' = Z
      BY <2>6, <2>7, <3>1, TouchedAfter DEF Accessing
    <3>3. ASSUME NEW x PROVE Refs(x)' = IF x = q THEN {e} ELSE Refs(x)
      <4>1. /\ Refs(x)' = IF x \in Kept(e)' THEN Refs(x) \cup {e} ELSE Refs(x) \ {e}
            /\ e \in Refs(x) <=> x \in Kept(e)
        BY <2>17, RefsStep
      <4> QED BY <2>7, <3>1, <4>1
    <3>4. ASSUME NEW x \in Page, x \in Z PROVE CountedAt(x)' /\ OpenedAt(x)'
      <4>1. OpenedAt(x)'
        BY <2>6, <3>2, <3>4 DEF OpenedAt, Accessing
      <4>2. CASE x = q
        <5>1. Cardinality({e}) = 1
          BY FS_Singleton
        <5> QED BY <2>14, <3>3, <4>1, <4>2, <5>1 DEF CountedAt
      <4>3. CASE x # q
        BY <2>14, <3>3, <4>1, <4>3 DEF CountedAt, IInv, PagesOK
      <4> QED BY <4>2, <4>3
    <3>5. SharedFor(t)'
      <4>1. page[p].ref_count > 1
        BY <1>1, <1>4 DEF IInv, PagesOK, SharedFor
      <4>2. PagesOf(call[t].elem)' = PagesOf(e)'
        BY <2>6, TouchedAfter
      <4>3. p \in Page \ PagesOf(call[t].elem)'
        BY <1>6, <2>7, <2>19, <4>2
      <4> QED BY <1>6, <2>6, <2>7, <2>14, <4>1, <4>3 DEF SharedFor
    <3>6. HeldFor(t)'
      BY <1>3, <2>6, <3>2, <3>3 DEF IInv, PagesOK, HeldFor
    <3>7. OpenFor(t)'
      <4>1. \A x \in PagesOf(e) : page[x].open
        BY <1>1, <1>3 DEF IInv, PagesOK, OpenFor, Accessing
      <4>2. \A x \in PagesOf(e)' : page'[x].open
        BY <2>7, <2>14, <2>19, <4>1
      <4>3. PagesOf(call[t].elem)' = PagesOf(e)'
        BY <2>6, TouchedAfter
      <4> QED BY <4>2, <4>3 DEF OpenFor
    <3>8. \A u \in Thread \ {t} : Touched(u)' = Touched(u) /\ Z \cap Touched(u) = {}
      BY <2>7, <2>17
    <3>9. \A u \in Busy \ {t} : SameStore(call[u].elem)
      BY <2>17
    <3>10. \A x \in Page \ Z :
           /\ page'[x].mapped = page[x].mapped /\ page'[x].lost = page[x].lost
           /\ page'[x].ref_count = page[x].ref_count
           /\ x \notin Touched(t) => page'[x].open = page[x].open
           /\ Refs(x)' = Refs(x)
      BY <2>14, <3>3
    <3>11. \A x \in Touched(t) \ Z : ~page'[x].open
      OBVIOUS
    <3> HIDE DEF Z
    <3> QED BY <2>5, <3>2, <3>4, <3>5, <3>6, <3>7, <3>8, <3>9, <3>10, <3>11, PagesStep
  <2> QED BY <2>15, <2>17, <2>20, <2>21 DEF IInv
<1> QED BY <1>8, <1>9

(* tls_write gives up its share of the page it has copied (197-200).        *)
LEMMA WriteDropsStep ==
  ASSUME IInv, NEW t \in Thread, WriteDrops(t)
  PROVE  IInv'
<1>1. call[t].at = "drop"
  BY DEF WriteDrops, In
<1>2. t \in Busy /\ call[t] \in CallRecords /\ OwnedBy(call[t].elem, t)
  BY <1>1, StepFacts
<1>3. PICK e \in Element : e = call[t].elem
  BY <1>2 DEF OwnedBy
<1>4. PICK m : m = call[t].main_page
  OBVIOUS
<1> DEFINE r == [call[t] EXCEPT !.at = "put"]
<1>5. /\ page' = [page EXCEPT ![m].ref_count = @ - 1, ![m].open = FALSE]
      /\ call' = [call EXCEPT ![t].at = "put"]
      /\ UNCHANGED <<hash_table, elem, proc>>
  BY <1>4 DEF WriteDrops, Step
<1>6. r \in CallRecords /\ call' = [call EXCEPT ![t] = r]
  BY <1>2, <1>5 DEF CallRecords, Labels, IInv, Typed
<1>7. OnlyCall(t) /\ call'[t] = r /\ call' \in [Thread -> CallRecords]
  BY <1>6, CallStep
<1>8. /\ call'[t].at = "put" /\ call'[t].elem = e /\ call'[t].peer = call[t].peer
      /\ call'[t].idx = call[t].idx /\ call'[t].upto = call[t].upto /\ call'[t].held = call[t].held
  BY <1>2, <1>3, <1>7 DEF CallRecords
<1> HIDE DEF r
<1>9. m \in Page /\ m \notin PagesOf(e) /\ page[m].ref_count > 1 /\ page[m] \in Pages
  BY <1>1, <1>3, <1>4 DEF IInv, PagesOK, SharedFor, Typed
<1>10. Kept(e) = PagesOf(e) \cup {m} /\ Touched(t) = Kept(e)
  BY <1>1, <1>2, <1>3, <1>4, KeptByLabel, OwnTouched DEF Accessing
<1>11. ~page[m].lost /\ page[m].ref_count = Cardinality(Refs(m)) /\ e \in Refs(m)
  BY <1>9, <1>10, KeptCounted
<1>12. /\ page' \in [Page -> Pages] /\ \A x \in Page \ {m} : page'[x] = page[x]
       /\ page'[m].mapped = page[m].mapped /\ page'[m].lost = page[m].lost
       /\ page'[m].ref_count = page[m].ref_count - 1 /\ ~page'[m].open
  <2>1. page[m].ref_count \in Nat /\ page[m].ref_count - 1 \in Nat
    BY <1>9 DEF Pages
  <2>2. [page[m] EXCEPT !.ref_count = page[m].ref_count - 1, !.open = FALSE] \in Pages
    BY <1>9, <2>1 DEF Pages
  <2>3. page' = [page EXCEPT ![m] = [page[m] EXCEPT !.ref_count = page[m].ref_count - 1,
                                                  !.open = FALSE]]
    BY <1>5, <1>9 DEF Pages, IInv, Typed
  <2>4. page \in [Page -> Pages]
    BY DEF IInv, Typed
  <2> QED BY <1>9, <2>2, <2>3, <2>4 DEF Pages
<1>13. Typed'
  BY <1>5, <1>7, <1>12 DEF IInv, Typed
<1>14. IdleFor(t)' /\ \A f \in Element : SameStore(f)
  BY <1>5, <1>8 DEF IdleFor, SameStore
<1>15. /\ CallsOK' /\ TableOK' /\ OwnedBy(e, t)'
       /\ \A f \in Element \ {e} : Kept(f)' = Kept(f)
       /\ \A u \in Thread \ {t} : Touched(u)' = Touched(u) /\ Touched(t) \cap Touched(u) = {}
       /\ \A u \in Busy \ {t} : /\ SameStore(call[u].elem)
                                /\ call[u].at = "share" => SameStore(call[u].src)
  BY <1>1, <1>2, <1>3, <1>5, <1>7, <1>8, <1>13, <1>14, StoreStep DEF Building, Destroying
<1>16. StoresOK'
  <2>1. WithinFor(t)'
    BY <1>1, <1>3, <1>5, <1>8 DEF WithinFor, IInv, StoresOK, Accessing
  <2> QED BY <1>1, <1>7, <1>8, <1>14, <1>15, <2>1, StoresStep
<1>17. PagesOK'
  <2> DEFINE Z == Touched(t)
  <2>1. PagesOf(e)' = PagesOf(e) /\ PagesOf(call[t].elem)' = PagesOf(e)'
          /\ PagesOf(e) \subseteq Page
    BY <1>5, <1>8, TouchedAfter, PagesTyped DEF PagesOf, IInv
  <2>2. Kept(e)' = PagesOf(e) /\ Touched(t)' = PagesOf(e)
    BY <1>8, <1>15, <2>1, KeptAfter, TouchedAfter DEF Accessing
  <2>3. ASSUME NEW x PROVE Refs(x)' = IF x = m THEN Refs(x) \ {e} ELSE Refs(x)
    <3>1. /\ Refs(x)' = IF x \in Kept(e)' THEN Refs(x) \cup {e} ELSE Refs(x) \ {e}
          /\ e \in Refs(x) <=> x \in Kept(e)
      BY <1>15, RefsStep
    <3> QED BY <1>9, <1>10, <2>2, <3>1
  <2>4. ASSUME NEW x \in Page, x \in Z PROVE CountedAt(x)' /\ OpenedAt(x)'
    <3>1. CASE x = m
      <4>1. Cardinality(Refs(m) \ {e}) = Cardinality(Refs(m)) - 1 /\ Cardinality(Refs(m)) \in Nat
        BY <1>11, RefsFacts, FS_RemoveElement
      <4>2. Refs(m) \ {e} # {}
        <5>1. page[m].ref_count \in Nat
          BY <1>9 DEF Pages
        <5>2. Cardinality(Refs(m) \ {e}) # 0
          BY <1>9, <1>11, <4>1, <5>1
        <5> QED BY <5>2, FS_EmptySet
      <4>3. page[m].mapped
        BY <1>9, <1>11 DEF IInv, PagesOK, CountedAt
      <4> QED BY <1>11, <1>12, <2>3, <3>1, <4>1, <4>2, <4>3 DEF CountedAt, OpenedAt
    <3>2. CASE x # m
      <4>1. CountedAt(x)'
        BY <1>12, <2>3, <3>2 DEF CountedAt, IInv, PagesOK
      <4>2. x \in Touched(t)'
        BY <1>10, <2>2, <2>4, <3>2
      <4> QED BY <1>8, <4>1, <4>2 DEF OpenedAt, Accessing
    <3> QED BY <3>1, <3>2
  <2>5. SharedFor(t)'
    BY <1>8 DEF SharedFor
  <2>6. HeldFor(t)'
    <3>1. HeldFor(t)
      BY DEF IInv, PagesOK
    <3> QED BY <1>3, <1>8, <1>9, <1>10, <2>2, <2>3, <3>1 DEF HeldFor
  <2>7. OpenFor(t)'
    <3>1. \A x \in PagesOf(e) : page[x].open
      BY <1>1, <1>3 DEF IInv, PagesOK, OpenFor, Accessing
    <3> QED BY <1>9, <1>12, <2>1, <3>1 DEF OpenFor
  <2>8. \A u \in Thread \ {t} : Touched(u)' = Touched(u) /\ Z \cap Touched(u) = {}
    BY <1>15
  <2>9. \A u \in Busy \ {t} : SameStore(call[u].elem)
    BY <1>15
  <2>10. \A x \in Page \ Z :
           /\ page'[x].mapped = page[x].mapped /\ page'[x].lost = page[x].lost
           /\ page'[x].ref_count = page[x].ref_count
           /\ x \notin Touched(t) => page'[x].open = page[x].open
           /\ Refs(x)' = Refs(x)
    BY <1>10, <1>12, <2>3
  <2>11. Touched(t)' \subseteq Z /\ \A x \in Touched(t) \ Z : ~page'[x].open
    BY <1>10, <2>2
  <2> HIDE DEF Z
  <2> QED BY <1>7, <2>4, <2>5, <2>6, <2>7, <2>8, <2>9, <2>10, <2>11, PagesStep
<1> QED BY <1>13, <1>15, <1>16, <1>17 DEF IInv

(* tls_write and tls_read close their pages (206-210).                      *)
LEMMA ProtectsStep ==
  ASSUME IInv, NEW t \in Thread, Protects(t)
  PROVE  IInv'
<1>1. call[t].at = "protect"
  BY DEF Protects, In
<1>2. t \in Busy /\ call[t] \in CallRecords /\ OwnedBy(call[t].elem, t)
  BY <1>1, StepFacts
<1>3. PICK e \in Element : e = call[t].elem
  BY <1>2 DEF OwnedBy
<1>4. Kept(e) = PagesOf(e) /\ Touched(t) = Kept(e) /\ PagesOf(e) \subseteq Page
  BY <1>1, <1>2, <1>3, KeptByLabel, OwnTouched, PagesTyped DEF Accessing, IInv
<1>5. /\ page' = [p \in Page |-> IF p \in PagesOf(e) THEN [page[p] EXCEPT !.open = FALSE]
           ELSE page[p]]
      /\ call' = [call EXCEPT ![t] = Idle]
      /\ UNCHANGED <<hash_table, elem, proc>>
  BY <1>3 DEF Protects, Protection, Done
<1>6. Idle \in CallRecords /\ Idle.at = "idle" /\ Idle.elem = NULL /\ Idle.peer = NoThread
  BY TlsAssumption DEF Idle, CallRecords, Labels
<1>7. OnlyCall(t) /\ call'[t] = Idle /\ call' \in [Thread -> CallRecords]
  BY <1>5, <1>6, CallStep
<1>8. /\ page' \in [Page -> Pages]
      /\ \A x \in Page : /\ page'[x].mapped = page[x].mapped /\ page'[x].lost = page[x].lost
                         /\ page'[x].ref_count = page[x].ref_count
                         /\ page'[x].open = (page[x].open /\ x \notin PagesOf(e))
  BY <1>5 DEF IInv, Typed, Pages
<1>9. Typed'
  BY <1>5, <1>7, <1>8 DEF IInv, Typed
<1>10. IdleFor(t)' /\ \A f \in Element : SameStore(f)
  BY <1>5, <1>7 DEF IdleFor, SameStore
<1>11. /\ CallsOK' /\ TableOK' /\ OwnedBy(e, t)'
       /\ \A f \in Element \ {e} : Kept(f)' = Kept(f)
       /\ \A u \in Thread \ {t} : Touched(u)' = Touched(u) /\ Touched(t) \cap Touched(u) = {}
       /\ \A u \in Busy \ {t} : /\ SameStore(call[u].elem)
                                /\ call[u].at = "share" => SameStore(call[u].src)
  BY <1>1, <1>2, <1>3, <1>5, <1>6, <1>7, <1>9, <1>10, StoreStep DEF Building, Destroying
<1>12. StoresOK'
  <2>1. WithinFor(t)'
    BY <1>6, <1>7 DEF WithinFor, Accessing
  <2> QED BY <1>1, <1>6, <1>7, <1>10, <1>11, <2>1, StoresStep
<1>13. PagesOK'
  <2> DEFINE Z == Touched(t)
  <2>1. Kept(e)' = PagesOf(e)
    <3>1. elem[e].state = "live" /\ elem[e].tid = t /\ e # NULL
      BY <1>2, <1>3, Numbers DEF OwnedBy
    <3> QED BY <1>5, <1>6, <1>7, <3>1 DEF Kept, PagesOf
  <2>2. Touched(t)' = {}
    BY <1>6, <1>7 DEF Touched, Accessing, Destroying
  <2>3. ASSUME NEW x PROVE Refs(x)' = Refs(x)
    <3>1. /\ Refs(x)' = IF x \in Kept(e)' THEN Refs(x) \cup {e} ELSE Refs(x) \ {e}
          /\ e \in Refs(x) <=> x \in Kept(e)
      BY <1>11, RefsStep
    <3> QED BY <1>4, <2>1, <3>1
  <2>4. ASSUME NEW x \in Page, x \in Z PROVE CountedAt(x)' /\ OpenedAt(x)'
    <3>1. CountedAt(x)'
      BY <1>8, <2>3 DEF CountedAt, IInv, PagesOK
    <3> QED BY <1>4, <1>8, <2>4, <3>1 DEF OpenedAt
  <2>5. SharedFor(t)' /\ HeldFor(t)' /\ OpenFor(t)'
    BY <1>6, <1>7, <2>2 DEF SharedFor, HeldFor, OpenFor, Accessing
  <2>8. \A u \in Thread \ {t} : Touched(u)' = Touched(u) /\ Z \cap Touched(u) = {}
    BY <1>11
  <2>9. \A u \in Busy \ {t} : SameStore(call[u].elem)
    BY <1>11
  <2>10. \A x \in Page \ Z :
           /\ page'[x].mapped = page[x].mapped /\ page'[x].lost = page[x].lost
           /\ page'[x].ref_count = page[x].ref_count
           /\ x \notin Touched(t) => page'[x].open = page[x].open
           /\ Refs(x)' = Refs(x)
    <3> SUFFICES ASSUME NEW x \in Page \ Z
                 PROVE  /\ page'[x].mapped = page[x].mapped /\ page'[x].lost = page[x].lost
                        /\ page'[x].ref_count = page[x].ref_count
                        /\ page'[x].open = page[x].open /\ Refs(x)' = Refs(x)
      OBVIOUS
    <3>1. x \notin PagesOf(e)
      BY <1>4
    <3>2. page[x].open \in BOOLEAN
      BY DEF IInv, Typed, Pages
    <3> QED BY <1>8, <2>3, <3>1, <3>2
  <2>11. Touched(t)' \subseteq Z /\ \A x \in Touched(t) \ Z : ~page'[x].open
    BY <2>2
  <2> HIDE DEF Z
  <2> QED BY <1>7, <2>4, <2>5, <2>8, <2>9, <2>10, <2>11, PagesStep
<1> QED BY <1>9, <1>11, <1>12, <1>13 DEF IInv

(* What a call other than tls_write and tls_read touches is closed.         *)
LEMMA NothingOpen ==
  ASSUME IInv, NEW t \in Thread, call[t].at \notin Accessing
  PROVE  \A p \in Touched(t) : ~page[p].open
<1> SUFFICES ASSUME NEW p \in Touched(t), page[p].open PROVE FALSE
  OBVIOUS
<1>1. p \in Page
  BY TouchedPages
<1>2. PICK u \in Thread : call[u].at \in Accessing /\ p \in Touched(u)
  BY <1>1 DEF IInv, PagesOK, OpenedAt
<1> QED BY <1>2 DEF IInv, PagesOK

(* A step that changes no page and leaves the call with none to look after. *)
LEMMA PagesSame ==
  ASSUME IInv, NEW t \in Thread, NEW e \in Element, OnlyCall(t), page' = page,
         \A f \in Element \ {e} : Kept(f)' = Kept(f), Kept(e)' = Kept(e),
         \A u \in Thread \ {t} : Touched(u)' = Touched(u),
         \A u \in Busy \ {t} : SameStore(call[u].elem),
         call[t].at \notin Accessing,
         call'[t].at \notin Accessing \cup Destroying \cup {"share"}
  PROVE  PagesOK'
<1>1. Touched(t)' = {}
  BY DEF Touched
<1>2. ASSUME NEW x PROVE Refs(x)' = Refs(x)
  <2>1. /\ Refs(x)' = IF x \in Kept(e)' THEN Refs(x) \cup {e} ELSE Refs(x) \ {e}
        /\ e \in Refs(x) <=> x \in Kept(e)
    BY RefsStep
  <2> QED BY <2>1
<1>3. SharedFor(t)' /\ HeldFor(t)' /\ OpenFor(t)'
  BY <1>1 DEF SharedFor, HeldFor, OpenFor, Accessing
<1> DEFINE Z == {}
<1>4. \A u \in Thread \ {t} : Touched(u)' = Touched(u) /\ Z \cap Touched(u) = {}
  OBVIOUS
<1>5. \A p \in Touched(t) \ Z : ~page'[p].open
  BY NothingOpen
<1>6. \A p \in Page \ Z :
        /\ page'[p].mapped = page[p].mapped /\ page'[p].lost = page[p].lost
        /\ page'[p].ref_count = page[p].ref_count
        /\ p \notin Touched(t) => page'[p].open = page[p].open
        /\ Refs(p)' = Refs(p)
  BY <1>2
<1>7. Touched(t)' \subseteq Z /\ \A p \in Page \cap Z : CountedAt(p)' /\ OpenedAt(p)'
  BY <1>1
<1> HIDE DEF Z
<1> QED BY <1>3, <1>4, <1>5, <1>6, <1>7, PagesStep

(* tls_destroy gives back a page (261-277).                                 *)
LEMMA DestroyReleasesStep ==
  ASSUME IInv, NEW t \in Thread, DestroyReleases(t)
  PROVE  IInv'
<1>1. call[t].at = "release"
  BY DEF DestroyReleases, In
<1>2. t \in Busy /\ call[t] \in CallRecords /\ OwnedBy(call[t].elem, t)
  BY <1>1, StepFacts
<1>3. PICK e \in Element : e = call[t].elem
  BY <1>2 DEF OwnedBy
<1>4. PICK i \in Nat : i = call[t].idx
  BY <1>2 DEF CallRecords
<1>5. i > 0
  BY <1>1, <1>4 DEF IInv, StoresOK, WithinFor
<1>6. /\ Len(elem[e].pages) \in Nat /\ DOMAIN elem[e].pages = 1 .. Len(elem[e].pages)
      /\ \A j \in DOMAIN elem[e].pages : elem[e].pages[j] \in Page
  BY PagesTyped DEF IInv
<1>7. /\ Kept(e) = {elem[e].pages[k] : k \in {j \in DOMAIN elem[e].pages : j >= i}}
      /\ Touched(t) = Kept(e)
  BY <1>1, <1>2, <1>3, <1>4, KeptByLabel, OwnTouched DEF Destroying
<1>8. CASE i > Len(elem[e].pages)
  <2> DEFINE r == [call[t] EXCEPT !.at = "unlink"]
  <2>1. call' = [call EXCEPT ![t].at = "unlink"] /\ UNCHANGED <<hash_table, elem, page, proc>>
    BY <1>3, <1>4, <1>8 DEF DestroyReleases, Step
  <2>2. r \in CallRecords /\ call' = [call EXCEPT ![t] = r]
    BY <1>2, <2>1 DEF CallRecords, Labels
  <2>3. OnlyCall(t) /\ call'[t] = r /\ call' \in [Thread -> CallRecords]
    BY <2>2, CallStep
  <2>4. /\ call'[t].at = "unlink" /\ call'[t].elem = e /\ call'[t].peer = call[t].peer
        /\ call'[t].held = call[t].held
    BY <1>2, <1>3, <2>3 DEF CallRecords
  <2> HIDE DEF r
  <2>5. Typed'
    BY <2>1, <2>3 DEF IInv, Typed
  <2>6. Kept(e)' = {} /\ Kept(e) = {}
    <3>1. OwnedBy(e, t)'
      BY <1>2, <1>3, <2>1 DEF OwnedBy
    <3>2. Kept(e)' = {}
      BY <2>4, <3>1, KeptAfter
    <3> QED BY <1>6, <1>7, <1>8, <3>2
  <2>7. WithinFor(t)' /\ SharedFor(t)'
    BY <2>4 DEF WithinFor, SharedFor, Accessing
  <2>8. \A p \in Page : page'[p].mapped = page[p].mapped /\ page'[p].lost = page[p].lost
          /\ page'[p].ref_count = page[p].ref_count /\ page'[p].open = page[p].open
    BY <2>1
  <2>9. call[t].at = "release" /\ call'[t].at \in Destroying
    BY <1>1, <2>4 DEF Destroying
  <2> QED BY <1>2, <1>3, <2>1, <2>3, <2>4, <2>5, <2>6, <2>7, <2>8, <2>9, QuietStep
<1>9. CASE ~(i > Len(elem[e].pages))
  <2>1. i \in DOMAIN elem[e].pages
    BY <1>5, <1>6, <1>9
  <2>2. PICK p \in Page : p = elem[e].pages[i]
    BY <1>6, <2>1
  <2>3. /\ page' = [page EXCEPT ![p] = Released(t, p)]
        /\ call' = [call EXCEPT ![t].idx = @ + 1]
        /\ UNCHANGED <<hash_table, elem, proc>>
    BY <1>3, <1>4, <1>9, <2>2 DEF DestroyReleases
  <2> DEFINE r == [call[t] EXCEPT !.idx = i + 1]
  <2>4. r \in CallRecords /\ call' = [call EXCEPT ![t] = r]
    <3>1. r \in CallRecords
      BY <1>2 DEF CallRecords
    <3> QED BY <1>2, <1>4, <2>3, <3>1 DEF CallRecords, IInv, Typed
  <2>5. OnlyCall(t) /\ call'[t] = r /\ call' \in [Thread -> CallRecords]
    BY <2>4, CallStep
  <2>6. /\ call'[t].at = "release" /\ call'[t].elem = e /\ call'[t].peer = call[t].peer
        /\ call'[t].held = call[t].held /\ call'[t].idx = i + 1
    BY <1>1, <1>2, <1>3, <2>5 DEF CallRecords
  <2> HIDE DEF r
  <2>7. p \in Kept(e) /\ page[p] \in Pages /\ page \in [Page -> Pages]
    BY <1>4, <1>7, <2>1, <2>2 DEF IInv, Typed
  <2>8. /\ ~page[p].lost /\ page[p].mapped /\ page[p].ref_count = Cardinality(Refs(p))
       /\ e \in Refs(p)
        /\ Cardinality(Refs(p) \ {e}) = Cardinality(Refs(p)) - 1 /\ Cardinality(Refs(p)) \in Nat
    BY <2>7, KeptCounted, RefsFacts, FS_RemoveElement
  <2>9. Unmapped \in Pages /\ ~Unmapped.mapped /\ ~Unmapped.lost /\ Unmapped.ref_count = 0
          /\ ~Unmapped.open
    BY TlsAssumption DEF Unmapped, Pages
  <2>10. /\ page' \in [Page -> Pages] /\ \A x \in Page \ {p} : page'[x] = page[x]
         /\ ~page'[p].lost /\ page'[p].ref_count = Cardinality(Refs(p)) - 1
         /\ page'[p].mapped <=> Cardinality(Refs(p)) # 1
         /\ page'[p].open => page[p].open
    <3>1. Cardinality(Refs(p) \ {e}) \in Nat
      BY RefsFacts, FS_RemoveElement, FS_Subset, FS_CardinalityType
    <3>2. CASE page[p].ref_count = 1
      BY <2>3, <2>7, <2>8, <2>9, <3>2 DEF Released
    <3>3. CASE page[p].ref_count # 1
      <4>1. page[p].ref_count > 1 /\ page[p].ref_count - 1 \in Nat
        BY <2>8, <3>1, <3>3
      <4>2. Released(t, p) = [page[p] EXCEPT !.ref_count = page[p].ref_count - 1]
        BY <2>7, <3>3, <4>1 DEF Released, Pages
      <4> QED BY <2>3, <2>7, <2>8, <4>1, <4>2 DEF Pages
    <3> QED BY <3>2, <3>3
  <2>11. Typed'
    BY <2>3, <2>5, <2>10 DEF IInv, Typed
  <2>12. IdleFor(t)' /\ \A f \in Element : SameStore(f)
    BY <2>3, <2>6 DEF IdleFor, SameStore
  <2>13. /\ CallsOK' /\ TableOK' /\ OwnedBy(e, t)'
         /\ \A f \in Element \ {e} : Kept(f)' = Kept(f)
         /\ \A u \in Thread \ {t} : Touched(u)' = Touched(u) /\ Touched(t) \cap Touched(u) = {}
         /\ \A u \in Busy \ {t} : /\ SameStore(call[u].elem)
                                  /\ call[u].at = "share" => SameStore(call[u].src)
    BY <1>1, <1>2, <1>3, <2>3, <2>5, <2>6, <2>11, <2>12, StoreStep DEF Building, Destroying
  <2>14. StoresOK'
    <3>1. WithinFor(t)'
      BY <1>5, <2>6 DEF WithinFor, Accessing
    <3> QED BY <1>1, <2>5, <2>6, <2>12, <2>13, <3>1, StoresStep
  <2>15. PagesOK'
    <3> DEFINE Z == Touched(t)
    <3>1. Kept(e)' = Kept(e) \ {p}
      <4>1. \A j, k \in DOMAIN elem[e].pages : elem[e].pages[j] = elem[e].pages[k] => j = k
        BY <1>2, <1>3 DEF IInv, StoresOK, StoreAt, OwnedBy
      <4>2. Kept(e)' = {elem[e].pages[k] : k \in {j \in DOMAIN elem[e].pages : j >= i + 1}}
        BY <2>3, <2>6, <2>13, KeptAfter
      <4>3. \A j \in DOMAIN elem[e].pages : j >= i + 1 <=> j >= i /\ j # i
        BY <1>6
      <4> QED BY <1>7, <2>1, <2>2, <4>1, <4>2, <4>3
    <3>2. Touched(t)' = Kept(e) \ {p}
      BY <2>6, <3>1, TouchedAfter DEF Destroying
    <3>3. ASSUME NEW x PROVE Refs(x)' = IF x = p THEN Refs(x) \ {e} ELSE Refs(x)
      <4>1. /\ Refs(x)' = IF x \in Kept(e)' THEN Refs(x) \cup {e} ELSE Refs(x) \ {e}
            /\ e \in Refs(x) <=> x \in Kept(e)
        BY <2>13, RefsStep
      <4> QED BY <3>1, <4>1
    <3>4. \A x \in Z : ~page[x].open
      BY <1>1, NothingOpen DEF Accessing
    <3>5. ASSUME NEW x \in Page, x \in Z PROVE CountedAt(x)' /\ OpenedAt(x)'
      <4>1. OpenedAt(x)'
        BY <2>10, <3>4, <3>5 DEF OpenedAt
      <4>2. CASE x = p
        <5>1. Refs(p) \ {e} # {} <=> Cardinality(Refs(p)) # 1
          <6>1. IsFiniteSet(Refs(p) \ {e})
            BY RefsFacts, FS_Subset
          <6> QED BY <2>8, <6>1, FS_EmptySet
        <5> QED BY <2>8, <2>10, <3>3, <4>1, <4>2, <5>1 DEF CountedAt
      <4>3. CASE x # p
        BY <2>10, <3>3, <4>1, <4>3 DEF CountedAt, IInv, PagesOK
      <4> QED BY <4>2, <4>3
    <3>6. HeldFor(t)'
      <4>1. HeldFor(t)
        BY DEF IInv, PagesOK
      <4> QED BY <1>3, <1>7, <2>6, <3>2, <3>3, <4>1 DEF HeldFor
    <3>7. SharedFor(t)' /\ OpenFor(t)'
      BY <2>6 DEF SharedFor, OpenFor, Accessing
    <3>8. \A u \in Thread \ {t} : Touched(u)' = Touched(u) /\ Z \cap Touched(u) = {}
      BY <2>13
    <3>9. \A u \in Busy \ {t} : SameStore(call[u].elem)
      BY <2>13
    <3>10. \A x \in Page \ Z :
           /\ page'[x].mapped = page[x].mapped /\ page'[x].lost = page[x].lost
           /\ page'[x].ref_count = page[x].ref_count
           /\ x \notin Touched(t) => page'[x].open = page[x].open
           /\ Refs(x)' = Refs(x)
      BY <1>7, <2>7, <2>10, <3>3
    <3>11. Touched(t)' \subseteq Z /\ \A x \in Touched(t) \ Z : ~page'[x].open
      BY <1>7, <3>2
    <3> HIDE DEF Z
    <3> QED BY <2>5, <3>5, <3>6, <3>7, <3>8, <3>9, <3>10, <3>11, PagesStep
  <2> QED BY <2>11, <2>13, <2>14, <2>15 DEF IInv
<1> QED BY <1>8, <1>9

(* While a store is cloned, its source is whole and in no other call.       *)
LEMMA SourceFacts ==
  ASSUME IInv, NEW t \in Thread, NEW e \in Element, NEW s \in Element,
         call[t].at = "share", e = call[t].elem, s = call[t].src
  PROVE  /\ s # e /\ s \notin Unfinished /\ elem[s].state = "live"
         /\ Kept(s) = PagesOf(s) /\ Touched(t) = Kept(s) /\ Kept(e) = PagesOf(e)
         /\ Len(elem[s].pages) = PagesFor(elem[s].size)
         /\ \A i, j \in DOMAIN elem[s].pages : elem[s].pages[i] = elem[s].pages[j] => i = j
         /\ elem[e].size = elem[s].size
         /\ Len(elem[e].pages) <= Len(elem[s].pages)
         /\ \A i \in 1 .. Len(elem[e].pages) : elem[e].pages[i] = elem[s].pages[i]
<1>1. s # e /\ call[call[t].peer] = Idle /\ Kept(s) = PagesOf(s)
  BY SourceIdle
<1>2. /\ OwnedBy(s, call[t].peer) /\ elem[e].size = elem[s].size
      /\ Len(elem[e].pages) <= Len(elem[s].pages)
      /\ \A i \in 1 .. Len(elem[e].pages) : elem[e].pages[i] = elem[s].pages[i]
  BY DEF IInv, StoresOK, CloneFor
<1>3. s \notin Unfinished
  <2> SUFFICES ASSUME NEW u \in Thread, call[u].at = "share", call[u].elem = s PROVE FALSE
    BY DEF Unfinished
  <2>1. OwnedBy(s, u)
    BY StepFacts
  <2>2. u = call[t].peer
    BY <1>2, <2>1 DEF OwnedBy
  <2> QED BY <1>1, <2>2 DEF Idle
<1>4. StoreAt(s) /\ elem[s].state = "live"
  BY <1>2 DEF IInv, StoresOK, OwnedBy
<1>5. Touched(t) = Kept(s)
  BY DEF Touched
<1>6. Kept(e) = PagesOf(e)
  <2>1. t \in Busy
    BY StepFacts
  <2> QED BY <2>1, KeptByLabel
<1> QED BY <1>1, <1>2, <1>3, <1>4, <1>5, <1>6 DEF StoreAt

(* tls_clone takes a share of a page (315-320).                             *)
LEMMA CloneSharesStep ==
  ASSUME IInv, NEW t \in Thread, CloneShares(t)
  PROVE  IInv'
<1>1. call[t].at = "share"
  BY DEF CloneShares, In
<1>2. t \in Busy /\ call[t] \in CallRecords /\ OwnedBy(call[t].elem, t) /\ call[t].src \in Element
  BY <1>1, StepFacts, SourceIdle
<1>3. PICK e \in Element : e = call[t].elem
  BY <1>2 DEF OwnedBy
<1>4. PICK s \in Element : s = call[t].src
  BY <1>2
<1>5. /\ s # e /\ s \notin Unfinished /\ elem[s].state = "live"
      /\ Kept(s) = PagesOf(s) /\ Touched(t) = Kept(s) /\ Kept(e) = PagesOf(e)
      /\ Len(elem[s].pages) = PagesFor(elem[s].size)
      /\ \A i, j \in DOMAIN elem[s].pages : elem[s].pages[i] = elem[s].pages[j] => i = j
      /\ elem[e].size = elem[s].size
      /\ Len(elem[e].pages) <= Len(elem[s].pages)
      /\ \A i \in 1 .. Len(elem[e].pages) : elem[e].pages[i] = elem[s].pages[i]
  BY <1>1, <1>3, <1>4, SourceFacts
<1>6. PICK n \in Nat : n = Len(elem[e].pages)
  BY PagesTyped DEF IInv
<1>7. /\ Len(elem[s].pages) \in Nat /\ DOMAIN elem[s].pages = 1 .. Len(elem[s].pages)
      /\ DOMAIN elem[e].pages = 1 .. n /\ elem[e].pages \in Seq(Page)
      /\ \A j \in DOMAIN elem[s].pages : elem[s].pages[j] \in Page
  BY <1>6, PagesTyped DEF IInv
<1>8. \A u \in Thread \ {t} : call[u].at = "share" => call[u].elem # e /\ call[u].src # e
  <2> SUFFICES ASSUME NEW u \in Thread \ {t}, call[u].at = "share"
               PROVE  call[u].elem # e /\ call[u].src # e
    OBVIOUS
  <2>1. u \in Busy
    BY StepFacts
  <2> QED BY <1>2, <1>3, <2>1, OwnElements
<1>9. CASE n + 1 > Len(elem[s].pages)
  <2> DEFINE r == [call[t] EXCEPT !.at = "link"]
  <2>1. call' = [call EXCEPT ![t].at = "link"] /\ UNCHANGED <<hash_table, elem, page, proc>>
    BY <1>3, <1>4, <1>6, <1>9 DEF CloneShares, Step, heap
  <2>2. r \in CallRecords /\ call' = [call EXCEPT ![t] = r]
    BY <1>2, <2>1 DEF CallRecords, Labels
  <2>3. OnlyCall(t) /\ call'[t] = r /\ call' \in [Thread -> CallRecords]
    BY <2>2, CallStep
  <2>4. call'[t].at = "link" /\ call'[t].elem = e /\ call'[t].peer = call[t].peer
    BY <1>2, <1>3, <2>3 DEF CallRecords
  <2> HIDE DEF r
  <2>5. Typed'
    BY <2>1, <2>3 DEF IInv, Typed
  <2>6. IdleFor(t)' /\ \A f \in Element : SameStore(f)
    BY <2>1, <2>4 DEF IdleFor, SameStore
  <2>7. /\ CallsOK' /\ TableOK' /\ OwnedBy(e, t)'
        /\ \A f \in Element \ {e} : Kept(f)' = Kept(f)
        /\ \A u \in Thread \ {t} : Touched(u)' = Touched(u)
        /\ \A u \in Busy \ {t} : /\ SameStore(call[u].elem)
                                 /\ call[u].at = "share" => SameStore(call[u].src)
    BY <1>1, <1>2, <1>3, <2>1, <2>3, <2>4, <2>5, <2>6, StoreStep DEF Building, Destroying
  <2>8. StoresOK'
    <3>1. Len(elem[e].pages) = PagesFor(elem[e].size)
      BY <1>5, <1>6, <1>7, <1>9
    <3>2. Unfinished' = Unfinished \ {e}
      BY <1>1, <1>3, <1>8, <2>3, <2>4 DEF Unfinished, OnlyCall
    <3>3. ASSUME NEW f \in Element PROVE StoreAt(f)'
      <4>1. StoreAt(f)
        BY DEF IInv, StoresOK
      <4>2. CASE f = e
        BY <2>1, <3>1, <4>1, <4>2 DEF StoreAt, PagesFor
      <4>3. CASE f # e
        BY <2>1, <3>2, <4>1, <4>3 DEF StoreAt, PagesFor
      <4> QED BY <4>2, <4>3
    <3>4. ASSUME NEW u \in Thread PROVE CloneFor(u)' /\ WithinFor(u)'
      <4>1. CASE u = t
        BY <2>4, <4>1 DEF CloneFor, WithinFor, Accessing
      <4>2. CASE u # t
        <5>1. CloneFor(u) /\ WithinFor(u) /\ call'[u] = call[u]
          BY <2>3, <4>2 DEF IInv, StoresOK, OnlyCall
        <5> QED BY <2>1, <5>1 DEF CloneFor, WithinFor, OwnedBy
      <4> QED BY <4>1, <4>2
    <3> QED BY <3>3, <3>4 DEF StoresOK
  <2>9. PagesOK'
    <3>1. Kept(e)' = Kept(e)
      <4>1. Kept(e)' = PagesOf(e)'
        BY <2>4, <2>7, KeptAfter
      <4> QED BY <1>5, <2>1, <4>1 DEF PagesOf
    <3> QED BY <1>1, <2>1, <2>3, <2>4, <2>7, <3>1, PagesSame DEF Accessing, Destroying
  <2> QED BY <2>5, <2>7, <2>8, <2>9 DEF IInv
<1>10. CASE ~(n + 1 > Len(elem[s].pages))
  <2>1. n + 1 \in DOMAIN elem[s].pages
    BY <1>7, <1>10
  <2>2. PICK p \in Page : p = elem[s].pages[n + 1]
    BY <1>7, <2>1
  <2>3. /\ elem' = [elem EXCEPT ![e].pages = Append(@, p)]
        /\ page' = [page EXCEPT ![p].ref_count = @ + 1]
        /\ UNCHANGED <<hash_table, call, proc>>
    BY <1>3, <1>4, <1>6, <1>10, <2>2 DEF CloneShares
  <2>4. OnlyCall(t) /\ call'[t] = call[t] /\ call' \in [Thread -> CallRecords]
    BY <2>3 DEF OnlyCall, IInv, Typed
  <2>5. /\ Append(elem[e].pages, p) \in Seq(Page) /\ Len(Append(elem[e].pages, p)) = n + 1
        /\ DOMAIN Append(elem[e].pages, p) = 1 .. n + 1
        /\ \A j \in 1 .. n + 1 : Append(elem[e].pages, p)[j] = elem[s].pages[j]
    <3>1. Len(Append(elem[e].pages, p)) = n + 1 /\ Append(elem[e].pages, p) \in Seq(Page)
      BY <1>6, <1>7
    <3>2. \A j \in 1 .. n + 1 : Append(elem[e].pages, p)[j] = IF j = n + 1 THEN p
            ELSE elem[e].pages[j]
      BY <1>6, <1>7
    <3>3. \A j \in 1 .. n + 1 : j # n + 1 => j \in 1 .. n
      OBVIOUS
    <3> QED BY <1>5, <1>6, <2>2, <3>1, <3>2, <3>3
  <2>6. /\ elem' \in [Element -> Elements]
        /\ elem'[e].state = elem[e].state /\ elem'[e].tid = elem[e].tid
        /\ elem'[e].next = elem[e].next /\ elem'[e].size = elem[e].size
        /\ elem'[e].pages = Append(elem[e].pages, p)
        /\ \A f \in Element \ {e} : elem'[f] = elem[f]
    <3>1. elem \in [Element -> Elements]
      BY DEF IInv, Typed
    <3>2. [elem[e] EXCEPT !.pages = Append(elem[e].pages, p)] \in Elements
      BY <2>5, <3>1 DEF Elements
    <3>3. elem' = [elem EXCEPT ![e] = [elem[e] EXCEPT !.pages = Append(elem[e].pages, p)]]
      BY <2>3, <3>1
    <3> QED BY <3>1, <3>2, <3>3 DEF Elements
  <2>7. p \in Kept(s) /\ page[p].mapped /\ ~page[p].lost /\ s \in Refs(p) /\ page[p] \in Pages
    <3>1. p \in Kept(s)
      BY <1>5, <2>1, <2>2 DEF PagesOf
    <3> QED BY <3>1, KeptCounted DEF IInv, Typed
  <2>8. /\ page' \in [Page -> Pages] /\ \A x \in Page \ {p} : page'[x] = page[x]
        /\ page'[p].mapped = page[p].mapped /\ page'[p].lost = page[p].lost
        /\ page'[p].ref_count = page[p].ref_count + 1 /\ page'[p].open = page[p].open
    <3>1. page[p].ref_count + 1 \in Nat
      BY <2>7 DEF Pages
    <3>2. page \in [Page -> Pages]
      BY DEF IInv, Typed
    <3> QED BY <2>3, <2>7, <3>1, <3>2 DEF Pages
  <2>9. Typed'
    BY <2>3, <2>4, <2>6, <2>8 DEF IInv, Typed
  <2>10. IdleFor(t)'
    BY <1>1, <2>4 DEF IdleFor
  <2>11. /\ CallsOK' /\ TableOK' /\ OwnedBy(e, t)'
         /\ \A f \in Element \ {e} : Kept(f)' = Kept(f) /\ SameStore(f)
         /\ \A u \in Thread \ {t} : Touched(u)' = Touched(u) /\ Touched(t) \cap Touched(u) = {}
         /\ \A u \in Busy \ {t} : /\ SameStore(call[u].elem)
                                  /\ call[u].at = "share" => SameStore(call[u].src)
    BY <1>1, <1>2, <1>3, <2>3, <2>4, <2>6, <2>9, <2>10, StoreStep DEF Building, Destroying
  <2>12. StoresOK'
    <3>1. Unfinished' = Unfinished /\ e \in Unfinished
      BY <1>1, <1>3, <2>3 DEF Unfinished
    <3>2. ASSUME NEW f \in Element PROVE StoreAt(f)'
      <4>1. StoreAt(f)
        BY DEF IInv, StoresOK
      <4>2. CASE f = e
        <5>1. \A i, j \in 1 .. n + 1 : Append(elem[e].pages, p)[i] = Append(elem[e].pages, p)[j]
                => i = j
          <6>1. \A i \in 1 .. n + 1 : i \in DOMAIN elem[s].pages
            BY <1>7, <2>1
          <6> QED BY <1>5, <2>5, <6>1
        <5> QED BY <2>5, <2>6, <3>1, <4>2, <5>1 DEF StoreAt
      <4>3. CASE f # e
        BY <2>6, <3>1, <4>1, <4>3 DEF StoreAt, PagesFor
      <4> QED BY <4>2, <4>3
    <3>3. ASSUME NEW u \in Thread PROVE CloneFor(u)' /\ WithinFor(u)'
      <4>1. CloneFor(u) /\ WithinFor(u) /\ call'[u] = call[u]
        BY <2>3 DEF IInv, StoresOK
      <4>2. CASE u = t
        <5>1. WithinFor(t)'
          BY <1>1, <2>4 DEF WithinFor, Accessing
        <5>2. Len(elem'[e].pages) <= Len(elem'[s].pages)
          BY <1>5, <1>7, <2>1, <2>5, <2>6
        <5>3. \A i \in 1 .. Len(elem'[e].pages) : elem'[e].pages[i] = elem'[s].pages[i]
          BY <1>5, <2>5, <2>6
        <5>4. call[t].peer \in Thread \ {t} /\ OwnedBy(s, call[t].peer)
          BY <1>1, <1>4, <4>1, <4>2 DEF CloneFor
        <5>5. OwnedBy(s, call[t].peer)' /\ elem'[e].size = elem'[s].size
          BY <1>5, <2>3, <2>6, <5>4 DEF OwnedBy
        <5>6. CloneFor(t)'
          BY <1>3, <1>4, <2>3, <5>2, <5>3, <5>4, <5>5 DEF CloneFor
        <5> QED BY <4>2, <5>1, <5>6
      <4>3. CASE u # t
        BY <2>4, <2>11, <4>3, OthersStores
      <4> QED BY <4>2, <4>3
    <3> QED BY <3>2, <3>3 DEF StoresOK
  <2>13. PagesOK'
    <3> DEFINE Z == Touched(t)
    <3>1. PagesOf(e)' = PagesOf(e) \cup {p} /\ p \notin PagesOf(e)
      <4>1. ASSUME NEW x PROVE x \in PagesOf(e)' <=> \E j \in 1 .. n + 1 : elem[s].pages[j] = x
        BY <2>5, <2>6 DEF PagesOf
      <4>2. ASSUME NEW x PROVE x \in PagesOf(e) <=> \E j \in 1 .. n : elem[s].pages[j] = x
        BY <1>5, <1>6, <1>7 DEF PagesOf
      <4>3. \A j \in 1 .. n : j \in DOMAIN elem[s].pages /\ j # n + 1 /\ elem[s].pages[j] # p
        <5>1. \A j \in 1 .. n : j \in DOMAIN elem[s].pages /\ j # n + 1
          BY <1>7, <2>1
        <5> QED BY <1>5, <2>1, <2>2, <5>1
      <4>4. \A j \in 1 .. n + 1 : j \in 1 .. n \/ j = n + 1
        OBVIOUS
      <4>5. n + 1 \in 1 .. n + 1 /\ \A j \in 1 .. n : j \in 1 .. n + 1
        OBVIOUS
      <4> QED BY <2>2, <4>1, <4>2, <4>3, <4>4, <4>5
    <3>2. Kept(e)' = Kept(e) \cup {p} /\ p \notin Kept(e)
      <4>1. Kept(e)' = PagesOf(e)'
        BY <1>1, <1>3, <2>4, <2>11, KeptAfter
      <4> QED BY <1>5, <3>1, <4>1
    <3>3. Touched(t)' = Z
      <4>1. Touched(t)' = Kept(s)'
        <5>1. call'[t].src = s /\ call'[t].at = "share"
          BY <1>1, <1>4, <2>3
        <5>2. Touched(t)' = Kept(call[t].src)'
          BY <5>1 DEF Touched
        <5>3. Kept(call[t].src)' = Kept(s)'
          BY ONLY <5>1 DEF Kept, PagesOf
        <5> QED BY <5>2, <5>3
      <4> QED BY <1>5, <2>11, <4>1
    <3>4. ASSUME NEW x PROVE Refs(x)' = IF x = p THEN Refs(x) \cup {e} ELSE Refs(x)
      <4>1. /\ Refs(x)' = IF x \in Kept(e)' THEN Refs(x) \cup {e} ELSE Refs(x) \ {e}
            /\ e \in Refs(x) <=> x \in Kept(e)
        BY <2>11, RefsStep
      <4> QED BY <3>2, <4>1
    <3>5. \A x \in Z : ~page[x].open
      BY <1>1, NothingOpen DEF Accessing
    <3>6. ASSUME NEW x \in Page, x \in Z PROVE CountedAt(x)' /\ OpenedAt(x)'
      <4>1. OpenedAt(x)'
        BY <2>8, <3>5, <3>6 DEF OpenedAt
      <4>2. CASE x = p
        <5>1. Cardinality(Refs(p) \cup {e}) = Cardinality(Refs(p)) + 1
          <6>1. e \notin Refs(p)
            BY <3>2 DEF Refs
          <6> QED BY <6>1, RefsFacts, FS_AddElement
        <5>2. page[p].ref_count = Cardinality(Refs(p))
          BY <2>7, KeptCounted
        <5> QED BY <2>7, <2>8, <3>4, <4>1, <4>2, <5>1, <5>2 DEF CountedAt
      <4>3. CASE x # p
        BY <2>8, <3>4, <4>1, <4>3 DEF CountedAt, IInv, PagesOK
      <4> QED BY <4>2, <4>3
    <3>7. HeldFor(t)'
      <4> SUFFICES ASSUME NEW x \in Z PROVE x \in call[t].held
        BY <2>3, <3>3 DEF HeldFor
      <4>1. s \in Refs(x)
        BY <1>5 DEF Refs
      <4>2. x \in call[t].held \/ Refs(x) = {e}
        BY <1>3 DEF IInv, PagesOK, HeldFor
      <4> QED BY <1>5, <4>1, <4>2
    <3>8. SharedFor(t)' /\ OpenFor(t)'
      BY <1>1, <2>4 DEF SharedFor, OpenFor, Accessing
    <3>9. \A u \in Thread \ {t} : Touched(u)' = Touched(u) /\ Z \cap Touched(u) = {}
      BY <2>11
    <3>10. \A u \in Busy \ {t} : SameStore(call[u].elem)
      BY <2>11
    <3>11. \A x \in Page \ Z :
           /\ page'[x].mapped = page[x].mapped /\ page'[x].lost = page[x].lost
           /\ page'[x].ref_count = page[x].ref_count
           /\ x \notin Touched(t) => page'[x].open = page[x].open
           /\ Refs(x)' = Refs(x)
      BY <1>5, <2>7, <2>8, <3>4
    <3>12. Touched(t)' \subseteq Z /\ \A x \in Touched(t) \ Z : ~page'[x].open
      BY <3>3
    <3> HIDE DEF Z
    <3> QED BY <2>4, <3>6, <3>7, <3>8, <3>9, <3>10, <3>11, <3>12, PagesStep
  <2> QED BY <2>9, <2>11, <2>12, <2>13 DEF IInv
<1> QED BY <1>9, <1>10

-----------------------------------------------------------------------------
(* The steps on the table *)

(* A bucket is in the hands of one call.                                    *)
LEMMA BucketsApart ==
  ASSUME IInv, NEW t \in Busy, NEW u \in Busy, t # u
  PROVE  /\ Hash(t) # Hash(u) /\ call[t].elem # call[u].elem
         /\ OwnedBy(call[t].elem, t) /\ OwnedBy(call[u].elem, u)
<1>1. t \in Parties(t) /\ u \in Parties(u)
  BY Numbers DEF Parties, Busy
<1>2. ApartFrom(t, u) /\ OwnedBy(call[t].elem, t) /\ OwnedBy(call[u].elem, u)
  BY DEF IInv, CallsOK
<1> QED BY <1>1, <1>2, OwnElements DEF ApartFrom

(* The first store of an insertion, the new element's next (143-147).       *)
LEMMA LinkNextStep ==
  ASSUME IInv, NEW t \in Thread, LinkNext(t)
  PROVE  IInv'
<1>1. call[t].at = "link"
  BY DEF LinkNext, In
<1>2. t \in Busy /\ call[t] \in CallRecords /\ OwnedBy(call[t].elem, t)
  BY <1>1, StepFacts
<1>3. PICK e \in Element : e = call[t].elem
  BY <1>2 DEF OwnedBy
<1>4. Hash(t) \in Bucket /\ hash_table[Hash(t)] \in Element \cup {NULL}
  BY HashTyped DEF IInv, Typed
<1>5. PICK h \in Element \cup {NULL} : h = hash_table[Hash(t)]
  BY <1>4
<1> DEFINE r == [call[t] EXCEPT !.at = "insert"]
<1>6. /\ elem' = [elem EXCEPT ![e].next = h]
      /\ call' = [call EXCEPT ![t].at = "insert"]
      /\ UNCHANGED <<hash_table, page, proc>>
  BY <1>3, <1>5 DEF LinkNext, Step
<1>7. r \in CallRecords /\ call' = [call EXCEPT ![t] = r]
  BY <1>2, <1>6 DEF CallRecords, Labels
<1>8. OnlyCall(t) /\ call'[t] = r /\ call' \in [Thread -> CallRecords]
  BY <1>7, CallStep
<1>9. call'[t].at = "insert" /\ call'[t].elem = e /\ call'[t].peer = call[t].peer
  BY <1>2, <1>3, <1>8 DEF CallRecords
<1> HIDE DEF r
<1>10. /\ elem' \in [Element -> Elements] /\ \A f \in Element : SameStore(f)
       /\ elem'[e].next = h /\ \A f \in Element \ {e} : elem'[f].next = elem[f].next
  <2>1. elem \in [Element -> Elements]
    BY DEF IInv, Typed
  <2>2. elem' = [elem EXCEPT ![e] = [elem[e] EXCEPT !.next = h]]
    BY <1>6, <2>1
  <2>3. [elem[e] EXCEPT !.next = h] \in Elements
    BY <2>1 DEF Elements
  <2> QED BY <2>1, <2>2, <2>3 DEF Elements, SameStore
<1>11. Typed'
  BY <1>6, <1>8, <1>10 DEF IInv, Typed
<1>12. OwnedBy(e, t)' /\ IdleFor(t)'
  BY <1>2, <1>3, <1>9, <1>10 DEF OwnedBy, SameStore, IdleFor
<1>13. /\ CallsOK'
       /\ \A f \in Element \ {e} : Kept(f)' = Kept(f)
       /\ \A u \in Thread \ {t} : Touched(u)' = Touched(u)
       /\ \A u \in Busy \ {t} : /\ SameStore(call[u].elem)
                                /\ call[u].at = "share" => SameStore(call[u].src)
  BY <1>2, <1>3, <1>8, <1>9, <1>10, <1>12, Ongoing
<1>14. TableOK'
  <2>1. /\ \A b \in Bucket : hash_table[b] # e
        /\ \A f \in Element : elem[f].next # e
    BY <1>1, <1>3 DEF IInv, TableOK, NewFor, Building
  <2>2. \A f, b : InBucket(f, b)' <=> InBucket(f, b)
    BY <1>10 DEF InBucket, SameStore, Hash
  <2>3. elem[e].state = "live" /\ elem[e].tid = t /\ InBucket(e, Hash(t))
    BY <1>2, <1>3 DEF OwnedBy, InBucket
  <2>4. Tids' /\ Heads'
    BY <1>6, <1>10, <2>2 DEF IInv, TableOK, Tids, Heads, SameStore
  <2>5. Nexts'
    <3> SUFFICES ASSUME NEW f \in Element, elem'[f].next # NULL
                 PROVE  elem[f].state # "unused" /\ InBucket(elem'[f].next, Hash(elem[f].tid))
      BY <1>10, <2>2 DEF Nexts, SameStore, Hash
    <3>1. CASE f = e
      BY <1>4, <1>5, <1>10, <2>3, <3>1 DEF IInv, TableOK, Heads
    <3>2. CASE f # e
      BY <1>10, <3>2 DEF IInv, TableOK, Nexts
    <3> QED BY <3>1, <3>2
  <2>6. ASSUME NEW f \in Element, f # e, elem[f].next = h, h # NULL PROVE FALSE
    <3>1. PICK u \in Thread : call[u].at = "insert" /\ call[u].elem = f
      BY <1>4, <1>5, <2>6 DEF IInv, TableOK, HeadsFirst
    <3>2. u \in Busy /\ u # t /\ OwnedBy(f, u)
      BY <1>1, <3>1, StepFacts
    <3>3. Hash(t) # Hash(u)
      BY <1>2, <3>2, BucketsApart
    <3>4. InBucket(h, Hash(t)) /\ InBucket(h, Hash(u))
      BY <1>4, <1>5, <2>6, <3>2 DEF IInv, TableOK, Heads, Nexts, OwnedBy
    <3> QED BY <3>3, <3>4 DEF InBucket
  <2>7. OneBefore'
    <3> SUFFICES ASSUME NEW f \in Element, NEW g \in Element,
                        elem'[f].next = elem'[g].next, elem'[f].next # NULL
                 PROVE  f = g
      BY DEF OneBefore
    <3>1. CASE f # e /\ g # e
      BY <1>10, <3>1 DEF IInv, TableOK, OneBefore
    <3>2. CASE f = e \/ g = e
      BY <1>10, <2>6, <3>2
    <3> QED BY <3>1, <3>2
  <2>8. HeadsFirst'
    <3> SUFFICES ASSUME NEW f \in Element, NEW b \in Bucket,
                        hash_table[b] = elem'[f].next, elem'[f].next # NULL
                 PROVE  \E u \in Thread : call'[u].at = "insert" /\ call'[u].elem = f
      BY <1>6 DEF HeadsFirst
    <3>1. CASE f = e
      BY <1>9, <3>1
    <3>2. CASE f # e
      <4>1. PICK u \in Thread : call[u].at = "insert" /\ call[u].elem = f
        BY <1>10, <3>2 DEF IInv, TableOK, HeadsFirst
      <4> QED BY <1>1, <1>8, <4>1 DEF OnlyCall
    <3> QED BY <3>1, <3>2
  <2>9. ASSUME NEW u \in Thread PROVE NewFor(u)' /\ OldFor(u)'
    <3>1. CASE u = t
      BY <1>4, <1>5, <1>6, <1>9, <1>10, <2>1, <3>1 DEF NewFor, OldFor, Destroying
    <3>2. CASE u # t
      <4>1. call'[u] = call[u]
        BY <1>8, <3>2 DEF OnlyCall
      <4>2. NewFor(u)'
        BY <1>4, <1>5, <1>6, <1>10, <4>1 DEF IInv, TableOK, NewFor
      <4>3. PICK b \in Bucket : b = Hash(u)
        BY HashTyped
      <4>4. e \notin Chain(b)
        BY <2>1, ChainBefore, ChainTyped DEF IInv
      <4>5. Chain(b) \subseteq Element
        BY ChainTyped DEF IInv
      <4>6. Chain(b)' = Chain(b)
        BY <1>6, <1>10, <1>11, <4>4, <4>5, ChainKept DEF IInv
      <4>7. Chain(Hash(u))' = Chain(b)' /\ Chain(Hash(u)) = Chain(b)
        BY <4>3 DEF Hash
      <4>8. OldFor(u)'
        BY <4>1, <4>6, <4>7 DEF IInv, TableOK, OldFor
      <4> QED BY <4>2, <4>8
    <3> QED BY <3>1, <3>2
  <2> QED BY <2>4, <2>5, <2>7, <2>8, <2>9 DEF TableOK
<1>15. StoresOK'
  <2>1. WithinFor(t)'
    BY <1>9 DEF WithinFor, Accessing
  <2> QED BY <1>1, <1>8, <1>9, <1>10, <1>13, <2>1, StoresStep
<1>16. PagesOK'
  <2>1. Kept(e)' = Kept(e)
    <3>1. Kept(e)' = PagesOf(e)'
      BY <1>9, <1>12, KeptAfter
    <3>2. Kept(e) = PagesOf(e)
      BY <1>1, <1>2, <1>3, KeptByLabel
    <3> QED BY <1>10, <3>1, <3>2 DEF PagesOf, SameStore
  <2> QED BY <1>1, <1>6, <1>8, <1>9, <1>13, <2>1, PagesSame DEF Accessing, Destroying
<1> QED BY <1>11, <1>13, <1>14, <1>15, <1>16 DEF IInv

(* The second store of an insertion, the head of the bucket (149-154).      *)
LEMMA LinkHeadStep ==
  ASSUME IInv, NEW t \in Thread, LinkHead(t)
  PROVE  IInv'
<1>1. call[t].at = "insert"
  BY DEF LinkHead, In
<1>2. t \in Busy /\ OwnedBy(call[t].elem, t)
  BY <1>1, StepFacts
<1>3. PICK e \in Element : e = call[t].elem
  BY <1>2 DEF OwnedBy
<1>4. /\ hash_table' = [hash_table EXCEPT ![Hash(t)] = e]
      /\ call' = [call EXCEPT ![t] = Idle]
      /\ UNCHANGED <<elem, page, proc>>
  BY <1>3 DEF LinkHead, Done
<1>5. Idle \in CallRecords /\ Idle.at = "idle" /\ Idle.elem = NULL /\ Idle.peer = NoThread
  BY TlsAssumption DEF Idle, CallRecords, Labels
<1>6. OnlyCall(t) /\ call'[t] = Idle /\ call' \in [Thread -> CallRecords]
  BY <1>4, <1>5, CallStep
<1>7. /\ hash_table' \in [Bucket -> Element \cup {NULL}]
      /\ hash_table'[Hash(t)] = e
      /\ \A b \in Bucket : b # Hash(t) => hash_table'[b] = hash_table[b]
  BY <1>4, HashTyped DEF IInv, Typed
<1>8. Typed'
  BY <1>4, <1>6, <1>7 DEF IInv, Typed
<1>9. IdleFor(t)' /\ \A f \in Element : SameStore(f)
  BY <1>4, <1>6 DEF IdleFor, SameStore
<1>10. /\ CallsOK'
       /\ \A f \in Element \ {e} : Kept(f)' = Kept(f)
       /\ \A u \in Thread \ {t} : Touched(u)' = Touched(u)
       /\ \A u \in Busy \ {t} : /\ SameStore(call[u].elem)
                                /\ call[u].at = "share" => SameStore(call[u].src)
  BY <1>2, <1>3, <1>5, <1>6, <1>9, Ongoing
<1>11. TableOK'
  <2>1. \A f \in Element : elem[f].next # e
    BY <1>1, <1>3 DEF IInv, TableOK, NewFor, Building
  <2>2. \A f, b : InBucket(f, b)' <=> InBucket(f, b)
    BY <1>4 DEF InBucket, Hash
  <2>3. elem[e].state = "live" /\ elem[e].tid = t /\ InBucket(e, Hash(t))
    BY <1>2, <1>3 DEF OwnedBy, InBucket
  <2>4. Tids' /\ Nexts' /\ OneBefore'
    BY <1>4, <2>2 DEF IInv, TableOK, Tids, Nexts, OneBefore, Hash
  <2>5. Heads'
    BY <1>7, <2>2, <2>3 DEF IInv, TableOK, Heads
  <2>6. HeadsFirst'
    <3> SUFFICES ASSUME NEW f \in Element, NEW b \in Bucket,
                        hash_table'[b] = elem[f].next, elem[f].next # NULL
                 PROVE  \E u \in Thread : call'[u].at = "insert" /\ call'[u].elem = f
      BY <1>4 DEF HeadsFirst
    <3>1. b # Hash(t) /\ hash_table[b] = elem[f].next
      BY <1>7, <2>1
    <3>2. PICK u \in Thread : call[u].at = "insert" /\ call[u].elem = f
      BY <3>1 DEF IInv, TableOK, HeadsFirst
    <3>3. u # t
      <4> SUFFICES ASSUME f = e PROVE FALSE
        BY <1>3, <3>2
      <4>1. InBucket(elem[f].next, Hash(t)) /\ InBucket(elem[f].next, b)
        BY <2>3, <3>1 DEF IInv, TableOK, Heads, Nexts
      <4> QED BY <3>1, <4>1 DEF InBucket
    <3> QED BY <1>6, <3>2, <3>3 DEF OnlyCall
  <2>7. ASSUME NEW u \in Thread PROVE NewFor(u)' /\ OldFor(u)'
    <3>1. CASE u = t \/ u \notin Busy
      <4>1. call'[u].at = "idle"
        BY <1>5, <1>6, <3>1, BusyFacts DEF OnlyCall, IInv
      <4> QED BY <4>1 DEF NewFor, OldFor, Building, Destroying
    <3>2. CASE u # t /\ u \in Busy
      <4>1. call'[u] = call[u] /\ call[u].elem # e /\ Hash(u) # Hash(t)
        BY <1>2, <1>3, <1>6, <3>2, BucketsApart DEF OnlyCall
      <4>2. NewFor(u)'
        <5>1. NewFor(u)
          BY DEF IInv, TableOK
        <5>2. \A b \in Bucket : hash_table'[b] = hash_table[b] \/ hash_table'[b] = e
          BY <1>7
        <5> QED BY <1>4, <4>1, <5>1, <5>2 DEF NewFor
      <4>3. PICK b \in Bucket : b = Hash(u)
        BY HashTyped
      <4>4. Chain(b) \subseteq Element
        BY ChainTyped DEF IInv
      <4>5. Chain(b)' = Chain(b)
        BY <1>4, <1>7, <1>8, <4>1, <4>3, <4>4, ChainKept DEF IInv
      <4>6. Chain(Hash(u))' = Chain(b)' /\ Chain(Hash(u)) = Chain(b)
        BY <4>3 DEF Hash
      <4>7. OldFor(u)'
        BY <4>1, <4>5, <4>6 DEF IInv, TableOK, OldFor
      <4> QED BY <4>2, <4>7
    <3> QED BY <3>1, <3>2
  <2> QED BY <2>4, <2>5, <2>6, <2>7 DEF TableOK
<1>12. StoresOK'
  <2>1. WithinFor(t)'
    BY <1>5, <1>6 DEF WithinFor, Accessing
  <2> QED BY <1>1, <1>5, <1>6, <1>9, <1>10, <2>1, StoresStep
<1>13. PagesOK'
  <2>1. Kept(e)' = Kept(e)
    <3>1. elem[e].state = "live" /\ elem[e].tid = t /\ e # NULL
      BY <1>2, <1>3, Numbers DEF OwnedBy
    <3>2. Kept(e) = PagesOf(e)
      BY <1>1, <1>2, <1>3, KeptByLabel
    <3>3. Kept(e)' = PagesOf(e)
      BY <1>4, <1>5, <1>6, <3>1 DEF Kept, PagesOf
    <3> QED BY <3>2, <3>3
  <2> QED BY <1>1, <1>4, <1>5, <1>6, <1>10, <2>1, PagesSame DEF Accessing, Destroying
<1> QED BY <1>8, <1>10, <1>11, <1>12, <1>13 DEF IInv

(* tls_destroy unlinks its element and frees it (279-292).                  *)
LEMMA DestroyUnlinksStep ==
  ASSUME IInv, NEW t \in Thread, DestroyUnlinks(t)
  PROVE  IInv'
<1>1. call[t].at = "unlink"
  BY DEF DestroyUnlinks, In
<1>2. t \in Busy /\ OwnedBy(call[t].elem, t)
  BY <1>1, StepFacts
<1>3. PICK e \in Element : e = call[t].elem
  BY <1>2 DEF OwnedBy
<1>4. PICK b \in Bucket : b = Hash(t)
  BY HashTyped
<1>5. elem[e].state = "live" /\ elem[e].tid = t /\ InBucket(e, b)
  BY <1>2, <1>3, <1>4 DEF OwnedBy, InBucket
<1>6. e \in Chain(b) /\ Chain(b) \subseteq Element /\ \A f \in Chain(b) : InBucket(f, b)
  <2>1. e \in Chain(b)
    BY <1>1, <1>3, <1>4 DEF IInv, TableOK, OldFor, Destroying
  <2> QED BY <2>1, ChainTyped, ChainInBucket DEF IInv, TableOK
<1>7. PICK n \in Element \cup {NULL} : n = elem[e].next
  BY DEF IInv, Typed, Elements
<1> DEFINE before == {f \in Chain(b) : elem[f].next = e}
<1>8. hash_table[b] = e \/ \E f \in before : f # e
  BY <1>6, ChainBefore DEF IInv
<1>9. /\ call' = [call EXCEPT ![t] = Idle]
      /\ UNCHANGED <<hash_table, page, proc>>
      /\ IF hash_table[b] = e
         THEN elem' = [elem EXCEPT ![e] = [Unused EXCEPT !.state = "stale", !.tid = t, !.next = n]]
         ELSE \E f \in before : elem' = [elem EXCEPT ![f].next = n, ![e] = Unused]
  <2>1. ~(hash_table[b] # e /\ before = {})
    BY <1>8
  <2>2. before = {f \in Chain(Hash(t)) : elem[f].next = call[t].elem}
    BY <1>3, <1>4
  <2> HIDE DEF before
  <2> QED BY <1>3, <1>4, <1>7, <2>1, <2>2 DEF DestroyUnlinks, Done
<1>10. Idle \in CallRecords /\ Idle.at = "idle" /\ Idle.elem = NULL /\ Idle.peer = NoThread
  BY TlsAssumption DEF Idle, CallRecords, Labels
<1>11. OnlyCall(t) /\ call'[t] = Idle /\ call' \in [Thread -> CallRecords] /\ IdleFor(t)'
  BY <1>9, <1>10, CallStep DEF IdleFor
<1>12. elem \in [Element -> Elements]
  BY DEF IInv, Typed
<1>13. ASSUME /\ elem' \in [Element -> Elements]
              /\ elem'[e].state # "live"
              /\ \A f \in Element \ {e} : SameStore(f)
              /\ TableOK'
       PROVE  IInv'
  <2>1. Typed'
    BY <1>9, <1>11, <1>13 DEF IInv, Typed
  <2>2. /\ CallsOK'
        /\ \A f \in Element \ {e} : Kept(f)' = Kept(f)
        /\ \A u \in Thread \ {t} : Touched(u)' = Touched(u)
        /\ \A u \in Busy \ {t} : /\ SameStore(call[u].elem)
                                 /\ call[u].at = "share" => SameStore(call[u].src)
    BY <1>2, <1>3, <1>10, <1>11, <1>13, Ongoing
  <2>3. StoresOK'
    <3>1. WithinFor(t)'
      BY <1>10, <1>11 DEF WithinFor, Accessing
    <3>2. \A f \in Element : elem'[f].state = "live" => SameStore(f)
      BY <1>13
    <3> QED BY <1>1, <1>10, <1>11, <2>2, <3>1, <3>2, StoresStep
  <2>4. PagesOK'
    <3>1. Kept(e)' = {} /\ Kept(e) = {}
      <4>1. Kept(e) = {}
        BY <1>1, <1>2, <1>3, KeptByLabel
      <4>2. Kept(e)' = {}
        BY <1>13 DEF Kept
      <4> QED BY <4>1, <4>2
    <3> QED BY <1>1, <1>9, <1>10, <1>11, <2>2, <3>1, PagesSame DEF Accessing, Destroying
  <2> QED BY <1>13, <2>1, <2>2, <2>3, <2>4 DEF IInv
<1>14. CASE hash_table[b] = e
  <2> DEFINE x == [Unused EXCEPT !.state = "stale", !.tid = t, !.next = n]
  <2>1. x \in Elements /\ x.state = "stale" /\ x.tid = t /\ x.next = n
    <3>1. Unused \in Elements
      BY DEF Unused, Elements
    <3> QED BY <3>1 DEF Elements
  <2>2. /\ elem' \in [Element -> Elements] /\ elem'[e].state = "stale" /\ elem'[e].tid = t
        /\ elem'[e].next = n /\ \A f \in Element \ {e} : elem'[f] = elem[f]
    <3>1. elem' = [elem EXCEPT ![e] = x]
      BY <1>9, <1>14
    <3> HIDE DEF x
    <3> QED BY <1>12, <2>1, <3>1
  <2>3. Typed' /\ \A f \in Element \ {e} : SameStore(f)
    BY <1>9, <1>11, <2>2 DEF IInv, Typed, SameStore
  <2>4. TableOK'
    <3>1. \A f \in Element : /\ elem'[f].state = "unused" <=> elem[f].state = "unused"
                             /\ elem'[f].tid = elem[f].tid /\ elem'[f].next = elem[f].next
      BY <1>5, <1>7, <2>2
    <3>2. call'[t].at \notin Building /\ call'[t].at \notin Destroying
      BY <1>10, <1>11 DEF Building, Destroying
    <3> QED BY <1>1, <1>9, <1>11, <2>3, <3>1, <3>2, TableStep
  <2> QED BY <1>13, <2>2, <2>3, <2>4
<1>15. CASE hash_table[b] # e
  <2>1. PICK f \in before : elem' = [elem EXCEPT ![f].next = n, ![e] = Unused]
    BY <1>9, <1>15
  <2>2. f \in Element /\ f # e /\ elem[f].next = e /\ InBucket(f, b) /\ e # NULL
        /\ \A g \in Element : elem[g].next = e => g = f
    <3>1. PICK g \in before : g # e
      BY <1>8, <1>15
    <3>2. f \in Element /\ elem[f].next = e /\ g \in Element /\ elem[g].next = e /\ e # NULL
      BY <1>6, Numbers
    <3> QED BY <1>6, <3>1, <3>2 DEF IInv, TableOK, OneBefore
  <2>3. Unused \in Elements /\ Unused.state = "unused" /\ Unused.next = NULL
    BY DEF Unused, Elements
  <2>4. /\ elem' \in [Element -> Elements] /\ elem'[e] = Unused
        /\ elem'[f].next = n /\ SameStore(f)
        /\ \A g \in Element \ {e, f} : elem'[g] = elem[g]
    <3>1. [elem[f] EXCEPT !.next = n] \in Elements
      BY <1>12, <2>2 DEF Elements
    <3>2. elem' = [[elem EXCEPT ![f] = [elem[f] EXCEPT !.next = n]] EXCEPT ![e] = Unused]
      BY <1>12, <2>1, <2>2
    <3> QED BY <1>12, <2>2, <2>3, <3>1, <3>2 DEF Elements, SameStore
  <2>5. \A g \in Element \ {e} : SameStore(g)
    BY <2>4 DEF SameStore
  <2>6. Typed'
    BY <1>9, <1>11, <2>4 DEF IInv, Typed
  <2>7. TableOK'
    <3>1. \A g, c : g # e => (InBucket(g, c)' <=> InBucket(g, c))
      BY <2>5 DEF InBucket, SameStore, Hash
    <3>2. Tids'
      BY <2>3, <2>4, <2>5 DEF IInv, TableOK, Tids, SameStore
    <3>3. Heads'
      <4> SUFFICES ASSUME NEW c \in Bucket, hash_table[c] # NULL
                   PROVE  InBucket(hash_table[c], c)'
        BY <1>9 DEF Heads
      <4>1. InBucket(hash_table[c], c)
        BY DEF IInv, TableOK, Heads
      <4>2. PICK g \in Element : g = hash_table[c]
        BY <4>1 DEF InBucket
      <4>3. g # e
        BY <1>5, <1>15, <4>1, <4>2 DEF InBucket
      <4>4. InBucket(g, c)'
        BY <3>1, <4>1, <4>2, <4>3
      <4> QED BY <1>9, <4>2, <4>4 DEF InBucket, Hash
    <3>4. Nexts'
      <4> SUFFICES ASSUME NEW g \in Element, elem'[g].next # NULL
                   PROVE  elem'[g].state # "unused" /\ InBucket(elem[g].next, Hash(elem[g].tid))'
        BY DEF Nexts
      <4>1. g # e
        BY <2>3, <2>4
      <4>2. PICK m \in Element : m = elem'[g].next
        BY <2>4 DEF Elements
      <4>3. PICK c : c = Hash(elem[g].tid)
        OBVIOUS
      <4>4. m # e /\ InBucket(m, c) /\ elem[g].state # "unused"
        <5>1. CASE g = f
          <6>1. m = n /\ n # NULL /\ c = b
            BY <2>2, <2>4, <4>2, <4>3, <5>1 DEF InBucket
          <6>2. InBucket(n, b)
            BY <1>5, <1>7, <6>1 DEF IInv, TableOK, Nexts, InBucket
          <6>3. n # e
            BY <1>7, <2>2
          <6> QED BY <2>2, <5>1, <6>1, <6>2, <6>3 DEF InBucket
        <5>2. CASE g # f
          BY <2>2, <2>4, <4>1, <4>2, <4>3, <5>2 DEF IInv, TableOK, Nexts
        <5> QED BY <5>1, <5>2
      <4>5. InBucket(m, c)' /\ elem'[g].state # "unused" /\ Hash(elem'[g].tid) = c
        BY <2>5, <3>1, <4>1, <4>3, <4>4 DEF SameStore
      <4> QED BY <4>2, <4>5 DEF InBucket, Hash
    <3>5. OneBefore'
      <4> SUFFICES ASSUME NEW g \in Element, NEW k \in Element,
                          elem'[g].next = elem'[k].next, elem'[g].next # NULL
                   PROVE  g = k
        BY DEF OneBefore
      <4>1. g # e /\ k # e
        BY <2>3, <2>4
      <4>2. CASE g = f \/ k = f
        BY <1>7, <2>2, <2>4, <4>1, <4>2 DEF IInv, TableOK, OneBefore
      <4>3. CASE g # f /\ k # f
        BY <2>4, <4>1, <4>3 DEF IInv, TableOK, OneBefore
      <4> QED BY <4>2, <4>3
    <3>6. HeadsFirst'
      <4> SUFFICES ASSUME NEW g \in Element, NEW c \in Bucket,
                          hash_table[c] = elem'[g].next, elem'[g].next # NULL
                   PROVE  \E u \in Thread : call'[u].at = "insert" /\ call'[u].elem = g
        BY <1>9 DEF HeadsFirst
      <4>1. g # e
        BY <2>3, <2>4
      <4>2. g # f
        <5> SUFFICES ASSUME g = f PROVE FALSE
          OBVIOUS
        <5>1. PICK u \in Thread : call[u].at = "insert" /\ call[u].elem = e
          BY <1>7, <2>4 DEF IInv, TableOK, HeadsFirst
        <5>2. u \in Busy /\ u # t
          BY <1>1, <5>1, StepFacts
        <5> QED BY <1>2, <1>3, <5>1, <5>2, BucketsApart
      <4>3. PICK u \in Thread : call[u].at = "insert" /\ call[u].elem = g
        BY <2>4, <4>1, <4>2 DEF IInv, TableOK, HeadsFirst
      <4> QED BY <1>1, <1>11, <4>3 DEF OnlyCall
    <3>7. ASSUME NEW u \in Thread PROVE NewFor(u)' /\ OldFor(u)'
      <4>1. CASE u = t \/ u \notin Busy
        <5>1. call'[u].at = "idle"
          BY <1>10, <1>11, <4>1, BusyFacts DEF OnlyCall, IInv
        <5> QED BY <5>1 DEF NewFor, OldFor, Building, Destroying
      <4>2. CASE u # t /\ u \in Busy
        <5>1. call'[u] = call[u] /\ Hash(u) # Hash(t)
          BY <1>2, <1>11, <4>2, BucketsApart DEF OnlyCall
        <5>2. call[u].elem # NULL
          BY <4>2, Numbers DEF IInv, CallsOK, OwnedBy
        <5>3. NewFor(u)'
          <6>1. NewFor(u)
            BY DEF IInv, TableOK
          <6>2. \A g \in Element : \/ elem'[g].next = elem[g].next
                                   \/ elem'[g].next = elem[e].next
                                   \/ elem'[g].next = NULL
            BY <1>7, <2>3, <2>4
          <6> QED BY <1>9, <5>1, <5>2, <6>1, <6>2 DEF NewFor
        <5>4. PICK c \in Bucket : c = Hash(u)
          BY HashTyped
        <5>5. \A g \in Chain(c) : g \in Element /\ InBucket(g, c)
          BY ChainTyped, ChainInBucket DEF IInv, TableOK
        <5>6. e \notin Chain(c) /\ f \notin Chain(c)
          BY <1>4, <1>5, <2>2, <5>1, <5>4, <5>5 DEF InBucket
        <5>7. \A g \in Chain(c) : elem'[g].next = elem[g].next
          BY <2>4, <5>5, <5>6
        <5>8. Chain(c)' = Chain(c)
          BY <1>9, <2>6, <5>7, ChainKept DEF IInv
        <5>9. Chain(Hash(u))' = Chain(c)' /\ Chain(Hash(u)) = Chain(c)
          BY <5>4 DEF Hash
        <5>10. OldFor(u)'
          BY <5>1, <5>8, <5>9 DEF IInv, TableOK, OldFor
        <5> QED BY <5>3, <5>10
      <4> QED BY <4>1, <4>2
    <3> QED BY <3>2, <3>3, <3>4, <3>5, <3>6, <3>7 DEF TableOK
  <2> QED BY <1>13, <2>3, <2>4, <2>5, <2>7
<1> QED BY <1>14, <1>15

-----------------------------------------------------------------------------
(* The calls that start *)

(* A store a call starts on is in no other call, nor is any page of it.     *)
LEMMA StartsOn ==
  ASSUME IInv, CallsApart, NEW t \in Thread, NEW S, MayCall(t, S),
         NEW s \in Thread, s \in S, NEW e \in Element, e \in Entries(s)
  PROVE  /\ \A u \in Busy : /\ call[u].elem # e /\ (call[u].at = "share" => call[u].src # e)
                            /\ PagesOf(e) \cap Touched(u) = {}
         /\ OwnedBy(e, s) /\ e \in Chain(Hash(s)) /\ Kept(e) = PagesOf(e)
<1>1. OwnedBy(e, s) /\ e \in Chain(Hash(s))
  BY DEF Entries, OwnedBy
<1>2. PagesOf(e) \subseteq StorePages(S)
  BY DEF StorePages
<1>3. ASSUME NEW u \in Busy
      PROVE  \A v \in Parties(u) : v # s /\ StorePages(S) \cap call[u].held = {}
  BY DEF MayCall, CallsApart
<1>4. s \notin Busy
  BY <1>3, Numbers DEF Parties
<1>5. Kept(e) = PagesOf(e)
  <2>1. call[s] = Idle
    BY <1>4, BusyFacts DEF IInv, CallsOK, IdleFor
  <2>2. Idle.elem # e
    BY Numbers DEF Idle
  <2> QED BY <1>1, <2>1, <2>2 DEF Kept, OwnedBy
<1>6. ASSUME NEW u \in Busy
      PROVE  call[u].elem # e /\ (call[u].at = "share" => call[u].src # e)
  <2>1. u \in Thread /\ OwnedBy(call[u].elem, u) /\ u \in Parties(u)
    BY Numbers DEF IInv, CallsOK, Busy, Parties
  <2>2. call[u].elem # e
    BY <1>1, <1>3, <2>1 DEF OwnedBy
  <2>3. ASSUME call[u].at = "share" PROVE call[u].src # e
    <3>1. OwnedBy(call[u].src, call[u].peer) /\ call[u].peer \in Thread
      BY <2>1, <2>3 DEF IInv, StoresOK, CloneFor
    <3>2. call[u].peer \in Parties(u)
      BY <3>1, Numbers DEF Parties
    <3> QED BY <1>1, <1>3, <3>1, <3>2 DEF OwnedBy
  <2> QED BY <2>2, <2>3
<1>7. ASSUME NEW u \in Busy, NEW p \in PagesOf(e), p \in Touched(u) PROVE FALSE
  <2>1. u \in Thread /\ p \notin call[u].held
    BY <1>2, <1>3, Numbers DEF Busy, Parties
  <2>2. Refs(p) = {call[u].elem}
    BY <1>7, <2>1 DEF IInv, PagesOK, HeldFor
  <2>3. e \in Refs(p)
    BY <1>5 DEF Refs
  <2> QED BY <1>6, <2>2, <2>3
<1> QED BY <1>1, <1>5, <1>6, <1>7

(* The pages of a store no call touches are protected.                      *)
LEMMA AtRest ==
  ASSUME IInv, NEW p \in Page, \A u \in Busy : p \notin Touched(u)
  PROVE  ~page[p].open
<1> SUFFICES ASSUME page[p].open PROVE FALSE
  OBVIOUS
<1>1. PICK u \in Thread : call[u].at \in Accessing /\ p \in Touched(u)
  BY DEF IInv, PagesOK, OpenedAt
<1>2. u \in Busy
  BY <1>1, StepFacts DEF Accessing
<1> QED BY <1>1, <1>2

(* A thread that starts a call has none in progress.                        *)
LEMMA MayCallFacts ==
  ASSUME IInv, NEW t \in Thread, NEW S, MayCall(t, S)
  PROVE  /\ call[t] = Idle /\ call[t].at = "idle" /\ call[t].elem = NULL
         /\ t \notin Busy /\ Touched(t) = {} /\ proc = "running"
<1>1. call[t].at = "idle" /\ proc = "running"
  BY DEF MayCall
<1>2. call[t] = Idle
  BY <1>1 DEF IInv, CallsOK, IdleFor
<1> QED BY <1>1, <1>2, BusyFacts, TouchedFacts DEF IInv, Idle

(* tls_write, tls_read and tls_destroy begin.                               *)
LEMMA StoreStarts ==
  ASSUME IInv, CallsApart, NEW t \in Thread, MayCall(t, {t}),
         NEW e \in Element, e = hash_search(t),
         NEW r \in CallRecords, call' = [call EXCEPT ![t] = r],
         r.at \in {"write", "read", "release"}, r.elem = e, r.peer = NoThread,
         r.held = PagesOf(e), r.at = "release" => r.idx = 1,
         r.at \in Accessing => r.upto <= elem[e].size,
         UNCHANGED <<hash_table, elem, proc>>,
         page' \in [Page -> Pages],
         \A x \in Page : /\ page'[x].mapped = page[x].mapped /\ page'[x].lost = page[x].lost
                         /\ page'[x].ref_count = page[x].ref_count
                         /\ x \notin PagesOf(e) => page'[x].open = page[x].open,
         \A x \in PagesOf(e) : IF r.at \in Accessing THEN page'[x].open ELSE ~page'[x].open
  PROVE  IInv'
<1>1. OnlyCall(t) /\ call'[t] = r /\ call' \in [Thread -> CallRecords]
  BY CallStep
<1>2. /\ call[t].at = "idle" /\ call[t].elem = NULL /\ t \notin Busy /\ Touched(t) = {}
  BY MayCallFacts
<1>3. e \in Entries(t)
  BY Numbers, Found DEF IInv
<1>4. /\ \A u \in Busy : /\ call[u].elem # e /\ (call[u].at = "share" => call[u].src # e)
                         /\ PagesOf(e) \cap Touched(u) = {}
      /\ OwnedBy(e, t) /\ e \in Chain(Hash(t)) /\ Kept(e) = PagesOf(e)
  BY <1>3, StartsOn
<1>5. Typed'
  BY <1>1 DEF IInv, Typed
<1>6. IdleFor(t)' /\ \A f \in Element : SameStore(f)
  BY <1>1 DEF IdleFor, SameStore
<1>7. \A u \in Busy \ {t} : SameStore(call[u].elem)
  BY DEF SameStore
<1>8. OwnedBy(e, t)'
  BY <1>4 DEF OwnedBy
<1>9. CallsOK'
  <2>1. Parties(t)' \subseteq {t}
    BY <1>1 DEF Parties
  <2>2. \A u \in Busy \ {t} : ApartFrom(t, u)'
    BY <1>1, <2>1, StartsApart
  <2>3. OwnedBy(call[t].elem, t)'
    BY <1>1, <1>8 DEF OwnedBy
  <2> QED BY <1>1, <1>6, <1>7, <2>2, <2>3, CallsStep
<1>10. TableOK'
  <2>1. call'[t].at \notin Building /\ call'[t].elem \in Chain(Hash(t))
    BY <1>1, <1>4 DEF Building
  <2> QED BY <1>1, <1>2, <1>5, <2>1, TableStep
<1>11. StoresOK'
  <2>1. WithinFor(t)'
    BY <1>1 DEF WithinFor
  <2>2. \A u \in Busy \ {t} : call[u].at = "share" => SameStore(call[u].src)
    BY DEF SameStore
  <2> QED BY <1>1, <1>2, <1>6, <1>7, <2>1, <2>2, StoresStep
<1>12. Kept(e)' = PagesOf(e) /\ PagesOf(e)' = PagesOf(e) /\ PagesOf(e) \subseteq Page
  <2>1. PagesOf(e)' = PagesOf(e)
    BY DEF PagesOf
  <2>2. DOMAIN elem[e].pages = 1 .. Len(elem[e].pages) /\ Len(elem[e].pages) \in Nat
        /\ PagesOf(e) \subseteq Page
    BY PagesTyped DEF IInv
  <2>3. CASE r.at = "release"
    <3>1. Kept(e)' = {elem[e].pages[i] : i \in {j \in DOMAIN elem[e].pages : j >= 1}}
      <4>1. call'[t].at = "release" /\ call'[t].elem = e /\ call'[t].idx = 1
        BY <1>1, <2>3
      <4>2. Kept(e)' = {elem'[e].pages[i] : i \in {j \in DOMAIN elem'[e].pages : j >= call'[t].idx}}
        <5>1. elem'[e].state = "live" /\ elem'[e].tid = t
          BY <1>8 DEF OwnedBy
        <5> QED BY ONLY <4>1, <5>1 DEF Kept
      <4>3. elem' = elem
        OBVIOUS
      <4> QED BY ONLY <4>1, <4>2, <4>3
    <3>2. {j \in DOMAIN elem[e].pages : j >= 1} = DOMAIN elem[e].pages
      BY <2>2
    <3> QED BY <2>1, <2>2, <3>1, <3>2 DEF PagesOf
  <2>4. CASE r.at # "release"
    BY <1>1, <1>8, <2>1, <2>2, <2>4, KeptAfter
  <2> QED BY <2>3, <2>4
<1>13. \A f \in Element \ {e} : Kept(f)' = Kept(f)
  <2> DEFINE E == {e}
  <2>1. call[t].elem \in E \cup {NULL} /\ call'[t].elem \in E \cup {NULL}
    BY <1>1, <1>2
  <2>2. \A f \in Element \ E : SameStore(f)
    BY <1>6
  <2> HIDE DEF E
  <2>3. \A f \in Element \ E : Kept(f)' = Kept(f)
    BY <1>1, <2>1, <2>2, OthersKeep
  <2> QED BY <2>3 DEF E
<1>14. \A u \in Thread \ {t} : Touched(u)' = Touched(u)
  <2> DEFINE E == {e}
  <2>1. \A f \in Element \ E : Kept(f)' = Kept(f)
    BY <1>13
  <2>2. \A u \in Busy \ {t} : call[u].elem \notin E
          /\ (call[u].at = "share" => call[u].src \notin E)
    BY <1>4
  <2> HIDE DEF E
  <2> QED BY <1>1, <2>1, <2>2, OthersTouch
<1>15. PagesOK'
  <2> DEFINE Z == PagesOf(e)
  <2>1. Touched(t)' = Z
    BY <1>1, <1>12, TouchedAfter DEF Accessing, Destroying
  <2>2. ASSUME NEW x PROVE Refs(x)' = Refs(x)
    <3>1. /\ Refs(x)' = IF x \in Kept(e)' THEN Refs(x) \cup {e} ELSE Refs(x) \ {e}
          /\ e \in Refs(x) <=> x \in Kept(e)
      BY <1>13, RefsStep
    <3> QED BY <1>4, <1>12, <3>1
  <2>3. \A x \in Page \cap Z : CountedAt(x)' /\ OpenedAt(x)'
    <3> SUFFICES ASSUME NEW x \in Page, x \in Z PROVE CountedAt(x)' /\ OpenedAt(x)'
      OBVIOUS
    <3>1. CountedAt(x)'
      BY <2>2 DEF CountedAt, IInv, PagesOK
    <3>2. OpenedAt(x)'
      BY <1>1, <2>1 DEF OpenedAt
    <3> QED BY <3>1, <3>2
  <2>4. SharedFor(t)'
    BY <1>1 DEF SharedFor
  <2>5. HeldFor(t)'
    BY <1>1, <2>1 DEF HeldFor
  <2>6. OpenFor(t)'
    <3>1. PagesOf(call[t].elem)' = PagesOf(e)'
      BY <1>1, TouchedAfter
    <3> QED BY <1>1, <1>12, <3>1 DEF OpenFor
  <2>7. \A u \in Thread \ {t} : Touched(u)' = Touched(u) /\ Z \cap Touched(u) = {}
    <3> SUFFICES ASSUME NEW u \in Thread \ {t} PROVE Z \cap Touched(u) = {}
      BY <1>14
    <3>1. CASE u \in Busy
      BY <1>4, <3>1
    <3>2. CASE u \notin Busy
      BY <3>2, BusyFacts, TouchedFacts DEF IInv
    <3> QED BY <3>1, <3>2
  <2>8. \A x \in Page \ Z :
          /\ page'[x].mapped = page[x].mapped /\ page'[x].lost = page[x].lost
          /\ page'[x].ref_count = page[x].ref_count
          /\ x \notin Touched(t) => page'[x].open = page[x].open
          /\ Refs(x)' = Refs(x)
    BY <2>2
  <2>9. Touched(t)' \subseteq Z /\ \A x \in Touched(t) \ Z : ~page'[x].open
    BY <1>2, <2>1
  <2> HIDE DEF Z
  <2> QED BY <1>1, <1>7, <2>3, <2>4, <2>5, <2>6, <2>7, <2>8, <2>9, PagesStep
<1> QED BY <1>5, <1>9, <1>10, <1>11, <1>15 DEF IInv

(* tls_write and tls_read start (156-176, 213-233).                         *)
LEMMA AccessStep ==
  ASSUME IInv, CallsApart, NEW t \in Thread, NEW offset \in Nat, NEW length \in Nat,
         NEW byte \in Bytes, NEW first \in {"write", "read"},
         Access(t, offset, length, byte, first)
  PROVE  IInv'
<1>1. MayCall(t, {t}) /\ hash_search(t) # NULL
  BY DEF Access
<1>2. PICK e \in Element : e = hash_search(t)
  BY <1>1, Found DEF IInv
<1>3. PICK n \in Nat : n = (offset + length) % UINT
  BY Numbers
<1> DEFINE r == [Idle EXCEPT !.at = first, !.elem = e, !.idx = offset, !.upto = n,
                             !.byte = byte, !.held = PagesOf(e)]
<1>4. /\ n <= elem[e].size
      /\ page' = [p \in Page |-> IF p \in PagesOf(e) THEN [page[p] EXCEPT !.open = TRUE]
           ELSE page[p]]
      /\ call' = [call EXCEPT ![t] = r]
      /\ UNCHANGED <<hash_table, elem, proc>>
  BY <1>2, <1>3 DEF Access, Fits, Protection
<1>5. r \in CallRecords /\ r.at = first /\ r.elem = e /\ r.peer = NoThread /\ r.held = PagesOf(e)
      /\ r.upto = n
  <2>1. Idle \in CallRecords /\ Idle.peer = NoThread
    BY TlsAssumption DEF Idle, CallRecords, Labels
  <2>2. PagesOf(e) \in SUBSET Page
    BY PagesTyped DEF IInv
  <2> QED BY <2>1, <2>2 DEF CallRecords, Labels
<1>6. /\ page' \in [Page -> Pages]
      /\ \A x \in Page : /\ page'[x].mapped = page[x].mapped /\ page'[x].lost = page[x].lost
                         /\ page'[x].ref_count = page[x].ref_count
                         /\ x \notin PagesOf(e) => page'[x].open = page[x].open
      /\ \A x \in PagesOf(e) : x \in Page /\ page'[x].open
  BY <1>4, PagesTyped DEF IInv, Typed, Pages
<1>7. r.at \in {"write", "read", "release"} /\ r.at \in Accessing /\ r.at # "release"
  BY <1>5 DEF Accessing
<1> HIDE DEF r
<1>8. ASSUME NEW x \in PagesOf(e) PROVE IF r.at \in Accessing THEN page'[x].open ELSE ~page'[x].open
  BY <1>6, <1>7
<1> QED BY <1>1, <1>2, <1>4, <1>5, <1>6, <1>7, <1>8, StoreStarts

(* tls_destroy starts (253-259).                                            *)
LEMMA DestroyStep ==
  ASSUME IInv, CallsApart, NEW t \in Thread, tls_destroy(t)
  PROVE  IInv'
<1>1. MayCall(t, {t}) /\ hash_search(t) # NULL
  BY DEF tls_destroy
<1>2. PICK e \in Element : e = hash_search(t)
  BY <1>1, Found DEF IInv
<1> DEFINE r == [call[t] EXCEPT !.at = "release", !.elem = e, !.idx = 1, !.held = PagesOf(e)]
<1>3. call[t] = Idle /\ call[t] \in CallRecords
  BY <1>1, MayCallFacts DEF IInv, Typed
<1>4. call' = [call EXCEPT ![t] = r] /\ UNCHANGED <<hash_table, elem, page, proc>>
  BY <1>2, <1>3 DEF tls_destroy, heap, CallRecords, IInv, Typed
<1>5. r \in CallRecords /\ r.at = "release" /\ r.elem = e /\ r.peer = NoThread
        /\ r.held = PagesOf(e)
      /\ r.idx = 1
  <2>1. PagesOf(e) \in SUBSET Page
    BY PagesTyped DEF IInv
  <2>2. call[t].peer = NoThread
    BY <1>3 DEF Idle
  <2> QED BY <1>3, <2>1, <2>2 DEF CallRecords, Labels
<1>6. ASSUME NEW x \in PagesOf(e)
      PROVE (IF r.at \in Accessing THEN page'[x].open ELSE ~page'[x].open)
  <2>1. x \in Page
    BY PagesTyped DEF IInv
  <2>2. \A u \in Busy : x \notin Touched(u)
    <3>1. e \in Entries(t)
      BY <1>1, <1>2, Found DEF IInv
    <3> QED BY <1>1, <3>1, StartsOn
  <2>3. ~page[x].open /\ page[x].open \in BOOLEAN
    BY <2>1, <2>2, AtRest DEF IInv, Typed, Pages
  <2> QED BY <1>4, <1>5, <2>3 DEF Accessing
<1>7. r.at \in {"write", "read", "release"} /\ r.at \notin Accessing
  BY <1>5 DEF Accessing
<1>8. page' \in [Page -> Pages]
  BY <1>4 DEF IInv, Typed
<1>9. \A x \in Page : /\ page'[x].mapped = page[x].mapped /\ page'[x].lost = page[x].lost
                      /\ page'[x].ref_count = page[x].ref_count
                      /\ x \notin PagesOf(e) => page'[x].open = page[x].open
  BY <1>4
<1> HIDE DEF r
<1> QED BY <1>1, <1>2, <1>4, <1>5, <1>6, <1>7, <1>8, <1>9, StoreStarts

(* tls_create and tls_clone take an element nothing leads to; malloc may    *)
(* take the memory of stale elements of the same thread.                    *)
NewElem(e, t, size, pages) ==
  elem'[e] = [state |-> "live", tid |-> t, size |-> size, pages |-> pages, next |-> NULL]

(* The element malloc gives is unused.                                      *)
LEMMA NewElementFacts ==
  ASSUME FreeElements # {}
  PROVE  NewElement \in Element /\ elem[NewElement].state = "unused"
<1>1. FreeElements \subseteq Nat
  BY Numbers DEF FreeElements
<1>2. \E e \in FreeElements : \A f \in FreeElements : e <= f
  BY <1>1, LeastNat
<1>3. NewElement \in FreeElements
  BY <1>2 DEF NewElement
<1> QED BY <1>3 DEF FreeElements

(* Nothing leads to an unused element.                                      *)
LEMMA UnusedFacts ==
  ASSUME IInv, NEW e \in Element, elem[e].state = "unused"
  PROVE  /\ \A b \in Bucket : hash_table[b] # e
         /\ \A f \in Element : elem[f].next # e
         /\ elem[e].next = NULL /\ Kept(e) = {}
         /\ \A u \in Busy : call[u].elem # e /\ (call[u].at = "share" => call[u].src # e)
<1>1. e # NULL
  BY Numbers
<1>2. \A b \in Bucket : hash_table[b] # e
  BY <1>1 DEF IInv, TableOK, Heads, InBucket
<1>3. \A f \in Element : elem[f].next # e
  BY <1>1 DEF IInv, TableOK, Nexts, InBucket
<1>4. elem[e].next = NULL
  BY DEF IInv, TableOK, Nexts
<1>5. Kept(e) = {}
  BY DEF Kept
<1>6. ASSUME NEW u \in Busy PROVE call[u].elem # e /\ (call[u].at = "share" => call[u].src # e)
  <2>1. OwnedBy(call[u].elem, u) /\ u \in Thread
    BY DEF IInv, CallsOK, Busy
  <2>2. call[u].at = "share" => OwnedBy(call[u].src, call[u].peer)
    BY <2>1 DEF IInv, StoresOK, CloneFor
  <2> QED BY <2>1, <2>2 DEF OwnedBy
<1> QED BY <1>2, <1>3, <1>4, <1>5, <1>6

(* What malloc changes: the new element, and a stale one whose memory it is. *)
LEMMA AllocatesFacts ==
  ASSUME IInv, NEW t \in Thread, NEW e \in Element, elem[e].state = "unused",
         NEW size \in Nat, NEW pages \in Seq(Page), Allocates(t, e, size, pages)
  PROVE  /\ elem' \in [Element -> Elements]
         /\ NewElem(e, t, size, pages)
         /\ \A f \in Element \ {e} :
              \/ elem'[f] = elem[f]
              \/ /\ elem[f].state = "stale" /\ elem[f].tid = t
                 /\ elem'[f].state = "reused" /\ elem'[f].tid = t /\ elem'[f].next = NULL
<1>1. PICK R \in SUBSET (IF MallocReuses THEN Stale(t) ELSE {}) :
        elem' = [f \in Element |->
          IF f = e
          THEN [state |-> "live", tid |-> t, size |-> size, pages |-> pages, next |-> NULL]
          ELSE IF f \in R THEN [elem[f] EXCEPT !.state = "reused", !.next = NULL]
          ELSE elem[f]]
  BY DEF Allocates
<1>2. \A f \in R : elem[f].state = "stale" /\ elem[f].tid = t
  BY DEF Stale
<1>3. elem \in [Element -> Elements]
  BY DEF IInv, Typed
<1>4. [state |-> "live", tid |-> t, size |-> size, pages |-> pages, next |-> NULL] \in Elements
  BY DEF Elements
<1>5. ASSUME NEW f \in Element
      PROVE  /\ [elem[f] EXCEPT !.state = "reused", !.next = NULL] \in Elements
             /\ [elem[f] EXCEPT !.state = "reused", !.next = NULL].state = "reused"
             /\ [elem[f] EXCEPT !.state = "reused", !.next = NULL].tid = elem[f].tid
             /\ [elem[f] EXCEPT !.state = "reused", !.next = NULL].next = NULL
  BY <1>3 DEF Elements
<1>6. elem' \in [Element -> Elements]
  BY <1>1, <1>3, <1>4, <1>5
<1>7. NewElem(e, t, size, pages)
  BY <1>1 DEF NewElem
<1>8. ASSUME NEW f \in Element \ {e}
      PROVE  \/ elem'[f] = elem[f]
             \/ /\ elem[f].state = "stale" /\ elem[f].tid = t
                /\ elem'[f].state = "reused" /\ elem'[f].tid = t /\ elem'[f].next = NULL
  <2>1. CASE f \in R
    BY <1>1, <1>2, <1>5, <2>1
  <2>2. CASE f \notin R
    BY <1>1, <2>2
  <2> QED BY <2>1, <2>2
<1> QED BY <1>6, <1>7, <1>8

(* A call that allocates an element keeps the calls and the table in order. *)
LEMMA AllocStep ==
  ASSUME IInv, CallsApart, NEW t \in Thread, NEW S, MayCall(t, S), t \in S,
         NEW e \in Element, elem[e].state = "unused",
         NEW size \in Nat, NEW pages \in Seq(Page), Allocates(t, e, size, pages),
         OnlyCall(t), call' \in [Thread -> CallRecords], hash_table' = hash_table,
         call'[t].at \in {"share", "link"}, call'[t].elem = e, Parties(t)' \subseteq S,
         Typed'
  PROVE  /\ CallsOK' /\ TableOK' /\ OwnedBy(e, t)'
         /\ \A f \in Element \ {e} : Kept(f)' = Kept(f)
         /\ \A f \in Element \ {e} : elem'[f].state = "live" \/ elem[f].state = "live"
              => SameStore(f)
         /\ \A u \in Thread \ {t} : Touched(u)' = Touched(u)
         /\ \A u \in Busy \ {t} : /\ SameStore(call[u].elem)
                                  /\ call[u].at = "share" => SameStore(call[u].src)
<1>1. /\ NewElem(e, t, size, pages)
      /\ \A f \in Element \ {e} :
           \/ elem'[f] = elem[f]
           \/ /\ elem[f].state = "stale" /\ elem[f].tid = t
              /\ elem'[f].state = "reused" /\ elem'[f].tid = t /\ elem'[f].next = NULL
  BY AllocatesFacts
<1>2. call[t].at = "idle" /\ call[t].elem = NULL /\ t \notin Busy
  BY MayCallFacts
<1>3. /\ \A b \in Bucket : hash_table[b] # e
      /\ \A f \in Element : elem[f].next # e
      /\ elem[e].next = NULL /\ e # NULL
      /\ \A u \in Busy : call[u].elem # e /\ (call[u].at = "share" => call[u].src # e)
  BY UnusedFacts, Numbers
<1>4. elem'[e].state = "live" /\ elem'[e].tid = t /\ elem'[e].next = NULL
  BY <1>1 DEF NewElem
<1>5. OwnedBy(e, t)'
  BY <1>4 DEF OwnedBy
<1>6. \A f \in Element \ {e} : elem'[f].state = "live" \/ elem[f].state = "live" => SameStore(f)
  BY <1>1 DEF SameStore
<1>7. ASSUME NEW u \in Busy
      PROVE  SameStore(call[u].elem) /\ (call[u].at = "share" => SameStore(call[u].src))
  <2>1. OwnedBy(call[u].elem, u) /\ u \in Thread
    BY DEF IInv, CallsOK, Busy
  <2>2. call[u].at = "share" => OwnedBy(call[u].src, call[u].peer)
    BY <2>1 DEF IInv, StoresOK, CloneFor
  <2> QED BY <1>3, <1>6, <2>1, <2>2 DEF OwnedBy
<1>8. CallsOK'
  <2>1. \A u \in Busy \ {t} : ApartFrom(t, u)'
    BY StartsApart
  <2>2. OwnedBy(call[t].elem, t)' /\ IdleFor(t)'
    BY <1>5 DEF OwnedBy, IdleFor
  <2> QED BY <1>7, <2>1, <2>2, CallsStep
<1>9. \A f \in Element \ {e} : Kept(f)' = Kept(f)
  <2> DEFINE E == {e}
  <2>1. call[t].elem \in E \cup {NULL} /\ call'[t].elem \in E \cup {NULL}
    BY <1>2
  <2>2. \A f \in Element \ E : SameStore(f) \/ {elem[f].state, elem'[f].state} \cap {"live"} = {}
    BY <1>6
  <2> HIDE DEF E
  <2>3. \A f \in Element \ E : Kept(f)' = Kept(f)
    BY <2>1, <2>2, OthersKeep
  <2> QED BY <2>3 DEF E
<1>10. \A u \in Thread \ {t} : Touched(u)' = Touched(u)
  <2> DEFINE E == {e}
  <2>1. \A f \in Element \ E : Kept(f)' = Kept(f)
    BY <1>9
  <2>2. \A u \in Busy \ {t} : call[u].elem \notin E
          /\ (call[u].at = "share" => call[u].src \notin E)
    BY <1>3
  <2> HIDE DEF E
  <2> QED BY <2>1, <2>2, OthersTouch
<1>11. TableOK'
  <2>1. \A g, b : g # e => (InBucket(g, b)' <=> InBucket(g, b))
    BY <1>1 DEF InBucket, Hash
  <2>2. \A f \in Element : elem'[f].next = elem[f].next \/ elem'[f].next = NULL
    BY <1>1, <1>4
  <2>3. Tids'
    BY <1>1, <1>4 DEF IInv, TableOK, Tids
  <2>4. Heads'
    BY <1>3, <2>1 DEF IInv, TableOK, Heads
  <2>5. Nexts'
    <3> SUFFICES ASSUME NEW g \in Element, elem'[g].next # NULL
                 PROVE  elem'[g].state # "unused" /\ InBucket(elem[g].next, Hash(elem[g].tid))'
      BY DEF Nexts
    <3>1. g # e /\ elem'[g].next = elem[g].next /\ elem'[g] = elem[g]
      BY <1>1, <1>4
    <3>2. PICK m : m = elem[g].next
      OBVIOUS
    <3>3. PICK c : c = Hash(elem[g].tid)
      OBVIOUS
    <3>4. m # e /\ InBucket(m, c) /\ elem[g].state # "unused"
      BY <1>3, <3>1, <3>2, <3>3 DEF IInv, TableOK, Nexts
    <3>5. InBucket(m, c)'
      BY <2>1, <3>4
    <3> QED BY <3>1, <3>2, <3>3, <3>4, <3>5 DEF InBucket, Hash
  <2>6. OneBefore'
    BY <2>2 DEF IInv, TableOK, OneBefore
  <2>7. HeadsFirst'
    <3> SUFFICES ASSUME NEW g \in Element, NEW c \in Bucket,
                        hash_table[c] = elem'[g].next, elem'[g].next # NULL
                 PROVE  \E u \in Thread : call'[u].at = "insert" /\ call'[u].elem = g
      BY DEF HeadsFirst
    <3>1. PICK u \in Thread : call[u].at = "insert" /\ call[u].elem = g
      BY <2>2 DEF IInv, TableOK, HeadsFirst
    <3> QED BY <1>2, <3>1 DEF OnlyCall
  <2>8. ASSUME NEW u \in Thread PROVE NewFor(u)' /\ OldFor(u)'
    <3>1. CASE u = t
      <4>1. NewFor(t)'
        BY <1>3, <2>2 DEF NewFor
      <4> QED BY <3>1, <4>1 DEF OldFor, Destroying
    <3>2. CASE u # t /\ u \notin Busy
      <4>1. call'[u].at = "idle"
        BY <3>2, BusyFacts DEF OnlyCall, IInv
      <4> QED BY <4>1 DEF NewFor, OldFor, Building, Destroying
    <3>3. CASE u # t /\ u \in Busy
      <4>1. call'[u] = call[u] /\ call[u].elem # NULL
        BY <3>3, Numbers DEF OnlyCall, IInv, CallsOK, OwnedBy
      <4>2. NewFor(u)'
        <5>1. NewFor(u)
          BY DEF IInv, TableOK
        <5> QED BY <2>2, <4>1, <5>1 DEF NewFor
      <4>3. PICK c \in Bucket : c = Hash(u)
        BY HashTyped
      <4>4. c # Hash(t)
        BY <3>3, <4>3, Numbers DEF MayCall, CallsApart, Parties
      <4>5. \A g \in Chain(c) : g \in Element /\ InBucket(g, c)
        BY ChainTyped, ChainInBucket DEF IInv, TableOK
      <4>6. \A g \in Chain(c) : elem'[g].next = elem[g].next
        <5> SUFFICES ASSUME NEW g \in Chain(c) PROVE elem'[g].next = elem[g].next
          OBVIOUS
        <5>1. g \in Element /\ elem[g].state # "unused" /\ elem[g].tid # t
          BY <4>4, <4>5 DEF InBucket
        <5> QED BY <1>1, <5>1
      <4>7. Chain(c)' = Chain(c)
        BY <4>6, ChainKept DEF IInv
      <4>8. Chain(Hash(u))' = Chain(c)' /\ Chain(Hash(u)) = Chain(c)
        BY <4>3 DEF Hash
      <4>9. OldFor(u)'
        BY <4>1, <4>7, <4>8 DEF IInv, TableOK, OldFor
      <4> QED BY <4>2, <4>9
    <3> QED BY <3>1, <3>2, <3>3
  <2> QED BY <2>3, <2>4, <2>5, <2>6, <2>7, <2>8 DEF TableOK
<1>12. \A u \in Busy \ {t} : /\ SameStore(call[u].elem)
                             /\ call[u].at = "share" => SameStore(call[u].src)
  BY <1>7
<1> QED BY <1>5, <1>6, <1>8, <1>9, <1>10, <1>11, <1>12

(* tls_create up to the insertion (104-141).                                *)
LEMMA CreateStep ==
  ASSUME IInv, CallsApart, NEW t \in Thread, NEW size \in Nat, tls_create(t, size)
  PROVE  IInv'
<1>1. MayCall(t, {t}) /\ FreeElements # {} /\ Cardinality(FreePages) >= PagesFor(size)
  BY DEF tls_create, CreateCalled
<1>2. PICK e \in Element : e = NewElement /\ elem[e].state = "unused"
  BY <1>1, NewElementFacts
<1>3. PICK n \in Nat : n = PagesFor(size)
  BY PagesForTyped
<1>4. FreePages \subseteq Page /\ Cardinality(FreePages) \in Nat
  <2>1. FreePages \subseteq Page
    BY DEF FreePages
  <2> QED BY <2>1, Numbers, FS_Subset, FS_CardinalityType
<1>5. PICK fresh : fresh = Lowest(n, FreePages)
  OBVIOUS
<1>6. fresh \subseteq FreePages /\ fresh \subseteq Page /\ Cardinality(fresh) = n
  <2>1. Lowest(n, FreePages) \subseteq FreePages /\ Cardinality(Lowest(n, FreePages)) = n
    BY <1>1, <1>3, <1>4, LowestFacts
  <2> QED BY <1>4, <1>5, <2>1
<1>7. PICK pages : pages = Ascending(fresh)
  OBVIOUS
<1>8. /\ pages \in [1 .. n -> fresh]
      /\ \A i, j \in 1 .. n : pages[i] = pages[j] => i = j
      /\ \A x \in fresh : \E i \in 1 .. n : pages[i] = x
  BY <1>6, <1>7, AscendingFacts
<1>9. pages \in Seq(Page) /\ Len(pages) = n /\ DOMAIN pages = 1 .. n
  <2>1. pages \in [1 .. n -> Page]
    BY <1>6, <1>8
  <2> QED BY <2>1
<1> DEFINE r == [call[t] EXCEPT !.at = "link", !.elem = e, !.held = fresh]
<1>10. /\ page' = [p \in Page |-> IF p \in fresh
            THEN [Unmapped EXCEPT !.mapped = TRUE, !.ref_count = 1] ELSE page[p]]
       /\ Allocates(t, e, size, pages)
       /\ call' = [call EXCEPT ![t].at = "link", ![t].elem = e, ![t].held = fresh]
       /\ UNCHANGED <<hash_table, proc>>
  BY <1>2, <1>3, <1>5, <1>7 DEF tls_create, Mapped
<1>11. call[t] = Idle /\ call[t] \in CallRecords /\ call[t].at = "idle" /\ t \notin Busy
       /\ Touched(t) = {} /\ Idle.peer = NoThread
  BY <1>1, MayCallFacts DEF IInv, Typed, Idle
<1>12. r \in CallRecords /\ call' = [call EXCEPT ![t] = r]
  <2>1. r \in CallRecords
    BY <1>6, <1>11 DEF CallRecords, Labels
  <2> QED BY <1>10, <1>11, <2>1 DEF CallRecords, IInv, Typed
<1>13. OnlyCall(t) /\ call'[t] = r /\ call' \in [Thread -> CallRecords]
  BY <1>12, CallStep
<1>14. call'[t].at = "link" /\ call'[t].elem = e /\ call'[t].peer = NoThread
  BY <1>11, <1>13 DEF CallRecords
<1> HIDE DEF r
<1>15. /\ elem' \in [Element -> Elements]
       /\ NewElem(e, t, size, pages)
  BY <1>2, <1>9, <1>10, AllocatesFacts
<1>16. /\ page' \in [Page -> Pages]
       /\ \A x \in Page \ fresh : page'[x] = page[x]
       /\ \A x \in fresh : /\ page'[x].mapped /\ ~page'[x].lost /\ ~page'[x].open
                           /\ page'[x].ref_count = 1
  <2> DEFINE new == [Unmapped EXCEPT !.mapped = TRUE, !.ref_count = 1]
  <2>1. new \in Pages /\ new.mapped /\ ~new.lost /\ ~new.open /\ new.ref_count = 1
    <3>1. Unmapped \in Pages /\ ~Unmapped.lost /\ ~Unmapped.open
      BY TlsAssumption DEF Unmapped, Pages
    <3> QED BY <3>1 DEF Pages
  <2>2. page' = [p \in Page |-> IF p \in fresh THEN new ELSE page[p]]
    BY <1>10
  <2> HIDE DEF new
  <2>3. page \in [Page -> Pages]
    BY DEF IInv, Typed
  <2> QED BY <1>6, <2>1, <2>2, <2>3
<1>17. Typed'
  BY <1>10, <1>13, <1>15, <1>16 DEF IInv, Typed
<1>18. /\ CallsOK' /\ TableOK' /\ OwnedBy(e, t)'
       /\ \A f \in Element \ {e} : Kept(f)' = Kept(f)
       /\ \A f \in Element \ {e} : elem'[f].state = "live" \/ elem[f].state = "live" => SameStore(f)
       /\ \A u \in Thread \ {t} : Touched(u)' = Touched(u)
       /\ \A u \in Busy \ {t} : /\ SameStore(call[u].elem)
                                /\ call[u].at = "share" => SameStore(call[u].src)
  <2> DEFINE S == {t}
  <2>1. MayCall(t, S) /\ t \in S
    BY <1>1
  <2>2. Parties(t)' \subseteq S
    BY <1>14 DEF Parties
  <2>3. hash_table' = hash_table /\ Allocates(t, e, size, pages)
    BY <1>10
  <2>4. call'[t].at \in {"share", "link"}
    BY <1>14
  <2> HIDE DEF S
  <2> QED BY <1>2, <1>9, <1>13, <1>14, <1>17, <2>1, <2>2, <2>3, <2>4, AllocStep
<1>19. elem'[e].pages = pages /\ elem'[e].size = size /\ elem'[e].state = "live"
  BY <1>15 DEF NewElem
<1>20. StoresOK'
  <2>1. Unfinished' = Unfinished
    BY <1>11, <1>13, <1>14 DEF Unfinished, OnlyCall
  <2>2. ASSUME NEW f \in Element PROVE StoreAt(f)'
    <3>1. CASE f = e
      <4>1. Len(elem'[e].pages) = PagesFor(elem'[e].size)
        BY <1>3, <1>9, <1>19
      <4>2. \A i, j \in DOMAIN elem'[e].pages : elem'[e].pages[i] = elem'[e].pages[j] => i = j
        BY <1>8, <1>9, <1>19
      <4> QED BY <3>1, <4>1, <4>2 DEF StoreAt, PagesFor
    <3>2. CASE f # e
      <4>1. StoreAt(f)
        BY DEF IInv, StoresOK
      <4>2. elem'[f].state = "live" => SameStore(f)
        BY <1>18, <3>2
      <4> QED BY <2>1, <4>1, <4>2 DEF StoreAt, SameStore, PagesFor
    <3> QED BY <3>1, <3>2
  <2>3. CloneFor(t)' /\ WithinFor(t)'
    BY <1>14 DEF CloneFor, WithinFor, Accessing
  <2>4. \A u \in Thread \ {t} : CloneFor(u)' /\ WithinFor(u)'
    BY <1>13, <1>18, OthersStores
  <2> QED BY <2>2, <2>3, <2>4 DEF StoresOK
<1>21. PagesOK'
  <2> DEFINE Z == fresh
  <2>1. Touched(t)' = {}
    BY <1>14, TouchedAfter DEF Accessing, Destroying
  <2>2. Kept(e)' = fresh
    <3>1. Kept(e)' = PagesOf(e)'
      BY <1>14, <1>18, KeptAfter
    <3>2. PagesOf(e)' = {pages[i] : i \in 1 .. n}
      BY <1>9, <1>19 DEF PagesOf
    <3> QED BY <1>8, <3>1, <3>2
  <2>3. \A x \in fresh : x \in Page /\ ~page[x].mapped /\ ~page[x].lost /\ Refs(x) = {}
    BY <1>6, FreeUncounted
  <2>4. ASSUME NEW x PROVE Refs(x)' = IF x \in fresh THEN {e} ELSE Refs(x)
    <3>1. /\ Refs(x)' = IF x \in Kept(e)' THEN Refs(x) \cup {e} ELSE Refs(x) \ {e}
          /\ e \in Refs(x) <=> x \in Kept(e)
      BY <1>18, RefsStep
    <3>2. Kept(e) = {}
      BY <1>2, UnusedFacts
    <3> QED BY <2>2, <2>3, <3>1, <3>2
  <2>5. ASSUME NEW x \in Page, x \in Z PROVE CountedAt(x)' /\ OpenedAt(x)'
    <3>1. Cardinality({e}) = 1
      BY FS_Singleton
    <3> QED BY <1>16, <2>4, <2>5, <3>1 DEF CountedAt, OpenedAt
  <2>6. SharedFor(t)' /\ HeldFor(t)' /\ OpenFor(t)'
    BY <1>14, <2>1 DEF SharedFor, HeldFor, OpenFor, Accessing
  <2>7. \A u \in Thread \ {t} : Touched(u)' = Touched(u) /\ Z \cap Touched(u) = {}
    <3> SUFFICES ASSUME NEW u \in Thread \ {t}, NEW x \in Touched(u), x \in fresh PROVE FALSE
      BY <1>18
    <3>1. page[x].mapped
      BY <1>6, TouchedMapped
    <3> QED BY <2>3, <3>1
  <2>8. \A u \in Busy \ {t} : SameStore(call[u].elem)
    BY <1>18
  <2>9. \A x \in Page \ Z :
           /\ page'[x].mapped = page[x].mapped /\ page'[x].lost = page[x].lost
           /\ page'[x].ref_count = page[x].ref_count
           /\ x \notin Touched(t) => page'[x].open = page[x].open
           /\ Refs(x)' = Refs(x)
    BY <1>16, <2>4
  <2>10. Touched(t)' \subseteq Z /\ \A x \in Touched(t) \ Z : ~page'[x].open
    BY <1>11, <2>1
  <2> HIDE DEF Z
  <2> QED BY <1>13, <2>5, <2>6, <2>7, <2>8, <2>9, <2>10, PagesStep
<1> QED BY <1>17, <1>18, <1>20, <1>21 DEF IInv

(* tls_clone up to the first shared page (295-325).                         *)
LEMMA CloneStep ==
  ASSUME IInv, CallsApart, NEW t \in Thread, NEW o \in Thread, tls_clone(t, o)
  PROVE  IInv'
<1> DEFINE S == {t, o}
<1>1. MayCall(t, S) /\ FreeElements # {} /\ hash_search(t) = NULL /\ hash_search(o) # NULL
  BY DEF tls_clone
<1>2. PICK e \in Element : e = NewElement /\ elem[e].state = "unused"
  BY <1>1, NewElementFacts
<1>3. PICK s \in Element : s = hash_search(o)
  BY <1>1, Found DEF IInv
<1>4. s \in Entries(o) /\ o # t /\ t \in S /\ o \in S
  BY <1>1, <1>3, Found DEF IInv
<1> HIDE DEF S
<1>5. /\ \A u \in Busy : /\ call[u].elem # s /\ (call[u].at = "share" => call[u].src # s)
                         /\ PagesOf(s) \cap Touched(u) = {}
      /\ OwnedBy(s, o) /\ Kept(s) = PagesOf(s)
  BY <1>1, <1>4, StartsOn
<1>6. PICK size \in Nat : size = elem[s].size
  BY PagesTyped DEF IInv
<1>7. PagesOf(s) \subseteq Page
  BY PagesTyped DEF IInv
<1> DEFINE r == [call[t] EXCEPT !.at = "share", !.elem = e, !.src = s, !.peer = o,
                                !.held = PagesOf(s)]
<1>8. /\ Allocates(t, e, size, <<>>)
      /\ call' = [call EXCEPT ![t].at = "share", ![t].elem = e, ![t].src = s, ![t].peer = o,
                              ![t].held = PagesOf(s)]
      /\ UNCHANGED <<hash_table, page, proc>>
  BY <1>2, <1>3, <1>6 DEF tls_clone
<1>9. call[t] = Idle /\ call[t] \in CallRecords /\ call[t].at = "idle" /\ t \notin Busy
      /\ Touched(t) = {}
  BY <1>1, MayCallFacts DEF IInv, Typed
<1>10. r \in CallRecords /\ call' = [call EXCEPT ![t] = r]
  <2>1. r \in CallRecords
    BY <1>7, <1>9 DEF CallRecords, Labels
  <2> QED BY <1>8, <1>9, <2>1 DEF CallRecords, IInv, Typed
<1>11. OnlyCall(t) /\ call'[t] = r /\ call' \in [Thread -> CallRecords]
  BY <1>10, CallStep
<1>12. /\ call'[t].at = "share" /\ call'[t].elem = e /\ call'[t].src = s /\ call'[t].peer = o
       /\ call'[t].held = PagesOf(s)
  BY <1>9, <1>11 DEF CallRecords
<1> HIDE DEF r
<1>13. PICK pages \in Seq(Page) : pages = <<>> /\ Len(pages) = 0
  <2>1. <<>> \in Seq(Page) /\ Len(<<>>) = 0
    OBVIOUS
  <2> QED BY <2>1
<1>21. Allocates(t, e, size, pages)
  BY <1>8, <1>13
<1>14. /\ elem' \in [Element -> Elements]
       /\ NewElem(e, t, size, pages)
  BY <1>2, <1>21, AllocatesFacts
<1>15. Typed'
  BY <1>8, <1>11, <1>14 DEF IInv, Typed
<1>16. /\ CallsOK' /\ TableOK' /\ OwnedBy(e, t)'
       /\ \A f \in Element \ {e} : Kept(f)' = Kept(f)
       /\ \A f \in Element \ {e} : elem'[f].state = "live" \/ elem[f].state = "live" => SameStore(f)
       /\ \A u \in Thread \ {t} : Touched(u)' = Touched(u)
       /\ \A u \in Busy \ {t} : /\ SameStore(call[u].elem)
                                /\ call[u].at = "share" => SameStore(call[u].src)
  <2>1. Parties(t)' \subseteq S
    BY <1>4, <1>12 DEF Parties
  <2>2. hash_table' = hash_table
    BY <1>8
  <2>3. call'[t].at \in {"share", "link"}
    BY <1>12
  <2> QED BY <1>1, <1>2, <1>4, <1>11, <1>12, <1>15, <1>21, <2>1, <2>2, <2>3, AllocStep
<1>17. elem'[e].pages = <<>> /\ elem'[e].size = size /\ elem'[e].state = "live"
  BY <1>13, <1>14 DEF NewElem
<1>18. s # e /\ SameStore(s) /\ elem[s].state = "live"
  BY <1>2, <1>5, <1>16 DEF OwnedBy
<1>19. StoresOK'
  <2>1. Unfinished' = Unfinished \cup {e}
    BY <1>9, <1>11, <1>12 DEF Unfinished, OnlyCall
  <2>2. ASSUME NEW f \in Element PROVE StoreAt(f)'
    <3>1. CASE f = e
      <4>1. e \in Unfinished' /\ DOMAIN elem'[e].pages = {}
        BY <1>17, <2>1
      <4> QED BY <3>1, <4>1 DEF StoreAt
    <3>2. CASE f # e
      <4>1. StoreAt(f)
        BY DEF IInv, StoresOK
      <4>2. elem'[f].state = "live" => SameStore(f)
        BY <1>16, <3>2
      <4> QED BY <2>1, <3>2, <4>1, <4>2 DEF StoreAt, SameStore, PagesFor
    <3> QED BY <3>1, <3>2
  <2>3. CloneFor(t)'
    <3>1. OwnedBy(s, o)'
      BY <1>5, <1>18 DEF OwnedBy, SameStore
    <3>2. elem'[e].size = elem'[s].size
      BY <1>6, <1>17, <1>18 DEF SameStore
    <3>3. Len(elem'[e].pages) = 0 /\ Len(elem'[s].pages) \in Nat
      BY <1>14, <1>17 DEF Elements
    <3>4. Len(elem'[e].pages) <= Len(elem'[s].pages) /\ 1 .. Len(elem'[e].pages) = {}
      BY <3>3
    <3> QED BY <1>4, <1>12, <3>1, <3>2, <3>4 DEF CloneFor, OwnedBy
  <2>4. WithinFor(t)'
    BY <1>12 DEF WithinFor, Accessing
  <2>5. \A u \in Thread \ {t} : CloneFor(u)' /\ WithinFor(u)'
    BY <1>11, <1>16, OthersStores
  <2> QED BY <2>2, <2>3, <2>4, <2>5 DEF StoresOK
<1>20. PagesOK'
  <2> DEFINE Z == PagesOf(s)
  <2>1. Touched(t)' = Z
    <3>1. Touched(t)' = Kept(call[t].src)'
      BY <1>12 DEF Touched
    <3>2. call'[t].src = s
      BY <1>12
    <3>3. Kept(call[t].src)' = Kept(s)'
      BY ONLY <3>2 DEF Kept, PagesOf
    <3> QED BY <1>5, <1>16, <1>18, <3>1, <3>3
  <2>2. Kept(e)' = {} /\ Kept(e) = {}
    <3>1. Kept(e)' = PagesOf(e)'
      BY <1>12, <1>16, KeptAfter
    <3>2. PagesOf(e)' = {}
      BY <1>17 DEF PagesOf
    <3> QED BY <1>2, <3>1, <3>2, UnusedFacts
  <2>3. ASSUME NEW x PROVE Refs(x)' = Refs(x)
    <3>1. /\ Refs(x)' = IF x \in Kept(e)' THEN Refs(x) \cup {e} ELSE Refs(x) \ {e}
          /\ e \in Refs(x) <=> x \in Kept(e)
      BY <1>16, RefsStep
    <3> QED BY <2>2, <3>1
  <2>4. ASSUME NEW x \in Page, x \in Z PROVE CountedAt(x)' /\ OpenedAt(x)'
    <3>1. ~page[x].open
      BY <1>5, <2>4, AtRest
    <3>2. CountedAt(x)
      BY DEF IInv, PagesOK
    <3> QED BY <1>8, <2>3, <3>1, <3>2 DEF CountedAt, OpenedAt
  <2>5. SharedFor(t)' /\ OpenFor(t)'
    BY <1>12 DEF SharedFor, OpenFor, Accessing
  <2>6. HeldFor(t)'
    BY <1>12, <2>1 DEF HeldFor
  <2>7. \A u \in Thread \ {t} : Touched(u)' = Touched(u) /\ Z \cap Touched(u) = {}
    <3> SUFFICES ASSUME NEW u \in Thread \ {t} PROVE Z \cap Touched(u) = {}
      BY <1>16
    <3>1. CASE u \in Busy
      BY <1>5, <3>1
    <3>2. CASE u \notin Busy
      BY <3>2, BusyFacts, TouchedFacts DEF IInv
    <3> QED BY <3>1, <3>2
  <2>8. \A u \in Busy \ {t} : SameStore(call[u].elem)
    BY <1>16
  <2>9. \A x \in Page \ Z :
           /\ page'[x].mapped = page[x].mapped /\ page'[x].lost = page[x].lost
           /\ page'[x].ref_count = page[x].ref_count
           /\ x \notin Touched(t) => page'[x].open = page[x].open
           /\ Refs(x)' = Refs(x)
    BY <1>8, <2>3
  <2>10. Touched(t)' \subseteq Z /\ \A x \in Touched(t) \ Z : ~page'[x].open
    BY <1>9, <2>1
  <2> HIDE DEF Z
  <2> QED BY <1>11, <2>4, <2>5, <2>6, <2>7, <2>8, <2>9, <2>10, PagesStep
<1> QED BY <1>15, <1>16, <1>19, <1>20 DEF IInv

(* The pages mapped before mmap fails: nobody refers to them.               *)
LEMMA CreateFailsStep ==
  ASSUME IInv, NEW t \in Thread, NEW size \in Nat, CreateFails(t, size)
  PROVE  IInv'
<1>1. MayCall(t, {t}) /\ UNCHANGED <<hash_table, elem, call, proc>>
  BY DEF CreateFails, CreateCalled
<1>2. call[t] = Idle /\ call[t].at = "idle" /\ Touched(t) = {}
  BY <1>1, MayCallFacts
<1> DEFINE new == [Unmapped EXCEPT !.mapped = TRUE, !.ref_count = 1]
           gone == [new EXCEPT !.lost = TRUE]
<1>3. page' = [p \in Page |-> IF p \in FreePages THEN gone ELSE page[p]]
  <2>1. \A p \in FreePages : Mapped(FreePages)[p] = new
    BY DEF Mapped, FreePages
  <2> HIDE DEF new
  <2> QED BY <2>1 DEF CreateFails
<1>4. gone \in Pages /\ gone.mapped /\ gone.lost /\ ~gone.open
  <2>1. Unmapped \in Pages /\ ~Unmapped.open
    BY TlsAssumption DEF Unmapped, Pages
  <2>2. new \in Pages /\ ~new.open /\ new.mapped
    BY <2>1 DEF Pages
  <2> HIDE DEF new
  <2> QED BY <2>2 DEF Pages
<1> HIDE DEF gone
<1>5. /\ page' \in [Page -> Pages]
      /\ \A x \in Page \ FreePages : page'[x] = page[x]
      /\ \A x \in FreePages : x \in Page /\ page'[x] = gone
  BY <1>3, <1>4 DEF IInv, Typed, FreePages
<1>6. Typed'
  BY <1>1, <1>5 DEF IInv, Typed
<1>7. CallsOK'
  BY <1>1 DEF IInv, CallsOK, IdleFor, ApartFrom, OwnedBy, Busy, Parties, Hash
<1>8. TableOK'
  BY <1>1 DEF IInv, TableOK, Tids, Heads, Nexts, OneBefore, HeadsFirst, NewFor, OldFor, InBucket,
     Hash, Chain, Walk
<1>9. StoresOK'
  BY <1>1 DEF IInv, StoresOK, StoreAt, CloneFor, WithinFor, Unfinished, OwnedBy, PagesFor
<1>10. PagesOK'
  <2> DEFINE Z == FreePages
  <2>1. \A x : Refs(x)' = Refs(x)
    BY <1>1 DEF Refs, Kept, PagesOf
  <2>2. \A u : Touched(u)' = Touched(u)
    BY <1>1 DEF Touched, Kept, PagesOf
  <2>3. OnlyCall(t) /\ call'[t].at = "idle" /\ \A u \in Busy \ {t} : SameStore(call[u].elem)
    BY <1>1, <1>2 DEF OnlyCall, SameStore
  <2>4. SharedFor(t)' /\ HeldFor(t)' /\ OpenFor(t)'
    BY <1>2, <2>2, <2>3 DEF SharedFor, HeldFor, OpenFor, Accessing
  <2>5. ASSUME NEW x \in Page, x \in Z PROVE CountedAt(x)' /\ OpenedAt(x)'
    <3>1. Refs(x) = {}
      BY <2>5, FreeUncounted
    <3> QED BY <1>4, <1>5, <2>1, <2>5, <3>1 DEF CountedAt, OpenedAt
  <2>6. \A u \in Thread \ {t} : Touched(u)' = Touched(u) /\ Z \cap Touched(u) = {}
    <3> SUFFICES ASSUME NEW u \in Thread \ {t}, NEW x \in Touched(u), x \in FreePages PROVE FALSE
      BY <2>2
    <3>1. x \in Page /\ ~page[x].mapped
      BY DEF FreePages
    <3> QED BY <3>1, TouchedMapped
  <2>7. \A x \in Page \ Z :
           /\ page'[x].mapped = page[x].mapped /\ page'[x].lost = page[x].lost
           /\ page'[x].ref_count = page[x].ref_count
           /\ x \notin Touched(t) => page'[x].open = page[x].open
           /\ Refs(x)' = Refs(x)
    BY <1>5, <2>1
  <2>8. Touched(t)' \subseteq Z /\ \A x \in Touched(t) \ Z : ~page'[x].open
    BY <1>2, <2>2
  <2> HIDE DEF Z
  <2> QED BY <2>3, <2>4, <2>5, <2>6, <2>7, <2>8, PagesStep
<1> QED BY <1>6, <1>7, <1>8, <1>9, <1>10 DEF IInv

-----------------------------------------------------------------------------
(* The theorems *)

(* The invariant holds of the program's first state.                        *)
LEMMA Initially ==
  ASSUME Init
  PROVE  IInv
<1> USE DEF Init
<1>1. Idle \in CallRecords /\ Idle.at = "idle" /\ Unused \in Elements /\ Unmapped \in Pages
      /\ Unused.state = "unused" /\ Unused.next = NULL
      /\ ~Unmapped.mapped /\ ~Unmapped.lost /\ ~Unmapped.open /\ Unmapped.ref_count = 0
  BY TlsAssumption DEF Idle, CallRecords, Labels, Unused, Elements, Unmapped, Pages
<1>2. Typed
  BY <1>1 DEF Typed, Bucket
<1>3. Busy = {} /\ \A t \in Thread : call[t].at = "idle"
  BY <1>1 DEF Busy
<1>4. CallsOK
  BY <1>3 DEF CallsOK, IdleFor
<1>5. TableOK
  <2>1. Tids /\ Nexts /\ OneBefore
    BY <1>1 DEF Tids, Nexts, OneBefore
  <2>2. Heads /\ HeadsFirst
    BY <1>1 DEF Heads, HeadsFirst, Bucket
  <2>3. \A t \in Thread : NewFor(t) /\ OldFor(t)
    BY <1>3 DEF NewFor, OldFor, Building, Destroying
  <2> QED BY <2>1, <2>2, <2>3 DEF TableOK
<1>6. StoresOK
  <2>1. \A e \in Element : StoreAt(e)
    BY <1>1 DEF StoreAt
  <2>2. \A t \in Thread : CloneFor(t) /\ WithinFor(t)
    BY <1>3 DEF CloneFor, WithinFor, Accessing
  <2> QED BY <2>1, <2>2 DEF StoresOK
<1>7. PagesOK
  <2>1. \A p : Refs(p) = {}
    <3>1. \A e \in Element : Kept(e) = {}
      BY <1>1 DEF Kept
    <3> QED BY <3>1 DEF Refs
  <2>2. \A t \in Thread : Touched(t) = {}
    BY <1>3 DEF Touched, Accessing, Destroying
  <2>3. ASSUME NEW p \in Page PROVE CountedAt(p) /\ OpenedAt(p)
    <3>1. Cardinality({}) = 0
      BY FS_EmptySet
    <3> QED BY <1>1, <2>1, <3>1 DEF CountedAt, OpenedAt
  <2>4. \A t \in Thread : SharedFor(t) /\ HeldFor(t) /\ OpenFor(t)
    BY <1>3, <2>2 DEF SharedFor, HeldFor, OpenFor, Accessing
  <2> QED BY <2>2, <2>3, <2>4 DEF PagesOK
<1> QED BY <1>2, <1>4, <1>5, <1>6, <1>7 DEF IInv

(* Every step keeps it: one lemma for each action.                          *)
LEMMA Inductive ==
  ASSUME IInv, CallsApart, [Next]_vars
  PROVE  IInv'
<1> USE DEF vars
<1>1. ASSUME UNCHANGED vars PROVE IInv'
  BY <1>1, FaultStep DEF IInv, Typed
<1>2. ASSUME NEW t \in Thread, Steps(t) PROVE IInv'
  BY <1>2, LinkNextStep, LinkHeadStep, CloneSharesStep, WriteTestsStep, WriteCopiesStep,
     WriteDropsStep, WritePutsStep, ReadGetsStep, ProtectsStep, DestroyReleasesStep,
     DestroyUnlinksStep DEF Steps
<1>3. ASSUME NEW t \in Thread, Calls(t) PROVE IInv'
  <2>1. ASSUME NEW size \in Sizes, tls_create(t, size) \/ CreateFails(t, size) PROVE IInv'
    BY <2>1, Numbers, CreateStep, CreateFailsStep
  <2>2. ASSUME NEW u \in Thread, tls_clone(t, u) PROVE IInv'
    BY <2>2, CloneStep
  <2>3. ASSUME NEW offset \in Offsets, NEW length \in Lengths, NEW byte \in Written,
               tls_write(t, offset, length, byte)
        PROVE  IInv'
    <3>1. offset \in Nat /\ length \in Nat /\ byte \in Bytes /\ "write" \in {"write", "read"}
      BY Numbers, TlsAssumption
    <3> QED BY <2>3, <3>1, AccessStep DEF tls_write
  <2>4. ASSUME NEW offset \in Offsets, NEW length \in Lengths, tls_read(t, offset, length)
        PROVE  IInv'
    <3>1. offset \in Nat /\ length \in Nat /\ Zero \in Bytes /\ "read" \in {"write", "read"}
      BY Numbers, TlsAssumption
    <3> QED BY <2>4, <3>1, AccessStep DEF tls_read
  <2>5. ASSUME tls_destroy(t) PROVE IInv'
    BY <2>5, DestroyStep
  <2> QED BY <1>3, <2>1, <2>2, <2>3, <2>4, <2>5 DEF Calls
<1>4. ASSUME NEW t \in Thread, Touch(t) PROVE IInv'
  BY <1>4, FaultStep DEF Touch, Fault
<1>5. ASSUME Ended \/ Refused PROVE IInv'
  BY <1>1, <1>5 DEF Ended, Refused
<1> QED BY <1>1, <1>2, <1>3, <1>4, <1>5 DEF Next

(* In every reachable state of a program whose calls on threads of one      *)
(* bucket, and on shared pages, never overlap, each call in progress has a  *)
(* live element of its own, the chains are lists of the elements of their   *)
(* bucket, and each page is counted once by each element that accounts for  *)
(* it (84-326).                                                             *)
THEOREM Invariance == CallsApart /\ Spec => []IInv
<1>1. CallsApart /\ Init => IInv
  BY Initially
<1>2. IInv /\ CallsApart /\ [Next]_vars => IInv'
  BY Inductive
<1>3. CallsApart => CallsApart'
  BY DEF CallsApart
<1> QED BY <1>1, <1>2, <1>3, PTL DEF Spec

(* Every variable keeps its type, and hash_search comes by elements of its  *)
(* own bucket only (40-51).                                                 *)
THEOREM TypeCorrectness == CallsApart /\ Spec => []TypeOK
<1>1. ASSUME IInv PROVE TypeOK
  <2>1. Typed
    BY <1>1 DEF IInv
  <2>2. \A b \in 0 .. HASH_SIZE - 1 : \A e \in Chain(b) : Hash(elem[e].tid) = b
    BY <1>1, ChainInBucket DEF IInv, TableOK, InBucket, Bucket
  <2>3. \A t \in Thread : call[t].elem \in Element \cup {NULL} /\ call[t].held \subseteq Page
    BY <2>1 DEF Typed, CallRecords
  <2> QED BY <2>1, <2>2, <2>3 DEF TypeOK, Typed, Bucket, Elements, Pages
<1> QED BY <1>1, Invariance, PTL

(* Whenever no call is in progress, ref_count says how many stores refer to *)
(* a page, and the page is mapped exactly while some do, but for those lost *)
(* by a tls_create that failed (126, 194, 198, 266-273, 319).               *)
THEOREM CountsExact == CallsApart /\ Spec => []RefCountsExact
<1>1. ASSUME IInv PROVE RefCountsExact
  <2> SUFFICES ASSUME Busy = {}, NEW p \in Page, ~page[p].lost
               PROVE  /\ page[p].ref_count = Cardinality(Users(p))
                      /\ page[p].mapped <=> Users(p) # {}
    BY DEF RefCountsExact
  <2>1. \A e \in Element : elem[e].state = "live" => Kept(e) = PagesOf(e)
    <3> SUFFICES ASSUME NEW e \in Element, elem[e].state = "live" PROVE Kept(e) = PagesOf(e)
      OBVIOUS
    <3>1. PICK o \in Thread : o = elem[e].tid
      BY <1>1 DEF IInv, TableOK, Tids
    <3>2. call[o] = Idle
      BY <1>1, BusyFacts DEF IInv, CallsOK, IdleFor
    <3>3. call[o].elem # e
      BY <3>2, Numbers DEF Idle
    <3> QED BY <3>1, <3>3 DEF Kept
  <2>2. \A e \in Element : elem[e].state # "live" => Kept(e) = {}
    BY DEF Kept
  <2>3. Refs(p) = Users(p)
    BY <2>1, <2>2 DEF Refs, Users
  <2>4. CountedAt(p)
    BY <1>1 DEF IInv, PagesOK
  <2> QED BY <2>3, <2>4 DEF CountedAt
<1> QED BY <1>1, Invariance, PTL

(* A page is accessible only while a thread that refers to it, or takes its *)
(* copy of it, is in tls_read or tls_write (162-174, 199, 229).             *)
THEOREM PagesProtected == CallsApart /\ Spec => []ProtectedAtRest
<1>1. ASSUME IInv PROVE ProtectedAtRest
  <2> SUFFICES ASSUME NEW p \in Page, page[p].open
               PROVE  \E t \in Busy : p \in PagesOf(call[t].elem) \cup call[t].held
    BY DEF ProtectedAtRest
  <2>1. PICK t \in Thread : call[t].at \in Accessing /\ p \in Touched(t)
    BY <1>1 DEF IInv, PagesOK, OpenedAt
  <2>2. t \in Busy
    BY <1>1, <2>1, StepFacts DEF Accessing
  <2>3. p \in Kept(call[t].elem)
    BY <1>1, <2>1, OwnTouched
  <2>4. CASE call[t].at # "drop"
    BY <1>1, <2>1, <2>2, <2>3, <2>4, KeptByLabel DEF Accessing
  <2>5. CASE call[t].at = "drop"
    <3>1. CASE p \in PagesOf(call[t].elem)
      BY <2>2, <3>1
    <3>2. CASE p \notin PagesOf(call[t].elem)
      <4>1. p = call[t].main_page /\ page[p].ref_count > 1
        BY <1>1, <2>2, <2>3, <2>5, <3>2, KeptByLabel DEF IInv, PagesOK, SharedFor
      <4>2. call[t].elem \in Element /\ page[p].ref_count = Cardinality(Refs(p))
        BY <1>1, <2>1, <2>3, <2>5, StepFacts, KeptCounted
      <4>3. Refs(p) # {call[t].elem}
        <5>1. Cardinality({call[t].elem}) = 1
          BY FS_Singleton
        <5> QED BY <4>1, <4>2, <5>1
      <4>4. p \in call[t].held
        BY <1>1, <2>1, <4>3 DEF IInv, PagesOK, HeldFor
      <4> QED BY <2>2, <4>4
    <3> QED BY <3>1, <3>2
  <2> QED BY <2>4, <2>5
<1> QED BY <1>1, Invariance, PTL

(* No call of the library faults unless mmap has failed: each page a thread *)
(* reads, copies or writes is one it has made accessible (172, 199, 208,    *)
(* 229, 248), and tls_destroy finds its element in the chain (282-290).     *)
THEOREM NoFaults == CallsApart /\ Spec => []CallsNeverFault
<1>1. IInv => CallsNeverFault
  BY DEF IInv, Typed, CallsNeverFault
<1> QED BY <1>1, Invariance, PTL

-----------------------------------------------------------------------------
(* The refinement of LocalStore: every thread has at most one store, which  *)
(* hash_search finds                                                        *)

(* Every element in use that is not about to be inserted is in its chain,   *)
(* and no thread has two.                                                   *)
ReachedAt(e) == elem[e].state = "live" =>
  LET t == elem[e].tid
  IN  e \in Chain(Hash(t)) \/ (call[t].at \in Building /\ call[t].elem = e)
Single == \A e, f \in Element :
  elem[e].state = "live" /\ elem[f].state = "live" /\ elem[e].tid = elem[f].tid => e = f
Sized == \A e \in Element : elem[e].state = "live" => elem[e].size > 0

(* A store that is about to be inserted is blank, or has the pages of the   *)
(* store it is a copy of.                                                   *)
BlankAt(e) == \A p \in PagesOf(e) : page[p].bytes = Unmapped.bytes
CopyOf(t) ==
  LET e == call[t].elem
      s == call[t].src
  IN  /\ call[t].peer \in Thread \ {t} /\ OwnedBy(s, call[t].peer)
      /\ elem[e].pages = elem[s].pages /\ elem[e].size = elem[s].size
ReadyFor(t) == call[t].at \in {"link", "insert"} =>
  IF call[t].peer = NoThread THEN BlankAt(call[t].elem) ELSE CopyOf(t)

(* The page tls_write is about to store to is nobody else's.                *)
PrivateFor(t) == call[t].at \in {"drop", "put"} => page[Working(t)].ref_count = 1

(* An element about to become the head of its bucket leads to the head.     *)
AheadFor(t) == call[t].at = "insert" => elem[call[t].elem].next = hash_table[Hash(t)]

(* Memory that malloc may hand out twice: what follows a freed head is lost  *)
(* with it.  A program in which the head of a bucket is destroyed only when *)
(* it is the last store there, the others having been destroyed before it,  *)
(* has nothing to lose.                                                     *)
LastInBucket(t) == hash_table[Hash(t)] = call[t].elem =>
  \A e \in Chain(Hash(t)) : elem[e].state = "live" => e = call[t].elem
InOrder == MallocReuses => \A t \in Thread : DestroyUnlinks(t) => LastInBucket(t)
DestroysInOrder == [][InOrder]_vars

(* Then no freed element leads to one in use.                               *)
Freed(e) == elem[e].state \in {"stale", "reused"}
DeadEnds == MallocReuses => \A e \in Element :
  Freed(e) /\ elem[e].next # NULL => elem[elem[e].next].state # "live"

RInv ==
  /\ \A e \in Element : ReachedAt(e)
  /\ Single /\ Sized
  /\ \A t \in Thread : ReadyFor(t) /\ PrivateFor(t) /\ AheadFor(t)

-----------------------------------------------------------------------------
(* A chain is the least set that holds the head and what its members lead   *)
(* to                                                                       *)

(* Such a set holds the chain.                                              *)
LEMMA ChainLeast ==
  ASSUME Typed, NEW b \in Bucket, NEW S, hash_table[b] \in S \cup {NULL},
         \A e \in S \cap Element : elem[e].next \in S \cup {NULL}
  PROVE  Chain(b) \subseteq S
<1> DEFINE w == Walk(b)
           Good == {n \in 0 .. MaxElements : w[n] \in S \cup {NULL}}
<1>1. IsWalk(w, hash_table[b], Successor)
  BY WalkIsWalk
<1> HIDE DEF w
<1>2. 0 \in Good
  BY <1>1, Numbers DEF IsWalk
<1>3. ASSUME NEW n \in 0 .. MaxElements - 1, n \in Good PROVE n + 1 \in Good
  <2>1. n + 1 \in 1 .. MaxElements /\ (n + 1) - 1 = n /\ n \in 0 .. MaxElements
        /\ n + 1 \in 0 .. MaxElements
    BY Numbers
  <2>2. w[n + 1] = (IF w[n] = NULL THEN NULL ELSE Successor[w[n]]) /\ w[n] \in Element \cup {NULL}
    BY <1>1, <2>1 DEF IsWalk
  <2>3. w[n] # NULL => Successor[w[n]] = elem[w[n]].next /\ w[n] \in S \cap Element
    BY <1>3, <2>2 DEF Successor
  <2> QED BY <2>1, <2>2, <2>3
<1>4. 0 .. MaxElements \subseteq Good
  <2> HIDE DEF Good
  <2> QED BY <1>2, <1>3, AllNats, Numbers
<1> QED BY <1>4, ChainTyped DEF w

(* From equal elements a walk goes on alike.                                *)
LEMMA WalkRepeats ==
  ASSUME NEW f, NEW h, NEW nx, IsWalk(f, h, nx),
         NEW i \in Nat, NEW j \in 0 .. MaxElements, i < j, f[i] = f[j]
  PROVE  f[i + (MaxElements - j)] = f[MaxElements]
<1> DEFINE m == MaxElements - j
           Good == {k \in 0 .. m : f[i + k] = f[j + k]}
<1>0. MaxElements \in Nat /\ m \in Nat /\ j + m = MaxElements
  BY Numbers
<1> HIDE DEF m
<1>1. 0 \in Good
  BY <1>0
<1>2. ASSUME NEW k \in 0 .. m - 1, k \in Good PROVE k + 1 \in Good
  <2>1. /\ i + (k + 1) \in 1 .. MaxElements /\ (i + (k + 1)) - 1 = i + k
        /\ j + (k + 1) \in 1 .. MaxElements /\ (j + (k + 1)) - 1 = j + k
        /\ k + 1 \in 0 .. m
    BY <1>0
  <2>2. /\ f[i + (k + 1)] = IF f[i + k] = NULL THEN NULL ELSE nx[f[i + k]]
        /\ f[j + (k + 1)] = IF f[j + k] = NULL THEN NULL ELSE nx[f[j + k]]
    BY <2>1 DEF IsWalk
  <2> QED BY <1>2, <2>1, <2>2
<1>3. 0 .. m \subseteq Good
  <2> HIDE DEF Good
  <2> QED BY <1>0, <1>1, <1>2, AllNats
<1> QED BY <1>0, <1>3 DEF m

(* The chain holds what its members lead to: a walk of MaxElements steps    *)
(* that is not at its end has come by an element twice.                     *)
LEMMA ChainClosed ==
  ASSUME Typed, NEW b \in Bucket, NEW e \in Chain(b), elem[e].next # NULL
  PROVE  elem[e].next \in Chain(b)
<1> DEFINE w == Walk(b)
           N == 0 .. MaxElements
<1>1. IsWalk(w, hash_table[b], Successor) /\ Chain(b) = {w[n] : n \in N} \ {NULL}
      /\ Chain(b) \subseteq Element /\ MaxElements \in Nat
  BY WalkIsWalk, ChainTyped, Numbers
<1> HIDE DEF w
<1>2. ASSUME NEW n \in N, n < MaxElements, w[n] # NULL, elem[w[n]].next # NULL
      PROVE  elem[w[n]].next \in Chain(b)
  <2>1. n + 1 \in 1 .. MaxElements /\ (n + 1) - 1 = n /\ n + 1 \in N
    BY <1>1, <1>2
  <2>2. w[n] \in Element /\ w[n + 1] = Successor[w[n]]
    BY <1>1, <1>2, <2>1 DEF IsWalk
  <2> QED BY <1>1, <1>2, <2>1, <2>2 DEF Successor
<1>3. PICK n \in N : w[n] = e
  BY <1>1
<1>4. CASE n < MaxElements
  BY <1>1, <1>2, <1>3, <1>4
<1>5. CASE \E k \in N : w[k] = NULL
  <2>1. PICK k \in N : w[k] = NULL
    BY <1>5
  <2> DEFINE Good == {m \in 0 .. MaxElements - k : w[k + m] = NULL}
  <2>2. 0 .. MaxElements - k \subseteq Good
    <3>1. 0 \in Good /\ MaxElements - k \in Nat
      BY <1>1, <2>1
    <3>2. ASSUME NEW m \in 0 .. (MaxElements - k) - 1, m \in Good PROVE m + 1 \in Good
      <4>1. k + (m + 1) \in 1 .. MaxElements /\ (k + (m + 1)) - 1 = k + m
            /\ m + 1 \in 0 .. MaxElements - k
        BY <1>1, <2>1
      <4>2. w[k + (m + 1)] = IF w[k + m] = NULL THEN NULL ELSE Successor[w[k + m]]
        BY <1>1, <4>1 DEF IsWalk
      <4> QED BY <3>2, <4>1, <4>2
    <3> HIDE DEF Good
    <3> QED BY <3>1, <3>2, AllNats
  <2>3. k + (MaxElements - k) = MaxElements /\ MaxElements - k \in 0 .. MaxElements - k
    BY <1>1, <2>1
  <2>4. w[MaxElements] = NULL
    BY <2>2, <2>3
  <2>5. n < MaxElements
    BY <1>1, <1>3, <2>4
  <2> QED BY <1>4, <2>5
<1>6. CASE \A k \in N : w[k] # NULL
  <2>1. w \in [N -> Element]
    BY <1>1, <1>6 DEF IsWalk
  <2>2. IsFiniteSet(N) /\ Cardinality(N) = MaxElements + 1
        /\ IsFiniteSet(Element) /\ Cardinality(Element) = MaxElements
    BY <1>1, FS_Interval DEF Element
  <2>3. Cardinality(Element) < Cardinality(N)
    BY <1>1, <2>2
  <2>4. PICK x, y \in N : x # y /\ w[x] = w[y]
    <3> HIDE DEF N
    <3> QED BY <2>1, <2>2, <2>3, FS_PigeonHole
  <2>5. PICK i, j \in N : i < j /\ w[i] = w[j]
    BY <1>1, <2>4
  <2>6. w[i + (MaxElements - j)] = w[MaxElements]
    BY <1>1, <2>5, WalkRepeats
  <2>7. i + (MaxElements - j) \in N /\ i + (MaxElements - j) < MaxElements
    BY <1>1, <2>5
  <2>8. n < MaxElements \/ n = MaxElements
    BY <1>1
  <2> QED BY <1>2, <1>3, <1>4, <1>1, <2>6, <2>7, <2>8
<1> QED BY <1>5, <1>6

(* The head of a bucket is in its chain.                                    *)
LEMMA HeadInChain ==
  ASSUME Typed, NEW b \in Bucket, hash_table[b] # NULL
  PROVE  hash_table[b] \in Chain(b)
<1>1. Walk(b)[0] = hash_table[b] /\ 0 \in 0 .. MaxElements
  BY WalkIsWalk, Numbers DEF IsWalk
<1> QED BY <1>1, ChainTyped

(* The two facts for the next state.                                        *)
LEMMA ChainsAfter ==
  /\ (Typed => \A b \in Bucket : \A e \in Chain(b) :
         elem[e].next # NULL => elem[e].next \in Chain(b))'
  /\ (Typed => \A b \in Bucket : hash_table[b] # NULL => hash_table[b] \in Chain(b))'
  /\ (Typed => \A b \in Bucket : Chain(b) \subseteq Element)'
  /\ (Typed => \A b \in Bucket : \A e \in Chain(b) :
         e # hash_table[b] => \E f \in Chain(b) : f # e /\ elem[f].next = e)'
<1>1. Typed => \A b \in Bucket : \A e \in Chain(b) :
         elem[e].next # NULL => elem[e].next \in Chain(b)
  BY ChainClosed
<1>2. Typed => \A b \in Bucket : hash_table[b] # NULL => hash_table[b] \in Chain(b)
  BY HeadInChain
<1>3. Typed => \A b \in Bucket : Chain(b) \subseteq Element
  BY ChainTyped
<1>4. Typed => \A b \in Bucket : \A e \in Chain(b) :
         e # hash_table[b] => \E f \in Chain(b) : f # e /\ elem[f].next = e
  BY ChainBefore
<1> QED BY <1>1, <1>2, <1>3, <1>4, PTL

-----------------------------------------------------------------------------
(* The store of a thread *)

(* The elements of thread t that are not about to be inserted.              *)
Mine(t) == {e \in Element :
  elem[e].state = "live" /\ elem[e].tid = t /\ call[t].at \notin Building}
Contents(e) == [i \in 0 .. elem[e].size - 1 |->
  page[elem[e].pages[i \div page_size + 1]].bytes[i % page_size]]

(* Nothing leads to an element that is not yet inserted.                    *)
LEMMA NewNotInChain ==
  ASSUME IInv, NEW t \in Thread, call[t].at \in Building, NEW b \in Bucket
  PROVE  call[t].elem \notin Chain(b)
<1>1. \A e \in Element : elem[e].next # call[t].elem
  BY DEF IInv, TableOK, NewFor
<1>2. hash_table[b] # call[t].elem
  BY DEF IInv, TableOK, NewFor
<1>3. Chain(b) \subseteq Element /\ Typed
  BY ChainTyped DEF IInv
<1> QED BY <1>1, <1>2, <1>3, ChainBefore

(* hash_search comes by a thread's element when it is in the table.         *)
LEMMA EntriesMine ==
  ASSUME IInv, RInv, NEW t \in Thread
  PROVE  Entries(t) = Mine(t)
<1>1. Hash(t) \in Bucket /\ Chain(Hash(t)) \subseteq Element
  BY HashTyped, ChainTyped DEF IInv
<1>2. ASSUME NEW e \in Entries(t) PROVE e \in Mine(t)
  <2>1. e \in Chain(Hash(t)) /\ elem[e].state = "live" /\ elem[e].tid = t /\ e \in Element
    BY <1>1 DEF Entries
  <2>2. ASSUME call[t].at \in Building PROVE FALSE
    <3>1. OwnedBy(call[t].elem, t)
      BY <2>2, StepFacts DEF Building
    <3>2. call[t].elem = e
      BY <2>1, <3>1 DEF RInv, Single, OwnedBy
    <3> QED BY <1>1, <2>1, <2>2, <3>2, NewNotInChain
  <2> QED BY <2>1, <2>2 DEF Mine
<1>3. ASSUME NEW e \in Mine(t) PROVE e \in Entries(t)
  BY DEF Mine, Entries, RInv, ReachedAt
<1> QED BY <1>2, <1>3

(* So a thread's store is that of its only element.                         *)
LEMMA StoreIs ==
  ASSUME IInv, RInv, NEW t \in Thread
  PROVE  /\ Mine(t) = {} => hash_search(t) = NULL /\ Store[t] = <<>>
         /\ \A e \in Mine(t) :
              /\ hash_search(t) = e /\ Mine(t) = {e}
              /\ call[t].at \in Destroying => Store[t] = <<>>
              /\ call[t].at \notin Destroying => Store[t] = Contents(e)
<1>1. Entries(t) = Mine(t)
  BY EntriesMine
<1>2. CASE Mine(t) = {}
  BY <1>1, <1>2 DEF hash_search, Store
<1>3. ASSUME NEW e \in Mine(t)
      PROVE  /\ hash_search(t) = e /\ Mine(t) = {e}
             /\ call[t].at \in Destroying => Store[t] = <<>>
             /\ call[t].at \notin Destroying => Store[t] = Contents(e)
  <2>1. Mine(t) = {e}
    BY DEF Mine, RInv, Single
  <2>2. hash_search(t) = e /\ e # NULL
    BY <1>1, <2>1, Numbers DEF hash_search, Mine
  <2>3. Store[t] = IF call[t].at \in {"release", "unlink"} THEN <<>> ELSE Contents(e)
    BY <2>2 DEF Store, Contents
  <2> QED BY <2>1, <2>2, <2>3 DEF Destroying
<1> QED BY <1>2, <1>3

(* The same for the next state.                                             *)
LEMMA StoreIsAfter ==
  (IInv /\ RInv => \A t \in Thread :
     /\ Mine(t) = {} => hash_search(t) = NULL /\ Store[t] = <<>>
     /\ \A e \in Mine(t) :
          /\ hash_search(t) = e /\ Mine(t) = {e}
          /\ call[t].at \in Destroying => Store[t] = <<>>
          /\ call[t].at \notin Destroying => Store[t] = Contents(e))'
<1>1. IInv /\ RInv => \A t \in Thread :
     /\ Mine(t) = {} => hash_search(t) = NULL /\ Store[t] = <<>>
     /\ \A e \in Mine(t) :
          /\ hash_search(t) = e /\ Mine(t) = {e}
          /\ call[t].at \in Destroying => Store[t] = <<>>
          /\ call[t].at \notin Destroying => Store[t] = Contents(e)
  BY StoreIs
<1> QED BY <1>1, PTL

(* The pages of a store that is not being destroyed: its element accounts   *)
(* for them.                                                                *)
LEMMA StorePagesKept ==
  ASSUME IInv, NEW e \in Element, elem[e].state = "live",
         call[elem[e].tid].at \notin Destroying
  PROVE  PagesOf(e) \subseteq Kept(e)
BY DEF Kept, Destroying

(* What a store holds is on its pages.                                      *)
LEMMA ContentsSame ==
  ASSUME IInv, NEW e \in Element, elem[e].state = "live", e \notin Unfinished,
         SameStore(e), \A p \in PagesOf(e) : page'[p].bytes = page[p].bytes
  PROVE  Contents(e)' = Contents(e)
<1>1. /\ Len(elem[e].pages) = PagesFor(elem[e].size)
      /\ DOMAIN elem[e].pages = 1 .. Len(elem[e].pages) /\ elem[e].size \in Nat
  BY PagesTyped DEF IInv, StoresOK, StoreAt
<1>2. ASSUME NEW i \in 0 .. elem[e].size - 1
      PROVE  i \div page_size + 1 \in DOMAIN elem[e].pages
  BY <1>1, PageOfByte
<1>3. \A i \in 0 .. elem[e].size - 1 : elem[e].pages[i \div page_size + 1] \in PagesOf(e)
  BY <1>2 DEF PagesOf
<1>4. elem'[e].size = elem[e].size /\ elem'[e].pages = elem[e].pages
  BY DEF SameStore
<1>5. \A i \in 0 .. elem[e].size - 1 :
        page'[elem[e].pages[i \div page_size + 1]].bytes[i % page_size]
          = page[elem[e].pages[i \div page_size + 1]].bytes[i % page_size]
  BY <1>3
<1> QED BY <1>4, <1>5 DEF Contents
-----------------------------------------------------------------------------
(* What a step of thread t leaves alone in the stores of others *)

Leaves(t) ==
  /\ OnlyCall(t)
  /\ \A f \in Element :
       /\ elem[f].state = "live" /\ elem[f].tid # t => SameStore(f)
       /\ elem'[f].state = "live" /\ elem'[f].tid # t => SameStore(f)
  /\ \A p \in Page : page[p].mapped =>
       /\ page'[p].bytes = page[p].bytes \/ Refs(p) \subseteq {call[t].elem}
       /\ page'[p].ref_count = page[p].ref_count \/ p \in Touched(t)

(* The pages of an element of another thread keep their bytes.              *)
LEMMA OthersBytes ==
  ASSUME IInv, NEW t \in Thread, Leaves(t), NEW f \in Element, elem[f].state = "live",
         elem[f].tid # t, NEW p \in Kept(f), p \in Page
  PROVE  page'[p].bytes = page[p].bytes
<1>1. page[p].mapped /\ f \in Refs(p)
  BY KeptCounted
<1>2. f # call[t].elem
  <2>1. CASE call[t].at = "idle"
    BY <2>1, Numbers DEF IInv, CallsOK, IdleFor, Idle
  <2>2. CASE call[t].at # "idle"
    BY <2>2, StepFacts
  <2> QED BY <2>1, <2>2
<1> QED BY <1>1, <1>2 DEF Leaves

(* An unfinished copy is its owner's only element, and the owner is busy.   *)
LEMMA UnfinishedOwner ==
  ASSUME IInv, NEW e \in Unfinished
  PROVE  e \in Element /\ call[elem[e].tid].at = "share" /\ call[elem[e].tid].elem = e
         /\ elem[e].tid \in Thread
<1>1. PICK u \in Thread : call[u].at = "share" /\ call[u].elem = e
  BY DEF Unfinished
<1>2. OwnedBy(e, u)
  BY <1>1, StepFacts
<1> QED BY <1>1, <1>2 DEF OwnedBy

(* The store and the last byte read of every other thread stay.             *)
LEMMA OthersSame ==
  ASSUME IInv, RInv, IInv', RInv', NEW t \in Thread, Leaves(t), NEW u \in Thread \ {t}
  PROVE  Store'[u] = Store[u] /\ Heard'[u] = Heard[u]
<1>1. call'[u] = call[u]
  BY DEF Leaves, OnlyCall
<1>2. Heard'[u] = Heard[u]
  BY <1>1 DEF Heard
<1>3. Mine(u)' = Mine(u)
  BY <1>1 DEF Mine, Leaves, SameStore
<1>4. CASE Mine(u) = {}
  BY <1>2, <1>3, <1>4, StoreIs, StoreIsAfter
<1>5. CASE Mine(u) # {}
  <2>1. PICK e \in Mine(u) : TRUE
    BY <1>5
  <2>2. e \in Element /\ elem[e].state = "live" /\ elem[e].tid = u /\ call[u].at \notin Building
        /\ SameStore(e)
    BY <2>1 DEF Mine, Leaves
  <2>3. CASE call[u].at \in Destroying
    BY <1>1, <1>2, <1>3, <2>1, <2>3, StoreIs, StoreIsAfter
  <2>4. CASE call[u].at \notin Destroying
    <3>1. PagesOf(e) \subseteq Kept(e) /\ PagesOf(e) \subseteq Page
      BY <2>2, <2>4, StorePagesKept, PagesTyped DEF IInv
    <3>2. \A p \in PagesOf(e) : page'[p].bytes = page[p].bytes
      BY <2>2, <3>1, OthersBytes
    <3>3. e \notin Unfinished
      BY <2>2, UnfinishedOwner DEF Building
    <3>4. Contents(e)' = Contents(e)
      BY <2>2, <3>2, <3>3, ContentsSame
    <3>5. Store[u] = Contents(e)
      BY <2>1, <2>4, StoreIs
    <3>6. Store'[u] = Contents(e)'
      BY <1>1, <1>3, <2>1, <2>4, StoreIsAfter
    <3> QED BY <1>2, <3>4, <3>5, <3>6
  <2> QED BY <2>3, <2>4
<1> QED BY <1>2, <1>4, <1>5

(* The page tls_write is at belongs to its store, and it has access to it.  *)
LEMMA WorkingKept ==
  ASSUME IInv, NEW t \in Thread, call[t].at \in {"copy", "drop", "put"}
  PROVE  /\ Working(t) \in Page /\ Working(t) \in PagesOf(call[t].elem)
         /\ Working(t) \in Kept(call[t].elem) /\ Working(t) \in Touched(t)
         /\ page[Working(t)].mapped
<1>1. t \in Busy /\ OwnedBy(call[t].elem, t) /\ call[t].elem \in Element
  BY StepFacts
<1>2. call[t].idx < call[t].upto
  BY DEF IInv, StoresOK, WithinFor
<1>3. Working(t) \in Page /\ Working(t) \in PagesOf(call[t].elem)
  BY <1>2, WorkingFacts
<1>4. Touched(t) = Kept(call[t].elem)
  BY DEF Touched, Accessing
<1>5. PagesOf(call[t].elem) \subseteq Kept(call[t].elem)
  BY <1>1, KeptByLabel
<1> QED BY <1>1, <1>3, <1>4, <1>5, KeptCounted

(* A step of one thread keeps RInv if its own element and chains allow it.  *)
LEMMA RStep ==
  ASSUME IInv, RInv, IInv', NEW t \in Thread, Leaves(t),
         t \in Busy \/ t \in Busy' \/ elem' = elem,
         \A f \in Element : elem'[f].state = "live" /\ elem'[f].tid = t =>
           elem'[f].size > 0 /\ ReachedAt(f)',
         \A f, g \in Element : OwnedBy(f, t)' /\ OwnedBy(g, t)' => f = g,
         \A b \in Bucket : \A f \in Chain(b) :
           elem[f].state = "live" /\ elem[f].tid # t => f \in Chain(b)',
         \A u \in Thread \ {t} : call[u].at = "insert" =>
           /\ elem'[call[u].elem].next = elem[call[u].elem].next
           /\ hash_table'[Hash(u)] = hash_table[Hash(u)],
         ReadyFor(t)', PrivateFor(t)', AheadFor(t)'
  PROVE  RInv'
<1>1. \A f \in Element : elem'[f].state = "live" /\ elem'[f].tid # t =>
        SameStore(f) /\ elem[f].state = "live" /\ elem[f].tid # t
  BY DEF Leaves, SameStore
<1>2. \A u \in Thread \ {t} : call'[u] = call[u]
  BY DEF Leaves, OnlyCall
<1>3. ASSUME NEW f \in Element PROVE ReachedAt(f)'
  <2>1. CASE elem'[f].state # "live"
    BY <2>1 DEF ReachedAt
  <2>2. CASE elem'[f].state = "live" /\ elem'[f].tid = t
    BY <2>2
  <2>3. CASE elem'[f].state = "live" /\ elem'[f].tid # t
    <3>1. PICK u \in Thread : u = elem[f].tid
      BY <1>1, <2>3 DEF IInv, TableOK, Tids
    <3>2. elem'[f].tid = u /\ u # t /\ elem[f].state = "live" /\ call'[u] = call[u]
      BY <1>1, <1>2, <2>3, <3>1 DEF SameStore
    <3>3. f \in Chain(Hash(u)) \/ (call[u].at \in Building /\ call[u].elem = f)
      BY <3>1, <3>2 DEF RInv, ReachedAt
    <3>4. f \in Chain(Hash(u)) => f \in Chain(Hash(u))'
      <4>1. \A b \in Bucket : f \in Chain(b) => f \in Chain(b)'
        BY <3>1, <3>2
      <4>2. Hash(u) \in Bucket
        BY HashTyped
      <4>3. Chain(Hash(u))' = Chain(Hash(u))' /\ Hash(u)' = Hash(u)
        BY DEF Hash
      <4> QED BY <4>1, <4>2
    <3>5. f \in Chain(Hash(u))' \/ (call'[u].at \in Building /\ call'[u].elem = f)
      BY <3>2, <3>3, <3>4
    <3> QED BY <3>2, <3>5 DEF ReachedAt, Chain, Walk, Hash
  <2> QED BY <2>1, <2>2, <2>3
<1>4. Single'
  BY <1>1 DEF RInv, Single, SameStore, OwnedBy
<1>5. Sized'
  BY <1>1 DEF RInv, Sized, SameStore
<1>6. ASSUME NEW u \in Thread \ {t}, call[u].at # "idle"
      PROVE  /\ u \in Busy /\ call[u].elem \in Element /\ SameStore(call[u].elem)
             /\ OwnedBy(call[u].elem, u) /\ PagesOf(call[u].elem)' = PagesOf(call[u].elem)
  <2>1. u \in Busy /\ OwnedBy(call[u].elem, u)
    BY <1>6, StepFacts
  <2>2. SameStore(call[u].elem)
    BY <2>1 DEF OwnedBy, Leaves
  <2> QED BY <1>2, <2>1, <2>2 DEF OwnedBy, PagesOf, SameStore
<1>7. ASSUME NEW u \in Thread \ {t} PROVE ReadyFor(u)'
  <2> SUFFICES ASSUME call[u].at \in {"link", "insert"}
               PROVE  IF call[u].peer = NoThread THEN BlankAt(call[u].elem)' ELSE CopyOf(u)'
    BY <1>2 DEF ReadyFor, BlankAt, PagesOf
  <2> DEFINE e == call[u].elem
             s == call[u].src
  <2>1. u \in Busy /\ e \in Element /\ SameStore(e) /\ OwnedBy(e, u) /\ PagesOf(e)' = PagesOf(e)
    BY <1>6
  <2>2. CASE call[u].peer = NoThread
    <3>1. BlankAt(e)
      BY <2>2 DEF RInv, ReadyFor
    <3>2. Kept(e) = PagesOf(e) /\ PagesOf(e) \subseteq Page
      BY <2>1, KeptByLabel, PagesTyped DEF IInv
    <3>3. elem[e].state = "live" /\ elem[e].tid # t
      BY <2>1 DEF OwnedBy
    <3>4. \A p \in PagesOf(e) : page'[p].bytes = page[p].bytes
      BY <2>1, <3>2, <3>3, OthersBytes
    <3> QED BY <2>1, <2>2, <3>1, <3>4 DEF BlankAt, Unmapped
  <2>3. CASE call[u].peer # NoThread
    <3>1. CopyOf(u)
      BY <2>3 DEF RInv, ReadyFor
    <3>2. SameStore(s)
      <4>1. CASE elem' = elem
        BY <4>1 DEF SameStore
      <4>2. CASE call[u].peer # t
        BY <3>1, <4>2 DEF CopyOf, OwnedBy, Leaves
      <4>3. CASE call[u].peer = t /\ (t \in Busy \/ t \in Busy')
        <5>1. t \in Parties(t) /\ t \in Parties(u) /\ t \in Parties(t)' /\ t \in Parties(u)'
          BY <1>2, <4>3, Numbers DEF Parties
        <5>2. u \in Busy'
          BY <1>2, <2>1 DEF Busy
        <5>3. ApartFrom(t, u) \/ ApartFrom(t, u)'
          BY <2>1, <4>3, <5>2 DEF IInv, CallsOK
        <5> QED BY <5>1, <5>3 DEF ApartFrom, Hash
      <4> QED BY <4>1, <4>2, <4>3
    <3>3. CopyOf(u)'
      BY <1>2, <2>1, <3>1, <3>2 DEF CopyOf, OwnedBy, SameStore
    <3> QED BY <2>3, <3>3
  <2> QED BY <2>2, <2>3
<1>8. ASSUME NEW u \in Thread \ {t} PROVE PrivateFor(u)'
  <2> SUFFICES ASSUME call[u].at \in {"drop", "put"} PROVE page'[Working(u)'].ref_count = 1
    BY <1>2 DEF PrivateFor
  <2>1. Working(u)' = Working(u)
    BY <1>2, <1>6 DEF Working, SameStore
  <2>2. Working(u) \in Page /\ Working(u) \in Touched(u) /\ page[Working(u)].mapped
    BY WorkingKept
  <2>3. Working(u) \notin Touched(t)
    BY <2>2 DEF IInv, PagesOK
  <2> QED BY <2>1, <2>2, <2>3 DEF RInv, PrivateFor, Leaves
<1>9. \A u \in Thread \ {t} : AheadFor(u)'
  BY <1>2 DEF RInv, AheadFor, Hash
<1> QED BY <1>3, <1>4, <1>5, <1>7, <1>8, <1>9 DEF RInv

(* A step that leaves the table and the owners of elements alone.           *)
LEMMA RSame ==
  ASSUME IInv, RInv, IInv', NEW t \in Thread, Leaves(t), t \in Busy \/ t \in Busy' \/ elem' = elem,
         hash_table' = hash_table,
         \A f \in Element :
           /\ elem'[f].state = elem[f].state /\ elem'[f].tid = elem[f].tid
           /\ elem'[f].size = elem[f].size
           /\ \/ elem'[f].next = elem[f].next
              \/ f = call[t].elem /\ \A b \in Bucket : f \notin Chain(b),
         call[t].at \in Building => call'[t].at \in Building /\ call'[t].elem = call[t].elem,
         ReadyFor(t)', PrivateFor(t)', AheadFor(t)'
  PROVE  RInv'
<1>1. \A b \in Bucket : Chain(b)' = Chain(b)
  <2>1. \A b \in Bucket : \A f \in Chain(b) : elem'[f].next = elem[f].next
    BY ChainTyped DEF IInv
  <2>2. Typed /\ Typed'
    BY DEF IInv
  <2> QED BY <2>1, <2>2, ChainKept
<1>2. ASSUME NEW f \in Element, elem'[f].state = "live", elem'[f].tid = t
      PROVE  elem'[f].size > 0 /\ ReachedAt(f)'
  <2>1. elem[f].state = "live" /\ elem[f].tid = t /\ elem'[f].size = elem[f].size
    BY <1>2
  <2>2. elem[f].size > 0 /\ (f \in Chain(Hash(t)) \/ (call[t].at \in Building /\ call[t].elem = f))
    BY <2>1 DEF RInv, Sized, ReachedAt
  <2>3. f \in Chain(Hash(t))' \/ (call'[t].at \in Building /\ call'[t].elem = f)
    BY <1>1, <2>2, HashTyped
  <2> QED BY <1>2, <2>1, <2>2, <2>3 DEF ReachedAt, Chain, Walk, Hash
<1>3. \A f, g \in Element : OwnedBy(f, t)' /\ OwnedBy(g, t)' => f = g
  <2> SUFFICES ASSUME NEW f \in Element, NEW g \in Element, OwnedBy(f, t)', OwnedBy(g, t)'
               PROVE  f = g
    OBVIOUS
  <2>1. /\ elem[f].state = "live" /\ elem[f].tid = t
        /\ elem[g].state = "live" /\ elem[g].tid = t
    BY DEF OwnedBy
  <2> QED BY <2>1 DEF RInv, Single
<1>4. ASSUME NEW u \in Thread \ {t}, call[u].at = "insert"
      PROVE  elem'[call[u].elem].next = elem[call[u].elem].next
  <2>1. u \in Busy /\ call[u].elem \in Element
    BY <1>4, StepFacts
  <2>2. call[u].elem # call[t].elem
    <3>1. CASE t \in Busy
      BY <2>1, <3>1, OwnElements
    <3>2. CASE t \notin Busy
      BY <2>1, <3>2, BusyFacts, Numbers DEF IInv, CallsOK, IdleFor, Idle
    <3> QED BY <3>1, <3>2
  <2> QED BY <2>1, <2>2
<1> QED BY <1>1, <1>2, <1>3, <1>4, RStep

-----------------------------------------------------------------------------
(* What a step may do to the store and the last byte read of its thread     *)

Own(t) ==
  \/ Store'[t] = Store[t] /\ Heard'[t] = Heard[t]
  \/ Store'[t] = Store[t] /\ Heard'[t] = Zero
  \/ /\ Store'[t] = Store[t]
     /\ \E i \in DOMAIN Store[t] : Heard'[t] = Store[t][i]
  \/ /\ Store[t] = <<>> /\ Store'[t] # <<>> /\ Heard'[t] = Heard[t]
     /\ \A i \in DOMAIN Store'[t] : Store'[t][i] = Zero
  \/ /\ Store[t] = <<>> /\ Heard'[t] = Heard[t]
     /\ \E u \in Thread : Store[u] # <<>> /\ Store'[t] = Store[u]
  \/ /\ Heard'[t] = Heard[t]
     /\ \E i \in DOMAIN Store[t], b \in Bytes : Store'[t] = [Store[t] EXCEPT ![i] = b]
  \/ Store'[t] = <<>> /\ Heard'[t] = Heard[t]

(* Stores and bytes read are functions of the threads.                      *)
LEMMA LocalFunctions ==
  /\ Store = [t \in Thread |-> Store[t]] /\ Heard = [t \in Thread |-> Heard[t]]
  /\ Store' = [t \in Thread |-> Store'[t]] /\ Heard' = [t \in Thread |-> Heard'[t]]
<1>1. Store = [t \in Thread |-> Store[t]]
  BY DEF Store
<1>2. Heard = [t \in Thread |-> Heard[t]]
  BY DEF Heard
<1>3. Store' = [t \in Thread |-> Store'[t]]
  BY DEF Store
<1>4. Heard' = [t \in Thread |-> Heard'[t]]
  BY DEF Heard
<1> QED BY <1>1, <1>2, <1>3, <1>4

(* A step that changes one thread's in such a way is one of LocalStore.     *)
LEMMA Promised ==
  ASSUME IInv, RInv, IInv', RInv', NEW t \in Thread, Leaves(t), Own(t)
  PROVE  [Promise!LocalNext]_<<Store, Heard>>
<1> DEFINE N == Promise!LocalNext
<1>1. \A u \in Thread \ {t} : Store'[u] = Store[u] /\ Heard'[u] = Heard[u]
  BY OthersSame
<1>2. PICK s, h, s1, h1 : s = Store /\ h = Heard /\ s1 = Store' /\ h1 = Heard'
  OBVIOUS
<1>3. /\ s = [u \in Thread |-> s[u]] /\ h = [u \in Thread |-> h[u]]
      /\ s1 = [u \in Thread |-> s1[u]] /\ h1 = [u \in Thread |-> h1[u]]
      /\ \A u \in Thread \ {t} : s1[u] = s[u] /\ h1[u] = h[u]
  BY <1>1, <1>2, LocalFunctions
<1>4. /\ s1 = [s EXCEPT ![t] = s1[t]] /\ h1 = [h EXCEPT ![t] = h1[t]]
      /\ s1[t] = s[t] => s1 = s
      /\ h1[t] = h[t] => h1 = h
  BY <1>3
<1>5. ASSUME s1 # s \/ h1 # h
      PROVE  Promise!Forget(t) \/ Promise!Create(t) \/ Promise!Clone(t) \/ Promise!Put(t)
               \/ Promise!Get(t) \/ Promise!Destroy(t)
  <2>1. CASE s1[t] = s[t] /\ h1[t] = h[t]
    BY <1>4, <1>5, <2>1
  <2>2. CASE s1[t] = s[t] /\ h1[t] = Zero
    BY <1>2, <1>4, <2>2 DEF Promise!Forget
  <2>3. CASE s1[t] = s[t] /\ \E i \in DOMAIN s[t] : h1[t] = s[t][i]
    <3>1. h1[t] # h[t] /\ s1 = s
      BY <1>4, <1>5, <2>3
    <3>2. PICK i \in DOMAIN s[t] : h1[t] = s[t][i]
      BY <2>3
    <3>3. h1 = [h EXCEPT ![t] = s[t][i]]
      BY <1>4, <3>2
    <3> QED BY <1>2, <3>1, <3>2, <3>3 DEF Promise!Get
  <2>4. CASE /\ s[t] = <<>> /\ s1[t] # <<>> /\ h1[t] = h[t]
             /\ \A i \in DOMAIN s1[t] : s1[t][i] = Zero
    BY <1>2, <1>3, <1>4, <2>4 DEF Promise!Create, Promise!NoStore, Promise!OnlyChanges
  <2>5. CASE /\ s[t] = <<>> /\ h1[t] = h[t]
             /\ \E u \in Thread : s[u] # <<>> /\ s1[t] = s[u]
    BY <1>2, <1>3, <1>4, <2>5 DEF Promise!Clone, Promise!NoStore, Promise!OnlyChanges
  <2>6. CASE /\ h1[t] = h[t]
             /\ \E i \in DOMAIN s[t], b \in Bytes : s1[t] = [s[t] EXCEPT ![i] = b]
    <3>1. s1[t] # s[t] /\ h1 = h
      BY <1>4, <1>5, <2>6
    <3>2. PICK i \in DOMAIN s[t], b \in Bytes : s1[t] = [s[t] EXCEPT ![i] = b]
      BY <2>6
    <3>3. s1 = [s EXCEPT ![t][i] = b]
      BY <1>3, <1>4, <3>2
    <3>4. \E j \in DOMAIN s[t], x \in Bytes : s1 = [s EXCEPT ![t][j] = x]
      BY <3>2, <3>3
    <3>5. Promise!Put(t)
      BY <1>2, <3>1, <3>4 DEF Promise!Put
    <3> QED BY <3>5
  <2>7. CASE s1[t] = <<>> /\ h1[t] = h[t]
    BY <1>2, <1>4, <2>7 DEF Promise!Destroy, Promise!NoStore
  <2> QED BY <1>2, <2>1, <2>2, <2>3, <2>4, <2>5, <2>6, <2>7 DEF Own
<1>6. s1 # s \/ h1 # h => N
  BY <1>5 DEF Promise!LocalNext
<1>7. N \/ UNCHANGED <<Store, Heard>>
  BY <1>2, <1>6
<1> QED BY <1>7

(* A step that changes nothing of an element in the table keeps its store.  *)
LEMMA QuietOwn ==
  ASSUME IInv, RInv, IInv', RInv', NEW t \in Thread,
         \A f \in Element : elem'[f].state = elem[f].state /\ elem'[f].tid = elem[f].tid,
         call'[t].at \in Building <=> call[t].at \in Building,
         call'[t].at \in Destroying <=> call[t].at \in Destroying,
         \/ call[t].at \in Building \cup Destroying
         \/ /\ \A f \in Element : SameStore(f)
            /\ \A p \in Page : page[p].mapped => page'[p].bytes = page[p].bytes
  PROVE  Store'[t] = Store[t]
<1>1. Mine(t)' = Mine(t)
  BY DEF Mine
<1>2. CASE Mine(t) = {}
  BY <1>1, <1>2, StoreIs, StoreIsAfter
<1>3. CASE Mine(t) # {}
  <2>1. PICK e \in Mine(t) : TRUE
    BY <1>3
  <2>2. e \in Element /\ elem[e].state = "live" /\ elem[e].tid = t /\ call[t].at \notin Building
    BY <2>1 DEF Mine
  <2>3. CASE call[t].at \in Destroying
    BY <1>1, <2>1, <2>3, StoreIs, StoreIsAfter
  <2>4. CASE call[t].at \notin Destroying
    <3>1. PagesOf(e) \subseteq Kept(e) /\ PagesOf(e) \subseteq Page
      BY <2>2, <2>4, StorePagesKept, PagesTyped DEF IInv
    <3>2. \A p \in PagesOf(e) : page'[p].bytes = page[p].bytes
      BY <2>2, <2>4, <3>1, KeptCounted
    <3>3. e \notin Unfinished
      BY <2>2, UnfinishedOwner DEF Building
    <3>4. Contents(e)' = Contents(e)
      BY <2>2, <2>4, <3>2, <3>3, ContentsSame
    <3>5. Store[t] = Contents(e)
      BY <2>1, <2>4, StoreIs
    <3>6. Store'[t] = Contents(e)'
      BY <1>1, <2>1, <2>4, StoreIsAfter
    <3> QED BY <3>4, <3>5, <3>6
  <2> QED BY <2>3, <2>4
<1> QED BY <1>2, <1>3

-----------------------------------------------------------------------------
(* The steps, one lemma for each action: RInv is kept, the stores of the    *)
(* others are left alone, and the thread's own does what LocalStore allows  *)

(* A fault, or a step that changes nothing.                                 *)
LEMMA NothingRound ==
  ASSUME RInv, UNCHANGED <<heap, call>>
  PROVE  RInv' /\ UNCHANGED <<Store, Heard>>
<1> USE DEF heap
<1>1. UNCHANGED <<Store, Heard>>
  BY DEF Store, Heard, hash_search, Entries, Chain, Walk, Hash
<1>2. RInv'
  <2>1. \A e \in Element : ReachedAt(e)'
    BY DEF RInv, ReachedAt, Chain, Walk, Hash
  <2>2. Single' /\ Sized'
    BY DEF RInv, Single, Sized
  <2>3. ASSUME NEW t \in Thread PROVE ReadyFor(t)' /\ PrivateFor(t)' /\ AheadFor(t)'
    <3>1. ReadyFor(t) /\ PrivateFor(t) /\ AheadFor(t) /\ call' = call /\ elem' = elem
          /\ page' = page /\ hash_table' = hash_table
      BY DEF RInv
    <3>2. BlankAt(call[t].elem)' <=> BlankAt(call[t].elem)
      BY <3>1 DEF BlankAt, PagesOf
    <3>3. CopyOf(t)' <=> CopyOf(t)
      BY <3>1 DEF CopyOf, OwnedBy
    <3>4. ReadyFor(t)'
      BY <3>1, <3>2, <3>3 DEF ReadyFor
    <3>5. PrivateFor(t)'
      BY <3>1 DEF PrivateFor, Working
    <3>6. AheadFor(t)'
      BY <3>1 DEF AheadFor, Hash
    <3> QED BY <3>4, <3>5, <3>6
  <2> QED BY <2>1, <2>2, <2>3 DEF RInv
<1> QED BY <1>1, <1>2

(* A step of a call that is not building a store and changes no byte of one. *)
LEMMA QuietRound ==
  ASSUME IInv, RInv, IInv', NEW t \in Thread, OnlyCall(t), UNCHANGED <<hash_table, elem>>,
         \A p \in Page : page[p].mapped =>
           /\ page'[p].bytes = page[p].bytes
           /\ page'[p].ref_count = page[p].ref_count \/ p \in Touched(t),
         call[t].at \notin Building, call'[t].at \notin Building,
         call'[t].at \in Destroying <=> call[t].at \in Destroying,
         PrivateFor(t)'
  PROVE  RInv' /\ Leaves(t) /\ Store'[t] = Store[t]
<1>1. Leaves(t)
  BY DEF Leaves, SameStore
<1>2. ReadyFor(t)' /\ AheadFor(t)'
  BY DEF ReadyFor, AheadFor, Building
<1>3. RInv'
  BY <1>1, <1>2, RSame
<1>4. Store'[t] = Store[t]
  BY <1>3, QuietOwn DEF SameStore
<1> QED BY <1>1, <1>3, <1>4

(* A page with one reference has no other user than the one it is known to. *)
LEMMA OnlyUser ==
  ASSUME IInv, NEW e \in Element, NEW p \in Page, p \in Kept(e), page[p].ref_count <= 1
  PROVE  page[p].ref_count = 1 /\ Refs(p) = {e}
<1>1. e \in Refs(p) /\ page[p].ref_count = Cardinality(Refs(p))
  BY KeptCounted
<1>2. IsFiniteSet(Refs(p)) /\ Cardinality(Refs(p)) \in Nat
  BY RefsFacts
<1>3. /\ IsFiniteSet(Refs(p) \ {e}) /\ Cardinality(Refs(p) \ {e}) \in Nat
      /\ Cardinality(Refs(p) \ {e}) = Cardinality(Refs(p)) - 1
  BY <1>1, <1>2, FS_RemoveElement, FS_CardinalityType
<1>4. Cardinality(Refs(p)) = 1 /\ Cardinality(Refs(p) \ {e}) = 0
  BY <1>1, <1>2, <1>3
<1>5. Refs(p) \ {e} = {}
  BY <1>3, <1>4, FS_EmptySet
<1> QED BY <1>1, <1>4, <1>5

(* tls_write tests what to do with the next byte: no byte changes.          *)
LEMMA WriteTestsRound ==
  ASSUME IInv, RInv, IInv', NEW t \in Thread, WriteTests(t)
  PROVE  RInv' /\ Leaves(t) /\ Own(t)
<1> DEFINE l == IF Complete(t) THEN "protect" ELSE IF MustCopy(t) THEN "copy" ELSE "put"
<1>1. /\ call[t].at = "write" /\ call' = [call EXCEPT ![t].at = l]
      /\ UNCHANGED <<hash_table, elem, page>>
  BY DEF WriteTests, In, Step, heap
<1>2. t \in Busy /\ call[t] \in CallRecords /\ call[t].elem \in Element
  BY <1>1, StepFacts
<1>3. /\ call'[t].at = l /\ call'[t].elem = call[t].elem /\ call'[t].idx = call[t].idx
      /\ OnlyCall(t) /\ l \in {"protect", "copy", "put"}
  BY <1>1, <1>2 DEF IInv, Typed, CallRecords, OnlyCall
<1>4. PrivateFor(t)'
  <2> SUFFICES ASSUME l = "put" PROVE page[Working(t)].ref_count = 1
    BY <1>1, <1>3 DEF PrivateFor, Working
  <2>1. call[t].idx < call[t].upto
    BY <1>2 DEF Complete, CallRecords
  <2>2. Working(t) \in Page /\ Working(t) \in PagesOf(call[t].elem)
    BY <1>1, <2>1, WorkingFacts
  <2>3. Working(t) \in Kept(call[t].elem)
    BY <1>1, <1>2, <2>2, KeptByLabel
  <2>4. page[Working(t)].ref_count <= 1
    <3>1. page[Working(t)].ref_count \in Nat
      BY <2>2 DEF IInv, Typed, Pages
    <3> QED BY <3>1 DEF MustCopy
  <2> QED BY <1>2, <2>2, <2>3, <2>4, OnlyUser
<1> HIDE DEF l
<1>5. Heard'[t] = Heard[t]
  BY <1>1, <1>3 DEF Heard
<1>6. RInv' /\ Leaves(t) /\ Store'[t] = Store[t]
  BY <1>1, <1>3, <1>4, QuietRound DEF Building, Destroying
<1> QED BY <1>5, <1>6 DEF Own

(* The page tls_write has copied loses a reference; no byte changes.        *)
LEMMA WriteDropsRound ==
  ASSUME IInv, RInv, IInv', NEW t \in Thread, WriteDrops(t)
  PROVE  RInv' /\ Leaves(t) /\ Own(t)
<1>1. call[t].at = "drop"
  BY DEF WriteDrops, In
<1>2. t \in Busy /\ call[t] \in CallRecords /\ call[t].elem \in Element
  BY <1>1, StepFacts
<1>3. PICK m : m = call[t].main_page
  OBVIOUS
<1>4. /\ page' = [page EXCEPT ![m].ref_count = @ - 1, ![m].open = FALSE]
      /\ call' = [call EXCEPT ![t].at = "put"]
      /\ UNCHANGED <<hash_table, elem>>
  BY <1>3 DEF WriteDrops, Step
<1>5. /\ call'[t].at = "put" /\ call'[t].elem = call[t].elem /\ call'[t].idx = call[t].idx
      /\ OnlyCall(t)
  BY <1>2, <1>4 DEF IInv, Typed, CallRecords, OnlyCall
<1>6. m \in Page /\ m \notin PagesOf(call[t].elem) /\ m \in Touched(t)
  <2>1. m \in Page \ PagesOf(call[t].elem)
    BY <1>1, <1>3 DEF IInv, PagesOK, SharedFor
  <2>2. m \in Touched(t)
    BY <1>1, <1>2, <1>3, KeptByLabel, OwnTouched DEF Accessing
  <2> QED BY <2>1, <2>2
<1>7. /\ \A p \in Page \ {m} : page'[p] = page[p]
      /\ page'[m].bytes = page[m].bytes
  BY <1>4, <1>6 DEF IInv, Typed, Pages
<1>8. PrivateFor(t)'
  <2>1. Working(t)' = Working(t)
    BY <1>4, <1>5 DEF Working
  <2>2. Working(t) \in Page /\ Working(t) \in PagesOf(call[t].elem)
    BY <1>1, WorkingKept
  <2>3. page[Working(t)].ref_count = 1
    BY <1>1 DEF RInv, PrivateFor
  <2>4. page'[Working(t)] = page[Working(t)]
    BY <1>6, <1>7, <2>2
  <2> QED BY <2>1, <2>3, <2>4 DEF PrivateFor
<1>9. Heard'[t] = Heard[t]
  BY <1>1, <1>5 DEF Heard
<1>10. RInv' /\ Leaves(t) /\ Store'[t] = Store[t]
  BY <1>1, <1>4, <1>5, <1>6, <1>7, <1>8, QuietRound DEF Building, Destroying
<1> QED BY <1>9, <1>10 DEF Own

(* tls_read and tls_write end: the pages keep their bytes.                  *)
LEMMA ProtectsRound ==
  ASSUME IInv, RInv, IInv', NEW t \in Thread, Protects(t)
  PROVE  RInv' /\ Leaves(t) /\ Own(t)
<1>1. /\ call[t].at = "protect" /\ call' = [call EXCEPT ![t] = Idle]
      /\ UNCHANGED <<hash_table, elem>>
  BY DEF Protects, In, Done
<1>2. /\ call'[t].at = "idle" /\ OnlyCall(t)
  BY <1>1 DEF IInv, Typed, OnlyCall, Idle
<1>3. \A p \in Page : page'[p].bytes = page[p].bytes /\ page'[p].ref_count = page[p].ref_count
  BY DEF Protects, Protection, IInv, Typed, Pages
<1>4. PrivateFor(t)' /\ Heard'[t] = Heard[t]
  BY <1>1, <1>2 DEF PrivateFor, Heard
<1>5. RInv' /\ Leaves(t) /\ Store'[t] = Store[t]
  BY <1>1, <1>2, <1>3, <1>4, QuietRound DEF Building, Destroying
<1> QED BY <1>4, <1>5 DEF Own

(* tls_read and tls_write begin: nothing is read or written yet.            *)
LEMMA AccessRound ==
  ASSUME IInv, RInv, IInv', NEW t \in Thread, NEW offset, NEW length, NEW byte,
         NEW first \in {"write", "read"}, first = "read" => byte = Zero,
         Access(t, offset, length, byte, first)
  PROVE  RInv' /\ Leaves(t) /\ Own(t)
<1>1. call[t].at = "idle" /\ UNCHANGED <<hash_table, elem>>
  BY DEF Access, MayCall
<1>2. call'[t].at = first /\ call'[t].byte = byte /\ OnlyCall(t)
  BY DEF Access, IInv, Typed, OnlyCall, Idle
<1>3. \A p \in Page : page'[p].bytes = page[p].bytes /\ page'[p].ref_count = page[p].ref_count
  BY DEF Access, Protection, IInv, Typed, Pages
<1>4. PrivateFor(t)' /\ Heard'[t] = Heard[t]
  BY <1>1, <1>2 DEF PrivateFor, Heard
<1>5. RInv' /\ Leaves(t) /\ Store'[t] = Store[t]
  BY <1>1, <1>2, <1>3, <1>4, QuietRound DEF Building, Destroying
<1> QED BY <1>4, <1>5 DEF Own

(* A tls_create that mmap fails changes no store.                           *)
LEMMA CreateFailsRound ==
  ASSUME IInv, RInv, IInv', NEW t \in Thread, NEW size, CreateFails(t, size)
  PROVE  RInv' /\ Leaves(t) /\ Own(t)
<1>1. call[t].at = "idle" /\ UNCHANGED <<hash_table, elem, call>>
  BY DEF CreateFails, CreateCalled, MayCall
<1>2. \A p \in Page : page[p].mapped => page'[p] = page[p]
  BY DEF CreateFails, FreePages
<1>3. PrivateFor(t)' /\ Heard'[t] = Heard[t] /\ OnlyCall(t)
  BY <1>1 DEF PrivateFor, Heard, OnlyCall
<1>4. RInv' /\ Leaves(t) /\ Store'[t] = Store[t]
  BY <1>1, <1>2, <1>3, QuietRound DEF Building, Destroying
<1> QED BY <1>3, <1>4 DEF Own

(* tls_destroy begins: the store is gone for its owner.                     *)
LEMMA DestroyRound ==
  ASSUME IInv, RInv, IInv', NEW t \in Thread, tls_destroy(t)
  PROVE  RInv' /\ Leaves(t) /\ Own(t)
<1>1. call[t].at = "idle" /\ UNCHANGED <<hash_table, elem, page>>
  BY DEF tls_destroy, MayCall, heap
<1>2. call'[t].at = "release" /\ OnlyCall(t)
  BY DEF tls_destroy, IInv, Typed, CallRecords, OnlyCall
<1>3. Leaves(t) /\ ReadyFor(t)' /\ PrivateFor(t)' /\ AheadFor(t)' /\ Heard'[t] = Heard[t]
  BY <1>1, <1>2 DEF Leaves, SameStore, ReadyFor, PrivateFor, AheadFor, Heard
<1>4. RInv'
  BY <1>1, <1>2, <1>3, RSame DEF Building
<1>5. Store'[t] = <<>>
  BY <1>2, <1>4, StoreIsAfter DEF Destroying
<1> QED BY <1>3, <1>4, <1>5 DEF Own

(* The byte tls_write and tls_read are at is one of the store.              *)
LEMMA ByteAt ==
  ASSUME IInv, RInv, NEW t \in Thread, call[t].at \in {"write", "copy", "drop", "put", "read"},
         call[t].idx < call[t].upto
  PROVE  /\ call[t].elem \in Mine(t) /\ Store[t] = Contents(call[t].elem)
         /\ call[t].idx \in 0 .. elem[call[t].elem].size - 1
         /\ Contents(call[t].elem)[call[t].idx] = page[Working(t)].bytes[PageOffset(t)]
<1> DEFINE e == call[t].elem
<1>1. call[t] \in CallRecords /\ OwnedBy(e, t) /\ e \in Element
  BY StepFacts
<1>2. e \in Mine(t) /\ call[t].at \notin Destroying
  BY <1>1 DEF Mine, OwnedBy, Building, Destroying
<1>3. Store[t] = Contents(e)
  BY <1>2, StoreIs
<1>4. call[t].idx \in Nat /\ call[t].upto \in Nat /\ call[t].upto <= elem[e].size
      /\ elem[e].size \in Nat
  BY <1>1, PagesTyped DEF CallRecords, IInv, StoresOK, WithinFor, Accessing
<1>5. call[t].idx \in 0 .. elem[e].size - 1
  BY <1>4
<1> QED BY <1>2, <1>3, <1>5 DEF Contents, Working, PageOffset

(* The byte tls_read takes is the one the store holds there.                *)
LEMMA ReadGetsRound ==
  ASSUME IInv, RInv, IInv', NEW t \in Thread, ReadGets(t)
  PROVE  RInv' /\ Leaves(t) /\ Own(t)
<1>1. call[t].at = "read"
  BY DEF ReadGets, In
<1>2. call[t] \in CallRecords
  BY <1>1, StepFacts
<1>3. CASE Complete(t)
  <2>1. call' = [call EXCEPT ![t].at = "protect"] /\ UNCHANGED heap
    BY <1>3 DEF ReadGets, Step
  <2>2. call'[t].at = "protect" /\ OnlyCall(t)
    BY <1>2, <2>1 DEF IInv, Typed, CallRecords, OnlyCall
  <2>3. PrivateFor(t)' /\ Heard'[t] = Zero
    BY <2>2 DEF PrivateFor, Heard
  <2>4. RInv' /\ Leaves(t) /\ Store'[t] = Store[t]
    BY <1>1, <2>1, <2>2, <2>3, QuietRound DEF heap, Building, Destroying
  <2> QED BY <2>3, <2>4 DEF Own
<1>4. CASE ~Complete(t)
  <2>1. call[t].idx < call[t].upto
    BY <1>2, <1>4 DEF Complete, CallRecords
  <2>2. Working(t) \in Page /\ Working(t) \in PagesOf(call[t].elem)
    BY <1>1, <2>1, WorkingFacts
  <2>3. page[Working(t)].open
    BY <1>1, <2>2 DEF IInv, PagesOK, OpenFor, Accessing
  <2>4. PICK b : b = page[Working(t)].bytes[PageOffset(t)]
    OBVIOUS
  <2>5. call' = [call EXCEPT ![t].idx = @ + 1, ![t].byte = b] /\ UNCHANGED heap
    BY <1>4, <2>3, <2>4 DEF ReadGets
  <2>6. call'[t].at = "read" /\ call'[t].byte = b /\ OnlyCall(t)
    BY <1>1, <1>2, <2>5 DEF IInv, Typed, CallRecords, OnlyCall
  <2>7. PrivateFor(t)' /\ Heard'[t] = b
    BY <2>6 DEF PrivateFor, Heard
  <2>8. RInv' /\ Leaves(t) /\ Store'[t] = Store[t]
    BY <1>1, <2>5, <2>6, <2>7, QuietRound DEF heap, Building, Destroying
  <2>9. call[t].idx \in DOMAIN Store[t] /\ Store[t][call[t].idx] = b
    BY <1>1, <2>1, <2>4, ByteAt DEF Contents
  <2> QED BY <2>7, <2>8, <2>9 DEF Own
<1> QED BY <1>3, <1>4

(* Two bytes of a store on one page, at one offset, are one byte.           *)
LEMMA SamePlace ==
  ASSUME NEW i \in Nat, NEW j \in Nat, i \div page_size = j \div page_size,
         i % page_size = j % page_size
  PROVE  i = j
<1>1. page_size \in Nat \ {0}
  BY Numbers
<1>2. i = page_size * (i \div page_size) + (i % page_size)
  BY <1>1
<1>3. j = page_size * (j \div page_size) + (j % page_size)
  BY <1>1
<1> QED BY <1>2, <1>3

(* A byte stored on a page of its own store only changes that byte.         *)
LEMMA WritePutsRound ==
  ASSUME IInv, RInv, IInv', NEW t \in Thread, WritePuts(t)
  PROVE  RInv' /\ Leaves(t) /\ Own(t)
<1>1. call[t].at = "put"
  BY DEF WritePuts, In
<1>2. call[t] \in CallRecords /\ OwnedBy(call[t].elem, t)
  BY <1>1, StepFacts
<1>3. PICK e \in Element : e = call[t].elem
  BY <1>2 DEF OwnedBy
<1>4. PICK p : p = Working(t)
  OBVIOUS
<1>5. PICK o : o = PageOffset(t)
  OBVIOUS
<1>6. PICK k : k = call[t].idx
  OBVIOUS
<1>7. PICK b : b = call[t].byte
  OBVIOUS
<1>8. k < call[t].upto
  BY <1>1, <1>6 DEF IInv, StoresOK, WithinFor
<1>9. /\ p \in Page /\ p \in PagesOf(e) /\ o \in 0 .. page_size - 1
      /\ e \in Mine(t) /\ Store[t] = Contents(e) /\ k \in 0 .. elem[e].size - 1 /\ k \in Nat
      /\ p = elem[e].pages[k \div page_size + 1] /\ o = k % page_size
      /\ b \in Bytes
  BY <1>1, <1>2, <1>3, <1>4, <1>5, <1>6, <1>7, <1>8, WorkingFacts, ByteAt
     DEF Working, PageOffset, CallRecords
<1>10. page[p].open
  BY <1>1, <1>3, <1>9 DEF IInv, PagesOK, OpenFor, Accessing
<1>11. /\ page' = [page EXCEPT ![p].bytes[o] = b]
       /\ call' = [call EXCEPT ![t].at = "write", ![t].idx = @ + 1]
       /\ UNCHANGED <<hash_table, elem>>
  BY <1>4, <1>5, <1>7, <1>10 DEF WritePuts
<1>12. call'[t].at = "write" /\ OnlyCall(t)
  BY <1>2, <1>11 DEF IInv, Typed, CallRecords, OnlyCall
<1>13. /\ page \in [Page -> Pages]
       /\ \A x \in Page \ {p} : page'[x] = page[x]
       /\ page'[p].bytes = [page[p].bytes EXCEPT ![o] = b]
       /\ page'[p].ref_count = page[p].ref_count
  BY <1>9, <1>11 DEF IInv, Typed, Pages
<1>14. Refs(p) = {e}
  <2>1. page[p].ref_count = 1
    BY <1>1, <1>4 DEF RInv, PrivateFor
  <2>2. p \in Kept(e)
    BY <1>1, <1>3, <1>4, WorkingKept
  <2> QED BY <1>9, <2>1, <2>2, OnlyUser
<1>15. Leaves(t)
  BY <1>3, <1>11, <1>12, <1>13, <1>14 DEF Leaves, SameStore
<1>16. RInv'
  BY <1>1, <1>11, <1>12, <1>15, RSame DEF Building, ReadyFor, PrivateFor, AheadFor
<1>17. Store'[t] = Contents(e)'
  <2>1. e \in Mine(t)'
    BY <1>9, <1>11, <1>12 DEF Mine, Building
  <2> QED BY <1>12, <1>16, <2>1, StoreIsAfter DEF Destroying
<1>18. Contents(e)' = [Contents(e) EXCEPT ![k] = b]
  <2>1. /\ elem[e].state = "live" /\ e \notin Unfinished
        /\ \A i, j \in DOMAIN elem[e].pages : elem[e].pages[i] = elem[e].pages[j] => i = j
        /\ Len(elem[e].pages) = PagesFor(elem[e].size)
    <3>1. elem[e].state = "live" /\ e \notin Unfinished
      BY <1>1, <1>2, <1>3, UnfinishedOwner DEF OwnedBy
    <3> QED BY <3>1 DEF IInv, StoresOK, StoreAt
  <2>2. /\ DOMAIN elem[e].pages = 1 .. Len(elem[e].pages) /\ elem[e].size \in Nat
        /\ \A i \in DOMAIN elem[e].pages : elem[e].pages[i] \in Page
    BY PagesTyped DEF IInv
  <2>3. \A i \in 0 .. elem[e].size - 1 : i \in Nat /\ i < elem[e].size
    BY <2>2
  <2>4. \A i \in 0 .. elem[e].size - 1 : i \div page_size + 1 \in DOMAIN elem[e].pages
    BY <2>1, <2>2, <2>3, PageOfByte
  <2>5. ASSUME NEW i \in 0 .. elem[e].size - 1
        PROVE  page'[elem[e].pages[i \div page_size + 1]].bytes[i % page_size]
                 = IF i = k THEN b ELSE page[elem[e].pages[i \div page_size + 1]].bytes[i % page_size]
    <3>1. PICK q \in Page : q = elem[e].pages[i \div page_size + 1]
      BY <2>2, <2>4
    <3>2. PICK m : m = i % page_size
      OBVIOUS
    <3>3. CASE q # p
      <4>1. i # k
        BY <1>9, <3>1, <3>3
      <4> QED BY <1>13, <3>1, <3>3, <4>1
    <3>4. CASE q = p
      <4>1. i \div page_size + 1 = k \div page_size + 1
        BY <1>9, <2>1, <2>4, <3>1, <3>4
      <4>2. i \div page_size = k \div page_size
        <5>1. i \div page_size \in Int /\ k \div page_size \in Int
          BY <1>9, <2>3, Numbers
        <5> QED BY <4>1, <5>1
      <4>3. m = o => i = k
        BY <1>9, <2>3, <3>2, <4>2, SamePlace
      <4>4. i = k => m = o
        BY <1>9, <3>2
      <4>5. page'[p].bytes[m] = IF m = o THEN b ELSE page[p].bytes[m]
        <5>1. page[p].bytes \in [0 .. page_size - 1 -> Bytes]
          BY <1>9, <1>13 DEF Pages
        <5>2. m \in 0 .. page_size - 1
          BY <2>3, <3>2, Numbers
        <5> QED BY <1>13, <5>1, <5>2
      <4> QED BY <3>1, <3>2, <3>4, <4>3, <4>4, <4>5
    <3> QED BY <3>3, <3>4
  <2>6. elem'[e] = elem[e]
    BY <1>11
  <2> QED BY <1>9, <2>5, <2>6 DEF Contents
<1>19. Heard'[t] = Heard[t]
  BY <1>1, <1>12 DEF Heard
<1>20. k \in DOMAIN Store[t]
  BY <1>9 DEF Contents
<1> QED BY <1>9, <1>15, <1>16, <1>17, <1>18, <1>19, <1>20 DEF Own

(* The copy of a page holds what the page held, and is its store's alone.   *)
LEMMA WriteCopiesRound ==
  ASSUME IInv, RInv, IInv', NEW t \in Thread, WriteCopies(t), ~UNCHANGED <<heap, call>>
  PROVE  RInv' /\ Leaves(t) /\ Own(t)
<1>1. call[t].at = "copy"
  BY DEF WriteCopies, In
<1>2. call[t] \in CallRecords /\ OwnedBy(call[t].elem, t)
  BY <1>1, StepFacts
<1>3. PICK e \in Element : e = call[t].elem
  BY <1>2 DEF OwnedBy
<1>4. PICK p : p = Working(t)
  OBVIOUS
<1>5. PICK i : i = call[t].idx \div page_size + 1
  OBVIOUS
<1>6. PICK q : q = CHOOSE x \in Lowest(1, FreePages) : TRUE
  OBVIOUS
<1>7. /\ page' = [page EXCEPT ![q] = [page[p] EXCEPT !.ref_count = 1]]
      /\ elem' = [elem EXCEPT ![e].pages[i] = q]
      /\ call' = [call EXCEPT ![t].at = "drop", ![t].main_page = p]
      /\ hash_table' = hash_table
      /\ FreePages # {}
  BY <1>3, <1>4, <1>5, <1>6 DEF WriteCopies, Fault
<1>8. q \in Page /\ ~page[q].mapped
  BY <1>6, <1>7, FreshPage DEF FreePages
<1>9. call[t].idx < call[t].upto
  BY <1>1 DEF IInv, StoresOK, WithinFor
<1>10. p \in Page /\ i \in DOMAIN elem[e].pages /\ p = elem[e].pages[i]
       /\ e \in Mine(t) /\ Store[t] = Contents(e)
  BY <1>1, <1>3, <1>4, <1>5, <1>9, WorkingFacts, ByteAt DEF Working
<1>11. /\ call'[t].at = "drop" /\ call'[t].elem = e /\ call'[t].idx = call[t].idx
       /\ OnlyCall(t)
  BY <1>2, <1>3, <1>7 DEF IInv, Typed, CallRecords, OnlyCall
<1>12. /\ elem'[e].state = elem[e].state /\ elem'[e].tid = elem[e].tid
       /\ elem'[e].size = elem[e].size /\ elem'[e].next = elem[e].next
       /\ elem'[e].pages = [elem[e].pages EXCEPT ![i] = q]
       /\ \A f \in Element \ {e} : elem'[f] = elem[f]
  BY <1>7 DEF IInv, Typed, Elements
<1>13. /\ \A x \in Page \ {q} : page'[x] = page[x]
       /\ page'[q].bytes = page[p].bytes /\ page'[q].ref_count = 1
  BY <1>7, <1>8, <1>10 DEF IInv, Typed, Pages
<1>14. elem[e].state = "live" /\ elem[e].tid = t
  BY <1>2, <1>3 DEF OwnedBy
<1>15. Leaves(t)
  BY <1>8, <1>11, <1>12, <1>13, <1>14 DEF Leaves, SameStore
<1>16. DOMAIN elem[e].pages = 1 .. Len(elem[e].pages) /\ elem[e].size \in Nat
  BY PagesTyped DEF IInv
<1>17. PrivateFor(t)'
  <2>1. Working(t)' = elem'[e].pages[i]
    BY <1>5, <1>11 DEF Working
  <2> QED BY <1>10, <1>12, <1>13, <2>1 DEF PrivateFor
<1>18. RInv'
  <2>1. ReadyFor(t)' /\ AheadFor(t)'
    BY <1>11 DEF ReadyFor, AheadFor
  <2>2. \A f \in Element :
          /\ elem'[f].state = elem[f].state /\ elem'[f].tid = elem[f].tid
          /\ elem'[f].size = elem[f].size /\ elem'[f].next = elem[f].next
    BY <1>12
  <2>3. t \in Busy
    BY <1>1, StepFacts
  <2>4. call[t].at \notin Building
    BY <1>1 DEF Building
  <2> QED BY <1>7, <1>15, <1>17, <2>1, <2>2, <2>3, <2>4, RSame
<1>19. Store'[t] = Contents(e)'
  <2>1. e \in Mine(t)'
    BY <1>11, <1>12, <1>14 DEF Mine, Building
  <2> QED BY <1>11, <1>18, <2>1, StoreIsAfter DEF Destroying
<1>20. Contents(e)' = Contents(e)
  <2>1. e \notin Unfinished
    BY <1>1, <1>14, UnfinishedOwner
  <2>2. Len(elem[e].pages) = PagesFor(elem[e].size)
    BY <1>14, <2>1 DEF IInv, StoresOK, StoreAt
  <2>3. ASSUME NEW k \in 0 .. elem[e].size - 1
        PROVE  page'[elem'[e].pages[k \div page_size + 1]].bytes
                 = page[elem[e].pages[k \div page_size + 1]].bytes
    <3>1. PICK j : j = k \div page_size + 1
      OBVIOUS
    <3>2. j \in DOMAIN elem[e].pages
      <4>1. k \in Nat /\ k < elem[e].size
        BY <1>16
      <4> QED BY <1>16, <2>2, <3>1, <4>1, PageOfByte
    <3>3. elem[e].pages[j] \in Page /\ elem[e].pages[j] # q
      <4>1. elem[e].pages[j] \in PagesOf(e) /\ elem[e].pages[j] \in Page
        BY <3>2, PagesTyped DEF IInv, PagesOf
      <4>2. elem[e].pages[j] \in Kept(e)
        BY <1>1, <1>14, <4>1, StorePagesKept DEF Destroying
      <4> QED BY <1>8, <4>1, <4>2, KeptCounted
    <3>4. CASE j = i
      BY <1>10, <1>12, <1>13, <3>1, <3>4
    <3>5. CASE j # i
      BY <1>12, <1>13, <3>1, <3>2, <3>3, <3>5
    <3> QED BY <3>4, <3>5
  <2> QED BY <1>12, <2>3 DEF Contents
<1>21. Heard'[t] = Heard[t]
  BY <1>1, <1>11 DEF Heard
<1> QED BY <1>10, <1>15, <1>18, <1>19, <1>20, <1>21 DEF Own

(* tls_clone: when all pages are shared, the copy has those of its source.  *)
LEMMA CloneSharesRound ==
  ASSUME IInv, RInv, IInv', NEW t \in Thread, CloneShares(t)
  PROVE  RInv' /\ Leaves(t) /\ Own(t)
<1>1. call[t].at = "share"
  BY DEF CloneShares, In
<1>2. t \in Busy /\ call[t] \in CallRecords /\ OwnedBy(call[t].elem, t) /\ call[t].src \in Element
  BY <1>1, StepFacts, SourceIdle
<1>3. PICK e \in Element : e = call[t].elem
  BY <1>2 DEF OwnedBy
<1>4. PICK s \in Element : s = call[t].src
  BY <1>2
<1>5. /\ s # e /\ Kept(s) = PagesOf(s) /\ Touched(t) = Kept(s)
      /\ Len(elem[e].pages) <= Len(elem[s].pages)
      /\ \A i \in 1 .. Len(elem[e].pages) : elem[e].pages[i] = elem[s].pages[i]
      /\ elem[e].size = elem[s].size
  BY <1>1, <1>3, <1>4, SourceFacts
<1>6. PICK n \in Nat : n = Len(elem[e].pages)
  BY PagesTyped DEF IInv
<1>7. /\ Len(elem[s].pages) \in Nat /\ DOMAIN elem[s].pages = 1 .. Len(elem[s].pages)
      /\ DOMAIN elem[e].pages = 1 .. n
      /\ elem[e].pages \in Seq(Page) /\ elem[s].pages \in Seq(Page)
  BY <1>6, PagesTyped DEF IInv
<1>8. elem[e].state = "live" /\ elem[e].tid = t
  BY <1>2, <1>3 DEF OwnedBy
<1>9. CASE n + 1 > Len(elem[s].pages)
  <2>1. call' = [call EXCEPT ![t].at = "link"] /\ UNCHANGED <<hash_table, elem, page>>
    BY <1>3, <1>4, <1>6, <1>9 DEF CloneShares, Step, heap
  <2>2. /\ call'[t].at = "link" /\ call'[t].elem = e /\ call'[t].peer = call[t].peer
        /\ call'[t].src = s /\ OnlyCall(t)
    BY <1>2, <1>3, <1>4, <2>1 DEF IInv, Typed, CallRecords, OnlyCall
  <2>3. Leaves(t) /\ PrivateFor(t)' /\ AheadFor(t)' /\ Heard'[t] = Heard[t]
    BY <1>1, <2>1, <2>2 DEF Leaves, SameStore, PrivateFor, AheadFor, Heard
  <2>4. elem[e].pages = elem[s].pages
    <3>1. Len(elem[s].pages) = n
      BY <1>5, <1>6, <1>7, <1>9
    <3> QED BY <1>5, <1>6, <1>7, <3>1
  <2>5. ReadyFor(t)'
    <3>1. call[t].peer \in Thread \ {t} /\ OwnedBy(s, call[t].peer) /\ call[t].peer # NoThread
      BY <1>1, <1>4, Numbers DEF IInv, StoresOK, CloneFor
    <3>2. CopyOf(t)'
      BY <1>5, <2>1, <2>2, <2>4, <3>1 DEF CopyOf, OwnedBy
    <3> QED BY <2>2, <3>1, <3>2 DEF ReadyFor
  <2>6. RInv'
    BY <1>2, <1>3, <2>1, <2>2, <2>3, <2>5, RSame DEF Building
  <2>7. Store'[t] = Store[t]
    BY <1>1, <2>1, <2>2, <2>6, QuietOwn DEF Building, Destroying
  <2> QED BY <2>3, <2>6, <2>7 DEF Own
<1>10. CASE ~(n + 1 > Len(elem[s].pages))
  <2>1. PICK p : p = elem[s].pages[n + 1]
    OBVIOUS
  <2>2. /\ elem' = [elem EXCEPT ![e].pages = Append(@, p)]
        /\ page' = [page EXCEPT ![p].ref_count = @ + 1]
        /\ UNCHANGED <<hash_table, call>>
    BY <1>3, <1>4, <1>6, <1>10, <2>1 DEF CloneShares
  <2>3. n + 1 \in DOMAIN elem[s].pages
    BY <1>7, <1>10
  <2>4. p \in Page /\ p \in Touched(t)
    BY <1>5, <2>1, <2>3, PagesTyped DEF IInv, PagesOf
  <2>5. /\ \A f \in Element :
             /\ elem'[f].state = elem[f].state /\ elem'[f].tid = elem[f].tid
             /\ elem'[f].size = elem[f].size /\ elem'[f].next = elem[f].next
        /\ \A f \in Element \ {e} : elem'[f] = elem[f]
    BY <2>2 DEF IInv, Typed, Elements
  <2>6. \A x \in Page : /\ page'[x].bytes = page[x].bytes
                        /\ x # p => page'[x].ref_count = page[x].ref_count
    BY <2>2, <2>4 DEF IInv, Typed, Pages
  <2>7. Leaves(t) /\ ReadyFor(t)' /\ PrivateFor(t)' /\ AheadFor(t)' /\ Heard'[t] = Heard[t]
    <3>1. Leaves(t)
      BY <1>8, <2>2, <2>4, <2>5, <2>6 DEF Leaves, SameStore, OnlyCall
    <3> QED BY <1>1, <2>2, <3>1 DEF ReadyFor, PrivateFor, AheadFor, Heard
  <2>8. RInv'
    BY <1>2, <2>2, <2>5, <2>7, RSame
  <2>9. Store'[t] = Store[t]
    BY <1>1, <2>2, <2>5, <2>8, QuietOwn DEF Building
  <2> QED BY <2>7, <2>8, <2>9 DEF Own
<1> QED BY <1>9, <1>10

(* The link of an element nothing leads to may change.                      *)
LEMMA LinkNextRound ==
  ASSUME IInv, RInv, IInv', NEW t \in Thread, LinkNext(t)
  PROVE  RInv' /\ Leaves(t) /\ Own(t)
<1>1. call[t].at = "link"
  BY DEF LinkNext, In
<1>2. t \in Busy /\ call[t] \in CallRecords /\ OwnedBy(call[t].elem, t)
  BY <1>1, StepFacts
<1>3. PICK e \in Element : e = call[t].elem
  BY <1>2 DEF OwnedBy
<1>4. PICK h : h = hash_table[Hash(t)]
  OBVIOUS
<1>5. /\ elem' = [elem EXCEPT ![e].next = h]
      /\ call' = [call EXCEPT ![t].at = "insert"]
      /\ UNCHANGED <<hash_table, page>>
  BY <1>3, <1>4 DEF LinkNext, Step
<1>6. /\ call'[t].at = "insert" /\ call'[t].elem = e /\ call'[t].peer = call[t].peer
      /\ call'[t].src = call[t].src /\ OnlyCall(t)
  BY <1>2, <1>3, <1>5 DEF IInv, Typed, CallRecords, OnlyCall
<1>7. /\ \A f \in Element : SameStore(f)
      /\ \A f \in Element \ {e} : elem'[f].next = elem[f].next
  BY <1>5 DEF IInv, Typed, Elements, SameStore
<1>8. Leaves(t) /\ PrivateFor(t)' /\ Heard'[t] = Heard[t]
  BY <1>1, <1>5, <1>6, <1>7 DEF Leaves, PrivateFor, Heard
<1>9. ReadyFor(t)'
  <2>1. PagesOf(e)' = PagesOf(e)
    BY <1>7 DEF PagesOf, SameStore
  <2>2. IF call[t].peer = NoThread THEN BlankAt(e) ELSE CopyOf(t)
    BY <1>1, <1>3 DEF RInv, ReadyFor
  <2>3. CASE call[t].peer = NoThread
    <3>1. BlankAt(e)'
      BY <1>5, <2>1, <2>2, <2>3 DEF BlankAt, Unmapped
    <3>2. BlankAt(call[t].elem)'
      BY <1>6, <3>1 DEF BlankAt, PagesOf
    <3> QED BY <1>6, <2>3, <3>2 DEF ReadyFor
  <2>4. CASE call[t].peer # NoThread
    <3>1. CopyOf(t)'
      BY <1>3, <1>6, <1>7, <2>2, <2>4 DEF CopyOf, OwnedBy, SameStore
    <3> QED BY <1>6, <2>4, <3>1 DEF ReadyFor
  <2> QED BY <2>3, <2>4
<1>10. \A b \in Bucket : e \notin Chain(b)
  BY <1>1, <1>3, NewNotInChain DEF Building
<1>11. RInv'
  <2>1. AheadFor(t)'
    <3>1. elem'[e].next = h /\ hash_table' = hash_table /\ Hash(t)' = Hash(t)
      BY <1>5 DEF IInv, Typed, Elements, Hash
    <3> QED BY <1>4, <1>6, <3>1 DEF AheadFor
  <2> QED BY <1>2, <1>3, <1>5, <1>6, <1>7, <1>8, <1>9, <1>10, <2>1, RSame DEF SameStore, Building
<1>12. Store'[t] = Store[t]
  BY <1>1, <1>6, <1>7, <1>11, QuietOwn DEF SameStore, Building, Destroying
<1> QED BY <1>8, <1>11, <1>12 DEF Own

(* A page tls_destroy unmaps is in no other store.                          *)
LEMMA DestroyReleasesRound ==
  ASSUME IInv, RInv, IInv', NEW t \in Thread, DestroyReleases(t)
  PROVE  RInv' /\ Leaves(t) /\ Own(t)
<1>1. call[t].at = "release" /\ UNCHANGED <<hash_table, elem>>
  BY DEF DestroyReleases, In
<1>2. t \in Busy /\ call[t] \in CallRecords /\ OwnedBy(call[t].elem, t)
  BY <1>1, StepFacts
<1>3. PICK e \in Element : e = call[t].elem
  BY <1>2 DEF OwnedBy
<1>4. PICK p : p = elem[e].pages[call[t].idx]
  OBVIOUS
<1>5. /\ call'[t].at \in {"release", "unlink"} /\ OnlyCall(t)
      /\ page' = page \/ (page' = [page EXCEPT ![p] = Released(t, p)] /\ p \in Page /\ p \in Touched(t))
  <2>1. CASE call[t].idx > Len(elem[e].pages)
    BY <1>2, <1>3, <2>1 DEF DestroyReleases, Step, IInv, Typed, CallRecords, OnlyCall
  <2>2. CASE ~(call[t].idx > Len(elem[e].pages))
    <3>1. page' = [page EXCEPT ![p] = Released(t, p)]
          /\ call' = [call EXCEPT ![t].idx = @ + 1]
      BY <1>3, <1>4, <2>2 DEF DestroyReleases
    <3>2. call'[t].at = "release" /\ OnlyCall(t)
      BY <1>1, <1>2, <3>1 DEF IInv, Typed, CallRecords, OnlyCall
    <3>3. call[t].idx \in Nat /\ call[t].idx > 0
      BY <1>1, <1>2 DEF CallRecords, IInv, StoresOK, WithinFor
    <3>4. call[t].idx \in DOMAIN elem[e].pages
      BY <2>2, <3>3, PagesTyped DEF IInv
    <3>5. p \in Page
      BY <1>4, <3>4, PagesTyped DEF IInv
    <3>6. Kept(e) = {elem[e].pages[i] : i \in {j \in DOMAIN elem[e].pages : j >= call[t].idx}}
          /\ Touched(t) = Kept(e)
      BY <1>1, <1>2, <1>3, KeptByLabel, OwnTouched DEF Destroying
    <3>7. p \in Touched(t)
      BY <1>4, <3>3, <3>4, <3>6
    <3> QED BY <3>1, <3>2, <3>5, <3>7
  <2> QED BY <2>1, <2>2
<1>6. ASSUME NEW x \in Page, page[x].mapped
      PROVE  /\ page'[x].bytes = page[x].bytes \/ Refs(x) \subseteq {e}
             /\ page'[x].ref_count = page[x].ref_count \/ x \in Touched(t)
  <2>1. CASE page'[x] = page[x]
    BY <2>1
  <2>2. CASE page'[x] # page[x]
    <3>1. x = p /\ page'[p] = Released(t, p) /\ p \in Touched(t)
      BY <1>5, <2>2 DEF IInv, Typed
    <3>2. p \in Kept(e)
      BY <1>1, <1>3, <3>1, OwnTouched DEF Destroying
    <3>3. page[p].ref_count = 1 => Refs(p) = {e}
      BY <3>1, <3>2, OnlyUser
    <3>4. page[p].ref_count # 1 => Released(t, p).bytes = page[p].bytes
      BY <3>1 DEF Released, IInv, Typed, Pages
    <3> QED BY <3>1, <3>3, <3>4
  <2> QED BY <2>1, <2>2
<1>7. Leaves(t) /\ ReadyFor(t)' /\ PrivateFor(t)' /\ AheadFor(t)' /\ Heard'[t] = Heard[t]
  BY <1>1, <1>3, <1>5, <1>6 DEF Leaves, SameStore, ReadyFor, PrivateFor, AheadFor, Heard
<1>8. RInv'
  BY <1>1, <1>2, <1>5, <1>7, RSame DEF Building
<1>9. Store'[t] = Store[t]
  BY <1>1, <1>5, <1>8, QuietOwn DEF Building, Destroying
<1> QED BY <1>7, <1>8, <1>9 DEF Own

(* A thread whose call hash_search refuses a store has none.                *)
LEMMA NoStoreYet ==
  ASSUME IInv, RInv, NEW t \in Thread, call[t].at \notin Building, hash_search(t) = NULL
  PROVE  /\ Store[t] = <<>>
         /\ \A f \in Element : ~(elem[f].state = "live" /\ elem[f].tid = t)
<1>1. Mine(t) = {}
  BY StoreIs, Numbers DEF Mine
<1>2. Store[t] = <<>>
  BY <1>1, StoreIs
<1> QED BY <1>1, <1>2 DEF Mine

(* When malloc hands freed elements out again, the chains keep those in use: *)
(* what follows a freed element is freed too.                               *)
LEMMA LiveStays ==
  ASSUME IInv, IInv', DeadEnds, NEW t \in Thread, NEW e \in Element,
         NEW size \in Nat, NEW pages \in Seq(Page),
         elem[e].state = "unused", Allocates(t, e, size, pages), hash_table' = hash_table,
         NEW b \in Bucket, NEW g \in Chain(b), elem[g].state = "live"
  PROVE  g \in Chain(b)'
<1>1. /\ NewElem(e, t, size, pages)
      /\ \A f \in Element \ {e} :
           \/ elem'[f] = elem[f]
           \/ /\ elem[f].state = "stale" /\ elem[f].tid = t
              /\ elem'[f].state = "reused" /\ elem'[f].tid = t /\ elem'[f].next = NULL
  BY AllocatesFacts
<1>2. Typed /\ Typed' /\ Chain(b) \subseteq Element
  BY ChainTyped DEF IInv
<1>3. /\ elem[e].next = NULL
      /\ \A f \in Element : elem[f].next \in Element \cup {NULL} /\ elem[f].next # e
  BY <1>2, UnusedFacts DEF Typed, Elements
<1>4. CASE ~MallocReuses
  <2>1. PICK R \in SUBSET (IF MallocReuses THEN Stale(t) ELSE {}) :
          elem' = [f \in Element |->
                    IF f = e THEN elem'[e]
                    ELSE IF f \in R THEN [elem[f] EXCEPT !.state = "reused", !.next = NULL]
                    ELSE elem[f]]
    BY DEF Allocates
  <2>2. \A f \in Element \ {e} : elem'[f] = elem[f]
    BY <1>4, <2>1
  <2>3. e \notin Chain(b)
    BY <1>2, <1>3, UnusedFacts, ChainBefore
  <2>4. Chain(b)' = Chain(b)
    BY <1>2, <2>2, <2>3, ChainKept
  <2> QED BY <2>4
<1>5. CASE MallocReuses
  <2>1. PICK A : A = Chain(b)'
    OBVIOUS
  <2>2. /\ A \subseteq Element
        /\ hash_table[b] # NULL => hash_table[b] \in A
        /\ \A h \in A : elem'[h].next # NULL => elem'[h].next \in A
    BY <1>2, <2>1, ChainsAfter
  <2> DEFINE Dead == {f \in Element : Freed(f)}
  <2>3. \A f \in Dead : elem[f].next \in Dead \cup {NULL}
    <3> SUFFICES ASSUME NEW f \in Dead, elem[f].next # NULL PROVE elem[f].next \in Dead
      OBVIOUS
    <3>1. elem[f].next \in Element /\ elem[elem[f].next].state # "live"
      BY <1>3, <1>5 DEF DeadEnds
    <3>2. elem[elem[f].next].state # "unused"
      BY DEF IInv, TableOK, Nexts, InBucket
    <3>3. elem[elem[f].next].state \in {"unused", "live", "stale", "reused"}
      BY <1>2, <3>1 DEF Typed, Elements
    <3> QED BY <3>1, <3>2, <3>3 DEF Freed
  <2>4. \A f \in A : elem[f].next \in (A \cup Dead) \cup {NULL}
    <3> SUFFICES ASSUME NEW f \in A PROVE elem[f].next \in (A \cup Dead) \cup {NULL}
      OBVIOUS
    <3>1. CASE f = e
      BY <1>3, <3>1
    <3>2. CASE f # e /\ elem'[f] = elem[f]
      BY <2>2, <3>2
    <3>3. CASE elem[f].state = "stale"
      BY <2>2, <2>3, <3>3 DEF Freed
    <3> QED BY <1>1, <2>2, <3>1, <3>2, <3>3
  <2>5. g \notin Dead
    BY DEF Freed
  <2>6. Chain(b) \subseteq A \cup Dead
    <3>1. hash_table[b] \in (A \cup Dead) \cup {NULL}
      BY <2>2
    <3>2. \A f \in (A \cup Dead) \cap Element : elem[f].next \in (A \cup Dead) \cup {NULL}
      BY <2>3, <2>4
    <3> HIDE DEF Dead
    <3> QED BY <1>2, <3>1, <3>2, ChainLeast
  <2> QED BY <2>1, <2>5, <2>6
<1> QED BY <1>4, <1>5

(* An element taken from malloc is its thread's only one, and is not yet in *)
(* the table.                                                               *)
LEMMA AllocRound ==
  ASSUME IInv, RInv, IInv', DeadEnds, NEW t \in Thread,
         call[t].at = "idle", hash_search(t) = NULL,
         NEW e \in Element, elem[e].state = "unused", NEW size \in Nat, size > 0,
         NEW pages \in Seq(Page), Allocates(t, e, size, pages),
         OnlyCall(t), hash_table' = hash_table,
         call'[t].at \in {"share", "link"}, call'[t].elem = e,
         \A p \in Page : page[p].mapped => page'[p] = page[p],
         ReadyFor(t)'
  PROVE  RInv' /\ Leaves(t) /\ Own(t)
<1>1. /\ NewElem(e, t, size, pages)
      /\ \A f \in Element \ {e} :
           \/ elem'[f] = elem[f]
           \/ /\ elem[f].state = "stale" /\ elem[f].tid = t
              /\ elem'[f].state = "reused" /\ elem'[f].tid = t /\ elem'[f].next = NULL
  BY AllocatesFacts
<1>2. elem'[e].state = "live" /\ elem'[e].tid = t /\ elem'[e].size = size
  BY <1>1 DEF NewElem
<1>3. Store[t] = <<>> /\ \A f \in Element : ~(elem[f].state = "live" /\ elem[f].tid = t)
  BY NoStoreYet DEF Building
<1>4. Leaves(t)
  BY <1>1, <1>2 DEF Leaves, SameStore
<1>5. \A f \in Element : elem'[f].state = "live" /\ elem'[f].tid = t => f = e
  BY <1>1, <1>3
<1>6. ASSUME NEW b \in Bucket, NEW g \in Chain(b), elem[g].state = "live"
      PROVE  g \in Chain(b)'
  BY <1>1, <1>6, LiveStays
<1>7. \A u \in Thread \ {t} : call[u].at = "insert" =>
        elem'[call[u].elem].next = elem[call[u].elem].next
  BY <1>1, StepFacts
<1>8. PrivateFor(t)' /\ AheadFor(t)' /\ Heard'[t] = Heard[t]
  BY DEF PrivateFor, AheadFor, Heard
<1>9. t \in Busy'
  BY DEF Busy
<1>10. ReachedAt(e)'
  BY <1>2 DEF ReachedAt, Building
<1>11. \A f, g \in Element : OwnedBy(f, t)' /\ OwnedBy(g, t)' => f = g
  BY <1>5 DEF OwnedBy
<1>12. \A f \in Element : elem'[f].state = "live" /\ elem'[f].tid = t =>
         elem'[f].size > 0 /\ ReachedAt(f)'
  BY <1>2, <1>5, <1>10
<1>13. RInv'
  BY <1>4, <1>6, <1>7, <1>8, <1>9, <1>11, <1>12, RStep
<1>14. Store'[t] = <<>>
  <2>1. Mine(t)' = {}
    BY DEF Mine, Building
  <2> QED BY <1>13, <2>1, StoreIsAfter
<1> QED BY <1>3, <1>4, <1>8, <1>13, <1>14 DEF Own

(* tls_create: the pages of the new element are blank.                      *)
LEMMA CreateRound ==
  ASSUME IInv, RInv, IInv', DeadEnds, NEW t \in Thread, NEW size \in Nat,
         tls_create(t, size)
  PROVE  RInv' /\ Leaves(t) /\ Own(t)
<1>1. call[t].at = "idle" /\ hash_search(t) = NULL /\ size > 0 /\ FreeElements # {}
      /\ Cardinality(FreePages) >= PagesFor(size) /\ call[t] = Idle
  BY DEF tls_create, CreateCalled, MayCall, IInv, CallsOK, IdleFor
<1>2. PICK e \in Element : e = NewElement /\ elem[e].state = "unused"
  BY <1>1, NewElementFacts
<1>3. PICK n \in Nat : n = PagesFor(size)
  BY PagesForTyped
<1>4. PICK fresh : fresh = Lowest(n, FreePages)
  OBVIOUS
<1>5. fresh \subseteq FreePages /\ FreePages \subseteq Page
  <2>1. FreePages \subseteq Page
    BY DEF FreePages
  <2> QED BY <1>1, <1>3, <1>4, <2>1, LowestFacts
<1>6. PICK pages : pages = Ascending(fresh)
  OBVIOUS
<1>7. /\ page' = [p \in Page |-> IF p \in fresh
            THEN [Unmapped EXCEPT !.mapped = TRUE, !.ref_count = 1] ELSE page[p]]
      /\ Allocates(t, e, size, pages)
      /\ call' = [call EXCEPT ![t].at = "link", ![t].elem = e, ![t].held = fresh]
      /\ hash_table' = hash_table
  BY <1>2, <1>3, <1>4, <1>6 DEF tls_create, Mapped
<1>8. pages \in Seq(Page) /\ \A i \in DOMAIN pages : pages[i] \in fresh
  <2>1. Cardinality(fresh) \in Nat /\ pages \in [1 .. Cardinality(fresh) -> fresh]
    BY <1>5, <1>6, AscendingFacts
  <2>2. pages \in [1 .. Cardinality(fresh) -> Page]
    BY <1>5, <2>1
  <2> QED BY <2>1, <2>2
<1>9. call'[t].at = "link" /\ call'[t].elem = e /\ call'[t].peer = NoThread /\ OnlyCall(t)
  BY <1>1, <1>7 DEF IInv, Typed, OnlyCall, Idle
<1>10. \A p \in Page : page[p].mapped => page'[p] = page[p]
  BY <1>5, <1>7 DEF FreePages
<1>11. ReadyFor(t)'
  <2>1. elem'[e].pages = pages
    <3>1. NewElem(e, t, size, pages)
      BY <1>2, <1>7, <1>8, AllocatesFacts
    <3> QED BY <3>1 DEF NewElem
  <2>2. \A p \in fresh : page'[p].bytes = Unmapped.bytes
    BY <1>5, <1>7 DEF Unmapped
  <2>3. PagesOf(e)' \subseteq fresh
    BY <1>8, <2>1 DEF PagesOf
  <2>4. BlankAt(e)'
    BY <2>2, <2>3 DEF BlankAt, PagesOf, Unmapped
  <2>5. BlankAt(call[t].elem)'
    BY <1>9, <2>4 DEF BlankAt, PagesOf
  <2> QED BY <1>9, <2>5 DEF ReadyFor
<1> QED BY <1>1, <1>2, <1>7, <1>8, <1>9, <1>10, <1>11, AllocRound

(* tls_clone: the new element has no page yet.                              *)
LEMMA CloneRound ==
  ASSUME IInv, RInv, IInv', DeadEnds, NEW t \in Thread, NEW o \in Thread,
         tls_clone(t, o)
  PROVE  RInv' /\ Leaves(t) /\ Own(t)
<1>1. call[t].at = "idle" /\ hash_search(t) = NULL /\ hash_search(o) # NULL /\ FreeElements # {}
  BY DEF tls_clone, MayCall
<1>2. PICK e \in Element : e = NewElement /\ elem[e].state = "unused"
  BY <1>1, NewElementFacts
<1>3. PICK s \in Element : s = hash_search(o) /\ elem[s].state = "live"
  BY <1>1, Found DEF IInv
<1>4. PICK size \in Nat : size = elem[s].size
  BY PagesTyped DEF IInv
<1>5. size > 0
  BY <1>3, <1>4 DEF RInv, Sized
<1>6. PICK pages \in Seq(Page) : pages = <<>>
  <2>1. <<>> \in Seq(Page)
    OBVIOUS
  <2> QED BY <2>1
<1>7. /\ Allocates(t, e, size, pages) /\ UNCHANGED <<hash_table, page>>
      /\ call' = [call EXCEPT ![t].at = "share", ![t].elem = e, ![t].src = s, ![t].peer = o,
                              ![t].held = PagesOf(s)]
  BY <1>2, <1>3, <1>4, <1>6 DEF tls_clone
<1>8. call'[t].at = "share" /\ call'[t].elem = e /\ OnlyCall(t)
  BY <1>7 DEF IInv, Typed, CallRecords, OnlyCall
<1>9. ReadyFor(t)'
  BY <1>8 DEF ReadyFor
<1> QED BY <1>1, <1>2, <1>5, <1>7, <1>8, <1>9, AllocRound

(* The insertion makes the store one that its thread has: all of its bytes  *)
(* are zero, or those of the store it was cloned from, whose owner has made *)
(* no call meanwhile.                                                       *)
LEMMA LinkHeadRound ==
  ASSUME IInv, RInv, IInv', NEW t \in Thread, LinkHead(t)
  PROVE  RInv' /\ Leaves(t) /\ Own(t)
<1>1. call[t].at = "insert"
  BY DEF LinkHead, In
<1>2. t \in Busy /\ OwnedBy(call[t].elem, t)
  BY <1>1, StepFacts
<1>3. PICK e \in Element : e = call[t].elem
  BY <1>2 DEF OwnedBy
<1>4. PICK b \in Bucket : b = Hash(t)
  BY HashTyped
<1>5. /\ hash_table' = [hash_table EXCEPT ![b] = e]
      /\ call' = [call EXCEPT ![t] = Idle]
      /\ UNCHANGED <<elem, page>>
  BY <1>3, <1>4 DEF LinkHead, Done
<1>6. call'[t].at = "idle" /\ OnlyCall(t)
  BY <1>5 DEF IInv, Typed, OnlyCall, Idle
<1>7. /\ hash_table'[b] = e /\ e # NULL
      /\ \A c \in Bucket : c # b => hash_table'[c] = hash_table[c]
  BY <1>4, <1>5, Numbers DEF IInv, Typed
<1>8. elem[e].state = "live" /\ elem[e].tid = t /\ elem[e].next = hash_table[b]
  BY <1>1, <1>2, <1>3, <1>4 DEF OwnedBy, RInv, AheadFor
<1>9. Typed /\ Typed'
  BY DEF IInv
<1>10. e \in Chain(b)'
  BY <1>7, <1>9, ChainsAfter
<1>11. \A c \in Bucket : Chain(c) \subseteq Chain(c)'
  <2> SUFFICES ASSUME NEW c \in Bucket PROVE Chain(c) \subseteq Chain(c)'
    OBVIOUS
  <2>1. PICK S : S = Chain(c)'
    OBVIOUS
  <2>2. \A f \in S \cap Element : elem[f].next \in S \cup {NULL}
    BY <1>5, <1>9, <2>1, ChainsAfter
  <2>3. hash_table[c] \in S \cup {NULL}
    <3>1. CASE c = b
      BY <1>8, <1>10, <2>1, <2>2, <3>1
    <3>2. CASE c # b
      <4>1. hash_table'[c] # NULL => hash_table'[c] \in Chain(c)'
        BY <1>9, ChainsAfter
      <4> QED BY <1>7, <2>1, <3>2, <4>1
    <3> QED BY <3>1, <3>2
  <2>4. Chain(c) \subseteq S
    BY <1>9, <2>2, <2>3, ChainLeast
  <2> QED BY <2>1, <2>4
<1>12. Leaves(t) /\ ReadyFor(t)' /\ PrivateFor(t)' /\ AheadFor(t)' /\ Heard'[t] = Heard[t]
  BY <1>1, <1>5, <1>6 DEF Leaves, SameStore, ReadyFor, PrivateFor, AheadFor, Heard
<1>13. \A f \in Element : elem'[f].state = "live" /\ elem'[f].tid = t => f = e
  BY <1>5, <1>8 DEF RInv, Single
<1>14. ReachedAt(e)'
  <2>1. e \in Chain(Hash(t))'
    BY <1>4, <1>10 DEF Hash
  <2> QED BY <1>5, <1>8, <2>1 DEF ReachedAt, Chain, Walk, Hash
<1>15. RInv'
  <2>1. \A f \in Element : elem'[f].state = "live" /\ elem'[f].tid = t =>
          elem'[f].size > 0 /\ ReachedAt(f)'
    BY <1>5, <1>8, <1>13, <1>14 DEF RInv, Sized
  <2>2. \A f, g \in Element : OwnedBy(f, t)' /\ OwnedBy(g, t)' => f = g
    BY <1>13 DEF OwnedBy
  <2>3. \A c \in Bucket : \A f \in Chain(c) :
          elem[f].state = "live" /\ elem[f].tid # t => f \in Chain(c)'
    BY <1>11
  <2>4. \A u \in Thread \ {t} : call[u].at = "insert" =>
          /\ elem'[call[u].elem].next = elem[call[u].elem].next
          /\ hash_table'[Hash(u)] = hash_table[Hash(u)]
    BY <1>2, <1>4, <1>5, <1>7, HashTyped, StepFacts, BucketsApart
  <2> QED BY <1>2, <1>12, <2>1, <2>2, <2>3, <2>4, RStep
<1>16. Store[t] = <<>>
  <2>1. Mine(t) = {}
    BY <1>1 DEF Mine, Building
  <2> QED BY <2>1, StoreIs
<1>17. Store'[t] = Contents(e) /\ Contents(e) # <<>>
  <2>1. e \in Mine(t)'
    BY <1>5, <1>6, <1>8 DEF Mine, Building
  <2>2. Store'[t] = Contents(e)'
    BY <1>6, <1>15, <2>1, StoreIsAfter DEF Destroying
  <2>3. Contents(e)' = Contents(e)
    BY <1>5 DEF Contents
  <2>4. elem[e].size \in Nat /\ elem[e].size > 0
    BY <1>8, <1>9, PagesTyped DEF RInv, Sized
  <2>5. 0 \in DOMAIN Contents(e)
    BY <2>4 DEF Contents
  <2>6. DOMAIN <<>> = {}
    OBVIOUS
  <2> QED BY <2>2, <2>3, <2>5, <2>6
<1>18. CASE call[t].peer = NoThread
  <2>1. BlankAt(e) /\ e \notin Unfinished
    BY <1>1, <1>3, <1>8, <1>18, UnfinishedOwner DEF RInv, ReadyFor
  <2>2. /\ Len(elem[e].pages) = PagesFor(elem[e].size) /\ elem[e].size \in Nat
        /\ DOMAIN elem[e].pages = 1 .. Len(elem[e].pages)
    BY <1>8, <1>9, <2>1, PagesTyped DEF IInv, StoresOK, StoreAt
  <2>3. ASSUME NEW i \in DOMAIN Contents(e) PROVE Contents(e)[i] = Zero
    <3>1. i \in Nat /\ i < elem[e].size /\ i \in 0 .. elem[e].size - 1
      BY <2>2 DEF Contents
    <3>2. i \div page_size + 1 \in DOMAIN elem[e].pages
      BY <2>2, <3>1, PageOfByte
    <3>3. elem[e].pages[i \div page_size + 1] \in PagesOf(e)
      BY <3>2 DEF PagesOf
    <3>4. page[elem[e].pages[i \div page_size + 1]].bytes = Unmapped.bytes
      BY <2>1, <3>3 DEF BlankAt
    <3>5. i % page_size \in 0 .. page_size - 1
      BY <3>1, Numbers
    <3>6. Unmapped.bytes[i % page_size] = Zero
      BY <3>5 DEF Unmapped
    <3> QED BY <3>1, <3>4, <3>6 DEF Contents
  <2> QED BY <1>12, <1>15, <1>16, <1>17, <2>3 DEF Own
<1>19. CASE call[t].peer # NoThread
  <2>1. CopyOf(t)
    BY <1>1, <1>19 DEF RInv, ReadyFor
  <2>2. PICK o \in Thread : o = call[t].peer /\ o # t
    BY <2>1 DEF CopyOf
  <2>3. PICK s \in Element : s = call[t].src /\ elem[s].state = "live" /\ elem[s].tid = o
    BY <2>1, <2>2 DEF CopyOf, OwnedBy
  <2>4. call[o].at = "idle"
    <3> SUFFICES ASSUME o \in Busy PROVE FALSE
      BY <1>9, BusyFacts
    <3>1. o \in Parties(t) /\ o \in Parties(o)
      BY <2>2, Numbers DEF Parties
    <3>2. ApartFrom(t, o)
      BY <1>2, <2>2 DEF IInv, CallsOK
    <3> QED BY <3>1, <3>2 DEF ApartFrom
  <2>5. s \in Mine(o)
    BY <2>3, <2>4 DEF Mine, Building
  <2>6. Store[o] = Contents(s)
    BY <2>4, <2>5, StoreIs DEF Destroying
  <2>7. Contents(s) = Contents(e)
    BY <1>3, <2>1, <2>3 DEF CopyOf, Contents
  <2> QED BY <1>12, <1>15, <1>16, <1>17, <2>6, <2>7 DEF Own
<1> QED BY <1>18, <1>19

(* The element unlinked was its thread's only one; the chain keeps all the  *)
(* others, and a store that another thread is about to insert goes in front *)
(* of the same head as before.                                              *)
LEMMA DestroyUnlinksRound ==
  ASSUME IInv, RInv, IInv', NEW t \in Thread, DestroyUnlinks(t)
  PROVE  RInv' /\ Leaves(t) /\ Own(t)
<1>1. call[t].at = "unlink"
  BY DEF DestroyUnlinks, In
<1>2. t \in Busy /\ OwnedBy(call[t].elem, t)
  BY <1>1, StepFacts
<1>3. PICK e \in Element : e = call[t].elem
  BY <1>2 DEF OwnedBy
<1>4. PICK b \in Bucket : b = Hash(t)
  BY HashTyped
<1>5. elem[e].state = "live" /\ elem[e].tid = t /\ InBucket(e, b)
  BY <1>2, <1>3, <1>4 DEF OwnedBy, InBucket
<1>6. e \in Chain(b) /\ Chain(b) \subseteq Element /\ Typed /\ Typed'
  BY <1>1, <1>3, <1>4, ChainTyped DEF IInv, TableOK, OldFor, Destroying
<1>7. PICK n \in Element \cup {NULL} : n = elem[e].next
  BY DEF IInv, Typed, Elements
<1> DEFINE before == {f \in Chain(b) : elem[f].next = e}
<1>8. hash_table[b] = e \/ \E f \in before : f # e
  BY <1>6, ChainBefore
<1>9. /\ call' = [call EXCEPT ![t] = Idle]
      /\ UNCHANGED <<hash_table, page>>
      /\ IF hash_table[b] = e
         THEN elem' = [elem EXCEPT ![e] = [Unused EXCEPT !.state = "stale", !.tid = t, !.next = n]]
         ELSE \E f \in before : elem' = [elem EXCEPT ![f].next = n, ![e] = Unused]
  <2>1. ~(hash_table[b] # e /\ before = {})
    BY <1>8
  <2>2. before = {f \in Chain(Hash(t)) : elem[f].next = call[t].elem}
    BY <1>3, <1>4
  <2> HIDE DEF before
  <2> QED BY <1>3, <1>4, <1>7, <2>1, <2>2 DEF DestroyUnlinks, Done
<1>10. call'[t] = Idle /\ call'[t].at = "idle" /\ OnlyCall(t)
  BY <1>9 DEF IInv, Typed, OnlyCall, Idle
<1>11. elem \in [Element -> Elements] /\ elem[e] \in Elements
  BY DEF IInv, Typed
<1>12. ASSUME /\ elem'[e].state # "live"
              /\ \A f \in Element \ {e} : SameStore(f)
              /\ \A c \in Bucket : \A f \in Chain(c) : f # e => f \in Chain(c)'
              /\ \A u \in Thread \ {t} : call[u].at = "insert" =>
                   elem'[call[u].elem].next = elem[call[u].elem].next
       PROVE  RInv' /\ Leaves(t) /\ Own(t)
  <2>1. \A f \in Element : ~(elem'[f].state = "live" /\ elem'[f].tid = t)
    BY <1>5, <1>12 DEF RInv, Single, SameStore
  <2>2. Leaves(t)
    BY <1>5, <1>9, <1>10, <1>12 DEF Leaves
  <2>3. ReadyFor(t)' /\ PrivateFor(t)' /\ AheadFor(t)' /\ Heard'[t] = Heard[t]
    BY <1>1, <1>10 DEF ReadyFor, PrivateFor, AheadFor, Heard
  <2>4. \A f, g \in Element : OwnedBy(f, t)' /\ OwnedBy(g, t)' => f = g
    BY <2>1 DEF OwnedBy
  <2>5. \A c \in Bucket : \A f \in Chain(c) :
          elem[f].state = "live" /\ elem[f].tid # t => f \in Chain(c)'
    BY <1>5, <1>12
  <2>6. \A u \in Thread \ {t} : call[u].at = "insert" =>
          /\ elem'[call[u].elem].next = elem[call[u].elem].next
          /\ hash_table'[Hash(u)] = hash_table[Hash(u)]
    BY <1>9, <1>12
  <2>7. RInv'
    BY <1>2, <2>1, <2>2, <2>3, <2>4, <2>5, <2>6, RStep
  <2>8. Store'[t] = <<>>
    <3>1. Mine(t)' = {}
      BY <2>1 DEF Mine
    <3> QED BY <2>7, <3>1, StoreIsAfter
  <2> QED BY <2>2, <2>3, <2>7, <2>8 DEF Own
<1>13. CASE hash_table[b] = e
  <2> DEFINE x == [Unused EXCEPT !.state = "stale", !.tid = t, !.next = n]
  <2>1. x.state = "stale" /\ x.next = n
    BY DEF Unused
  <2>2. elem'[e].state = "stale" /\ elem'[e].next = n /\ \A f \in Element \ {e} : elem'[f] = elem[f]
    <3>1. elem' = [elem EXCEPT ![e] = x]
      BY <1>9, <1>13
    <3> HIDE DEF x
    <3> QED BY <1>11, <2>1, <3>1
  <2>3. \A f \in Element : elem'[f].next = elem[f].next
    BY <1>7, <2>2
  <2>4. \A c \in Bucket : Chain(c)' = Chain(c)
    <3>1. \A c \in Bucket : \A f \in Chain(c) : elem'[f].next = elem[f].next
      BY <1>6, <2>3, ChainTyped
    <3> QED BY <1>6, <1>9, <3>1, ChainKept
  <2>5. \A u \in Thread \ {t} : call[u].at = "insert" =>
          elem'[call[u].elem].next = elem[call[u].elem].next
    BY <2>3, StepFacts
  <2> QED BY <1>12, <2>2, <2>4, <2>5 DEF SameStore
<1>14. CASE hash_table[b] # e
  <2>1. PICK f \in before : elem' = [elem EXCEPT ![f].next = n, ![e] = Unused]
    BY <1>9, <1>14
  <2>2. f \in Element /\ f # e /\ elem[f].next = e /\ f \in Chain(b)
    <3>1. PICK g \in before : g # e
      BY <1>8, <1>14
    <3>2. f \in Element /\ elem[f].next = e /\ g \in Element /\ elem[g].next = e /\ e # NULL
      BY <1>6, Numbers
    <3> QED BY <3>1, <3>2 DEF IInv, TableOK, OneBefore
  <2>3. Unused.state = "unused"
    BY DEF Unused
  <2>4. /\ elem'[e] = Unused /\ elem'[f].next = n /\ SameStore(f)
        /\ \A g \in Element \ {e, f} : elem'[g] = elem[g]
    <3>1. elem' = [[elem EXCEPT ![f] = [elem[f] EXCEPT !.next = n]] EXCEPT ![e] = Unused]
      BY <1>11, <2>1, <2>2
    <3> QED BY <1>11, <2>2, <3>1 DEF Elements, SameStore
  <2>5. ASSUME NEW c \in Bucket, NEW g \in Chain(c), g # e PROVE g \in Chain(c)'
    <3>1. PICK A : A = Chain(c)'
      OBVIOUS
    <3>2. /\ A \subseteq Element
          /\ hash_table[c] # NULL => hash_table[c] \in A
          /\ \A h \in A : elem'[h].next # NULL => elem'[h].next \in A
      BY <1>6, <1>9, <3>1, ChainsAfter
    <3>3. CASE f \in A
      <4>1. hash_table[c] \in (A \cup {e}) \cup {NULL}
        BY <3>2
      <4>2. \A h \in (A \cup {e}) \cap Element : elem[h].next \in (A \cup {e}) \cup {NULL}
        BY <1>7, <2>2, <2>4, <3>2, <3>3
      <4>3. Chain(c) \subseteq A \cup {e}
        BY <1>6, <4>1, <4>2, ChainLeast
      <4> QED BY <2>5, <3>1, <4>3
    <3>4. CASE f \notin A
      <4>1. e \notin A
        <5>1. hash_table'[c] # e
          BY <2>3, <2>4, Numbers DEF IInv, TableOK, Heads, InBucket
        <5>2. \A h \in Element : elem'[h].next # e
          BY <2>3, <2>4, Numbers DEF IInv, TableOK, Nexts, InBucket
        <5> QED BY <1>6, <3>1, <3>2, <5>1, <5>2, ChainsAfter
      <4>2. \A h \in A \cap Element : elem[h].next \in A \cup {NULL}
        BY <2>4, <3>2, <3>4, <4>1
      <4>3. Chain(c) \subseteq A
        BY <1>6, <3>2, <4>2, ChainLeast
      <4> QED BY <3>1, <4>3
    <3> QED BY <3>3, <3>4
  <2>6. ASSUME NEW u \in Thread \ {t}, call[u].at = "insert"
        PROVE  elem'[call[u].elem].next = elem[call[u].elem].next
    <3>1. u \in Busy /\ call[u].elem \in Element
      BY <2>6, StepFacts
    <3>2. call[u].elem # f
      BY <2>2, <2>6, NewNotInChain DEF Building
    <3>3. call[u].elem # e
      BY <1>2, <1>3, <3>1, BucketsApart
    <3> QED BY <2>4, <3>1, <3>2, <3>3
  <2> QED BY <1>12, <2>3, <2>4, <2>5, <2>6 DEF SameStore
<1> QED BY <1>13, <1>14

-----------------------------------------------------------------------------
(* Tls implements LocalStore *)

(* The invariant holds of the program's first state, where nobody has a     *)
(* store.                                                                   *)
LEMMA RInitially ==
  ASSUME Init, IInv
  PROVE  RInv /\ Promise!LocalInit
<1> USE DEF Init
<1>1. (\A t \in Thread : call[t].at = "idle") /\ \A e \in Element : elem[e].state = "unused"
  BY DEF Idle, Unused
<1>2. RInv
  BY <1>1 DEF RInv, ReachedAt, Single, Sized, ReadyFor, PrivateFor, AheadFor
<1>3. \A t \in Thread : Mine(t) = {}
  BY <1>1 DEF Mine
<1>4. \A t \in Thread : Store[t] = <<>> /\ Heard[t] = Zero
  <2>1. \A t \in Thread : Store[t] = <<>>
    BY <1>2, <1>3, StoreIs
  <2> QED BY <1>1, <2>1 DEF Heard
<1>5. Store = [t \in Thread |-> <<>>] /\ Heard = [t \in Thread |-> Zero]
  <2>1. PICK s, h : s = Store /\ h = Heard
    OBVIOUS
  <2>2. /\ s = [t \in Thread |-> s[t]] /\ h = [t \in Thread |-> h[t]]
        /\ \A t \in Thread : s[t] = <<>> /\ h[t] = Zero
    BY <1>4, <2>1, LocalFunctions
  <2>3. s = [t \in Thread |-> <<>>] /\ h = [t \in Thread |-> Zero]
    BY <2>2
  <2> QED BY <2>1, <2>3
<1> QED BY <1>2, <1>5 DEF Promise!LocalInit, Promise!NoStore

(* Every step keeps it and is one of LocalStore, or changes no store.       *)
LEMMA LocalStep ==
  ASSUME IInv, RInv, CallsApart, DeadEnds, [Next]_vars
  PROVE  RInv' /\ [Promise!LocalNext]_<<Store, Heard>>
<1>1. IInv'
  BY Inductive
<1>2. ASSUME UNCHANGED <<heap, call>>
      PROVE  RInv' /\ [Promise!LocalNext]_<<Store, Heard>>
  BY <1>2, NothingRound
<1>3. ASSUME NEW t \in Thread, RInv' /\ Leaves(t) /\ Own(t)
      PROVE  RInv' /\ [Promise!LocalNext]_<<Store, Heard>>
  BY <1>1, <1>3, Promised
<1>4. ASSUME NEW t \in Thread, Steps(t)
      PROVE  UNCHANGED <<heap, call>> \/ (RInv' /\ Leaves(t) /\ Own(t))
  BY <1>1, <1>4, LinkNextRound, LinkHeadRound, CloneSharesRound, WriteTestsRound,
     WriteCopiesRound, WriteDropsRound, WritePutsRound, ReadGetsRound, ProtectsRound,
     DestroyReleasesRound, DestroyUnlinksRound DEF Steps
<1>5. ASSUME NEW t \in Thread, Calls(t)
      PROVE  RInv' /\ Leaves(t) /\ Own(t)
  <2>1. ASSUME NEW size \in Sizes, tls_create(t, size) \/ CreateFails(t, size)
        PROVE  RInv' /\ Leaves(t) /\ Own(t)
    BY <1>1, <2>1, Numbers, CreateRound, CreateFailsRound
  <2>2. ASSUME NEW u \in Thread, tls_clone(t, u)
        PROVE  RInv' /\ Leaves(t) /\ Own(t)
    BY <1>1, <2>2, CloneRound
  <2>3. ASSUME NEW offset \in Offsets, NEW length \in Lengths, NEW byte \in Written,
               tls_write(t, offset, length, byte)
        PROVE  RInv' /\ Leaves(t) /\ Own(t)
    BY <1>1, <2>3, AccessRound DEF tls_write
  <2>4. ASSUME NEW offset \in Offsets, NEW length \in Lengths, tls_read(t, offset, length)
        PROVE  RInv' /\ Leaves(t) /\ Own(t)
    BY <1>1, <2>4, AccessRound DEF tls_read
  <2>5. ASSUME tls_destroy(t) PROVE RInv' /\ Leaves(t) /\ Own(t)
    BY <1>1, <2>5, DestroyRound
  <2> QED BY <1>5, <2>1, <2>2, <2>3, <2>4, <2>5 DEF Calls
<1>6. ASSUME NEW t \in Thread, Touch(t) PROVE UNCHANGED <<heap, call>>
  BY <1>6 DEF Touch, Fault
<1>7. Ended \/ Refused \/ UNCHANGED vars => UNCHANGED <<heap, call>>
  BY DEF Ended, Refused, vars, heap
<1> QED BY <1>2, <1>3, <1>4, <1>5, <1>6, <1>7 DEF Next

(* A step that frees no element leads no freed one to one in use.           *)
LEMMA DeadStay ==
  ASSUME IInv, DeadEnds,
         \A f \in Element :
           /\ elem'[f].state = elem[f].state
           /\ elem'[f].next = elem[f].next \/ elem[f].state = "live"
  PROVE  DeadEnds'
<1>1. \A f \in Element : elem[f].next \in Element \cup {NULL}
  BY DEF IInv, Typed, Elements
<1> QED BY <1>1 DEF DeadEnds, Freed

(* The element malloc gives leads to nothing, and nothing leads to it.      *)
LEMMA AllocDeadEnds ==
  ASSUME IInv, DeadEnds, NEW t \in Thread, NEW e \in Element, elem[e].state = "unused",
         NEW size \in Nat, NEW pages \in Seq(Page), Allocates(t, e, size, pages)
  PROVE  DeadEnds'
<1>1. /\ NewElem(e, t, size, pages)
      /\ \A f \in Element \ {e} :
           \/ elem'[f] = elem[f]
           \/ elem[f].state = "stale" /\ elem'[f].state = "reused" /\ elem'[f].next = NULL
  BY AllocatesFacts
<1>2. \A f \in Element : elem[f].next \in Element \cup {NULL} /\ elem[f].next # e
  BY UnusedFacts DEF IInv, Typed, Elements
<1>3. elem'[e].next = NULL
  BY <1>1 DEF NewElem
<1>4. ASSUME MallocReuses, NEW f \in Element, Freed(f)', elem'[f].next # NULL
      PROVE  elem'[elem'[f].next].state # "live"
  <2>1. f # e /\ elem'[f] = elem[f]
    BY <1>1, <1>3, <1>4
  <2>2. elem[elem[f].next].state # "live"
    BY <1>4, <2>1 DEF DeadEnds, Freed
  <2> QED BY <1>1, <1>2, <1>4, <2>1, <2>2
<1> QED BY <1>4 DEF DeadEnds

(* tls_create allocates and frees nothing.                                  *)
LEMMA CreateDeadEnds ==
  ASSUME IInv, DeadEnds, NEW t \in Thread, NEW size \in Nat, tls_create(t, size)
  PROVE  DeadEnds'
<1>1. FreeElements # {} /\ Cardinality(FreePages) >= PagesFor(size)
  BY DEF tls_create
<1>2. PICK e \in Element : e = NewElement /\ elem[e].state = "unused"
  BY <1>1, NewElementFacts
<1>3. PICK n \in Nat : n = PagesFor(size)
  BY PagesForTyped
<1>4. PICK fresh : fresh = Lowest(n, FreePages)
  OBVIOUS
<1>5. fresh \subseteq FreePages /\ FreePages \subseteq Page
  <2>1. FreePages \subseteq Page
    BY DEF FreePages
  <2> QED BY <1>1, <1>3, <1>4, <2>1, LowestFacts
<1>6. PICK pages : pages = Ascending(fresh)
  OBVIOUS
<1>7. pages \in Seq(Page)
  <2>1. Cardinality(fresh) \in Nat /\ pages \in [1 .. Cardinality(fresh) -> fresh]
    BY <1>5, <1>6, AscendingFacts
  <2>2. pages \in [1 .. Cardinality(fresh) -> Page]
    BY <1>5, <2>1
  <2> QED BY <2>1, <2>2
<1>8. Allocates(t, e, size, pages)
  BY <1>2, <1>3, <1>4, <1>6 DEF tls_create
<1> QED BY <1>2, <1>7, <1>8, AllocDeadEnds

(* So does tls_clone.                                                       *)
LEMMA CloneDeadEnds ==
  ASSUME IInv, DeadEnds, NEW t \in Thread, NEW o \in Thread, tls_clone(t, o)
  PROVE  DeadEnds'
<1>1. hash_search(o) # NULL /\ FreeElements # {}
  BY DEF tls_clone
<1>2. PICK e \in Element : e = NewElement /\ elem[e].state = "unused"
  BY <1>1, NewElementFacts
<1>3. PICK s \in Element : s = hash_search(o)
  BY <1>1, Found DEF IInv
<1>4. elem[s].size \in Nat /\ <<>> \in Seq(Page)
  BY PagesTyped DEF IInv
<1>5. Allocates(t, e, elem[s].size, <<>>)
  BY <1>2, <1>3 DEF tls_clone
<1> QED BY <1>2, <1>4, <1>5, AllocDeadEnds

(* A head that is the last of its bucket leads to no element in use, and an *)
(* element that is not the head is not freed but unlinked.                  *)
LEMMA DestroyDeadEnds ==
  ASSUME IInv, DeadEnds, IInv', NEW t \in Thread, DestroyUnlinks(t),
         MallocReuses => LastInBucket(t)
  PROVE  DeadEnds'
<1> SUFFICES ASSUME MallocReuses PROVE DeadEnds'
  BY DEF DeadEnds
<1>1. call[t].at = "unlink"
  BY DEF DestroyUnlinks, In
<1>2. OwnedBy(call[t].elem, t)
  BY <1>1, StepFacts
<1>3. PICK e \in Element : e = call[t].elem
  BY <1>2 DEF OwnedBy
<1>4. PICK b \in Bucket : b = Hash(t)
  BY HashTyped
<1>5. e \in Chain(b) /\ Chain(b) \subseteq Element /\ Typed /\ elem[e].state = "live"
  BY <1>1, <1>2, <1>3, <1>4, ChainTyped DEF IInv, TableOK, OldFor, Destroying, OwnedBy
<1>6. PICK n \in Element \cup {NULL} : n = elem[e].next
  BY <1>5 DEF Typed, Elements
<1>7. elem \in [Element -> Elements]
      /\ \A f \in Element : elem[f].next \in Element \cup {NULL}
  BY <1>5 DEF Typed, Elements
<1>8. CASE elem' = elem
  BY <1>8, DeadStay
<1>9. CASE /\ hash_table[b] = e
           /\ elem' = [elem EXCEPT ![e] = [Unused EXCEPT !.state = "stale", !.tid = t, !.next = n]]
  <2> DEFINE x == [Unused EXCEPT !.state = "stale", !.tid = t, !.next = n]
  <2>1. x.state = "stale" /\ x.next = n
    BY DEF Unused
  <2>2. elem'[e].state = "stale" /\ elem'[e].next = n /\ \A f \in Element \ {e} : elem'[f] = elem[f]
    <3>1. elem' = [elem EXCEPT ![e] = x]
      BY <1>9
    <3> HIDE DEF x
    <3> QED BY <1>7, <2>1, <3>1
  <2>3. n # NULL => elem'[n].state # "live"
    <3>1. n # NULL => n \in Chain(b)
      BY <1>5, <1>6, ChainClosed
    <3>2. n # NULL /\ elem[n].state = "live" => n = e
      BY <1>3, <1>4, <1>9, <3>1 DEF LastInBucket
    <3> QED BY <1>6, <2>2, <3>2
  <2>4. ASSUME NEW f \in Element \ {e}, Freed(f)', elem'[f].next # NULL
        PROVE  elem'[elem'[f].next].state # "live"
    <3>1. elem[elem[f].next].state # "live" /\ elem'[f] = elem[f]
      BY <2>2, <2>4 DEF DeadEnds, Freed
    <3> QED BY <1>7, <2>2, <2>4, <3>1
  <2> QED BY <2>2, <2>3, <2>4 DEF DeadEnds
<1>10. CASE \E f \in Chain(b) :
              /\ elem[f].next = e
              /\ elem' = [elem EXCEPT ![f].next = n, ![e] = Unused]
  <2>1. PICK f \in Element : /\ elem[f].next = e
                             /\ elem' = [elem EXCEPT ![f].next = n, ![e] = Unused]
    BY <1>5, <1>10
  <2>2. Unused.state = "unused"
    BY DEF Unused
  <2>3. ~Freed(f)
    <3>1. e # NULL
      BY Numbers
    <3> QED BY <1>5, <2>1, <3>1 DEF DeadEnds
  <2>4. elem'[e] = Unused /\ elem'[f].state \in {elem[f].state, "unused"}
        /\ \A g \in Element \ {e, f} : elem'[g] = elem[g]
    <3>1. elem' = [[elem EXCEPT ![f] = [elem[f] EXCEPT !.next = n]] EXCEPT ![e] = Unused]
      BY <1>7, <2>1
    <3> QED BY <1>7, <2>1, <2>2, <3>1 DEF Elements
  <2>5. ASSUME NEW g \in Element, Freed(g)', elem'[g].next # NULL
        PROVE  elem'[elem'[g].next].state # "live"
    <3>1. g # e /\ g # f
      BY <2>2, <2>3, <2>4, <2>5 DEF Freed
    <3>2. elem'[g] = elem[g] /\ elem[elem[g].next].state # "live"
      BY <2>4, <2>5, <3>1 DEF DeadEnds, Freed
    <3> QED BY <1>7, <2>2, <2>4, <2>5, <3>2
  <2> QED BY <2>5 DEF DeadEnds
<1> QED
  <2>1. elem' = elem \/ IF hash_table[b] = e
          THEN elem' = [elem EXCEPT ![e] = [Unused EXCEPT !.state = "stale", !.tid = t, !.next = n]]
          ELSE \E f \in Chain(b) : /\ elem[f].next = e
                                   /\ elem' = [elem EXCEPT ![f].next = n, ![e] = Unused]
    BY <1>3, <1>4, <1>6 DEF DestroyUnlinks, Fault, heap
  <2> QED BY <1>8, <1>9, <1>10, <2>1

(* So in a program that destroys in that order no step leads a freed        *)
(* element to one in use.                                                   *)
LEMMA DeadEndsStep ==
  ASSUME IInv, CallsApart, DeadEnds, [Next]_vars, [InOrder]_vars
  PROVE  DeadEnds'
<1>1. IInv'
  BY Inductive
<1>2. ASSUME UNCHANGED elem PROVE DeadEnds'
  BY <1>2, DeadStay
<1>3. ASSUME NEW t \in Thread, LinkNext(t) PROVE DeadEnds'
  <2>1. call[t].elem \in Element /\ elem[call[t].elem].state = "live"
    BY <1>3, StepFacts DEF LinkNext, In
  <2>2. \A f \in Element : /\ elem'[f].state = elem[f].state
                           /\ elem'[f].next = elem[f].next \/ elem[f].state = "live"
    BY <1>3, <2>1 DEF LinkNext, IInv, Typed, Elements
  <2> QED BY <2>2, DeadStay
<1>4. ASSUME NEW t \in Thread, CloneShares(t) \/ WriteCopies(t) PROVE DeadEnds'
  <2>1. call[t].elem \in Element
    BY <1>4, StepFacts DEF CloneShares, WriteCopies, In
  <2>2. PICK e \in Element : e = call[t].elem
    BY <2>1
  <2>3. elem' = elem \/ \E pages : elem' = [elem EXCEPT ![e].pages = pages]
    BY <1>4, <2>2 DEF CloneShares, WriteCopies, Fault, heap
  <2>4. \A f \in Element : elem'[f].state = elem[f].state /\ elem'[f].next = elem[f].next
    BY <2>3 DEF IInv, Typed, Elements
  <2> QED BY <2>4, DeadStay
<1>5. ASSUME NEW t \in Thread, DestroyUnlinks(t) PROVE DeadEnds'
  <2>1. CASE UNCHANGED vars
    BY <1>2, <2>1 DEF vars, heap
  <2>2. CASE InOrder
    BY <1>1, <1>5, <2>2, DestroyDeadEnds DEF InOrder
  <2> QED BY <2>1, <2>2
<1>6. ASSUME NEW t \in Thread, Steps(t) PROVE DeadEnds'
  <2>1. CASE LinkHead(t) \/ WriteTests(t) \/ WriteDrops(t) \/ WritePuts(t) \/ ReadGets(t)
             \/ Protects(t) \/ DestroyReleases(t)
    BY <1>2, <2>1 DEF LinkHead, WriteTests, WriteDrops, WritePuts, ReadGets, Protects,
                      DestroyReleases, Fault, heap
  <2> QED BY <1>3, <1>4, <1>5, <1>6, <2>1 DEF Steps
<1>7. ASSUME NEW t \in Thread, Calls(t) PROVE DeadEnds'
  <2>1. ASSUME NEW size \in Sizes, tls_create(t, size) PROVE DeadEnds'
    BY <2>1, CreateDeadEnds, Numbers
  <2>2. ASSUME NEW u \in Thread, tls_clone(t, u) PROVE DeadEnds'
    BY <2>2, CloneDeadEnds
  <2>3. CASE \E size \in Sizes : CreateFails(t, size)
    BY <1>2, <2>3 DEF CreateFails
  <2>4. CASE \E offset \in Offsets, length \in Lengths :
               \/ \E byte \in Written : tls_write(t, offset, length, byte)
               \/ tls_read(t, offset, length)
    BY <1>2, <2>4 DEF tls_write, tls_read, Access
  <2>5. CASE tls_destroy(t)
    BY <1>2, <2>5 DEF tls_destroy, heap
  <2> QED BY <1>7, <2>1, <2>2, <2>3, <2>4, <2>5 DEF Calls
<1>8. ASSUME NEW t \in Thread, Touch(t) PROVE DeadEnds'
  BY <1>2, <1>8 DEF Touch, Fault, heap
<1>9. Ended \/ Refused \/ UNCHANGED vars => UNCHANGED elem
  BY DEF Ended, Refused, vars, heap
<1> QED BY <1>2, <1>6, <1>7, <1>8, <1>9 DEF Next

(* In every reachable state of a program whose calls on threads of one      *)
(* bucket, and on shared pages, never overlap, and which, if malloc hands   *)
(* freed elements out again, destroys the head of a bucket last, each       *)
(* thread has at most one element in use, and hash_search finds it unless   *)
(* it is about to be inserted; a store about to be inserted is blank or has *)
(* the pages of the store it was cloned from; and no other store has the    *)
(* page tls_write stores to (40-51, 84-326).                                *)
THEOREM StoresInvariance == CallsApart /\ Spec /\ DestroysInOrder => [](RInv /\ DeadEnds)
<1>1. CallsApart /\ Init => IInv /\ RInv /\ DeadEnds
  <2>1. Init => DeadEnds
    BY DEF Init, DeadEnds, Freed, Unused
  <2> QED BY <2>1, Initially, RInitially
<1>2. IInv /\ RInv /\ DeadEnds /\ CallsApart /\ [Next]_vars /\ [InOrder]_vars
        => IInv' /\ RInv' /\ DeadEnds'
  BY Inductive, LocalStep, DeadEndsStep
<1>3. CallsApart => CallsApart'
  BY DEF CallsApart
<1> QED BY <1>1, <1>2, <1>3, PTL DEF Spec, DestroysInOrder

(* Then Tls implements LocalStore: a thread's store starts as zeros or as a *)
(* copy of another thread's, its bytes change only by its owner's writes,   *)
(* whoever shares its pages, and a byte read is the byte the store holds    *)
(* (README of Project 4; 84-326).                                           *)
THEOREM KeepsLocalAlways == CallsApart /\ Spec /\ DestroysInOrder => KeepsLocal
<1>1. CallsApart /\ Init => Promise!LocalInit
  BY Initially, RInitially
<1>2. IInv /\ RInv /\ DeadEnds /\ CallsApart /\ [Next]_vars
        => [Promise!LocalNext]_<<Store, Heard>>
  BY LocalStep
<1>3. CallsApart => CallsApart'
  BY DEF CallsApart
<1> QED BY <1>1, <1>2, <1>3, Invariance, StoresInvariance, PTL
        DEF Spec, KeepsLocal, Promise!LocalSpec
=============================================================================
