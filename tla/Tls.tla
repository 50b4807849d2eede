-------------------------------- MODULE Tls --------------------------------
(***************************************************************************)
(* Thread-local storage with copy on write, src/Project4/tls.c, used by     *)
(* kernel threads that run at the same time.  Nothing in the library is     *)
(* locked: a call is a sequence of steps, one for each access to the hash   *)
(* table, to a reference count or to a page that other threads may see.     *)
(*                                                                         *)
(* A hash_element and its TLS are allocated and freed together and are one  *)
(* record.  An element freed while the table still leads to it is "stale":  *)
(* free() has overwritten tid and tls but not next.  Once malloc has handed *)
(* its memory out again it is "reused", and what follows it is lost.        *)
(***************************************************************************)
EXTENDS Integers, FiniteSets, Sequences

CONSTANTS
  Thread,           \* the values of pthread_self()
  HASH_SIZE,        \* buckets of the hash table (line 7)
  page_size,        \* bytes per page
  UINT,             \* unsigned int counts modulo UINT
  Sizes, Offsets, Lengths,    \* arguments of the calls
  Bytes, Zero,      \* contents of a byte; what a fresh page holds
  Written,          \* the bytes the program writes
  MaxElements,      \* bound: hash elements allocated at one time
  MaxPages,         \* pages the process may have mapped before mmap fails
  KeptApart,        \* calls the program never lets overlap: those on one
                    \* "bucket", those on shared "pages"
  MallocReuses,     \* whether malloc hands out the memory of stale elements
  Strays            \* the threads that touch storage without the library

ASSUME TlsAssumption ==
  /\ Thread \subseteq Nat
  /\ {HASH_SIZE, page_size, UINT, MaxElements, MaxPages} \subseteq Nat \ {0}
  /\ Sizes \cup Offsets \cup Lengths \subseteq 0 .. UINT - 1
  /\ Zero \in Bytes /\ Written \subseteq Bytes
  /\ KeptApart \subseteq {"bucket", "pages"} /\ MallocReuses \in BOOLEAN
  /\ Strays \subseteq Thread

Element == 1 .. MaxElements
Page == 1 .. MaxPages
NULL == 0
NoThread == -1

VARIABLES
  hash_table,   \* the first element of each bucket
  elem,         \* hash_element and TLS: [state, tid, size, pages, next]
  page,         \* [mapped, open, ref_count, bytes]; lost: mapped by a
                \* tls_create that failed, and known to nobody
  call,         \* what each thread is doing:
                \* [at, elem, src, peer, idx, upto, byte, main_page], and the
                \* pages its store had when the call began, held
  proc          \* "running", or ended by a fault: "killed" in a call of the
                \* library, "nomemory" there after mmap failed, "stray" in
                \* the program

heap == <<hash_table, elem, page>>
vars == <<heap, call, proc>>

Unused == [state |-> "unused", tid |-> NoThread, size |-> 0, pages |-> <<>>, next |-> NULL]
Unmapped ==
  [mapped |-> FALSE, lost |-> FALSE, open |-> FALSE, ref_count |-> 0,
   bytes |-> [i \in 0 .. page_size - 1 |-> Zero]]
Idle ==
  [at |-> "idle", elem |-> NULL, src |-> NULL, peer |-> NoThread, idx |-> 0, upto |-> 0,
   byte |-> Zero, main_page |-> NULL, held |-> {}]

Init ==
  /\ hash_table = [b \in 0 .. HASH_SIZE - 1 |-> NULL]
  /\ elem = [e \in Element |-> Unused]
  /\ page = [p \in Page |-> Unmapped]
  /\ call = [t \in Thread |-> Idle]
  /\ proc = "running"

-----------------------------------------------------------------------------
(* The hash table and the heap *)

Hash(t) == t % HASH_SIZE

(* The elements hash_search comes by in bucket b, in their order, then NULL. *)
Walk(b) ==
  LET node[n \in 0 .. MaxElements] ==
        IF n = 0 THEN hash_table[b]
        ELSE IF node[n - 1] = NULL THEN NULL ELSE elem[node[n - 1]].next
  IN  node
Chain(b) == LET walk == Walk(b) IN {walk[n] : n \in 0 .. MaxElements} \ {NULL}

Entries(t) == {e \in Chain(Hash(t)) : elem[e].state = "live" /\ elem[e].tid = t}
hash_search(t) ==
  LET found == Entries(t) IN IF found = {} THEN NULL ELSE CHOOSE e \in found : TRUE

PagesOf(e) == {elem[e].pages[i] : i \in DOMAIN elem[e].pages}

Lowest(n, S) == CHOOSE T \in SUBSET S :
  Cardinality(T) = n /\ \A x \in T, y \in S \ T : x < y
Ascending(S) == [i \in 1 .. Cardinality(S) |-> CHOOSE x \in S :
  Cardinality({y \in S : y < x}) = i - 1]

FreePages == {p \in Page : ~page[p].mapped}
FreeElements == {e \in Element : elem[e].state = "unused"}
NewElement == CHOOSE e \in FreeElements : \A f \in FreeElements : e <= f

(* The mallocs of a call: an element, and a TLS and pages that may take the *)
(* memory of stale elements.  (tid still says who freed one: the allocator  *)
(* keeps freed memory for the thread that freed it.)                        *)
Stale(t) == {e \in Element : elem[e].state = "stale" /\ elem[e].tid = t}
Allocates(t, e, size, pages) ==
  \E R \in SUBSET (IF MallocReuses THEN Stale(t) ELSE {}) :
    elem' = [f \in Element |->
      IF f = e
      THEN [state |-> "live", tid |-> t, size |-> size, pages |-> pages, next |-> NULL]
      ELSE IF f \in R THEN [elem[f] EXCEPT !.state = "reused", !.next = NULL]
      ELSE elem[f]]

-----------------------------------------------------------------------------
(* Calls and their steps *)

Busy == {t \in Thread : call[t].at \notin {"idle", "ended"}}

Parties(t) == {t, call[t].peer} \ {NoThread}
StorePages(S) == UNION {PagesOf(e) : e \in UNION {Entries(s) : s \in S}}

(* The program's discipline: no call starts while another is in progress on *)
(* a thread of the same bucket or of shared pages.                          *)
MayCall(t, S) ==
  /\ proc = "running"
  /\ call[t].at = "idle"
  /\ \A u \in Busy :
       /\ "bucket" \in KeptApart => \A s \in S, v \in Parties(u) : Hash(s) # Hash(v)
       /\ "pages" \in KeptApart => StorePages(S) \cap call[u].held = {}

In(t, label) == proc = "running" /\ call[t].at = label
Step(t, label) == call' = [call EXCEPT ![t].at = label]
Done(t) == call' = [call EXCEPT ![t] = Idle]

(* tls_handle_page_fault.  The address cut to an int (59) equals no page    *)
(* address of a 64-bit process, so the default action ends the process.     *)
Fault(where) == proc' = where /\ UNCHANGED <<heap, call>>

PagesFor(size) == size \div page_size + (IF size % page_size > 0 THEN 1 ELSE 0)
Mapped(S) == [p \in Page |->
  IF p \in S THEN [Unmapped EXCEPT !.mapped = TRUE, !.ref_count = 1] ELSE page[p]]

CreateCalled(t, size) == MayCall(t, {t}) /\ size > 0 /\ hash_search(t) = NULL

tls_create(t, size) ==
  LET fresh == Lowest(PagesFor(size), FreePages)
      e == NewElement
  IN  /\ CreateCalled(t, size)
      /\ FreeElements # {} /\ Cardinality(FreePages) >= PagesFor(size)
      /\ page' = Mapped(fresh)
      /\ Allocates(t, e, size, Ascending(fresh))
      /\ call' = [call EXCEPT ![t].at = "link", ![t].elem = e, ![t].held = fresh]
      /\ UNCHANGED <<hash_table, proc>>

(* mmap fails (131): the pages mapped before it stay mapped.                *)
CreateFails(t, size) ==
  /\ CreateCalled(t, size)
  /\ FreePages # {} /\ Cardinality(FreePages) < PagesFor(size)
  /\ page' = [p \in Page |-> IF p \in FreePages
       THEN [Mapped(FreePages)[p] EXCEPT !.lost = TRUE] ELSE page[p]]
  /\ UNCHANGED <<hash_table, elem, call, proc>>

LinkNext(t) ==
  /\ In(t, "link")
  /\ elem' = [elem EXCEPT ![call[t].elem].next = hash_table[Hash(t)]]
  /\ Step(t, "insert")
  /\ UNCHANGED <<hash_table, page, proc>>

LinkHeadAtSource(t) ==                                                    \* mutant
  LET owner == IF call[t].peer = NoThread THEN t ELSE call[t].peer
  IN  /\ In(t, "insert")
      /\ hash_table' = [hash_table EXCEPT ![Hash(owner)] = call[t].elem]
      /\ Done(t)
      /\ UNCHANGED <<elem, page, proc>>

LinkHead(t) ==
  /\ In(t, "insert")
  /\ hash_table' = [hash_table EXCEPT ![Hash(t)] = call[t].elem]
  /\ Done(t)
  /\ UNCHANGED <<elem, page, proc>>

tls_clone(t, u) ==
  LET src == hash_search(u)
      e == NewElement
  IN  /\ MayCall(t, {t, u})
      /\ hash_search(t) = NULL /\ src # NULL
      /\ FreeElements # {}
      /\ Allocates(t, e, elem[src].size, <<>>)
      /\ call' = [call EXCEPT ![t].at = "share", ![t].elem = e, ![t].src = src, ![t].peer = u,
                               ![t].held = PagesOf(src)]
      /\ UNCHANGED <<hash_table, page, proc>>

CloneShares(t) ==
  LET e == call[t].elem
      src == call[t].src
      i == Len(elem[e].pages) + 1
  IN  /\ In(t, "share")
      /\ elem[src].state = "live"    \* a source destroyed meanwhile is not modelled
      /\ IF i > Len(elem[src].pages)
         THEN Step(t, "link") /\ UNCHANGED heap
         ELSE LET p == elem[src].pages[i]
              IN  /\ elem' = [elem EXCEPT ![e].pages = Append(@, p)]
                  /\ page' = [page EXCEPT ![p].ref_count = @ + 1]
                  /\ UNCHANGED <<hash_table, call>>
      /\ UNCHANGED proc

-----------------------------------------------------------------------------
(* tls_write and tls_read *)

Fits(e, offset, length) == (offset + length) % UINT <= elem[e].size

(* tls_unprotect or tls_protect on each page of S.  (Their exit(1) is left   *)
(* out: mprotect fails only on an unmapped page.)                           *)
ProtectionOfOne(S, open) ==                                               \* mutant
  page' = [p \in Page |->
    IF p \in Lowest(1, S) THEN [page[p] EXCEPT !.open = open] ELSE page[p]]
Protection(S, open) ==
  page' = [p \in Page |-> IF p \in S THEN [page[p] EXCEPT !.open = open] ELSE page[p]]

Access(t, offset, length, byte, first) ==
  LET e == hash_search(t)
  IN  /\ MayCall(t, {t})
      /\ e # NULL
      /\ Fits(e, offset, length)
      /\ Protection(PagesOf(e), TRUE)
      /\ call' = [call EXCEPT ![t] = [Idle EXCEPT !.at = first, !.elem = e, !.idx = offset,
                    !.upto = (offset + length) % UINT, !.byte = byte,
                    !.held = PagesOf(e)]]
      /\ UNCHANGED <<hash_table, elem, proc>>

tls_write(t, offset, length, byte) == Access(t, offset, length, byte, "write")
tls_read(t, offset, length) == Access(t, offset, length, Zero, "read")

Working(t) == elem[call[t].elem].pages[call[t].idx \div page_size + 1]
PageOffset(t) == call[t].idx % page_size

MustCopyNever(t) == FALSE                                                 \* mutant
MustCopy(t) == page[Working(t)].ref_count > 1

Complete(t) == call[t].idx >= call[t].upto

WriteTests(t) ==
  /\ In(t, "write")
  /\ Step(t, IF Complete(t) THEN "protect" ELSE IF MustCopy(t) THEN "copy" ELSE "put")
  /\ UNCHANGED <<heap, proc>>

WriteCopies(t) ==
  LET p == Working(t)
      q == CHOOSE x \in Lowest(1, FreePages) : TRUE
  IN  /\ In(t, "copy")
      /\ IF FreePages = {}
         THEN Fault("nomemory")    \* mmap is not checked (191)
         ELSE IF ~page[p].open
         THEN Fault("killed")
         ELSE /\ page' = [page EXCEPT ![q] =
                   [page[p] EXCEPT !.ref_count = 1]]
              /\ elem' = [elem EXCEPT ![call[t].elem].pages[call[t].idx \div page_size + 1] = q]
              /\ call' = [call EXCEPT ![t].at = "drop", ![t].main_page = p]
              /\ UNCHANGED <<hash_table, proc>>

DropsKeepingCount(t) ==                                                   \* mutant
  /\ In(t, "drop")
  /\ page' = [page EXCEPT ![call[t].main_page].open = FALSE]
  /\ Step(t, "put")
  /\ UNCHANGED <<hash_table, elem, proc>>

DropsLeavingOpen(t) ==                                                    \* mutant
  /\ In(t, "drop")
  /\ page' = [page EXCEPT ![call[t].main_page].ref_count = @ - 1]
  /\ Step(t, "put")
  /\ UNCHANGED <<hash_table, elem, proc>>

WriteDrops(t) ==
  /\ In(t, "drop")
  /\ page' = [page EXCEPT ![call[t].main_page].ref_count = @ - 1,
                           ![call[t].main_page].open = FALSE]
  /\ Step(t, "put")
  /\ UNCHANGED <<hash_table, elem, proc>>

WritePuts(t) ==
  LET p == Working(t)
  IN  /\ In(t, "put")
      /\ IF ~page[p].open
         THEN Fault("killed")
         ELSE /\ page' = [page EXCEPT ![p].bytes[PageOffset(t)] = call[t].byte]
              /\ call' = [call EXCEPT ![t].at = "write", ![t].idx = @ + 1]
              /\ UNCHANGED <<hash_table, elem, proc>>

ReadGets(t) ==
  LET p == Working(t)
  IN  /\ In(t, "read")
      /\ IF Complete(t)
         THEN Step(t, "protect") /\ UNCHANGED <<heap, proc>>
         ELSE IF ~page[p].open
         THEN Fault("killed")
         ELSE /\ call' = [call EXCEPT ![t].idx = @ + 1, ![t].byte = page[p].bytes[PageOffset(t)]]
              /\ UNCHANGED <<heap, proc>>

Protects(t) ==
  /\ In(t, "protect")
  /\ Protection(PagesOf(call[t].elem), FALSE)
  /\ Done(t)
  /\ UNCHANGED <<hash_table, elem, proc>>

-----------------------------------------------------------------------------
(* tls_destroy *)

tls_destroy(t) ==
  /\ MayCall(t, {t})
  /\ hash_search(t) # NULL
  /\ call' = [call EXCEPT ![t].at = "release", ![t].elem = hash_search(t), ![t].idx = 1,
                           ![t].held = PagesOf(hash_search(t))]
  /\ UNCHANGED <<heap, proc>>

Released(t, p) ==
  CASE page[p].ref_count = 1 -> Unmapped
    [] page[p].ref_count > 1 -> [page[p] EXCEPT !.ref_count = @ - 1]
    [] OTHER -> page[p]

DestroyReleases(t) ==
  LET e == call[t].elem
  IN  /\ In(t, "release")
      /\ IF call[t].idx > Len(elem[e].pages)
         THEN Step(t, "unlink") /\ UNCHANGED page
         ELSE LET p == elem[e].pages[call[t].idx]
              IN  /\ page' = [page EXCEPT ![p] = Released(t, p)]
                  /\ call' = [call EXCEPT ![t].idx = @ + 1]
      /\ UNCHANGED <<hash_table, elem, proc>>

(* The first element of a chain is freed without being unlinked (282).      *)
DestroyUnlinks(t) ==
  LET e == call[t].elem
      before == {f \in Chain(Hash(t)) : elem[f].next = e}
  IN  /\ In(t, "unlink")
      /\ IF hash_table[Hash(t)] # e /\ before = {}
         THEN Fault("killed")    \* 285 runs off the chain
         ELSE /\ IF hash_table[Hash(t)] = e
                 THEN elem' = [elem EXCEPT ![e] =
                        [Unused EXCEPT !.state = "stale", !.tid = t, !.next = elem[e].next]]
                 ELSE \E f \in before :
                        elem' = [elem EXCEPT ![f].next = elem[e].next, ![e] = Unused]
              /\ Done(t)
              /\ UNCHANGED <<hash_table, page, proc>>

-----------------------------------------------------------------------------
(* A thread touches a page of some store directly.  (Bound: while no call    *)
(* is in progress; at any other time the outcome is the same.)               *)
Touch(t) ==
  /\ proc = "running" /\ t \in Strays /\ Busy = {}
  /\ \E p \in Page : page[p].mapped /\ ~page[p].open
  /\ Fault("stray")

(* A call that returns -1 changes nothing; one always does: tls_create with  *)
(* a store, any other call without.                                          *)
Refused == {t \in Thread : MayCall(t, {t})} # {} /\ UNCHANGED vars

Ended == proc # "running" /\ UNCHANGED vars

Steps(t) ==
  \/ LinkNext(t) \/ LinkHead(t) \/ CloneShares(t)
  \/ WriteTests(t) \/ WriteCopies(t) \/ WriteDrops(t) \/ WritePuts(t)
  \/ ReadGets(t) \/ Protects(t)
  \/ DestroyReleases(t) \/ DestroyUnlinks(t)

Calls(t) ==
  \/ \E size \in Sizes : tls_create(t, size) \/ CreateFails(t, size)
  \/ \E u \in Thread : tls_clone(t, u)
  \/ \E offset \in Offsets, length \in Lengths :
       \/ \E byte \in Written : tls_write(t, offset, length, byte)
       \/ tls_read(t, offset, length)
  \/ tls_destroy(t)

Next == Ended \/ Refused \/ \E t \in Thread : Steps(t) \/ Calls(t) \/ Touch(t)

Spec == Init /\ [][Next]_vars
-----------------------------------------------------------------------------
(* Types; and a chain holds only elements of its bucket.                    *)
TypeOK ==
  /\ hash_table \in [0 .. HASH_SIZE - 1 -> Element \cup {NULL}]
  /\ \A b \in 0 .. HASH_SIZE - 1 : \A e \in Chain(b) : Hash(elem[e].tid) = b
  /\ elem \in [Element -> [state : {"unused", "live", "stale", "reused"},
       tid : Thread \cup {NoThread}, size : Nat, pages : Seq(Page),
       next : Element \cup {NULL}]]
  /\ page \in [Page -> [mapped : BOOLEAN, lost : BOOLEAN, open : BOOLEAN, ref_count : Nat,
       bytes : [0 .. page_size - 1 -> Bytes]]]
  /\ \A t \in Thread : call[t].elem \in Element \cup {NULL} /\ call[t].held \subseteq Page
  /\ proc \in {"running", "killed", "nomemory", "stray"}

Users(p) == {e \in Element : elem[e].state = "live" /\ p \in PagesOf(e)}

(* Whenever no call is in progress, a page no tls_create has lost is mapped  *)
(* exactly while stores refer to it, and ref_count says how many: no page   *)
(* leaks, none is unmapped under a store (126, 194, 198, 266-273, 319).     *)
RefCountsExact ==
  Busy = {} => \A p \in Page : ~page[p].lost =>
    /\ page[p].ref_count = Cardinality(Users(p))
    /\ page[p].mapped <=> Users(p) # {}

(* A page is accessible only while a thread that refers to it, or is taking *)
(* its copy of it, is in tls_read or tls_write (README of Project 4:        *)
(* nobody else can touch it without being terminated).                      *)
ProtectedAtRest ==
  \A p \in Page : page[p].open =>
    \E t \in Busy : p \in PagesOf(call[t].elem) \cup call[t].held

(* No call of the library faults unless mmap has failed, so the process is  *)
(* not ended for a thread that uses only its own store (172, 199, 208, 229, *)
(* 248: the pages a thread opens for itself are pages it may share).        *)
CallsNeverFault == proc # "killed"

(* Each thread's store is its own (LocalStore).                             *)
Store == [t \in Thread |->
  LET e == hash_search(t)
  IN  IF e = NULL \/ call[t].at \in {"release", "unlink"} THEN <<>>
      ELSE [i \in 0 .. elem[e].size - 1 |->
              page[elem[e].pages[i \div page_size + 1]].bytes[i % page_size]]]

Heard == [t \in Thread |-> IF call[t].at = "read" THEN call[t].byte ELSE Zero]

Promise == INSTANCE LocalStore WITH store <- Store, heard <- Heard

KeepsLocal == Promise!LocalSpec
=============================================================================
