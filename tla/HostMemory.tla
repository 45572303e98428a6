----------------------------- MODULE HostMemory -----------------------------
(***************************************************************************)
(* The managers of memory: guest RAM, the buddy allocator of host pages    *)
(* and the heap; the host's address space; nested page tables.             *)
(***************************************************************************)
EXTENDS Functions, Integers, FiniteSets, SequencesExt, FiniteSetsExt

-----------------------------------------------------------------------------
(* Spans of addresses *)
Cells(base, size) == base .. base + size - 1

\* The sequence with neighbours that join made into one, from left to right.
MergeAdjacent(s, Joins(_, _), Join(_, _)) ==
  FoldLeft(LAMBDA acc, x : IF acc # <<>> /\ Joins(Last(acc), x)
                           THEN Append(Front(acc), Join(Last(acc), x)) ELSE Append(acc, x),
           <<>>, s)

\* The spans of a sequence cover different addresses.
DisjointSpans(s) ==
  \A i, j \in DOMAIN s : i < j => Cells(s[i].base, s[i].size) \cap Cells(s[j].base, s[j].size) = {}

Covered(s) == UNION {Cells(s[i].base, s[i].size) : i \in DOMAIN s}

-----------------------------------------------------------------------------
-----------------------------------------------------------------------------
(***************************************************************************)
(* The memory manager of enlil-core (memory.rs): every guest has one       *)
(* region of host memory, taken from a list of freed spans (first fit) or  *)
(* from the end of what was ever used.  Sizes are in large pages.          *)
(***************************************************************************)
CONSTANTS Guests, Sizes, Reserved, Total

VARIABLE mm

GuestInit == mm = [regions |-> <<>>, free |-> <<>>, next |-> Reserved]

find_free_slot(d, size) == {i \in DOMAIN d.free : d.free[i].size >= size}

check_overlap(d, base, size) ==
  \A g \in DOMAIN d.regions :
    base >= d.regions[g].base + d.regions[g].size \/ base + size <= d.regions[g].base

\* A region that overlaps is an error; what it was taken from stays changed.
insert(d, g, base, size) ==
  IF check_overlap(d, base, size)
  THEN [d EXCEPT !.regions = (g :> [base |-> base, size |-> size]) @@ @] ELSE d

\* The rest of the span goes to the end of the list.
take_slot(d, slot, size) ==
  [d EXCEPT !.free = RemoveAt(@, slot) \o
     (IF d.free[slot].size > size
      THEN <<[base |-> d.free[slot].base + size, size |-> d.free[slot].size - size]>> ELSE <<>>)]

Guest_allocate(d, g, size) ==
  LET fit == find_free_slot(d, size)
  IN CASE g \in DOMAIN d.regions -> d
       [] g \notin DOMAIN d.regions /\ fit # {} ->
            insert(take_slot(d, Min(fit), size), g, d.free[Min(fit)].base, size)
       [] OTHER -> IF d.next + size > Total THEN d
                   ELSE insert([d EXCEPT !.next = @ + size], g, d.next, size)

coalesce_free_list(free) ==
  MergeAdjacent(SortSeq(free, LAMBDA a, b : a.base < b.base),
                LAMBDA a, b : a.base + a.size = b.base,
                LAMBDA a, b : [a EXCEPT !.size = @ + b.size])

Guest_deallocate(d, g) ==
  IF g \notin DOMAIN d.regions THEN d
  ELSE [d EXCEPT !.regions = Restrict(@, DOMAIN @ \ {g}),
                 !.free = coalesce_free_list(Append(@, d.regions[g]))]

GuestNext ==
  \/ \E g \in Guests, size \in Sizes : mm' = Guest_allocate(mm, g, size)
  \/ \E g \in Guests : mm' = Guest_deallocate(mm, g)

\* Every page from the reservation to the high-water mark belongs to exactly one
\* guest or one free span: none is leaked and no two guests share one, whatever
\* order guests come and go in (Guest_allocate, Guest_deallocate).
PagesOwnedOnce ==
  LET own == [g \in DOMAIN mm.regions |-> Cells(mm.regions[g].base, mm.regions[g].size)]
  IN /\ \A g, h \in DOMAIN own : g # h => own[g] \cap own[h] = {}
     /\ DisjointSpans(mm.free) /\ UNION Range(own) \cap Covered(mm.free) = {}
     /\ UNION Range(own) \cup Covered(mm.free) = Reserved .. mm.next - 1
     /\ mm.next <= Total

-----------------------------------------------------------------------------
(***************************************************************************)
(* The buddy allocator of enlil-platform (memory/mod.rs).  Addresses are   *)
(* in pages.  Which free block of an order is handed out (the code keeps   *)
(* a stack) is left open.                                                  *)
(***************************************************************************)
CONSTANTS MAX_ORDER, Bases, Size

Orders == 0 .. MAX_ORDER

VARIABLE bd

RECURSIVE init_region(_, _, _)
init_region(free, at, left) ==
  IF left = 0 THEN free
  ELSE LET o == Max({k \in Orders : 2^k <= left})
       IN init_region([free EXCEPT ![o] = @ \cup {at}], at + 2^o, left - 2^o)

\* live, the blocks handed out, is history.
BuddyInit ==
  \E b \in Bases :
    bd = [base |-> b, live |-> {}, free |-> init_region([o \in Orders |-> {}], b, Size)]

\* The block is split down to its order; the upper halves become free.
Buddy_allocate(d, o, found, block) ==
  [d EXCEPT !.free = [k \in Orders |-> (@[k] \ (IF k = found THEN {block} ELSE {}))
                                         \cup (IF k \in o .. found - 1 THEN {block + 2^k} ELSE {})],
            !.live = @ \cup {[base |-> block, order |-> o]}]

\* addr XOR size.
buddy_of(addr, o) == IF (addr \div 2^o) % 2 = 0 THEN addr + 2^o ELSE addr - 2^o

RECURSIVE merge(_, _, _)
merge(free, addr, o) ==
  IF o < MAX_ORDER /\ buddy_of(addr, o) \in free[o]
  THEN merge([free EXCEPT ![o] = @ \ {buddy_of(addr, o)}], Min({addr, buddy_of(addr, o)}), o + 1)
  ELSE [free EXCEPT ![o] = @ \cup {addr}]

Buddy_deallocate(d, b) ==
  [d EXCEPT !.free = merge(@, b.base, b.order), !.live = @ \ {b}]

BuddyNext ==
  \/ \E o \in Orders :
       LET fit == {k \in o .. MAX_ORDER : bd.free[k] # {}}
       IN fit # {} /\ \E block \in bd.free[Min(fit)] : bd' = Buddy_allocate(bd, o, Min(fit), block)
  \/ \E b \in bd.live : bd' = Buddy_deallocate(bd, b)

Blocks == bd.live \cup {[base |-> a, order |-> o] : a \in UNION {bd.free[k] : k \in Orders},
                                                    o \in Orders}
Existing == {b \in Blocks : b \in bd.live \/ b.base \in bd.free[b.order]}

\* The blocks handed out and the free ones tile the region, and no page is in
\* two: also where the base is not a multiple of the largest block, so that the
\* buddy found by XOR is not the one the block was split from (Buddy_deallocate).
BlocksTile ==
  /\ \A a, b \in Existing : a # b => Cells(a.base, 2^a.order) \cap Cells(b.base, 2^b.order) = {}
  /\ UNION {Cells(b.base, 2^b.order) : b \in Existing} = Cells(bd.base, Size)

\* On an aligned base every block is aligned to its size and two buddies are
\* never both free, so that freeing everything restores the largest blocks.
EagerlyMerged ==
  bd.base % 2^MAX_ORDER = 0 =>
    /\ \A b \in Existing : b.base % 2^b.order = 0
    /\ \A o \in 0 .. MAX_ORDER - 1 : \A a \in bd.free[o] : buddy_of(a, o) \notin bd.free[o]

-----------------------------------------------------------------------------
(***************************************************************************)
(* The host heap of enlil-platform (redox/ralloc.rs): size-class slabs of  *)
(* one page with a list of the slabs that have room, large blocks straight *)
(* from the page source, and a lock held across each slab operation except *)
(* for giving an empty slab's page back.  Addresses count words.           *)
(***************************************************************************)
CONSTANTS
  Pages,                \* how many pages the source has
  PAGE, CLASS_MIN, CLASS_MAX, HeadSize, LargeHeadSize,   \* in words
  Layouts               \* [size, align] requests

VARIABLE heap

align_up(a, b) == ((a + b - 1) \div b) * b
Classes == {c \in 0 .. 4 : CLASS_MIN * 2^c <= CLASS_MAX}
block_size(c) == CLASS_MIN * 2^c
data_offset(c) == align_up(HeadSize, block_size(c))
capacity(c) == (PAGE - data_offset(c)) \div block_size(c)

\* -1: too large for a slab.
class_index(l) ==
  IF l.size > CLASS_MAX \/ l.align > CLASS_MAX THEN -1
  ELSE CHOOSE c \in Classes : /\ block_size(c) >= l.size /\ block_size(c) >= l.align
                              /\ \A b \in Classes : b < c => block_size(b) < l.size \/ block_size(b) < l.align

\* slabs: page -> its class and free blocks; freeing: pages unlinked under the lock
\* and not yet given back; live: what callers hold; given: pages out of the source.
HeapInit ==
  \E bump \in BOOLEAN :
    heap = [bump |-> bump, given |-> {}, slabs |-> <<>>, partial |-> [c \in Classes |-> <<>>],
            freeing |-> {}, live |-> {}, slab_bytes |-> 0, large_bytes |-> 0]

\* A run of pages: the next ones of a bump source, any free ones of mmap (external).
Runs(d, n) ==
  LET free == {p \in 0 .. Pages - n : (p .. p + n - 1) \cap d.given = {}}
  IN IF d.bump THEN {p \in free : p = Cardinality(d.given)} ELSE free

free_pages(d, ps) == IF d.bump THEN d ELSE [d EXCEPT !.given = @ \ ps]

new_slab(d, c, p) ==
  [d EXCEPT !.given = @ \cup {p}, !.partial[c] = <<p>>,
            !.slabs = [q \in DOMAIN @ \cup {p} |->
                         IF q = p THEN [class |-> c, free |-> {p * PAGE + data_offset(c) + i * block_size(c) :
                                                                i \in 0 .. capacity(c) - 1}]
                         ELSE @[q]]]

\* The results of taking a block of the class for the layout.
alloc_slab(d, l) ==
  LET c == class_index(l)
      take(e) == LET p == Head(e.partial[c])
                     full == Cardinality(e.slabs[p].free) = 1
                 IN {[e EXCEPT !.slabs[p].free = @ \ {b}, !.slab_bytes = @ + block_size(c),
                               !.partial[c] = IF full THEN Tail(@) ELSE @,
                               !.live = @ \cup {[at |-> b, l |-> l]}] : b \in e.slabs[p].free}
  IN IF d.partial[c] # <<>> THEN take(d) ELSE UNION {take(new_slab(d, c, p)) : p \in Runs(d, 1)}

\* Mutant: whether the slab was full is read after the block is put back.
dealloc_slab_late_check(d, b) ==
  LET p == b.at \div PAGE
      c == d.slabs[p].class
      e == [d EXCEPT !.slabs[p].free = @ \cup {b.at}, !.slab_bytes = @ - block_size(c), !.live = @ \ {b}]
  IN IF Cardinality(e.slabs[p].free) = capacity(c)
     THEN [e EXCEPT !.partial[c] = SelectSeq(@, LAMBDA q : q # p), !.freeing = @ \cup {p},
                    !.slabs = [q \in DOMAIN @ \ {p} |-> @[q]]]
     ELSE IF e.slabs[p].free = {} THEN [e EXCEPT !.partial[c] = <<p>> \o @] ELSE e

dealloc_slab(d, b) ==
  LET p == b.at \div PAGE
      c == d.slabs[p].class
      e == [d EXCEPT !.slabs[p].free = @ \cup {b.at}, !.slab_bytes = @ - block_size(c), !.live = @ \ {b}]
  IN IF Cardinality(e.slabs[p].free) = capacity(c)
     THEN [e EXCEPT !.partial[c] = SelectSeq(@, LAMBDA q : q # p), !.freeing = @ \cup {p},
                    !.slabs = [q \in DOMAIN @ \ {p} |-> @[q]]]
     ELSE IF d.slabs[p].free = {} THEN [e EXCEPT !.partial[c] = <<p>> \o @] ELSE e

large_pages(l) == (l.size + l.align + LargeHeadSize + PAGE - 1) \div PAGE
alloc_large(d, l) ==
  {[d EXCEPT !.given = @ \cup (p .. p + large_pages(l) - 1), !.large_bytes = @ + l.size,
             !.live = @ \cup {[at |-> align_up(p * PAGE + LargeHeadSize, l.align), l |-> l]}] :
     p \in Runs(d, large_pages(l))}

\* The head before the block names the run's first page.
dealloc_large(d, b) ==
  LET p == CHOOSE p \in d.given : align_up(p * PAGE + LargeHeadSize, b.l.align) = b.at
  IN free_pages([d EXCEPT !.live = @ \ {b}, !.large_bytes = @ - b.l.size], p .. p + large_pages(b.l) - 1)

alloc(d, l) == IF class_index(l) # -1 THEN alloc_slab(d, l) ELSE alloc_large(d, l)
dealloc(d, b) == IF class_index(b.l) # -1 THEN dealloc_slab(d, b) ELSE dealloc_large(d, b)

\* Within a class the block stays where it is; else the contents move.
realloc(d, b, l) ==
  IF class_index(b.l) # -1 /\ class_index(b.l) = class_index(l)
  THEN {[d EXCEPT !.live = (@ \ {b}) \cup {[at |-> b.at, l |-> l]}]}
  ELSE {dealloc(e, b) : e \in alloc(d, l)}

HeapNext ==
  \/ \E l \in Layouts : heap' \in alloc(heap, l)
  \/ \E b \in heap.live : heap' = dealloc(heap, b)
  \/ \E b \in heap.live, l \in Layouts : l.align = b.l.align /\ heap' \in realloc(heap, b, l)
  \/ \E p \in heap.freeing : heap' = free_pages([heap EXCEPT !.freeing = @ \ {p}], {p})

-----------------------------------------------------------------------------
Words(b) == b.at .. b.at + b.l.size - 1
Slabs == DOMAIN heap.slabs
SumOf(f(_), S) == FoldSet(LAMBDA b, n : n + f(b), 0, S)

\* No two live blocks overlap, none lies on a free block, on a slab's head or in a page
\* being given back or back at the source, and each is aligned as its caller asked.
BlocksApart ==
  /\ \A b, c \in heap.live : b # c => Words(b) \cap Words(c) = {}
  /\ \A b \in heap.live :
       /\ b.at % b.l.align = 0
       /\ \A w \in Words(b) : w \div PAGE \in heap.given \ heap.freeing
       /\ class_index(b.l) # -1 =>
            LET p == b.at \div PAGE
            IN /\ p \in Slabs /\ b.at \notin heap.slabs[p].free
               /\ b.at + b.l.size <= (p + 1) * PAGE /\ b.at % PAGE >= HeadSize

\* The partial list of a class holds exactly its slabs with room, each once; an empty
\* slab is never kept; and the byte counters agree with the live blocks.
ListsExact ==
  /\ \A c \in Classes :
       /\ ToSet(heap.partial[c]) = {p \in Slabs : heap.slabs[p].class = c /\ heap.slabs[p].free # {}}
       /\ Cardinality(ToSet(heap.partial[c])) = Len(heap.partial[c])
  /\ \A p \in Slabs : Cardinality(heap.slabs[p].free) < capacity(heap.slabs[p].class)
  /\ heap.slab_bytes = SumOf(LAMBDA b : block_size(class_index(b.l)), {b \in heap.live : class_index(b.l) # -1})
  /\ heap.large_bytes = SumOf(LAMBDA b : b.l.size, {b \in heap.live : class_index(b.l) = -1})

-----------------------------------------------------------------------------
(***************************************************************************)
(* The host's address space (enlil-platform memory/host_mm.rs): a page     *)
(* table whose tables come from a pool that is never refilled, and the     *)
(* list of regions mapped by mmap and map_fixed, with their guard pages.   *)
(* Frames come from the bitmap allocator of memory/mod.rs.  Addresses and  *)
(* sizes are in pages.                                                     *)
(***************************************************************************)
CONSTANTS VaLimit,   \* the range managed is 0 .. VaLimit - 1
          Spans3,    \* pages under an entry of the first, second and third table
          Pool,      \* tables in the pool
          Frames,    \* frames of the allocator
          Huge,      \* pages under a huge leaf of the boot map
          Foreign,   \* frames of callers (MMIO)
          AsPages, MaxRegions

Vas == 0 .. VaLimit - 1
Prots == {"r", "w"}
None == [pa |-> -1, prot |-> "-"]

VARIABLE hs

\* torn, the pages a failed map_fixed has left mapped, is history.
AsInit == hs = [pte |-> [v \in Vas |-> None], tables |-> {}, mappings |-> <<>>,
                free |-> Frames, torn |-> {}]

reserved_base(r) == r.base - r.guard_low
reserved_end(r) == r.base + r.pages + r.guard_high

\* The tables on the path to v, from the top; a huge leaf ends it.
path(v) == [l \in 1 .. 3 |-> <<l, v \div Spans3[l]>>]
missing(d, v) == SelectSeq(path(v), LAMBDA t : t \notin d.tables)
pool_left(d) == Pool - Cardinality(d.tables)
with_tables(d, s) == [d EXCEPT !.tables = @ \cup Range(s)]

\* Missing tables are made from the top until the pool is empty; they stay.
map_page(d, v, pa, prot) ==
  LET need == IF v \in Huge THEN SelectSeq(missing(d, v), LAMBDA t : t[1] < 3) ELSE missing(d, v)
      room == Min({Len(need), pool_left(d)})
      e == with_tables(d, SubSeq(need, 1, room))
  IN CASE room < Len(need) \/ v \in Huge -> [ok |-> FALSE, hs |-> e]
       [] OTHER -> IF d.pte[v] # None THEN [ok |-> FALSE, hs |-> e]
                   ELSE [ok |-> TRUE, hs |-> [e EXCEPT !.pte[v] = [pa |-> pa, prot |-> prot]]]

\* AsPages base, base+1, ... to the frames, until one fails; how many were mapped.
map_pages(d, base, frames, prot) ==
  FoldLeft(LAMBDA acc, i : IF ~acc.ok THEN acc
                           ELSE LET m == map_page(acc.hs, base + i - 1, frames[i], prot)
                                IN [ok |-> m.ok, hs |-> m.hs, n |-> IF m.ok THEN i ELSE acc.n],
           [ok |-> TRUE, hs |-> d, n |-> 0], [i \in 1 .. Len(frames) |-> i])

\* First fit between the regions, which are sorted.
find_free_va(d, pages) ==
  LET go == FoldLeft(LAMBDA acc, r :
              CASE acc.found -> acc
                [] ~acc.found /\ reserved_base(r) > acc.cur /\ reserved_base(r) - acc.cur >= pages ->
                     [acc EXCEPT !.found = TRUE]
                [] OTHER -> [acc EXCEPT !.cur = Max({@, reserved_end(r)})],
              [found |-> FALSE, cur |-> 0], d.mappings)
  IN IF go.found \/ go.cur + pages <= VaLimit THEN {go.cur} ELSE {}

check_no_overlap(d, base, stop) ==
  \A i \in DOMAIN d.mappings :
    base >= reserved_end(d.mappings[i]) \/ reserved_base(d.mappings[i]) >= stop

coalesce(m) ==
  MergeAdjacent(m, LAMBDA a, b : /\ a.base + a.pages = b.base /\ a.prot = b.prot /\ a.owned = b.owned
                                 /\ a.guard_high = 0 /\ b.guard_low = 0,
                LAMBDA a, b : [a EXCEPT !.pages = @ + b.pages, !.guard_high = b.guard_high])

As_insert(d, r) ==
  LET at == Cardinality({i \in DOMAIN d.mappings : reserved_base(d.mappings[i]) <= reserved_base(r)})
  IN [d EXCEPT !.mappings = coalesce(InsertAt(@, at + 1, r))]

\* What was mapped is unmapped and all frames go back; tables stay.
undo(d, usable, n, taken) ==
  [d EXCEPT !.pte = [v \in Vas |-> IF v \in Cells(usable, n) THEN None ELSE @[v]],
            !.free = @ \cup taken]

\* The lowest free frames, as the bitmap is searched.
lowest(free, n) == SubSeq(SetToSortSeq(free, <), 1, n)

\* va is a set: the address asked for, or what find_free_va gives.
mmap(d, pages, prot, low, high, va) ==
  LET base == CHOOSE b \in va : TRUE
      frames == lowest(d.free, pages)
      m == map_pages([d EXCEPT !.free = @ \ Range(frames)], base + low, frames, prot)
  IN IF va = {} \/ Cardinality(d.free) < pages THEN d
     ELSE IF ~m.ok THEN undo(m.hs, base + low, m.n, Range(frames))
     ELSE As_insert(m.hs, [base |-> base + low, pages |-> pages, guard_low |-> low,
                        guard_high |-> high, prot |-> prot, owned |-> TRUE])

\* Nothing is undone when the pool runs out half-way.
map_fixed(d, base, pages, prot) ==
  LET m == map_pages(d, base, [i \in 1 .. pages |-> Foreign + i], prot)
  IN IF \/ base + pages > VaLimit \/ ~check_no_overlap(d, base, base + pages)
        \/ \E v \in Cells(base, pages) : d.pte[v] # None \/ v \in Huge
     THEN d
     ELSE IF ~m.ok THEN [m.hs EXCEPT !.torn = @ \cup Cells(base, m.n)]
     ELSE As_insert(m.hs, [base |-> base, pages |-> pages, guard_low |-> 0, guard_high |-> 0,
                        prot |-> prot, owned |-> FALSE])

\* The region without or with changed protection on start .. stop - 1: up to
\* three parts, of which the outer ones keep the guards.
parts(r, start, stop, keep, prot) ==
  LET os == Max({start, r.base})
      oe == Min({stop, r.base + r.pages})
      left == IF os > r.base THEN <<[r EXCEPT !.pages = os - r.base, !.guard_high = 0]>> ELSE <<>>
      mid == IF keep THEN <<[r EXCEPT !.base = os, !.pages = oe - os, !.guard_low = 0,
                                      !.guard_high = 0, !.prot = prot]>> ELSE <<>>
      right == IF oe < r.base + r.pages
               THEN <<[r EXCEPT !.base = oe, !.pages = r.base + r.pages - oe, !.guard_low = 0]>> ELSE <<>>
  IN IF os >= oe THEN <<r>> ELSE left \o mid \o right

reshape(m, start, stop, keep, prot) ==
  coalesce(FlattenSeq([i \in DOMAIN m |-> parts(m[i], start, stop, keep, prot)]))

usable_regions(d, v) == {i \in DOMAIN d.mappings : v \in Cells(d.mappings[i].base, d.mappings[i].pages)}

validate_edit_range(d, start, pages) ==
  \A v \in Cells(start, pages) : usable_regions(d, v) # {}

munmap(d, start, pages) ==
  LET gone == Cells(start, pages)
      owned == {v \in gone : \E i \in usable_regions(d, v) : d.mappings[i].owned}
  IN IF ~validate_edit_range(d, start, pages) THEN d
     ELSE [d EXCEPT !.mappings = reshape(@, start, start + pages, FALSE, "-"),
                    !.pte = [v \in Vas |-> IF v \in gone THEN None ELSE @[v]],
                    !.free = @ \cup {d.pte[v].pa : v \in owned}]

mprotect(d, start, pages, prot) ==
  IF ~validate_edit_range(d, start, pages) THEN d
  ELSE [d EXCEPT !.mappings = reshape(@, start, start + pages, TRUE, prot),
                 !.pte = [v \in Vas |-> IF v \in Cells(start, pages)
                                        THEN [@[v] EXCEPT !.prot = prot] ELSE @[v]]]

\* An address asked for must leave room for the guards below the limit.
asked(d, base, n) == IF base + n <= VaLimit /\ check_no_overlap(d, base, base + n) THEN {base} ELSE {}

AsNext ==
  /\ Len(hs.mappings) <= MaxRegions
  /\ \E pages \in AsPages, prot \in Prots :
       \/ \E low, high \in {0, 1} :
            hs' = mmap(hs, pages, prot, low, high, find_free_va(hs, low + pages + high))
       \/ \E v \in Vas : hs' = mmap(hs, pages, prot, 1, 0, asked(hs, v, pages + 1))
       \/ \E v \in Vas : hs' = map_fixed(hs, v, pages, prot)
       \/ \E v \in Vas : hs' = munmap(hs, v, pages)
       \/ \E v \in Vas : hs' = mprotect(hs, v, pages, prot)

-----------------------------------------------------------------------------
Used(r) == Cells(r.base, r.pages)
MappedPages == {v \in Vas : hs.pte[v] # None}

\* The list and the page table agree: exactly the pages of the regions are mapped
\* (a failed map_fixed's apart), each with its region's protection, so guard
\* pages stay unmapped; and regions with their guards do not overlap.
TableMatchesRegions ==
  /\ \A i \in DOMAIN hs.mappings : \A v \in Used(hs.mappings[i]) : hs.pte[v].prot = hs.mappings[i].prot
  /\ MappedPages \ hs.torn \subseteq UNION {Used(hs.mappings[i]) : i \in DOMAIN hs.mappings}
  /\ \A i \in 1 .. Len(hs.mappings) - 1 :
       reserved_end(hs.mappings[i]) <= reserved_base(hs.mappings[i + 1])

\* Every frame is free or mapped exactly once, by a region that owns its frames:
\* none leaks when mapping fails half-way and none is freed while in use.
FramesConserved ==
  LET owned == {v \in MappedPages : hs.pte[v].pa \in Frames}
  IN /\ {hs.pte[v].pa : v \in owned} = Frames \ hs.free
     /\ Cardinality(owned) = Cardinality(Frames \ hs.free)
     /\ \A i \in DOMAIN hs.mappings : hs.mappings[i].owned <=> Used(hs.mappings[i]) \subseteq owned

-----------------------------------------------------------------------------
(***************************************************************************)
(* Page tables in a buffer: the identity maps of enlil-platform            *)
(* (memory/paging.rs) and the nested page tables of enlil-hal (npt.rs)     *)
(* with their editors and NptMapper.  Table n is page n of the buffer, a   *)
(* table has E entries, an address is a page number, and a huge page is E  *)
(* pages.                                                                  *)
(***************************************************************************)
CONSTANTS E, Tables, Spas, Lens, Starts, MaxOps

Gpas == 0 .. E^4 - 1
Entries == 0 .. E - 1
NestedNone == [k |-> "none", to |-> 0, w |-> FALSE]
Table(n) == [k |-> "table", to |-> n, w |-> TRUE]
NestedHuge(pa, w) == [k |-> "huge", to |-> pa, w |-> w]
Page(pa, w) == [k |-> "page", to |-> pa, w |-> w]
Absent == [pa |-> -1, w |-> FALSE]

VARIABLE pt

div_ceil(a, b) == (a + b - 1) \div b
index(gpa, level) == (gpa \div E^level) % E

-----------------------------------------------------------------------------
(* Builders: tables level by level, each level linked in order *)

first(counts, l) == FoldLeft(+, 0, SubSeq(counts, 1, l - 1))
table_of(counts, l, j, leaf) ==
  [i \in Entries |->
     LET c == j * E + i
     IN IF l = Len(counts) THEN leaf[c]
        ELSE IF c < counts[l + 1] THEN Table(first(counts, l + 1) + c) ELSE NestedNone]

build(counts, leaf) ==
  [n \in 0 .. Tables - 1 |->
     LET ls == {l \in DOMAIN counts : n >= first(counts, l) /\ n < first(counts, l) + counts[l]}
     IN IF ls = {} THEN [i \in Entries |-> NestedNone]
        ELSE LET l == CHOOSE l \in ls : TRUE IN table_of(counts, l, n - first(counts, l), leaf)]

\* Tables wanted, or <<>> where the code returns an error.
fits(counts, lows) ==
  IF FoldLeft(+, 0, counts) <= Tables /\ \A l \in lows : counts[l] <= E THEN counts ELSE <<>>

\* Also build_identity_map_2mib, with a base of 0.
build_npt_2mib(spa, n) ==
  [counts |-> fits(<<1, 1, div_ceil(n, E)>>, {3}),
   leaf |-> [c \in Gpas |-> IF c < n THEN NestedHuge(spa + c * E, TRUE) ELSE NestedNone],
   maps |-> [g \in Gpas |-> IF g < n * E THEN [pa |-> spa + g, w |-> TRUE] ELSE Absent]]

build_identity_map_2mib_multi(n) ==
  [build_npt_2mib(0, n) EXCEPT !.counts =
     fits(<<1, div_ceil(div_ceil(n, E), E), div_ceil(n, E)>>, {2})]

\* Also build_identity_map_4kib, with one leaf table.
build_identity_npt_4kib(n, guards) ==
  [counts |-> fits(<<1, 1, 1, div_ceil(n, E)>>, {4}),
   leaf |-> [c \in Gpas |-> IF c < n /\ c \notin guards THEN Page(c, TRUE) ELSE NestedNone],
   maps |-> [g \in Gpas |-> IF g < n /\ g \notin guards THEN [pa |-> g, w |-> TRUE] ELSE Absent]]

build_identity_map_4kib_multi(n, guards) ==
  [build_identity_npt_4kib(n, guards) EXCEPT !.counts =
     fits(<<1, 1, div_ceil(div_ceil(n, E), E), div_ceil(n, E)>>, {3})]

\* maps, what each address should map to, and steps, a bound, are history.
Built(b) ==
  [buf |-> build(b.counts, b.leaf), used |-> FoldLeft(+, 0, b.counts), mapper |-> FALSE,
   maps |-> b.maps, steps |-> 0]

\* The huge leaf of one slot is replaced by a table of pages.
with_4kib_window(n, fine, guards) ==
  LET b == build_npt_2mib(0, n)
      p == Built([b EXCEPT !.leaf[fine] = Table(FoldLeft(+, 0, b.counts))])
      hidden == {fine * E + g : g \in guards}
  IN [p EXCEPT !.used = @ + 1,
               !.buf[p.used] = [i \in Entries |-> IF i \in guards THEN NestedNone ELSE Page(fine * E + i, TRUE)],
               !.maps = [g \in Gpas |-> IF g \in hidden THEN Absent ELSE @[g]]]

\* NptMapper::new
empty == [buf |-> [n \in 0 .. Tables - 1 |-> [i \in Entries |-> NestedNone]], used |-> 1,
          mapper |-> TRUE, maps |-> [g \in Gpas |-> Absent], steps |-> 0]

Init ==
  \/ \E b \in {build_npt_2mib(s, n) : s \in {0, E}, n \in Lens}
           \cup {build_identity_map_2mib_multi(n) : n \in Lens}
           \cup {build_identity_npt_4kib(n, g) : n \in Lens, g \in {{}, {1}}}
           \cup {build_identity_map_4kib_multi(n, g) : n \in Lens, g \in {{}, {0, 2}}} :
       b.counts # <<>> /\ pt = Built(b)
  \/ \E n \in Lens, g \in {{}, {1}} : \E fine \in 0 .. n - 1 :
       build_npt_2mib(0, n).counts # <<>> /\ pt = with_4kib_window(n, fine, g)
  \/ pt = empty

-----------------------------------------------------------------------------
(* Walking and editing *)

\* The table under entry i of table t, or -1.
child(d, t, i) == IF t = -1 \/ d.buf[t][i].k # "table" THEN -1 ELSE d.buf[t][i].to
dir_of(d, gpa) == child(d, child(d, 0, index(gpa, 3)), index(gpa, 2))
leaf_table_of(d, gpa) == child(d, dir_of(d, gpa), index(gpa, 1))

translate_npt(d, gpa) ==
  LET t == dir_of(d, gpa)
      e == d.buf[t][index(gpa, 1)]
      leaf == d.buf[leaf_table_of(d, gpa)][index(gpa, 0)]
  IN CASE t = -1 -> Absent
       [] t # -1 /\ e.k = "huge" -> [pa |-> e.to + (gpa % E), w |-> e.w]
       [] t # -1 /\ e.k = "table" -> IF leaf.k = "page" THEN [pa |-> leaf.to, w |-> leaf.w] ELSE Absent
       [] OTHER -> Absent

\* The n pages from gpa now map as f says.
Maps(d, gpa, n, f(_)) ==
  [d EXCEPT !.maps = [g \in Gpas |-> IF g \in gpa .. gpa + n - 1 THEN f(g) ELSE @[g]]]

map_npt_2mib_leaf(d, gpa, spa) ==
  IF gpa % E # 0 \/ spa % E # 0 \/ dir_of(d, gpa) = -1 THEN d
  ELSE Maps([d EXCEPT !.buf[dir_of(d, gpa)][index(gpa, 1)] = NestedHuge(spa, TRUE)], gpa, E,
            LAMBDA g : [pa |-> spa + g - gpa, w |-> TRUE])

map_npt_4kib_leaf(d, gpa, spa) ==
  IF leaf_table_of(d, gpa) = -1 THEN d
  ELSE Maps([d EXCEPT !.buf[leaf_table_of(d, gpa)][index(gpa, 0)] = Page(spa, TRUE)], gpa, 1,
            LAMBDA g : [pa |-> spa, w |-> TRUE])

set_npt_2mib_leaf_writable(d, gpa, w) ==
  LET t == dir_of(d, gpa)
  IN IF gpa % E # 0 \/ t = -1 THEN d
     ELSE IF d.buf[t][index(gpa, 1)].k # "huge" THEN d
     ELSE Maps([d EXCEPT !.buf[t][index(gpa, 1)].w = w], gpa, E, LAMBDA g : [d.maps[g] EXCEPT !.w = w])

set_npt_4kib_leaf_writable(d, gpa, w) ==
  LET t == leaf_table_of(d, gpa)
  IN IF t = -1 THEN d ELSE IF d.buf[t][index(gpa, 0)].k # "page" THEN d
     ELSE Maps([d EXCEPT !.buf[t][index(gpa, 0)].w = w], gpa, 1, LAMBDA g : [d.maps[g] EXCEPT !.w = w])

\* An entry of zero has no page to show; one hidden keeps its address.
set_npt_4kib_leaf_present(d, gpa, p) ==
  LET t == leaf_table_of(d, gpa)
      e == d.buf[t][index(gpa, 0)]
  IN IF t = -1 THEN d ELSE IF e.k = "none" THEN d
     ELSE Maps([d EXCEPT !.buf[t][index(gpa, 0)].k = IF p THEN "page" ELSE "hidden"], gpa, 1,
               LAMBDA g : IF p THEN [pa |-> e.to, w |-> e.w] ELSE Absent)

\* Mutant: the new pages are writable whatever the huge page was.
split_leaf_writable(d, gpa, guards) ==
  LET t == dir_of(d, gpa)
      e == d.buf[t][index(gpa, 1)]
  IN IF gpa % E # 0 \/ d.used >= Tables \/ t = -1 THEN d
     ELSE IF e.k # "huge" THEN d
     ELSE Maps([d EXCEPT !.buf[d.used] = [i \in Entries |-> IF gpa + i \in guards THEN NestedNone
                                                            ELSE Page(e.to + i, TRUE)],
                         !.buf[t][index(gpa, 1)] = Table(d.used), !.used = @ + 1],
               gpa, E, LAMBDA g : IF g \in guards THEN Absent ELSE d.maps[g])

\* The caller gives the next page of the buffer for the table.
split_npt_2mib_leaf(d, gpa, guards) ==
  LET t == dir_of(d, gpa)
      e == d.buf[t][index(gpa, 1)]
  IN IF gpa % E # 0 \/ d.used >= Tables \/ t = -1 THEN d
     ELSE IF e.k # "huge" THEN d
     ELSE Maps([d EXCEPT !.buf[d.used] = [i \in Entries |-> IF gpa + i \in guards THEN NestedNone
                                                            ELSE Page(e.to + i, e.w)],
                         !.buf[t][index(gpa, 1)] = Table(d.used), !.used = @ + 1],
               gpa, E, LAMBDA g : IF g \in guards THEN Absent ELSE d.maps[g])

-----------------------------------------------------------------------------
(* NptMapper *)

\* The table for the address at a level, made on the way; -1 when out of room.
child_table(r, gpa, level) ==
  LET e == r.d.buf[r.t][index(gpa, level)]
  IN CASE r.t = -1 -> r
       [] r.t # -1 /\ e.k = "table" -> [r EXCEPT !.t = e.to]
       [] r.t # -1 /\ e.k = "none" /\ r.d.used < Tables ->
            [d |-> [r.d EXCEPT !.buf[r.t][index(gpa, level)] = Table(r.d.used), !.used = @ + 1],
             t |-> r.d.used]
       [] OTHER -> [r EXCEPT !.t = -1]

pd_off_for(d, gpa) == child_table(child_table([d |-> d, t |-> 0], gpa, 3), gpa, 2)

map_huge_leaf(d, gpa, spa) ==
  LET r == pd_off_for(d, gpa)
  IN IF r.t = -1 THEN [ok |-> FALSE, d |-> r.d]
     ELSE IF r.d.buf[r.t][index(gpa, 1)].k # "none" THEN [ok |-> FALSE, d |-> r.d]
     ELSE [ok |-> TRUE, d |-> Maps([r.d EXCEPT !.buf[r.t][index(gpa, 1)] = NestedHuge(spa, TRUE)], gpa, E,
                                   LAMBDA g : [pa |-> spa + g - gpa, w |-> TRUE])]

map_small_page(d, gpa, spa, guard) ==
  LET r == child_table(pd_off_for(d, gpa), gpa, 1)
  IN IF r.t = -1 THEN [ok |-> FALSE, d |-> r.d]
     ELSE IF r.d.buf[r.t][index(gpa, 0)].k = "page" THEN [ok |-> FALSE, d |-> r.d]
     ELSE [ok |-> TRUE,
           d |-> IF guard THEN r.d
                 ELSE Maps([r.d EXCEPT !.buf[r.t][index(gpa, 0)] = Page(spa, TRUE)], gpa, 1,
                           LAMBDA g : [pa |-> spa, w |-> TRUE])]

\* NestedHuge leaves where both addresses allow, pages elsewhere, until one fails;
\* what was mapped by then stays.
RECURSIVE map_range(_, _, _, _, _)
map_range(d, gpa, spa, len, guards) ==
  LET huge == gpa % E = 0 /\ spa % E = 0 /\ len >= E /\ guards \cap (gpa .. gpa + E - 1) = {}
      m == IF huge THEN map_huge_leaf(d, gpa, spa) ELSE map_small_page(d, gpa, spa, gpa \in guards)
      n == IF huge THEN E ELSE 1
  IN IF len = 0 THEN d ELSE IF ~m.ok THEN m.d
     ELSE map_range(m.d, gpa + n, spa + n, len - n, guards)

\* The editors work on a finished buffer; the mapper owns it until then.
Edit(d) ==
  \E gpa \in Starts :
    \/ \E spa \in Spas : pt' = map_npt_2mib_leaf(d, gpa, spa) \/ pt' = map_npt_4kib_leaf(d, gpa, spa)
    \/ \E b \in BOOLEAN : \/ pt' = set_npt_2mib_leaf_writable(d, gpa, b)
                          \/ pt' = set_npt_4kib_leaf_writable(d, gpa, b)
                          \/ pt' = set_npt_4kib_leaf_present(d, gpa, b)
    \/ \E g \in {{}, {gpa + 1}} : pt' = split_npt_2mib_leaf(d, gpa, g)

Map(d) ==
  d.mapper /\ \E gpa \in Starts, spa \in Spas, n \in Lens : \E g \in {{}, {gpa}} :
    n > 0 /\ gpa + n <= E^4 /\ pt' = map_range(d, gpa, spa, n, g)

Next == pt.steps < MaxOps /\ (Map([pt EXCEPT !.steps = @ + 1])
                              \/ Edit([pt EXCEPT !.steps = @ + 1, !.mapper = FALSE]))

-----------------------------------------------------------------------------
\* A walk finds exactly what was mapped: every address translates to the frame
\* and with the write permission that the builders and edits gave it, guards and
\* hidden pages to nothing, whatever huge pages were split or remapped between.
WalkMatches == \A g \in Gpas : translate_npt(pt, g) = pt.maps[g]

\* Tables in use are linked from at most one entry, so that an edit of one address
\* never shows at another.
TablesOnce ==
  LET links == {<<n, i>> \in (0 .. Tables - 1) \X Entries : pt.buf[n][i].k = "table"}
  IN /\ \A l, m \in links : l # m => pt.buf[l[1]][l[2]].to # pt.buf[m[1]][m[2]].to
     /\ \A l \in links : pt.buf[l[1]][l[2]].to \in 1 .. pt.used - 1

\* NptMapper never remaps: an address mapped before keeps its frame (RangeOverlap).
NoRemap(d, e) == \A g \in Gpas : d.maps[g] # Absent => e.maps[g] = d.maps[g]
MapperNeverRemaps ==
  \A gpa \in Starts, spa \in Spas, n \in Lens : n > 0 /\ gpa + n <= E^4 /\ pt.mapper =>
    NoRemap(pt, map_range(pt, gpa, spa, n, {}))

-----------------------------------------------------------------------------
(***************************************************************************)
(* The EptManager of enlil-core (ept.rs): a guest's second-level mappings  *)
(* keyed by guest address, write protection, dirty tracking, and the       *)
(* counters kept beside them.  An address is a page number; a large page   *)
(* is Large pages.                                                         *)
(***************************************************************************)
CONSTANTS SecondGpas, Hpas, Large, SecondLens

VARIABLE ept

Keys == DOMAIN ept.mappings

EptInit ==
  ept = [mappings |-> <<>>, write_protected |-> {}, dirty |-> {}, tracking |-> FALSE,
         total |-> 0, pages |-> 0, wp_count |-> 0, dirty_count |-> 0,
         lost |-> 0]   \* history: dirty pages unmapped since the count was last reset

Put(f, k, v) == [x \in DOMAIN f \cup {k} |-> IF x = k THEN v ELSE f[x]]
Drop(f, k) == [x \in DOMAIN f \ {k} |-> f[x]]

\* Only an equal address counts as mapped already.
map(d, gpa, hpa, size) ==
  IF gpa % size # 0 \/ hpa % size # 0 \/ gpa \in DOMAIN d.mappings THEN [ok |-> FALSE, d |-> d]
  ELSE [ok |-> TRUE,
        d |-> [d EXCEPT !.mappings = Put(@, gpa, [hpa |-> hpa, size |-> size, dirty |-> FALSE, wp |-> FALSE]),
                        !.total = @ + 1, !.pages = @ + size]]

\* Large pages where both addresses allow; what was mapped before an error stays.
RECURSIVE Second_map_range(_, _, _, _)
Second_map_range(d, gpa, hpa, n) ==
  LET size == IF gpa % Large = 0 /\ hpa % Large = 0 /\ n >= Large THEN Large ELSE 1
      m == map(d, gpa, hpa, size)
  IN IF n <= 0 THEN d ELSE IF ~m.ok THEN m.d ELSE Second_map_range(m.d, gpa + size, hpa + size, n - size)

unmap(d, gpa) ==
  LET m == d.mappings[gpa]
  IN [d EXCEPT !.mappings = Drop(@, gpa), !.write_protected = @ \ {gpa}, !.dirty = @ \ {gpa},
               !.total = @ - 1, !.pages = @ - m.size, !.wp_count = @ - (IF m.wp THEN 1 ELSE 0),
               !.lost = @ + (IF m.dirty THEN 1 ELSE 0)]

ept_set_write_protect(d, gpa) ==
  IF d.mappings[gpa].wp THEN d
  ELSE [d EXCEPT !.mappings[gpa].wp = TRUE, !.write_protected = @ \cup {gpa}, !.wp_count = @ + 1]

ept_clear_write_protect(d, gpa) ==
  IF ~d.mappings[gpa].wp THEN d
  ELSE [d EXCEPT !.mappings[gpa].wp = FALSE, !.write_protected = @ \ {gpa}, !.wp_count = @ - 1]

write_protect_all(d) ==
  [d EXCEPT !.mappings = [g \in DOMAIN @ |-> [@[g] EXCEPT !.wp = TRUE]],
            !.write_protected = @ \cup DOMAIN d.mappings,
            !.wp_count = @ + Cardinality({g \in DOMAIN d.mappings : ~d.mappings[g].wp})]

clear_all_write_protect(d) ==
  [d EXCEPT !.mappings = [g \in DOMAIN @ |-> IF g \in d.write_protected THEN [@[g] EXCEPT !.wp = FALSE]
                                             ELSE @[g]],
            !.write_protected = {}, !.wp_count = 0]

mark_dirty(d, gpa) ==
  IF ~d.tracking \/ d.mappings[gpa].dirty THEN d
  ELSE [d EXCEPT !.mappings[gpa].dirty = TRUE, !.dirty = @ \cup {gpa}, !.dirty_count = @ + 1]

handle_ept_violation(d, gpa, clear) ==
  IF clear THEN ept_clear_write_protect(mark_dirty(d, gpa), gpa) ELSE mark_dirty(d, gpa)

enable_dirty_tracking(d) == [d EXCEPT !.tracking = TRUE]
Clean(d, gs) ==
  [d EXCEPT !.mappings = [g \in DOMAIN @ |-> IF g \in gs THEN [@[g] EXCEPT !.dirty = FALSE] ELSE @[g]],
            !.dirty = {}, !.dirty_count = 0, !.lost = 0]
disable_dirty_tracking(d) == [Clean(d, DOMAIN d.mappings) EXCEPT !.tracking = FALSE]
ept_get_and_clear_dirty_bitmap(d) == Clean(d, d.dirty)

EptNext ==
  \/ \E g \in SecondGpas, h \in Hpas, s \in {1, Large} : ept' = map(ept, g, h, s).d
  \/ \E g \in SecondGpas, h \in Hpas, n \in SecondLens : ept' = Second_map_range(ept, g, h, n)
  \/ \E g \in Keys :
       \/ ept.lost = 0 /\ ept' = unmap(ept, g)
       \/ ept' = ept_set_write_protect(ept, g)
       \/ ept' = ept_clear_write_protect(ept, g)
       \/ \E c \in BOOLEAN : ept' = handle_ept_violation(ept, g, c)
  \/ ept' = write_protect_all(ept)
  \/ ept' = clear_all_write_protect(ept)
  \/ ept' = enable_dirty_tracking(ept)
  \/ ept' = disable_dirty_tracking(ept)
  \/ ept' = ept_get_and_clear_dirty_bitmap(ept)

-----------------------------------------------------------------------------
\* The page sets, the per-mapping flags and the counters tell the same story after
\* any sequence of operations; the dirty count alone also counts dirty pages
\* unmapped since it was last reset.
BooksAgree ==
  /\ ept.write_protected = {g \in Keys : ept.mappings[g].wp}
  /\ ept.dirty = {g \in Keys : ept.mappings[g].dirty}
  /\ ept.wp_count = Cardinality(ept.write_protected)
  /\ ept.dirty_count = Cardinality(ept.dirty) + ept.lost
  /\ ept.total = Cardinality(Keys)
  /\ ept.pages = FoldSet(LAMBDA g, n : n + ept.mappings[g].size, 0, Keys)

=============================================================================
