------------------------------ MODULE HostBoot ------------------------------
(***************************************************************************)
(* The boot hypervisor's own bring-up (enlil-boot kernel.rs, smp.rs,       *)
(* iommu.rs, paging.rs, service_vm.rs), in five parts: who owns which      *)
(* memory, the order of the bring-up with its timer self-tests, the        *)
(* start of the other processors, the programming of a DMA remapping       *)
(* unit, and the assembly of the service VM.                               *)
(***************************************************************************)
EXTENDS Integers, Sequences, FiniteSets, SequencesExt

CONSTANTS
  Handoffs,   \* memory the firmware hands over: [map, buffer, screen, os]
  Top,        \* above every address
  Machines,   \* what the bring-up may meet, see kernel_entry
  Ids, Bsp,   \* APIC ids the ACPI tables list, in order, and the id of the boot processor
  MaxPolls,   \* looks at the AP counter before the wait is given up
  Functions,  \* bus-0 functions
  Specs       \* service VMs to assemble: [ram, size, devices, extra]

VARIABLE hb

SmallestOf(S) == CHOOSE x \in S : \A y \in S : x <= y
LargestOf(S) == CHOOSE x \in S : \A y \in S : x >= y
Span(base, size) == base .. base + size - 1
RangeOf(s) == {s[i] : i \in DOMAIN s}
Apart(S, T) == S \cap T = {}

-----------------------------------------------------------------------------
(***************************************************************************)
(* The physical memory map (enlil-platform memory/map.rs): regions sorted *)
(* by base, from which the hypervisor carves its DMA pool, its heap and    *)
(* the guests' memory.  Sizes are in pages.                                *)
(***************************************************************************)
CONSTANTS Maps,      \* the firmware's maps: sequences of regions, sorted by base
          Sizes, Aligns,
          MapDma,    \* the limit of the DMA pool
          MapTop,
          MaxRegions

R(base, size, kind) == [base |-> base, size |-> size, kind |-> kind]
end(r) == r.base + r.size
align_up(a, align) == ((a + align - 1) \div align) * align

VARIABLE pm

\* given, the spans handed out, their number and the map to start from are history.
MapInit == \E m \in Maps : pm = [regions |-> m, given |-> {}, number |-> 0, orig |-> m]

Give(m, regions, spans) ==
  [m EXCEPT !.regions = regions, !.given = @ \cup Range(spans), !.number = @ + Len(spans)]

split_reserve(rs, i, start, size) ==
  LET r == rs[i]
  IN SubSeq(rs, 1, i - 1)
       \o (IF start > r.base THEN <<R(r.base, start - r.base, r.kind)>> ELSE <<>>)
       \o <<R(start, size, "Reserved")>>
       \o (IF start + size < end(r) THEN <<R(start + size, end(r) - start - size, r.kind)>> ELSE <<>>)
       \o SubSeq(rs, i + 1, Len(rs))

carvable(rs, size, align, limit) ==
  {i \in DOMAIN rs : /\ rs[i].kind = "Usable" /\ size > 0
                     /\ align_up(rs[i].base, align) + size <= Min({end(rs[i]), limit})}

\* First fit below the limit; the map and the span, or <<>> as the span.
carve_below(rs, size, align, limit) ==
  LET fit == carvable(rs, size, align, limit)
      start == align_up(rs[Min(fit)].base, align)
  IN IF fit = {} THEN [regions |-> rs, span |-> <<>>]
     ELSE [regions |-> split_reserve(rs, Min(fit), start, size),
           span |-> <<[base |-> start, size |-> size]>>]

usable_overlaps(rs, base, size) ==
  {i \in DOMAIN rs : rs[i].kind = "Usable" /\ Span(rs[i].base, rs[i].size) \cap Span(base, size) # {}}

RECURSIVE reserve_span(_, _, _)
reserve_span(rs, base, size) ==
  LET hit == usable_overlaps(rs, base, size)
      start == Max({rs[Min(hit)].base, base})
      stop == Min({end(rs[Min(hit)]), base + size})
  IN IF hit = {} THEN rs
     ELSE reserve_span(split_reserve(rs, Min(hit), start, stop - start), base, size)

\* A region of the kind of the one before it, and next to it, becomes part of it.
coalesce(rs) ==
  FoldLeft(LAMBDA acc, r : IF acc # <<>> /\ Last(acc).kind = r.kind /\ end(Last(acc)) = r.base
                           THEN [acc EXCEPT ![Len(acc)].size = @ + r.size] ELSE Append(acc, r),
           <<>>, rs)

\* A cursor moves over the reserved regions and must not meet a gap.
span_is_reserved(rs, base, size) ==
  size > 0 /\ FoldLeft(LAMBDA cur, r : IF cur # MapTop + 1 /\ r.kind = "Reserved" /\ end(r) > cur
                                       THEN (IF r.base > cur /\ cur < base + size THEN MapTop + 1
                                             ELSE end(r)) ELSE cur, base, rs)
                 \in base + size .. MapTop

\* DMA pool, heap (or a heap claimed before) and guest memory, all or nothing.
plan_hypervisor_regions(rs, size, align, preclaimed) ==
  LET dma == carve_below(rs, size, align, MapDma)
      heap == IF preclaimed # <<>>
              THEN [regions |-> dma.regions,
                    span |-> IF preclaimed[1].size < size
                                  \/ ~span_is_reserved(dma.regions, preclaimed[1].base, preclaimed[1].size)
                             THEN <<>> ELSE preclaimed]
              ELSE carve_below(dma.regions, size, align, MapTop)
      ram == carve_below(heap.regions, size, align, MapTop)
  IN IF <<>> \in {dma.span, heap.span, ram.span} THEN [regions |-> rs, spans |-> <<>>]
     ELSE [regions |-> ram.regions,
           spans |-> dma.span \o (IF preclaimed = <<>> THEN heap.span ELSE <<>>) \o ram.span]

MapNext ==
  /\ Len(pm.regions) < MaxRegions
  /\ \/ \E size \in Sizes, align \in Aligns : \E limit \in {MapDma, MapTop} :
          LET c == carve_below(pm.regions, size, align, limit)
          IN pm' = Give(pm, c.regions, c.span)
     \/ \E base \in 0 .. MapTop - 1, size \in Sizes :
          pm' = [pm EXCEPT !.regions = reserve_span(@, base, size)]
     \/ pm' = [pm EXCEPT !.regions = coalesce(@)]
     \/ \E size \in Sizes, align \in Aligns, h \in {<<>>} \cup {<<g>> : g \in pm.given} :
          LET p == plan_hypervisor_regions(pm.regions, size, align, h)
          IN pm' = Give(pm, p.regions, p.spans)

KindAt(rs, a) == {rs[i].kind : i \in {j \in DOMAIN rs : a \in Span(rs[j].base, rs[j].size)}}

\* Memory is handed out once: the spans given are disjoint, were usable to start
\* with and are reserved since; and the map stays sorted, without overlap, and
\* describes the same addresses, each as before or as reserved (carve_below,
\* reserve_span, plan_hypervisor_regions, coalesce).
HandedOutOnce ==
  /\ Cardinality(pm.given) = pm.number
  /\ \A s, t \in pm.given : s # t => Span(s.base, s.size) \cap Span(t.base, t.size) = {}
  /\ \A a \in UNION {Span(s.base, s.size) : s \in pm.given} :
       KindAt(pm.orig, a) = {"Usable"} /\ KindAt(pm.regions, a) = {"Reserved"}
  /\ \A i \in 1 .. Len(pm.regions) - 1 : end(pm.regions[i]) <= pm.regions[i + 1].base
  /\ \A a \in 0 .. MapTop : \/ KindAt(pm.regions, a) = KindAt(pm.orig, a)
                            \/ KindAt(pm.orig, a) = {"Usable"} /\ KindAt(pm.regions, a) = {"Reserved"}

\* The cursor of span_is_reserved finds what the definition says.
ReservedExact ==
  \A base \in 0 .. MapTop - 1, size \in Sizes : base + size <= MapTop =>
    (span_is_reserved(pm.regions, base, size)
       <=> \A a \in Span(base, size) : KindAt(pm.regions, a) = {"Reserved"})

-----------------------------------------------------------------------------
\* Memory. The low megabyte ends at LOW; its first page is never used.
LOW == 4
HEAP_MIN == 4
HEAP_MAX == 6
ALIGN == 4
DMA_SIZE == 4
SERVICE_RAM == 4
DEMO_RAM == 4
OS_RAM == 8

Types(map, types) == {i \in DOMAIN map : map[i].type \in types /\ map[i].size > 0}
Claimed == {"loader", "boot"}
\* The first of the largest conventional regions.
largest_conventional(map) ==
  LET c == Types(map, {"conventional"}) IN
  SmallestOf({i \in c : \A j \in c : map[i].size >= map[j].size})
boot_heap_size(n) == IF n < HEAP_MIN THEN 0 ELSE IF n > HEAP_MAX THEN HEAP_MAX ELSE n
bring_up_heap(d) ==
  LET map == d.handoff.map
      n == IF Types(map, {"conventional"}) = {} THEN 0
           ELSE boot_heap_size(map[largest_conventional(map)].size)
  IN IF n = 0 THEN [d EXCEPT !.at = "end"]
     ELSE [d EXCEPT !.at = "plan", !.heap = [base |-> map[largest_conventional(map)].base, size |-> n]]

\* What still holds boot state: the map buffer, loader and boot services memory, the screen.
claimed(h) ==
  <<h.buffer>> \o [i \in 1 .. Cardinality(Types(h.map, Claimed)) |->
                     h.map[CHOOSE j \in Types(h.map, Claimed) :
                             Cardinality({k \in Types(h.map, Claimed) : k < j}) = i - 1]]
    \o (IF h.screen.size = 0 THEN <<>> ELSE <<h.screen>>)
from_uefi(map) ==
  [i \in DOMAIN map |-> R(map[i].base, map[i].size,
                             IF map[i].type \in Claimed \cup {"conventional"} THEN "Usable" ELSE "Reserved")]
reserve_all(regions, spans) ==
  LET after[i \in 0 .. Len(spans)] ==
        IF i = 0 THEN regions ELSE reserve_span(after[i - 1], spans[i].base, spans[i].size)
  IN after[Len(spans)]
\* DMA pool first, then a window for the service VM and the demonstration guests, and one for an
\* operating system when one is staged; nothing is published unless every piece fits.
carve_all(regions, sizes) ==
  LET after[i \in 0 .. Len(sizes)] ==
        IF i = 0 THEN [regions |-> regions, spans |-> <<>>]
        ELSE LET c == carve_below(after[i - 1].regions, sizes[i], ALIGN, Top) IN
             [regions |-> c.regions, spans |-> after[i - 1].spans \o c.span]
  IN after[Len(sizes)].spans
plan(d) ==
  LET h == d.handoff
      spans == carve_all(reserve_all(from_uefi(h.map), <<d.heap>> \o claimed(h)),
                         <<DMA_SIZE, SERVICE_RAM + DEMO_RAM>> \o (IF h.os THEN <<OS_RAM>> ELSE <<>>))
  IN IF Len(spans) < (IF h.os THEN 3 ELSE 2) THEN <<>> ELSE spans
Window(s) == [next |-> s.base, end |-> s.base + s.size]
bring_up_memory_plan(d) ==
  LET p == plan(d) IN
  [d EXCEPT !.at = "page",
            !.dma = IF p = <<>> THEN {} ELSE {p[1]},
            !.service = IF p = <<>> THEN @ ELSE Window(p[2]),
            !.linux = IF Len(p) < 3 THEN @ ELSE Window(p[3])]

\* The highest conventional page of the low megabyte.
low_pages(map) ==
  UNION {Span(map[i].base, map[i].size) : i \in Types(map, {"conventional"})} \cap 1 .. LOW - 1
bring_up_ap_trampoline_page(d) ==
  [d EXCEPT !.at = "run", !.page = IF low_pages(d.handoff.map) = {} THEN 0 ELSE LargestOf(low_pages(d.handoff.map))]

\* RamWindow.take; the service VM and the demonstrations fall back to the heap.
take(d, w, size) ==
  LET base == align_up(d[w].next, ALIGN) IN
  IF d[w].end = 0 \/ base + size > d[w].end THEN d
  ELSE [d EXCEPT ![w].next = base + size, !.taken = Append(@, [base |-> base, size |-> size])]

MemInit ==
  \E h \in Handoffs :
    hb = [at |-> "heap", handoff |-> h, heap |-> [base |-> 0, size |-> 0], dma |-> {}, page |-> 0,
          service |-> [next |-> 0, end |-> 0], linux |-> [next |-> 0, end |-> 0], taken |-> <<>>]
MemNext ==
  \/ hb.at = "heap" /\ hb' = bring_up_heap(hb)
  \/ hb.at = "plan" /\ hb' = bring_up_memory_plan(hb)
  \/ hb.at = "page" /\ hb' = bring_up_ap_trampoline_page(hb)
  \/ hb.at = "run" /\ \E s \in {SERVICE_RAM, DEMO_RAM} : hb' = take(hb, "service", s)
  \/ hb.at = "run" /\ hb' = take(hb, "linux", OS_RAM)

\* Every piece of memory has one owner: the heap, the memory that holds boot state, the DMA
\* pool, each piece taken from a window and the page the other processors start on.
Owners ==
  LET of(s) == Span(s.base, s.size) IN
  <<of(hb.heap)>> \o <<UNION {of(s) : s \in RangeOf(claimed(hb.handoff))}>>
    \o <<UNION {of(s) : s \in hb.dma}>> \o <<IF hb.page = 0 THEN {} ELSE {hb.page}>>
    \o [i \in DOMAIN hb.taken |-> of(hb.taken[i])]
\* Memory has one owner and was RAM in the firmware's map, through heap, plan, trampoline page
\* and every piece a guest takes (bring_up_heap, bring_up_memory_plan, RamWindow::take).
BootMemoryOwnedOnce ==
  /\ \A i, j \in DOMAIN Owners : i # j => Apart(Owners[i], Owners[j])
  /\ \A i \in DOMAIN Owners : i # 2 =>
       Owners[i] \subseteq UNION {Span(hb.handoff.map[k].base, hb.handoff.map[k].size) :
                                    k \in Types(hb.handoff.map, {"conventional"})}

-----------------------------------------------------------------------------
\* The order of the bring-up. A machine has x2apic, deadline (TSC-deadline mode), hz (a
\* calibrated clock), cpus (a trampoline page and a processor list), tables (memory for the
\* kernel's own map), ecam and nic ("none", or "low" or "high": inside or beyond that map),
\* disks (storage controllers, in bus order), service (its RAM was found and it assembles), svm
\* and screen.
Order == <<"apic", "timer", "deadline_timer", "time", "deadline_ns", "quantum", "acpi", "smp", "net", "paging",
           "ecam", "net_mac", "storage", "service_vm", "virtualization", "framebuffer", "milestone", "park">>
Advance(d) == [d EXCEPT !.pc = @ + 1]
Fault(d) == [d EXCEPT !.fault = TRUE]
\* Every timer test shares the vector: ticks are counted, whichever timer they come from.
arm(d) == [d EXCEPT !.armed = TRUE, !.arms = @ + 1, !.before = d.ticks, !.iff = TRUE]
\* Programming an x2APIC register of an APIC that is not in that mode faults.
self_test(d, wanted) == IF ~wanted THEN Advance(d) ELSE IF ~d.m.x2apic THEN Fault(d) ELSE arm(d)
bring_up_apic(d) == Advance([d EXCEPT !.apic = d.m.x2apic])
bring_up_timer(d) == self_test(d, d.apic)
bring_up_deadline_timer(d) == self_test(d, d.m.deadline)
bring_up_time(d) == Advance([d EXCEPT !.hz = d.m.hz])
bring_up_deadline_ns(d) == self_test(d, d.hz /\ d.m.deadline)
bring_up_scheduler_quantum(d) == self_test(d, d.hz /\ d.m.deadline)
\* cli after the wait, then the verdict: a tick was counted. The quantum test runs a task on
\* each tick and starts over until it had its quanta; one without a tick ends it.
QUANTA == 2
wait_ends(d) ==
  LET fired == d.ticks > d.before
      more == Order[d.pc] = "quantum" /\ fired /\ d.quanta + 1 < QUANTA
      done == [d EXCEPT !.iff = FALSE, !.quanta = IF Order[d.pc] = "quantum" /\ fired THEN @ + 1 ELSE @]
  IN IF more THEN done
     ELSE Advance([done EXCEPT !.fired = IF fired THEN @ \cup {Order[d.pc]} ELSE @])
\* What later steps use is published: the processor list, the ECAM window, the NIC's registers.
bring_up_acpi(d) == Advance([d EXCEPT !.ids = d.m.cpus, !.ecam = d.m.ecam])
bring_up_smp(d) == IF d.hz /\ d.ids /\ ~d.m.x2apic THEN Fault(d) ELSE Advance(d)
bring_up_net(d) == Advance([d EXCEPT !.net = d.m.nic])
bring_up_paging(d) == Advance([d EXCEPT !.own = d.m.tables])
reach(d, where) == IF where = "high" /\ d.own THEN Fault(d) ELSE Advance(d)
bring_up_ecam(d) == reach(d, d.ecam)
bring_up_net_mac(d) == reach(d, d.net)
\* The first NVMe controller, else the first AHCI one. Its registers are mapped first; only the
\* last block of an emulated NVMe disk is overwritten.
driven(disks) ==
  LET kind(k) == {i \in DOMAIN disks : disks[i].kind = k} IN
  IF kind("nvme") # {} THEN {SmallestOf(kind("nvme"))}
  ELSE IF kind("ahci") # {} THEN {SmallestOf(kind("ahci"))} ELSE {}
bring_up_nvme(d, i) ==
  IF d.m.disks[i].bar = "none" \/ d.m.disks[i].broken THEN d
  ELSE [d EXCEPT !.written = IF d.m.disks[i].emulated THEN @ \cup {i} ELSE @, !.read = @ \cup {i}]
bring_up_ahci(d, i) ==
  IF d.m.disks[i].bar = "none" \/ d.m.disks[i].broken THEN d ELSE [d EXCEPT !.read = @ \cup {i}]
bring_up_storage(d) ==
  IF driven(d.m.disks) = {} THEN Advance(d)
  ELSE LET i == SmallestOf(driven(d.m.disks)) IN
       Advance(IF d.m.disks[i].kind = "nvme" THEN bring_up_nvme(d, i) ELSE bring_up_ahci(d, i))
\* Published before the nested tables are known to be there.
bring_up_service_vm(d) == Advance([d EXCEPT !.up = d.m.service])
bring_up_virtualization(d) ==
  IF d.m.svm /\ ~d.m.x2apic THEN Fault([d EXCEPT !.ran = @ + 1])
  ELSE Advance([d EXCEPT !.ran = IF d.m.svm THEN @ + 1 ELSE @])
bring_up_framebuffer(d) == Advance([d EXCEPT !.console = d.m.screen])
milestone_chain_verdict(up, guests, console) == up /\ guests > 0 /\ console
bring_up_milestone(d) == Advance([d EXCEPT !.complete = milestone_chain_verdict(d.up, d.ran, d.console)])
kernel_main_on_own_stack(d) ==
  CASE Order[d.pc] = "ecam" -> bring_up_ecam(d)
    [] Order[d.pc] = "net_mac" -> bring_up_net_mac(d)
    [] Order[d.pc] = "storage" -> bring_up_storage(d)
    [] Order[d.pc] = "service_vm" -> bring_up_service_vm(d)
    [] Order[d.pc] = "virtualization" -> bring_up_virtualization(d)
    [] Order[d.pc] = "framebuffer" -> bring_up_framebuffer(d)
    [] Order[d.pc] = "milestone" -> bring_up_milestone(d)
step(d) ==
  CASE Order[d.pc] = "apic" -> bring_up_apic(d)
    [] Order[d.pc] = "timer" -> bring_up_timer(d)
    [] Order[d.pc] = "deadline_timer" -> bring_up_deadline_timer(d)
    [] Order[d.pc] = "time" -> bring_up_time(d)
    [] Order[d.pc] = "deadline_ns" -> bring_up_deadline_ns(d)
    [] Order[d.pc] = "quantum" -> bring_up_scheduler_quantum(d)
    [] Order[d.pc] = "acpi" -> bring_up_acpi(d)
    [] Order[d.pc] = "smp" -> bring_up_smp(d)
    [] Order[d.pc] = "net" -> bring_up_net(d)
    [] Order[d.pc] = "paging" -> bring_up_paging(d)
    [] OTHER -> kernel_main_on_own_stack(d)

ChainInit ==
  \E m \in Machines :
    hb = [m |-> m, pc |-> 1, fault |-> FALSE, armed |-> FALSE, irr |-> FALSE, iff |-> FALSE, arms |-> 0,
          ticks |-> 0, before |-> 0, fired |-> {}, quanta |-> 0, apic |-> FALSE, hz |-> FALSE, ids |-> FALSE,
          ecam |-> "none", net |-> "none", own |-> FALSE, read |-> {}, written |-> {}, up |-> FALSE, ran |-> 0,
          console |-> FALSE, complete |-> FALSE]
kernel_entry ==
  ~hb.fault /\ ~hb.iff /\ hb.pc < Len(Order) /\ hb' = step(hb)
\* The wait ends on a tick or when its spins are used up; a timer may expire at any time.
WaitEnds == hb.iff /\ hb' = wait_ends(hb)
Expire == hb.armed /\ hb' = [hb EXCEPT !.armed = FALSE, !.irr = TRUE]
timer_handler == hb.iff /\ hb.irr /\ hb' = [hb EXCEPT !.irr = FALSE, !.ticks = @ + 1]
ChainNext == kernel_entry \/ WaitEnds \/ Expire \/ timer_handler

\* A tick is never counted that no timer made, interrupts are open only inside a self-test, a
\* self-test that ran on no timer never passes, the milestone is complete only when the service
\* VM, a guest and the console were all there, one controller is driven and no disk but an
\* emulated one is written, and the kernel stops on a fault only on a machine without x2APIC or
\* with registers beyond its own map (kernel_entry, bring_up_storage, bring_up_milestone).
ChainHonest ==
  /\ hb.ticks + (IF hb.armed THEN 1 ELSE 0) + (IF hb.irr THEN 1 ELSE 0) <= hb.arms
  /\ hb.iff => Order[hb.pc] \in {"timer", "deadline_timer", "deadline_ns", "quantum"}
  /\ hb.fired # {} => hb.ticks > 0
  /\ "quantum" \in hb.fired => hb.ticks >= QUANTA
  /\ hb.complete => hb.m.service /\ hb.m.svm /\ hb.m.screen
  /\ Cardinality(hb.read) <= 1 /\ \A i \in hb.written : hb.m.disks[i].emulated
  /\ hb.fault => ~hb.m.x2apic \/ "high" \in {hb.m.ecam, hb.m.nic}

-----------------------------------------------------------------------------
\* start_aps. A processor takes the start message only once its reset has settled, and runs
\* the trampoline, which counts it, at its own pace.
aps == SelectSeq(Ids, LAMBDA i : i # Bsp)
SmpInit ==
  hb = [next |-> 1, phase |-> "install", ap |-> [i \in RangeOf(Ids) |-> IF i = Bsp THEN "boot" ELSE "firmware"],
        page |-> "free", count |-> 0, polls |-> 0, report |-> -1]
install_trampoline(d) == [d EXCEPT !.page = "trampoline", !.count = 0, !.phase = IF aps = <<>> THEN "end" ELSE "init"]
send_init(d) == [d EXCEPT !.ap[aps[d.next]] = "resetting", !.phase = "startup"]
sipi(d) == [d EXCEPT !.ap[aps[d.next]] = IF @ = "waiting" THEN "running" ELSE @]
send_startup(d) == [sipi(d) EXCEPT !.phase = "again"]
send_again(d) ==
  IF d.next < Len(aps) THEN [sipi(d) EXCEPT !.next = @ + 1, !.phase = "init"] ELSE [sipi(d) EXCEPT !.phase = "poll"]
poll(d) ==
  IF d.count >= Len(aps) \/ d.polls + 1 = MaxPolls
  THEN [d EXCEPT !.polls = @ + 1, !.report = d.count, !.phase = "end"]
  ELSE [d EXCEPT !.polls = @ + 1]
start_aps ==
  \/ hb.phase = "install" /\ hb' = install_trampoline(hb)
  \/ hb.phase = "init" /\ hb' = send_init(hb)
  \/ hb.phase = "startup" /\ hb' = send_startup(hb)
  \/ hb.phase = "again" /\ hb' = send_again(hb)
  \/ hb.phase = "poll" /\ hb' = poll(hb)
Settle == \E i \in DOMAIN hb.ap : hb.ap[i] = "resetting" /\ hb' = [hb EXCEPT !.ap[i] = "waiting"]
ap_trampoline == \E i \in DOMAIN hb.ap : hb.ap[i] = "running" /\ hb' = [hb EXCEPT !.ap[i] = "halted", !.count = @ + 1]
SmpNext == start_aps \/ Settle \/ ap_trampoline

\* Each processor that came up is counted once, however late; none runs before its code is in
\* place; the boot processor is never reset; and what is reported never exceeds what came up,
\* and falls short of the list only after the whole wait (start_aps).
ApsCountedOnce ==
  /\ hb.count = Cardinality({i \in DOMAIN hb.ap : hb.ap[i] = "halted"})
  /\ Bsp \in DOMAIN hb.ap => hb.ap[Bsp] = "boot"
  /\ \A i \in DOMAIN hb.ap : hb.ap[i] \in {"running", "halted"} => hb.page = "trampoline"
  /\ hb.report <= hb.count
  /\ hb.report \in 0 .. Len(aps) - 1 => hb.polls = MaxPolls

-----------------------------------------------------------------------------
\* program_unit. An entry of the context table is written in memory and seen by the unit at
\* once when it is coherent, else when the line leaves the cache, at the latest on the flush.
\* A command may finish late, or not before the driver has given up on it.
Domains == {"host", "guest"}
IommuInit ==
  \E coherent \in BOOLEAN, guest \in Functions \cup {0}, old \in {"none", "old"} :
    hb = [at |-> "tables", coherent |-> coherent, guest |-> guest, table |-> [f \in Functions |-> "none"],
          seen |-> [f \in Functions |-> "none"], latched |-> FALSE, te |-> FALSE, busy |-> "none",
          cache |-> [f \in Functions |-> old], tlb |-> {old} \ {"none"}, used |-> {}]
\* Both halves of an entry are stored one after the other.
write_tables(d) == [d EXCEPT !.table = [f \in Functions |-> "host"], !.at = "flush"]
write_half(d) == [d EXCEPT !.table[d.guest] = "torn", !.at = "other half"]
write_whole(d) == [d EXCEPT !.table[d.guest] = "guest", !.at = "flush device"]
flush(d, next) == [d EXCEPT !.seen = d.table, !.at = next]
See(d) == IF d.coherent THEN [d EXCEPT !.seen = d.table] ELSE d
issue(d, command) == [d EXCEPT !.busy = command, !.at = command]
After == [srtp |-> "ctx", ctx |-> "tlb", tlb |-> "te", te |-> "assign", dev |-> "dom", dom |-> "done"]
\* One poll loop: the command finished, or the wait is over and the unit is left as it is.
poll_done(d) ==
  IF After[d.at] \in DOMAIN After THEN issue(d, After[d.at]) ELSE [d EXCEPT !.at = After[d.at]]
assign(d) == IF d.guest = 0 THEN [d EXCEPT !.at = "done"] ELSE write_half(d)
program_unit ==
  \/ hb.at = "tables" /\ hb' = See(write_tables(hb))
  \/ hb.at = "flush" /\ hb' = issue(flush(hb, "srtp"), "srtp")
  \/ hb.at \in DOMAIN After /\ hb.busy = "none" /\ hb' = poll_done(hb)
  \/ hb.at \in DOMAIN After /\ hb.busy # "none" /\ hb' = [hb EXCEPT !.at = "error"]
  \/ hb.at = "assign" /\ hb' = See(assign(hb))
  \/ hb.at = "other half" /\ hb' = See(write_whole(hb))
  \/ hb.at = "flush device" /\ hb' = issue(flush(hb, "dev"), "dev")
\* What the unit does: an invalidation by device or domain drops what is tagged with the
\* domain it names.
finish(d) ==
  LET c == d.busy IN
  [d EXCEPT !.busy = "none", !.latched = @ \/ c = "srtp", !.te = @ \/ c = "te",
            !.cache = IF c = "ctx" THEN [f \in Functions |-> "none"]
                      ELSE IF c = "dev" /\ @[d.guest] = "guest" THEN [@ EXCEPT ![d.guest] = "none"] ELSE @,
            !.tlb = IF c = "tlb" THEN {} ELSE IF c = "dom" THEN @ \ {"guest"} ELSE @]
Finish == hb.busy # "none" /\ hb' = finish(hb)
Evict == \E f \in Functions : hb.seen[f] # hb.table[f] /\ hb' = [hb EXCEPT !.seen[f] = hb.table[f]]
Dma ==
  \E f \in Functions :
    LET entry == IF hb.cache[f] # "none" THEN hb.cache[f] ELSE hb.seen[f] IN
    /\ hb.te
    /\ hb' = [hb EXCEPT !.cache[f] = entry, !.tlb = @ \cup {entry}, !.used = @ \cup {<<f, entry>>}]
IommuNext == program_unit \/ Finish \/ Evict \/ Dma

\* Once translation is on every transfer goes through a domain this code built, never through
\* what the firmware left in the unit's caches or through an unwritten entry; only the
\* assigned function is ever seen outside the host domain; and when the programming reports
\* success each function's entry names its one domain (program_unit, assign_device_to_domain).
DmaTranslated ==
  /\ hb.te => hb.latched /\ \A f \in Functions : hb.seen[f] \in Domains \cup {"torn"} /\ hb.cache[f] # "old"
  /\ "old" \notin {u[2] : u \in hb.used} /\ (hb.te => "old" \notin hb.tlb)
  /\ \A u \in hb.used : u[2] = "host" \/ u[1] = hb.guest
  /\ hb.at = "done" => hb.te /\ \A f \in Functions : hb.seen[f] = IF f = hb.guest THEN "guest" ELSE "host"

-----------------------------------------------------------------------------
\* assemble. Addresses are in halves of a page; a VM has room for MAX_WINDOWS windows. A size
\* of 0 stands for too little RAM, or no processor.
PG == 2
MAX_WINDOWS == 3
MAX_DEVICES == 2
page_aligned(w) ==
  LET base == (w.base \div PG) * PG
  IN [base |-> base, size |-> ((w.base + w.size + PG - 1) \div PG) * PG - base]
candidates(s) == [i \in DOMAIN s |-> page_aligned(s[i])]
collect_mmio_windows(s) ==
  LET all == s.devices \o s.extra IN candidates(SelectSeq(all, LAMBDA w : w.size # 0))
WindowCells(w) == Span(w.base, w.size)
\* Insertion sort by base, then each window joins the last one it reaches.
insert(sorted, w) ==
  LET n == Cardinality({i \in DOMAIN sorted : sorted[i].base <= w.base})
  IN SubSeq(sorted, 1, n) \o <<w>> \o SubSeq(sorted, n + 1, Len(sorted))
sort_windows_by_base(ws) ==
  LET after[i \in 0 .. Len(ws)] == IF i = 0 THEN <<>> ELSE insert(after[i - 1], ws[i]) IN after[Len(ws)]
join(merged, w) ==
  LET last == merged[Len(merged)] IN
  IF merged # <<>> /\ w.base <= last.base + last.size
  THEN [merged EXCEPT ![Len(merged)].size = LargestOf({last.size, w.base + w.size - last.base})]
  ELSE Append(merged, w)
merge_windows(ws) ==
  LET sorted == sort_windows_by_base(ws)
      after[i \in 0 .. Len(ws)] == IF i = 0 THEN <<>> ELSE join(after[i - 1], sorted[i])
  IN after[Len(ws)]
overlaps(v, w) == v.base < w.base + w.size /\ w.base < v.base + v.size
assemble(d) ==
  LET s == d.spec
      ws == collect_mmio_windows(s)
      merged == merge_windows(ws)
      ram == [base |-> s.ram, size |-> s.size]
  IN IF s.size = 0 \/ Len(s.devices) > MAX_DEVICES \/ Len(ws) > MAX_WINDOWS \/ s.ram % (2 * PG) # 0
          \/ \E i \in DOMAIN merged : overlaps(merged[i], ram)
     THEN [d EXCEPT !.at = "refused"]
     ELSE [d EXCEPT !.at = "up", !.windows = merged, !.owner = [i \in DOMAIN s.devices |-> 0]]
transfer_device(d, i, guest) ==
  IF i \notin DOMAIN d.owner \/ d.owner[i] # 0 THEN d ELSE [d EXCEPT !.owner[i] = guest, !.moves = Append(@, i)]

AssembleInit == \E s \in Specs : hb = [at |-> "spec", spec |-> s, windows |-> <<>>, owner |-> <<>>, moves |-> <<>>]
AssembleNext ==
  \/ hb.at = "spec" /\ hb' = assemble(hb)
  \/ hb.at = "up" /\ \E i \in 1 .. MAX_DEVICES + 1, g \in 1 .. 2 : hb' = transfer_device(hb, i, g)

\* The windows of a service VM are whole pages, in order and apart with a gap between, cover
\* every register window and nothing that is not on one of their pages, and stay clear of its
\* RAM; a device leaves it once (assemble, merge_windows, transfer_device).
WindowsExact ==
  hb.at = "up" =>
    /\ UNION {WindowCells(w) : w \in RangeOf(hb.windows)}
         = UNION {Span((a \div PG) * PG, PG) : a \in UNION {WindowCells(w) : w \in RangeOf(hb.spec.devices \o hb.spec.extra)}}
    /\ \A i \in DOMAIN hb.windows : hb.windows[i].base % PG = 0 /\ hb.windows[i].size % PG = 0
    /\ \A i \in 2 .. Len(hb.windows) : hb.windows[i - 1].base + hb.windows[i - 1].size < hb.windows[i].base
    /\ \A w \in RangeOf(hb.windows) : Apart(WindowCells(w), Span(hb.spec.ram, hb.spec.size))
    /\ \A i, j \in DOMAIN hb.moves : i # j => hb.moves[i] # hb.moves[j]

=============================================================================
