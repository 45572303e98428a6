---------------------------- MODULE GuestFirmware ----------------------------
(***************************************************************************)
(* How the boot hypervisor sets up the guest it runs and what its firmware *)
(* works with (linux_guest.rs): the placement of a Linux image or of the   *)
(* firmware flash, the assigned disk, the boot entry seeded into the       *)
(* variable store (efivars.rs), the NOR flash behind the store             *)
(* (pflash.rs), fw_cfg (fwcfg.rs) and the mirrored display (ramfb.rs).     *)
(***************************************************************************)
EXTENDS Integers, Sequences, FiniteSets

CONSTANTS
  Payloads,     \* what may be staged: Linux images and firmware images
  Ram,          \* guest RAM, in units of half a page
  Windows,      \* sizes the window kept for guest RAM may have
  Controllers,  \* the NVMe controllers found: a sequence of [serial, starts]
  Assignments,  \* disk.txt: a serial, and the boot option to seed (0: none)
  Stores,       \* variable stores the flash may hold: [vars, clean, room]; clean when the
                \* store can be read and the room behind it is erased
  Ops,          \* what the guest does once it runs
  Screen,       \* [width, height] of the host screen
  MaxGot        \* bound: bytes read of one fw_cfg item

VARIABLE fw

Nothing == 0
MaxOf(a, b) == IF a >= b THEN a ELSE b
MinOf(a, b) == IF a <= b THEN a ELSE b
SmallestOf(S) == CHOOSE x \in S : \A y \in S : x <= y

-----------------------------------------------------------------------------
PG == 2                    \* units of a page
LOW_MEM_END == 10 * PG     \* above it the legacy hole, up to EXT_MEM_START
EXT_MEM_START == 12 * PG
LOAD == 16 * PG            \* KERNEL_LOAD_GPA
FLASH_TOP == 64 * PG
MAX_FLASH == 8 * PG
align_up(x, a) == ((x + a - 1) \div a) * a
align_down(x, a) == (x \div a) * a
Span(from, len) == from .. from + len - 1

\* The kernel at its alignment with the room it unpacks into, the initial RAM disk as high
\* as the image takes it.
kernel_at(p) == align_up(LOAD, p.alignment)
kernel_end(p) == align_up(kernel_at(p) + MaxOf(p.init_size, p.kernel), PG)
initrd_at(p) == align_down(MinOf(Ram, p.initrd_max) - p.initrd, PG)
plan_layout(p) ==
  IF \/ ~p.relocatable /\ p.pref # LOAD
     \/ kernel_end(p) > Ram
     \/ p.initrd # 0 /\ (MinOf(Ram, p.initrd_max) < p.initrd \/ initrd_at(p) < kernel_end(p))
  THEN <<>>
  ELSE <<Span(kernel_at(p), MaxOf(p.init_size, p.kernel))>>
         \o (IF p.initrd = 0 THEN <<>> ELSE <<Span(initrd_at(p), p.initrd)>>)
\* What else the host writes into guest RAM: descriptor table, page tables, the first
\* stack page, boot parameters and command line.
low_tables == <<Span(PG, 1), Span(2 * PG, 3 * PG), Span(6 * PG, PG), Span(7 * PG, PG), Span(8 * PG, PG)>>
\* The memory the guest is told is RAM.
e820_ram == Span(0, LOW_MEM_END) \cup Span(EXT_MEM_START, Ram - EXT_MEM_START)

\* The two flash images end at 4 GiB, variables below code, above all RAM.
flash_layout(p) ==
  IF \/ \E n \in {p.code, p.vars} : n \notin 1 .. MAX_FLASH \/ n % PG # 0
     \/ FLASH_TOP - p.code - p.vars < Ram
  THEN <<>>
  ELSE <<Span(FLASH_TOP - p.code - p.vars, p.vars), Span(FLASH_TOP - p.code, p.code)>>

\* boot: the image is placed first, then the RAM window is taken; either may refuse.
boot_with(d, firmware, spans) ==
  IF spans = <<>> \/ d.window < Ram THEN [d EXCEPT !.at = "end"]
  ELSE [d EXCEPT !.at = "disk", !.window = @ - Ram, !.spans = spans, !.firmware = firmware]
boot_linux_direct(d, p) ==
  boot_with(d, FALSE, IF plan_layout(p) = <<>> THEN <<>> ELSE plan_layout(p) \o low_tables)
boot_firmware(d, p) == boot_with(d, TRUE, flash_layout(p))
boot(d, p) == IF p.kind = "linux" THEN boot_linux_direct(d, p) ELSE boot_firmware(d, p)

-----------------------------------------------------------------------------
\* open_disk, one controller a step: the one with the serial is kept, another that
\* started is shut down again. One that fails once enabled ("half") is left as it is.
init(d, c) == IF c.starts = "no" THEN d ELSE [d EXCEPT !.up = @ \cup {d.next}]
probe(d, a) ==
  LET c == Controllers[d.next] IN
  IF c.starts = "yes" /\ c.serial = a.serial
  THEN [init(d, c) EXCEPT !.at = "seed", !.disk = d.next, !.option = a.option]
  ELSE [init(d, c) EXCEPT !.next = @ + 1, !.up = IF c.starts = "yes" THEN @ \ {d.next} ELSE @]
\* A disk.txt that is missing or does not parse assigns nothing.
disk_config(a) == a.serial # Nothing
\* No assignment, or no controller left: the guest runs without a disk or an entry.
attach_disk(d, a) ==
  IF ~disk_config(a) \/ d.next > Len(Controllers) THEN [d EXCEPT !.at = "seed"] ELSE probe(d, a)

-----------------------------------------------------------------------------
\* A variable of the store: a boot option with its number, the boot order, or another.
BootOrder == 98
Other == 99
Var(name, data) == [name |-> name, data |-> data, live |-> TRUE]
Live(s) == {i \in 1 .. Len(s) : s[i].live}
Named(s, names) == {i \in Live(s) : s[i].name \in names}
Numbers == 0 .. 9
order_var(s) == IF Named(s, {BootOrder}) = {} THEN Nothing ELSE SmallestOf(Named(s, {BootOrder}))
order_of(s) == IF order_var(s) = Nothing THEN <<>> ELSE s[order_var(s)].data
existing(s, option) == {i \in Named(s, Numbers) : s[i].data = <<option>>}
\* The number of the entry that holds the option already, or the first free one.
number(s, option) ==
  IF existing(s, option) # {} THEN s[SmallestOf(existing(s, option))].name
  ELSE SmallestOf(Numbers \ {s[i].name : i \in Named(s, Numbers)})
rewrites_order(s, n) == order_of(s) = <<>> \/ Head(order_of(s)) # n
pending(s, option, n) ==
  (IF existing(s, option) # {} THEN <<>> ELSE <<Var(n, <<option>>)>>)
    \o (IF rewrites_order(s, n)
        THEN <<Var(BootOrder, <<n>> \o SelectSeq(order_of(s), LAMBDA o : o # n))>> ELSE <<>>)
\* The store is read and its room checked before anything is written.
fits(v, option) ==
  LET p == pending(v.vars, option, number(v.vars, option)) IN
  p = <<>> \/ (v.clean /\ Len(v.vars) + Len(p) <= v.room)
retire_order(s, n) ==
  [i \in 1 .. Len(s) |-> IF rewrites_order(s, n) /\ i = order_var(s) THEN [s[i] EXCEPT !.live = FALSE] ELSE s[i]]
seed_store(v, option) ==
  LET n == number(v.vars, option) IN
  IF fits(v, option) THEN [v EXCEPT !.vars = retire_order(@, n) \o pending(@, option, n)] ELSE v
\* Only a firmware guest has the variables.
seed_boot_entry(d) ==
  [d EXCEPT !.at = "run",
            !.store = IF d.firmware /\ d.option # Nothing THEN seed_store(@, d.option) ELSE @]

-----------------------------------------------------------------------------
\* The chip: two blocks of two cells.
BLOCK == 2
Cells == 0 .. 2 * BLOCK - 1
ERASED == "erased"
block_of(o) == {c \in Cells : c \div BLOCK = o \div BLOCK}
Command == [ff |-> "array", x70 |-> "status", x90 |-> "id", x10 |-> "program", x20 |-> "erase"]
command(d, v) ==
  IF v \in DOMAIN Command THEN [d EXCEPT !.mode = Command[v]]
  ELSE IF v = "x50" THEN [d EXCEPT !.status = {}] ELSE d
Done(d, status) == [d EXCEPT !.status = @ \cup status, !.mode = "status"]
chip_write(d, o, v) ==
  CASE d.mode = "program" -> Done([d EXCEPT !.cells[o] = v], {"ready"})
    [] d.mode = "erase" /\ v = "xd0" ->
         Done([d EXCEPT !.cells = [c \in Cells |-> IF c \in block_of(o) THEN ERASED ELSE @[c]]], {"ready"})
    [] d.mode = "erase" /\ v # "xd0" -> Done(d, {"ready", "erase error"})
    [] OTHER -> command(d, v)
\* What the chip answers to a read that faults.
chip_read(d, o) ==
  IF d.mode = "array" THEN {d.cells[o]} ELSE IF d.mode = "id" THEN {"id"} ELSE d.status
\* A store always faults (the flash is write-protected). When it changes whether the chip
\* shows its array, the pages are mapped or unmapped and a flush is asked for; the request
\* is never withdrawn, so from then on every entry flushes.
remap(d, was) ==
  IF (d.mode = "array") = was THEN d ELSE [d EXCEPT !.mapped = (d.mode = "array"), !.flush = TRUE]
enter(d) == IF d.flush THEN [d EXCEPT !.tlb = FALSE] ELSE d
flash_store(d, o, v) == enter(remap(chip_write(d, o, v), d.mode = "array"))
\* A load goes through the mapping, or a cached translation, or faults to the chip.
direct(d) == d.mapped \/ d.tlb
load_value(d, o) == IF direct(d) THEN {d.cells[o]} ELSE chip_read(d, o)
guest_load(d) == IF direct(d) THEN [d EXCEPT !.tlb = TRUE] ELSE enter(d)

-----------------------------------------------------------------------------
\* fw_cfg: item 0 is fixed, 1 a read-only file, 2 the display's (address, width, height,
\* stride), 3 does not exist.
DISPLAY == 2
machine_fwcfg == <<<<5>>, <<7, 8, 9>>, <<0, 0, 0, 0>>, <<>>>>
DMA_MAX == 4
selected(d) == d.items[d.sel + 1]
at_offset(item, i) == IF i < Len(item) THEN item[i + 1] ELSE 0
select(d, s) == [d EXCEPT !.sel = s, !.off = 0, !.got = <<>>]
\* The ghost got holds what the guest was given since it selected the item; Gap, what it
\* skipped or wrote.
Gap == -1
chunk(d, n) == [i \in 1 .. n |-> at_offset(selected(d), d.off + i - 1)]
advance(d, bytes) == [d EXCEPT !.off = @ + Len(bytes), !.got = @ \o bytes]
io_read(d, n) == advance(d, chunk(d, n))
writable_here(d, n) == d.sel = DISPLAY /\ d.off + n <= Len(selected(d))
write_selected(d, ok, bytes) ==
  IF writable_here(d, Len(bytes)) /\ ok
  THEN [d EXCEPT !.items[d.sel + 1] = [i \in 1 .. Len(@) |->
                    IF i \in d.off + 1 .. d.off + Len(bytes) THEN bytes[i - d.off] ELSE @[i]]]
  ELSE d
\* One request: the control word may select, then reads, writes or skips; the data buffer
\* may lie outside RAM. An answer is written over the control word.
answer(d, ok) == [d EXCEPT !.reply = IF ok THEN "done" ELSE "error"]
Gaps(n) == [i \in 1 .. n |-> Gap]
transfer(d, r) ==
  LET n == Len(r.bytes) IN
  CASE n > DMA_MAX -> answer(d, FALSE)
    [] n <= DMA_MAX /\ r.op = "read" /\ r.ok -> answer(advance(d, chunk(d, n)), TRUE)
    [] n <= DMA_MAX /\ r.op = "read" /\ ~r.ok -> answer(advance(d, Gaps(n)), FALSE)
    [] n <= DMA_MAX /\ r.op = "write" ->
         answer(advance(write_selected(d, r.ok, r.bytes), Gaps(n)), writable_here(d, n) /\ r.ok)
    [] OTHER -> answer(advance(d, Gaps(n)), TRUE)
dma(d, r) == transfer(IF r.select = Nothing THEN d ELSE select(d, r.select), r)

\* The display the guest configured, and the part of it the mirror copies to the screen.
parse(c) ==
  c[1] # 0 /\ c[2] >= 1 /\ c[3] >= 1 /\ c[4] >= c[2]
blit(c) ==
  {c[1] + y * c[4] + x : y \in 0 .. MinOf(c[3], Screen.height) - 1, x \in 0 .. MinOf(c[2], Screen.width) - 1}
tick(d) ==
  LET c == d.items[DISPLAY + 1] IN
  [d EXCEPT !.shown = IF parse(c) /\ c[1] + c[4] * c[3] <= Ram THEN blit(c) ELSE {}]

-----------------------------------------------------------------------------
Blank(p, a, v, w) ==
  [at |-> "boot", payload |-> p, assigned |-> a, window |-> w, spans |-> <<>>, firmware |-> FALSE,
   next |-> 1, disk |-> Nothing, up |-> {}, option |-> Nothing, store |-> v, before |-> v.vars,
   mode |-> "array", status |-> {"ready"}, cells |-> [c \in Cells |-> ERASED], mapped |-> TRUE,
   flush |-> FALSE, tlb |-> FALSE,
   sel |-> 0, off |-> 0, got |-> <<>>, items |-> machine_fwcfg, reply |-> "none", shown |-> {}]
Init == \E p \in Payloads, a \in Assignments, v \in Stores, w \in Windows : fw = Blank(p, a, v, w)

\* What a guest that runs can do; an instruction the host cannot decode ends the run, a
\* store to the code image changes nothing.
Act(d, op) ==
  CASE op[1] = "store" -> flash_store(d, op[2], op[3])
    [] op[1] = "load" -> guest_load(d)
    [] op[1] = "store code" -> enter(d)
    [] op[1] = "undecodable" -> [d EXCEPT !.at = "end"]
    [] op[1] = "select" -> select(d, op[2])
    [] op[1] = "in" -> io_read(d, op[2])
    [] op[1] = "dma" -> dma(d, op[2])
    [] OTHER -> tick(d)
Boot == fw.at = "boot" /\ fw' = boot(fw, fw.payload)
AttachDisk == fw.at = "disk" /\ fw' = attach_disk(fw, fw.assigned)
Seed == fw.at = "seed" /\ fw' = seed_boot_entry(fw)
\* Only a firmware guest has flash, fw_cfg and a display.
Run == fw.at = "run" /\ fw.firmware /\ \E op \in Ops : fw' = Act(fw, op) /\ Len(fw'.got) <= MaxGot
Next == Boot \/ AttachDisk \/ Seed \/ Run

-----------------------------------------------------------------------------
\* Nothing the host puts into the guest overlaps anything else. A Linux guest's images and
\* tables lie in memory it is told is RAM; a firmware guest's flash lies above its RAM.
Placed ==
  /\ \A i, j \in 1 .. Len(fw.spans) : i # j => fw.spans[i] \cap fw.spans[j] = {}
  /\ \A i \in 1 .. Len(fw.spans) :
       IF fw.firmware THEN \A x \in fw.spans[i] : x >= Ram /\ x < FLASH_TOP
       ELSE fw.spans[i] \subseteq e820_ram
\* When the guest runs, the search has left no controller that works running but the
\* guest's own, and that one has the serial that was assigned.
OneDisk ==
  fw.at = "run" =>
    /\ {i \in fw.up : Controllers[i].starts = "yes"} = {fw.disk} \ {Nothing}
    /\ fw.disk # Nothing => Controllers[fw.disk].serial = fw.assigned.serial
\* After a successful seeding the option is what the firmware boots first, there is one
\* boot order that keeps every other entry in its place, no other variable changed, what was
\* added went into erased room, and a second seeding finds nothing to do. One that does not fit leaves the store as it was.
LiveData(s) == {<<s[i].name, s[i].data>> : i \in {j \in Live(s) : s[j].name # BootOrder}}
BootsFirst(s, option) ==
  /\ Cardinality(Named(s, {BootOrder})) = 1
  /\ order_of(s) # <<>>
  /\ \E i \in Live(s) : s[i].name = Head(order_of(s)) /\ s[i].data = <<option>>
OthersKept(now, before, option) ==
  /\ LiveData(now) = LiveData(before) \cup {<<Head(order_of(now)), <<option>>>>}
  /\ Tail(order_of(now)) = SelectSeq(order_of(before), LAMBDA o : o # Head(order_of(now)))
SeededFirst ==
  fw.at = "run" /\ fw.firmware /\ fw.option # Nothing =>
    \/ fw.store.vars = fw.before /\ (~fw.store.clean \/ Len(fw.before) + 2 > fw.store.room)
    \/ /\ fw.store.vars = fw.before \/ (fw.store.clean /\ Len(fw.store.vars) <= fw.store.room)
       /\ BootsFirst(fw.store.vars, fw.option)
       /\ OthersKept(fw.store.vars, fw.before, fw.option)
       /\ seed_store(fw.store, fw.option) = fw.store
\* A load gives what the chip shows at that moment, whether it goes through the mapping, a
\* cached translation or a fault.
LoadsCurrent == \A o \in Cells : load_value(fw, o) = chip_read(fw, o)
\* The bytes the guest is given of an item, by port or by DMA, are its bytes in order from
\* the first, zero beyond the end.
StreamInOrder ==
  fw.sel # DISPLAY => \A i \in 1 .. Len(fw.got) : fw.got[i] # Gap => fw.got[i] = at_offset(selected(fw), i - 1)
\* Only the display's file can change, and no file changes its length.
FilesKept ==
  \A i \in 1 .. Len(fw.items) :
    IF i = DISPLAY + 1 THEN Len(fw.items[i]) = Len(machine_fwcfg[i]) ELSE fw.items[i] = machine_fwcfg[i]
\* The mirror reads guest RAM only, whatever half-written description it finds.
MirrorInRam == \A x \in fw.shown : x \in 0 .. Ram - 1
FirmwareServed ==
  Placed /\ OneDisk /\ SeededFirst /\ LoadsCurrent /\ StreamInOrder /\ FilesKept /\ MirrorInRam
=============================================================================
