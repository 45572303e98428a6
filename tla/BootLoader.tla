----------------------------- MODULE BootLoader ------------------------------
(***************************************************************************)
(* The UEFI loader of enlil-boot: reading the guests' sections of          *)
(* enlil.toml (esp.rs), staging files from the boot volume, collecting     *)
(* what firmware knows and handing it to the kernel (main.rs, handoff.rs); *)
(* and the partition table a guest's partition is found in (gpt.rs).  The  *)
(* firmware's services are external: each call may fail.                   *)
(***************************************************************************)
EXTENDS Integers, Sequences, FiniteSets, SequencesExt

CONSTANTS
  Ids,               \* guest identifiers that may stand in a section's header
  BadId,             \* one the firmware paths do not allow
  MaxLines,          \* bound on the lines of a configuration
  MaxFaults,         \* bound on the firmware calls of one boot that fail or find nothing
  MAX_BOOT_GUESTS,
  MAX_PCI_ROOT_BRIDGES,
  SECTOR,            \* in units of eight bytes, like the next
  MIN_ENTRY_BYTES

VARIABLES
  toml,    \* the lines of a configuration file
  ld,      \* the loader: its step, what it staged, what it hands over
  gpt      \* a disk, the partition asked for and the answer

None == [some |-> FALSE]
Some(x) == [some |-> TRUE, is |-> x]

-----------------------------------------------------------------------------
(* Sections of the configuration *)

\* A line without its comment and blanks: the header of a guest, of a table within a guest's
\* or of any other table, a key with its value, or nothing.
Header(id) == [k |-> "guest", id |-> id]
SubTable(id) == [k |-> "sub", id |-> id]
KeyValue(key, v) == [k |-> "kv", key |-> key, v |-> v]
Other == [k |-> "table"]
Lines ==
  {Header(i) : i \in Ids \cup {BadId}} \cup {SubTable(i) : i \in Ids} \cup {Other}
    \cup {KeyValue("boot", v) : v \in {"firmware", "kernel"}}

is_valid_guest_id(id) == id \in Ids
guest_header_id(line) ==
  IF line.k = "guest" THEN IF is_valid_guest_id(line.id) THEN Some(line.id) ELSE None ELSE None

\* The identifiers the closure is called with; those seen are remembered in a table of
\* MAX_BOOT_GUESTS slots.
is_duplicate(id, seen) == id \in ToSet(seen)
for_each_guest_id(config) ==
  FoldLeft(LAMBDA acc, line :
             LET h == guest_header_id(line)
             IN IF ~h.some THEN acc
                ELSE IF is_duplicate(h.is, acc.seen) THEN acc
                ELSE [seen |-> IF Len(acc.seen) < MAX_BOOT_GUESTS THEN Append(acc.seen, h.is) ELSE acc.seen,
                      called |-> Append(acc.called, h.is)],
           [seen |-> <<>>, called |-> <<>>], config).called

guest_value(config, id, key) ==
  FoldLeft(LAMBDA acc, line :
             IF acc.value.some THEN acc
             ELSE IF line.k \in {"guest", "sub", "table"} THEN [acc EXCEPT !.in_guest = guest_header_id(line) = Some(id)]
             ELSE IF acc.in_guest /\ line.key = key THEN [acc EXCEPT !.value = Some(line.v)] ELSE acc,
           [in_guest |-> FALSE, value |-> None], config).value

guest_boots_firmware(config, id) == guest_value(config, id, "boot") = Some("firmware")

collect_guest_ids(config) ==
  LET ids == for_each_guest_id(config) IN SubSeq(ids, 1, IF Len(ids) < MAX_BOOT_GUESTS THEN Len(ids) ELSE MAX_BOOT_GUESTS)

TomlInit == toml = <<>>
TomlNext == Len(toml) < MaxLines /\ \E l \in Lines : toml' = Append(toml, l)

\* Line i stands in the section of guest id.
Under(config, i, id) ==
  \E j \in 1 .. i - 1 : config[j] = Header(id) /\ \A k \in j + 1 .. i - 1 : config[k].k = "kv"

\* Each guest the file names, in the order of their first headers and never one twice, and of a
\* guest's keys the first in a section of its own: keys of other tables, of its sub-tables and
\* of a section that is not a guest's are never taken for its own (esp.rs:51-106, 137-166).
SectionsRead ==
  /\ LET ids == collect_guest_ids(toml)
         first(id) == CHOOSE i \in DOMAIN toml : toml[i] = Header(id) /\ \A k \in 1 .. i - 1 : toml[k] # Header(id)
         named == {i \in Ids : Header(i) \in ToSet(toml)}
     IN /\ ToSet(ids) \subseteq named /\ IsInjective(ids)
        /\ \A a, b \in DOMAIN ids : a < b => first(ids[a]) < first(ids[b])
        /\ \A i \in named \ ToSet(ids) : Len(ids) = MAX_BOOT_GUESTS /\ \A a \in DOMAIN ids : first(ids[a]) < first(i)
  /\ \A id \in Ids :
       LET mine == {i \in DOMAIN toml : toml[i].k = "kv" /\ Under(toml, i, id)}
       IN guest_boots_firmware(toml, id)
            <=> \E i \in mine : toml[i] = KeyValue("boot", "firmware") /\ \A j \in mine : i <= j

-----------------------------------------------------------------------------
(* The loader *)

StagedFile(b, l, p) == [base |-> b, len |-> l, of |-> p]
EMPTY == StagedFile(0, 0, <<"none">>)
is_staged(f) == f.base # 0 /\ f.len # 0
GuestFirmware(id) == [id |-> id, code |-> EMPTY, vars |-> EMPTY, disk |-> EMPTY]
has_firmware(g) == is_staged(g.code) /\ is_staged(g.vars)
LinuxPayload == [kernel |-> EMPTY, initrd |-> EMPTY, cmdline |-> EMPTY, disk |-> EMPTY]

\* The calls that go wrong are counted, to bound them.
Faulty(l) == [l EXCEPT !.faults = @ + 1]
MayFail(l) == l.faults < MaxFaults

\* What opening, sizing, allocating for and reading a file of two units come to. A read that
\* ends early leaves a shorter file; one that fails leaves its pages allocated.
read_file(l, path) ==
  {[err |-> "none", l |-> [l EXCEPT !.pages = @ + 1], file |-> StagedFile(l.pages + 1, 2, path)]}
    \cup (IF ~MayFail(l) THEN {}
          ELSE {[err |-> e, l |-> Faulty(l), file |-> EMPTY] : e \in {"NotFound", "TooLarge", "none"}}
                 \cup {[err |-> "Uefi", l |-> [Faulty(l) EXCEPT !.pages = @ + 1], file |-> EMPTY]}
                 \cup {[err |-> "none", l |-> [Faulty(l) EXCEPT !.pages = @ + 1], file |-> StagedFile(l.pages + 1, n, path)] : n \in 0 .. 1})

\* The configurations on the volume: none, more guests than fit, one repeated.
Configs == {<<>>, <<Header("a"), KeyValue("boot", "firmware"), Header("b"), Header("c"), KeyValue("boot", "firmware")>>,
            <<Header("b"), Header("b"), KeyValue("boot", "firmware"), Header("a"), KeyValue("boot", "firmware")>>}

find_acpi_rsdp ==
  /\ ld.pc = "rsdp"
  /\ \E tables \in SUBSET {"acpi1", "acpi2"} :
       /\ "acpi2" \notin tables => MayFail(ld)
       /\ ld' = [(IF "acpi2" \in tables THEN ld ELSE Faulty(ld)) EXCEPT !.pc = "gop", !.rsdp = IF "acpi2" \in tables THEN "acpi2" ELSE IF "acpi1" \in tables THEN "acpi1" ELSE "none"]

bytes_per_pixel(f) == IF f = "BltOnly" THEN None ELSE Some(4)
from_gop(f) == IF bytes_per_pixel(f).some THEN Some(f) ELSE None
collect_framebuffer ==
  /\ ld.pc = "gop"
  /\ \/ MayFail(ld) /\ ld' = [Faulty(ld) EXCEPT !.pc = "open"]
     \/ \E f \in {"Bgr", "BltOnly"} : ld' = [ld EXCEPT !.pc = "open", !.fb = from_gop(f)]

open ==
  /\ ld.pc = "open"
  /\ \/ ld' = [ld EXCEPT !.pc = "config"]
     \/ MayFail(ld) /\ ld' = [Faulty(ld) EXCEPT !.pc = "bridges"]

\* The configuration part of load_esp_payload: what was read of the file is searched for guests.
Kept(c, file) == IF file.len = 2 THEN {Len(c)} ELSE IF file.len = 1 THEN 0 .. Len(c) ELSE {0}
load_config_file ==
  /\ ld.pc = "config"
  /\ \E c \in Configs : \E r \in read_file(ld, <<"config">>) : \E n \in Kept(c, r.file) :
       LET text == SubSeq(c, 1, n)
           ids == collect_guest_ids(text)
       IN ld' = IF r.err # "none" THEN [r.l EXCEPT !.pc = "guests"]
                ELSE [r.l EXCEPT !.pc = "guests", !.config = r.file, !.text = text,
                                 !.guests = [i \in DOMAIN ids |-> GuestFirmware(ids[i])]]

Todo(l) == {x \in (DOMAIN l.guests) \X {"code", "vars", "disk"} : x \notin l.tried}

load_guest_file ==
  /\ ld.pc = "guests" /\ Todo(ld) # {}
  /\ LET i == CHOOSE i \in {x[1] : x \in Todo(ld)} : \A x \in Todo(ld) : i <= x[1]
         f == IF <<i, "code">> \in Todo(ld) THEN "code" ELSE IF <<i, "vars">> \in Todo(ld) THEN "vars" ELSE "disk"
     IN \E r \in read_file(ld, <<ld.guests[i].id, f>>) :
          LET l == [r.l EXCEPT !.tried = @ \cup {<<i, f>>}]
          IN ld' = IF r.err = "none" THEN [l EXCEPT !.guests[i][f] = r.file] ELSE l

stage_optional(l, p) == {[l |-> r.l, file |-> r.file] : r \in read_file(l, <<"linux", p>>)}

\* Nothing else is looked for when there is no kernel.
load_linux_payload ==
  /\ ld.pc = "guests" /\ Todo(ld) = {}
  /\ \E k \in stage_optional(ld, "kernel") :
       IF ~is_staged(k.file) THEN ld' = [k.l EXCEPT !.pc = "bridges"]
       ELSE \E i \in stage_optional(k.l, "initrd") : \E c \in stage_optional(i.l, "cmdline") :
            \E d \in stage_optional(c.l, "disk") :
              ld' = [d.l EXCEPT !.pc = "bridges", !.linux = [kernel |-> k.file, initrd |-> i.file,
                                                            cmdline |-> c.file, disk |-> d.file]]

\* The resource list of a root bridge: other descriptors are passed over, and one that is cut
\* or damaged ends the walk.
parse_bus_range(resources) ==
  LET ends == {i \in DOMAIN resources : resources[i].t \in {"bad", "bus"}}
  IN IF ends = {} THEN None
     ELSE LET d == resources[CHOOSE i \in ends : \A j \in ends : i <= j]
          IN IF d.t = "bus" /\ d.min <= d.max /\ d.max <= 255 THEN Some(<<d.min, d.max>>) ELSE None

Mem == [t |-> "mem"]
Bus(a, b) == [t |-> "bus", min |-> a, max |-> b]
Resources == {<<>>, <<Mem, Bus(0, 255)>>, <<[t |-> "bad"], Bus(0, 3)>>, <<Bus(4, 300)>>, <<Bus(9, 4)>>}

collect_pci_root_bridges ==
  /\ ld.pc = "bridges"
  /\ \/ ld' = [ld EXCEPT !.pc = "smbios"]
     \/ \E ok \in BOOLEAN, r \in Resources :
          LET range == parse_bus_range(r)
          IN /\ Len(ld.handles) <= MAX_PCI_ROOT_BRIDGES
             /\ (ok /\ range.some) \/ MayFail(ld)
             /\ ld' = [(IF ok /\ range.some THEN ld ELSE Faulty(ld)) EXCEPT
                        !.handles = Append(@, [ok |-> ok, range |-> range]),
                        !.bridges = IF ok /\ Len(@) < MAX_PCI_ROOT_BRIDGES
                                    THEN Append(@, IF range.some THEN range.is ELSE <<0, 0>>) ELSE @]

\* Copies of the tables and of their anchor, or neither when the entry point is not understood.
stage_bytes(l, p, ok) == IF ok THEN StagedFile(l.pages + 1, 1, <<"smbios", p>>) ELSE EMPTY
stage_smbios ==
  /\ ld.pc = "smbios"
  /\ \/ ld' = [ld EXCEPT !.pc = "exit"]
     \/ \E a, b \in BOOLEAN :
          LET t == stage_bytes(ld, "tables", a)
              l == [ld EXCEPT !.pc = "exit", !.pages = IF a THEN @ + 1 ELSE @, !.tables = t]
          IN ld' = [l EXCEPT !.anchor = stage_bytes(l, "anchor", b), !.pages = IF b THEN @ + 1 ELSE @]

efi_main == ld.pc = "exit" /\ ld' = [ld EXCEPT !.pc = "kernel", !.owned = 1 .. ld.pages]

LoaderInit ==
  ld = [pc |-> "rsdp", faults |-> 0, rsdp |-> "none", fb |-> None, pages |-> 0, config |-> EMPTY, text |-> <<>>, guests |-> <<>>, tried |-> {},
        linux |-> LinuxPayload, handles |-> <<>>, bridges |-> <<>>, tables |-> EMPTY, anchor |-> EMPTY, owned |-> {}]
LoaderNext ==
  \/ find_acpi_rsdp \/ collect_framebuffer \/ open \/ load_config_file \/ load_guest_file \/ load_linux_payload
  \/ collect_pci_root_bridges \/ stage_smbios \/ efi_main

has_config(h) == is_staged(h.config)
firmware_boot_guest(h) ==
  IF ~has_config(h) THEN {}
  ELSE LET fit == {i \in DOMAIN h.guests : has_firmware(h.guests[i]) /\ guest_boots_firmware(h.text, h.guests[i].id)}
       IN IF fit = {} THEN {} ELSE {h.guests[CHOOSE i \in fit : \A j \in fit : i <= j]}

\* What the kernel is handed is whole: every staged file is what was read from the path it is
\* filed under, in pages of its own that stay allocated; there are no guests without a
\* configuration, no file of a Linux guest without a kernel, and of the root bridges that answered the first
\* ones are listed in order. The guest booted from firmware has both images and asked for it
\* (esp.rs:305-553, main.rs:13-121, 413-514, handoff.rs:330-337).
HandoffWhole ==
  ld.pc = "kernel" =>
    LET gs == {ld.guests[i] : i \in DOMAIN ld.guests}
        linux == {ld.linux[k] : k \in DOMAIN ld.linux}
        files == (({ld.config, ld.tables, ld.anchor} \cup linux) \cup UNION {{g.code, g.vars, g.disk} : g \in gs}) \ {EMPTY}
        ok == SelectSeq(ld.handles, LAMBDA h : h.ok)
    IN /\ \A f \in files : f.base \in ld.owned /\ \A g \in files \ {f} : g.base # f.base
       /\ \A g \in gs : \A k \in {"code", "vars", "disk"} : g[k] # EMPTY => g[k].of = <<g.id, k>>
       /\ gs # {} => has_config(ld) /\ \A g \in gs : Header(g.id) \in ToSet(ld.text)
       /\ \A k \in DOMAIN ld.linux : ld.linux[k] # EMPTY => is_staged(ld.linux.kernel) /\ ld.linux[k].of = <<"linux", k>>
       /\ Len(ld.bridges) <= MAX_PCI_ROOT_BRIDGES
       /\ \A i \in DOMAIN ld.bridges : ld.bridges[i] = IF ok[i].range.some THEN ok[i].range.is ELSE <<0, 0>>
       /\ \A g \in firmware_boot_guest(ld) :
            /\ g.code.of = <<g.id, "code">> /\ g.vars.of = <<g.id, "vars">>
            /\ \E i \in DOMAIN ld.text : ld.text[i] = KeyValue("boot", "firmware") /\ Under(ld.text, i, g.id)

-----------------------------------------------------------------------------
(* The partition table *)

\* A disk is what the header says and the entries, entry_bytes apart from entries_lba on;
\* each unit of an entry knows the entry it belongs to.
Entry(d, n) == d.entries[n]
Unit(d, u) ==
  LET at == u - d.entries_lba * SECTOR
  IN IF at < 0 \/ at \div d.entry_bytes >= Len(d.entries) THEN <<0, 0>> ELSE <<(at \div d.entry_bytes) + 1, at % d.entry_bytes>>

parse_header(d) ==
  IF ~d.signature \/ ~d.crc THEN None
  ELSE IF d.entry_bytes < MIN_ENTRY_BYTES \/ d.entry_bytes > SECTOR THEN None
  ELSE Some([entries_lba |-> d.entries_lba, entry_count |-> d.entry_count, entry_bytes |-> d.entry_bytes])

parse_entry(n, units, d) ==
  LET e == units[1][1]
  IN IF e = 0 THEN None
     ELSE IF ~Entry(d, e).used \/ Entry(d, e).last < Entry(d, e).first THEN None
     ELSE Some([number |-> n, first |-> Entry(d, e).first, last |-> Entry(d, e).last, units |-> units])

find_partition(d, n) ==
  LET h == parse_header(d)
  IN IF ~h.some THEN [err |-> "NoGpt"]
     ELSE IF n = 0 \/ n > h.is.entry_count THEN [err |-> "NoSuchPartition"]
     ELSE LET at == (n - 1) * h.is.entry_bytes
              first == h.is.entries_lba + (at \div SECTOR)
              within == at % SECTOR
              sectors == (within + h.is.entry_bytes + SECTOR - 1) \div SECTOR
          IN IF (first + sectors) > d.sectors THEN [err |-> "Io"]
             ELSE LET p == parse_entry(n, [u \in 1 .. h.is.entry_bytes |-> Unit(d, first * SECTOR + within + u - 1)], d)
                  IN IF p.some THEN [err |-> "none", is |-> p.is] ELSE [err |-> "NoSuchPartition"]

Partition(u, f, l) == [used |-> u, first |-> f, last |-> l]
Disks ==
  {[signature |-> s, crc |-> c, entries_lba |-> 2, entry_count |-> n, entry_bytes |-> b, sectors |-> k,
    entries |-> <<Partition(TRUE, 3, 9), Partition(FALSE, 0, 0), Partition(TRUE, 9, 3), Partition(TRUE, 5, 5), Partition(TRUE, 6, 7)>>] :
     s \in BOOLEAN, c \in BOOLEAN, n \in {0, 4, 5, 7}, b \in 1 .. SECTOR + 1, k \in {3, 4, 9}}

GptInit == \E d \in Disks : gpt = [disk |-> d, asked |-> -1, answer |-> [err |-> "none"]]
GptNext == gpt.asked = -1 /\ \E n \in 0 .. 7 : gpt' = [gpt EXCEPT !.asked = n, !.answer = find_partition(gpt.disk, n)]

\* A partition is found by its number exactly when the table has it, it is used and its end is
\* not before its start, whatever the size of an entry and wherever it crosses a sector; what
\* is read is that entry from its first byte to its last (gpt.rs:104-174).
PartitionsFound ==
  LET d == gpt.disk
      n == gpt.asked
      good == d.signature /\ d.crc /\ d.entry_bytes >= MIN_ENTRY_BYTES /\ d.entry_bytes <= SECTOR
  IN n >= 0 =>
       /\ gpt.answer.err = "NoGpt" <=> ~good
       /\ good /\ n \in 1 .. d.entry_count /\ n \in DOMAIN d.entries =>
            (gpt.answer.err = "none" => d.entries[n].used /\ d.entries[n].first <= d.entries[n].last)
       /\ gpt.answer.err = "none" =>
            /\ gpt.answer.is.first = d.entries[n].first /\ gpt.answer.is.last = d.entries[n].last
            /\ gpt.answer.is.units = [u \in 1 .. d.entry_bytes |-> <<n, u - 1>>]
       /\ good /\ n \in 1 .. d.entry_count /\ d.sectors = 9 =>
            (gpt.answer.err = "none" <=> n \in DOMAIN d.entries /\ d.entries[n].used /\ d.entries[n].first <= d.entries[n].last)

-----------------------------------------------------------------------------
(***************************************************************************)
(* Two polled drivers of the boot kernel, each against the device that     *)
(* works at its own pace on the memory the driver gave it:                 *)
(*                                                                         *)
(*   nic   enlil-boot/src/net.rs   the e1000: a ring of frames to send, a  *)
(*         ring of empty buffers to receive into;                          *)
(*   ahci  enlil-boot/src/ahci.rs  one SATA port of an AHCI adapter: one   *)
(*         command slot, one data buffer shared by every command.          *)
(***************************************************************************)
CONSTANTS
    RING_ENTRIES,   \* the descriptors of each e1000 ring
    MaxFrames,      \* frames offered in each direction
    PRD_PAGE,       \* sectors that one entry of the AHCI transfer table covers
    MAX_TRANSFER,   \* sectors of the data buffer, and of the longest transfer
    BYTE,           \* the values of a byte of the command's sector number
    Lbas,           \* the first sectors that transfers name
    Lens,           \* the lengths, in sectors, that callers ask for
    MaxCalls        \* AHCI commands asked for in a behaviour

VARIABLES nic, ahci

(***************************************************************************)
(* e1000: the rings, software's side                                       *)
(***************************************************************************)
next_index(i, n) == (i + 1) % n

\* A descriptor as the driver writes it: the device owns it until it sets dd.
tx_desc(frame) == [addr |-> frame, dd |-> FALSE]
rx_desc(buffer) == [addr |-> buffer, dd |-> FALSE]

Slots == 0..(RING_ENTRIES - 1)

\* reset: the reset bit may stay set past the driver's patience.
Closed == [entries |-> 0, tx |-> <<>>, tdh |-> 0, tdt |-> 0, tx_tail |-> 0,
           rx |-> <<>>, rdh |-> 0, rdt |-> 0, rx_head |-> 0,
           mem |-> <<>>, asked |-> 0, sent |-> <<>>, arrived |-> 0, got |-> 0,
           held |-> <<>>, full |-> FALSE]

\* init: the device is reset first; a reset that does not finish leaves the driver closed.
init(valid, resets) ==
    IF ~valid \/ ~resets THEN Closed
    ELSE [Closed EXCEPT !.entries = RING_ENTRIES,
                        !.tx = [i \in Slots |-> [addr |-> 0, dd |-> TRUE]],
                        !.rx = [i \in Slots |-> rx_desc(i)],
                        !.mem = [i \in Slots |-> 0],
                        !.rdt = RING_ENTRIES - 1]

tx_done_at(n, i) == n.entries # 0 /\ i < n.entries /\ n.tx[i].dd

\* transmit: the descriptor at the tail must be done; the doorbell names the next one.
\* "full" remembers that the doorbell came round to the device's own position.
transmit(n) ==
    LET next == next_index(n.tx_tail, n.entries)
    IN  IF ~tx_done_at(n, n.tx_tail) THEN n
        ELSE [n EXCEPT !.tx[n.tx_tail] = tx_desc(n.asked + 1), !.asked = @ + 1,
                       !.tx_tail = next, !.tdt = next, !.full = @ \/ next = n.tdh]

\* receive: the frame stays in its buffer until the caller has done with it.
receive(n) ==
    LET d == n.rx[n.rx_head]
    IN  IF n.entries = 0 \/ ~d.dd THEN n
        ELSE [n EXCEPT !.rx_head = next_index(@, n.entries), !.got = @ + 1,
                       !.held = Append(@, [idx |-> n.rx_head, buffer |-> d.addr,
                                           frame |-> n.mem[d.addr]])]

\* rx_rearm: a buffer goes back to the device and the tail moves onto it.
rx_rearm(n, idx, buffer) ==
    IF n.entries = 0 \/ idx >= n.entries THEN n
    ELSE [n EXCEPT !.rx[idx] = rx_desc(buffer), !.rdt = idx]

(***************************************************************************)
(* e1000: the device (external).  It works from its head up to, and not    *)
(* including, the tail that software wrote.                                *)
(***************************************************************************)
DeviceSends(n) ==
    [n EXCEPT !.sent = Append(@, n.tx[n.tdh].addr), !.tx[n.tdh].dd = TRUE,
              !.tdh = next_index(@, n.entries)]

DeviceReceives(n) ==
    [n EXCEPT !.arrived = @ + 1, !.mem[n.rx[n.rdh].addr] = n.arrived + 1,
              !.rx[n.rdh].dd = TRUE, !.rdh = next_index(@, n.entries)]

NicInit == \E valid, resets \in BOOLEAN : nic = init(valid, resets)

NicNext ==
    /\ nic.entries # 0
    /\ \/ nic.asked < MaxFrames /\ nic' = transmit(nic)
       \/ nic.tdh # nic.tdt /\ nic' = DeviceSends(nic)
       \/ nic.rdh # nic.rdt /\ nic.arrived < MaxFrames /\ nic' = DeviceReceives(nic)
       \/ nic' = receive(nic)
       \/ /\ nic.held # <<>>
          /\ nic' = [rx_rearm(nic, Head(nic.held).idx, Head(nic.held).buffer)
                       EXCEPT !.held = Tail(@)]

\* The slots from one position of a ring up to, and not including, another.
Between(from, to) == [k \in 1..((to - from) % RING_ENTRIES) |->
                        (from + k - 1) % RING_ENTRIES]

\* Frames leave in the order transmit accepted them, each once, and none is
\* overwritten: what was accepted was sent or is still in the ring.  What the
\* device sees between its position and the doorbell is all of the latter, as
\* long as the sender never fills the last free slot (then the doorbell equals
\* the device's position, which is how the device sees an empty ring).  In the other direction receive hands out the arrived frames in
\* order, every buffer a caller still holds keeps the frame it was handed with,
\* and the device never works on a descriptor software has not given back.
RingsExact ==
    nic.entries # 0 =>
      /\ 1..nic.asked = {nic.sent[k] : k \in DOMAIN nic.sent}
                          \cup {nic.tx[i].addr : i \in {j \in Slots : ~nic.tx[j].dd}}
      /\ ~nic.full =>
           [k \in 1..nic.asked |-> k] =
             nic.sent \o [k \in DOMAIN Between(nic.tdh, nic.tdt) |->
                            nic.tx[Between(nic.tdh, nic.tdt)[k]].addr]
      /\ \A k \in DOMAIN Between(nic.tdh, nic.tdt) :
           ~nic.full => ~nic.tx[Between(nic.tdh, nic.tdt)[k]].dd
      /\ \A k \in DOMAIN nic.held :
           /\ nic.held[k].frame = nic.got - Len(nic.held) + k
           /\ nic.mem[nic.held[k].buffer] = nic.held[k].frame
      /\ nic.arrived = nic.got + Len(Between(nic.rx_head, nic.rdh))
      /\ \A k \in DOMAIN Between(nic.rdh, nic.rdt) :
           LET i == Between(nic.rdh, nic.rdt)[k]
           IN  ~nic.rx[i].dd /\ \A h \in DOMAIN nic.held : nic.held[h].buffer # nic.rx[i].addr

-----------------------------------------------------------------------------
(***************************************************************************)
(* AHCI: one port.  "hba" is what the adapter was told: the memory of the  *)
(* command list and of the received frames (0: nothing, otherwise which    *)
(* allocation), its engines and the command slot.  "dma" is the allocation *)
(* the driver keeps for the port (0: not started).  A sector's content is  *)
(* the call that wrote it and the place within that call.                  *)
(***************************************************************************)
MAX_BYTES == 6

\* Where build_fis puts the bytes of the sector number, lowest first.
LbaAt == <<4, 5, 6, 8, 9, 10>>

Power(k) == IF k = 0 THEN 1 ELSE BYTE ^ k
Digit(v, k) == (v \div Power(k)) % BYTE

build_fis(command, lba, count, device) ==
    [p \in 0..13 |->
        CASE p = 2 -> command
          [] p = 7 -> device
          [] p \in {4, 5, 6} -> Digit(lba, p - 4)
          [] p \in {8, 9, 10} -> Digit(lba, p - 5)
          [] p = 12 -> Digit(count, 0)
          [] p = 13 -> Digit(count, 1)
          [] OTHER -> 0]

\* The transfer table: one entry per page of the data buffer, the last one short.
Prds(len) ==
    LET npages == (len + PRD_PAGE - 1) \div PRD_PAGE
    IN  [i \in 1..npages |-> [addr |-> (i - 1) * PRD_PAGE,
                              count |-> IF i = npages THEN len - ((i - 1) * PRD_PAGE)
                                        ELSE PRD_PAGE]]

check_transfer_len(len) == len # 0 /\ len <= MAX_TRANSFER

\* The adapter's reading of a command (external): the sector number and count
\* from their places, and the buffer's sectors in the order of the table.
FisLba(fis) == LET v[k \in 0..MAX_BYTES] ==
                     IF k = 0 THEN 0 ELSE v[k - 1] + (fis[LbaAt[k]] * Power(k - 1))
               IN  v[MAX_BYTES]
FisCount(fis) == fis[12] + (fis[13] * BYTE)
BufferAt(prds, k) ==
    LET before[i \in 0..Len(prds)] == IF i = 0 THEN 0 ELSE before[i - 1] + prds[i].count
        e == CHOOSE i \in 1..Len(prds) : before[i - 1] < k /\ k <= before[i]
    IN  prds[e].addr + (k - before[e - 1])

Disk == 0..((BYTE ^ 3) + MAX_TRANSFER)
Idle == [op |-> "none", lba |-> 0, len |-> 0]
AhciInit ==
    \E implemented, present, sata \in BOOLEAN :
        ahci = [port |-> [implemented |-> implemented, present |-> present, sata |-> sata],
                hba |-> [clb |-> 0, fb |-> 0, st |-> FALSE, cr |-> FALSE, fre |-> FALSE,
                         ci |-> FALSE, tfes |-> FALSE, err |-> FALSE],
                dma |-> 0, pc |-> "start", call |-> Idle, calls |-> 0,
                fis |-> <<>>, prds |-> <<>>, todevice |-> FALSE, moved |-> 0, run |-> <<>>,
                buf |-> [k \in 1..MAX_TRANSFER |-> <<0, 0>>],
                disk |-> [l \in Disk |-> <<0, l>>],
                told |-> "none", out |-> <<>>, due |-> {}, torn |-> FALSE]

Fail(a, why) == [a EXCEPT !.pc = "ready", !.told = why, !.call = Idle]

(***************************************************************************)
(* start_port                                                              *)
(***************************************************************************)
\* The refusals, and the stop of whatever runs.
start_port_check(a) ==
    IF ~a.port.implemented \/ ~a.port.present \/ ~a.port.sata
    THEN [a EXCEPT !.pc = "refused", !.told = "refused"]
    ELSE [a EXCEPT !.pc = "stopping", !.hba.st = FALSE]

\* The memory is allocated only once the command list has stopped; then the
\* adapter learns its addresses and starts to receive frames.
start_port_program(a) ==
    [a EXCEPT !.pc = "receiving", !.hba.clb = 1, !.hba.fb = 1, !.hba.tfes = FALSE,
              !.hba.fre = TRUE]

start_port_run(a) == [a EXCEPT !.pc = "ready", !.hba.st = TRUE, !.dma = 1]

StartPort ==
    \/ ahci.pc = "start" /\ ahci' = start_port_check(ahci)
    \/ /\ ahci.pc = "stopping"
       /\ \/ ahci' = start_port_program(ahci)
          \/ ahci' = [ahci EXCEPT !.pc = "refused", !.told = "timeout"]
    \/ /\ ahci.pc = "receiving"
       /\ \/ ahci' = start_port_run(ahci)
          \/ ahci' = [ahci EXCEPT !.pc = "refused", !.told = "timeout"]

(***************************************************************************)
(* Commands                                                                *)
(***************************************************************************)
\* identify and read_sectors only build the command; write_sectors first copies
\* the caller's sectors into the shared buffer.
identify(a) == [a EXCEPT !.call = [op |-> "identify", lba |-> 0, len |-> 1], !.pc = "idle"]

read_sectors(a, lba, len) ==
    IF ~check_transfer_len(len) THEN Fail(a, "length")
    ELSE [a EXCEPT !.call = [op |-> "read", lba |-> lba, len |-> len], !.pc = "idle"]

write_sectors(a, lba, len) ==
    IF ~check_transfer_len(len) THEN Fail(a, "length")
    ELSE [a EXCEPT !.call = [op |-> "write", lba |-> lba, len |-> len], !.pc = "idle",
                   !.buf = [k \in 1..MAX_TRANSFER |-> IF k <= len THEN <<a.calls + 1, k>>
                                                      ELSE a.buf[k]],
                   !.due = @ \cup {<<lba + k - 1, <<a.calls + 1, k>>>> : k \in 1..len},
                   !.torn = @ \/ a.hba.ci]

\* issue, once the slot is free: header, table, doorbell.
issue_ring(a) ==
    LET identifies == a.call.op = "identify"
    IN  [a EXCEPT !.fis = build_fis(a.call.op, a.call.lba,
                                    IF identifies THEN 0 ELSE a.call.len,
                                    IF identifies THEN 0 ELSE "lba"),
                  !.prds = Prds(a.call.len), !.todevice = a.call.op = "write",
                  !.hba.ci = TRUE, !.hba.err = FALSE, !.pc = "poll"]

\* issue, once the doorbell bit is clear: a task-file error is taken from the
\* sticky interrupt bit first (and cleared), then from the status register.
issue_done(a) ==
    IF a.hba.tfes THEN [Fail(a, "error") EXCEPT !.hba.tfes = FALSE]
    ELSE IF a.hba.err THEN Fail(a, "error")
    ELSE [a EXCEPT !.pc = "ready", !.told = "ok",
                   !.out = IF a.call.op = "write" THEN <<>>
                           ELSE [k \in 1..a.call.len |-> a.buf[k]]]

Command ==
    \/ /\ ahci.pc = "ready" /\ ahci.calls < MaxCalls
       /\ \/ ahci' = [identify(ahci) EXCEPT !.calls = @ + 1, !.told = "none"]
          \/ \E lba \in Lbas, len \in Lens :
               \/ ahci' = [read_sectors(ahci, lba, len) EXCEPT !.calls = @ + 1]
               \/ ahci' = [write_sectors(ahci, lba, len) EXCEPT !.calls = @ + 1]
    \/ ahci.pc = "idle" /\ ~ahci.hba.ci /\ ahci' = issue_ring(ahci)
    \/ ahci.pc = "idle" /\ ahci.hba.ci /\ ahci' = Fail(ahci, "timeout")
    \/ ahci.pc = "poll" /\ ~ahci.hba.ci /\ ahci' = issue_done(ahci)
    \/ ahci.pc = "poll" /\ ahci.hba.ci /\ ahci' = Fail(ahci, "timeout")

(***************************************************************************)
(* The adapter and the disk (external): the command is fetched, then one   *)
(* sector at a time moves between the disk and the buffer, then the        *)
(* doorbell bit is cleared; a command may end with an error instead, with  *)
(* or without clearing the bit.                                            *)
(***************************************************************************)
DeviceFetches(a) ==
    [a EXCEPT !.run = <<[fis |-> a.fis, prds |-> a.prds, todevice |-> a.todevice]>>, !.moved = 0]

Identifies(c) == c.fis[2] = "identify"
Total(c) == IF Identifies(c) THEN 1 ELSE FisCount(c.fis)

DeviceMoves(a, c) ==
    LET k == a.moved + 1
        at == BufferAt(c.prds, k)
        l == FisLba(c.fis) + a.moved
        b == [a EXCEPT !.moved = k]
    IN  IF Identifies(c) THEN [b EXCEPT !.buf[at] = <<0, -1>>]
        ELSE IF c.todevice THEN [b EXCEPT !.disk[l] = a.buf[at]]
        ELSE [b EXCEPT !.buf[at] = a.disk[l]]

Device ==
    /\ ahci.hba.ci /\ ahci.hba.st
    /\ IF ahci.run = <<>> THEN ahci' = DeviceFetches(ahci)
       ELSE \/ /\ ahci.moved < Total(ahci.run[1])
               /\ ahci' = DeviceMoves(ahci, ahci.run[1])
            \/ /\ ahci.moved = Total(ahci.run[1])
               /\ ahci' = [ahci EXCEPT !.hba.ci = FALSE, !.run = <<>>]
            \/ \E clears \in BOOLEAN :
                 ahci' = [ahci EXCEPT !.hba.ci = ~clears, !.hba.tfes = TRUE, !.run = <<>>,
                                      !.hba.err = TRUE, !.hba.st = clears]

AhciNext == StartPort \/ Command \/ Device

\* A sector of the disk only ever holds what some caller asked to be written to
\* that very sector, a write that was reported done is on the disk and a read
\* that was reported done returned what the disk holds, whatever commands timed
\* out before it, unless a write copied its data into the shared buffer while
\* an earlier command was still under way (write_sectors fills the buffer
\* before issue waits for the slot).  A command's table covers its sectors and
\* no more, and the adapter runs commands only with the memory the driver keeps.
SectorsExact ==
    /\ ~ahci.torn =>
         /\ \A l \in Disk : ahci.disk[l] = <<0, l>> \/ <<l, ahci.disk[l]>> \in ahci.due
         /\ ahci.told = "ok" /\ ahci.pc = "ready" =>
              \A k \in 1..ahci.call.len :
                CASE ahci.call.op = "write" -> ahci.disk[ahci.call.lba + k - 1] = <<ahci.calls, k>>
                  [] ahci.call.op = "read" -> ahci.out[k] = ahci.disk[ahci.call.lba + k - 1]
                  [] ahci.call.op = "identify" -> ahci.out[k] = <<0, -1>>
                  [] OTHER -> FALSE
    /\ ahci.pc = "poll" => LET n == ahci.call.len
                           IN  /\ \A k \in 1..n : BufferAt(ahci.prds, k) = k
                               /\ Len(ahci.prds) = (n + PRD_PAGE - 1) \div PRD_PAGE
                               /\ ahci.prds[Len(ahci.prds)].addr + ahci.prds[Len(ahci.prds)].count = n
    /\ ahci.hba.ci => ahci.dma # 0 /\ ahci.hba.clb = ahci.dma /\ ahci.hba.fb = ahci.dma

=============================================================================
