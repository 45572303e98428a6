--------------------------------- MODULE Pci ---------------------------------
(***************************************************************************)
(* PCI: the configuration spaces the guest sees and the two ways into      *)
(* them, the interrupt mode of the USB function, the port and memory buses *)
(* devices are registered on, the boot hypervisor's walk of the physical   *)
(* hierarchy and its sizing of a BAR, and the lifecycle of SR-IOV virtual  *)
(* functions.  Each part has a state variable of its own.                  *)
(***************************************************************************)
EXTENDS Integers, Sequences, FiniteSets, FiniteSetsExt, SequencesExt

CONSTANTS
  CfgWrites,      \* the guest's writes: <<bdf, offset, width, byte>>, the byte repeated
  Selects,        \* the CONFIG_ADDRESS values it selects: <<enable, bdf, register>>
  MaxAddr,        \* bus addresses are 0 .. MaxAddr
  Ranges,         \* the ranges devices ask for: <<base, end>>
  LowBits, HighBits,  \* width of the two halves of a BAR; the low 4 bits are flags
  Topologies,     \* the physical hierarchies: functions <<bus, device, function>> |-> record
  MAX_BUS, MAX_FOUND,
  Vfs, Group,     \* the virtual functions and the IOMMU group of each
  Guests, Retries

VARIABLES cfg, intr, bus, bar, walk, vf

-----------------------------------------------------------------------------
(***************************************************************************)
(* Configuration spaces.  A byte is the set of its one bits; `fn` maps the *)
(* functions of the root complex to their bytes.                           *)
(***************************************************************************)
Bits(n) == {i \in 0 .. 7 : (n \div 2^i) % 2 = 1}
Value(b) == MapThenSumSet(LAMBDA i : 2^i, b)

COMMAND == 4
STATUS == 6
BAR0 == 16
CAPABILITY_PTR == \H34
PM_CAP_OFFSET == \H50
MSI_CAP_OFFSET == \H60
MSIX_CAP_OFFSET == \H70
PCIE_CAP_OFFSET == \H90
PIRQ_ROUTE_CONFIG_BASE == \H60

\* The bytes of a function that some rule tells apart, in whole dwords.
Offsets == (0 .. 11) \cup (BAR0 .. BAR0 + 3) \cup {CAPABILITY_PTR} \cup (PM_CAP_OFFSET .. PM_CAP_OFFSET + 7)
           \cup (MSI_CAP_OFFSET .. MSI_CAP_OFFSET + 3) \cup (MSIX_CAP_OFFSET .. MSIX_CAP_OFFSET + 11)
           \cup (PCIE_CAP_OFFSET .. PCIE_CAP_OFFSET + 3)

read_u8(m, o) == IF o \in Offsets THEN m[o] ELSE {}

\* A function under construction: the bytes stored so far, latest first, and the head of
\* its capability list.
write_bytes(m, o, bytes) == [m EXCEPT !.stores = <<[at |-> o, bytes |-> bytes]>> \o @]
Covers(w, o) == o \in w.at .. w.at + Len(w.bytes) - 1
Latest(stores, o) ==
  LET hits == {k \in DOMAIN stores : Covers(stores[k], o)}
  IN IF hits = {} THEN {} ELSE LET w == stores[Min(hits)] IN Bits(w.bytes[o - w.at + 1])
Space(m) == [o \in Offsets |-> Latest(m.stores, o)]

new(vendor, device) ==
  write_bytes([stores |-> <<>>, head |-> 0], 0, <<vendor, vendor, device, device>>)
set_class(m, class, subclass, prog_if, revision) ==
  write_bytes(m, 8, <<revision, prog_if, subclass, class>>)
set_bar(m, value) == write_bytes(m, BAR0, value)

\* A capability is linked in front of the list and the list is announced.
linked(m, off) ==
  [write_bytes(write_bytes(m, CAPABILITY_PTR, <<off>>), STATUS, <<16>>) EXCEPT !.head = off]
add_power_management_capability(m) ==
  linked(write_bytes(m, PM_CAP_OFFSET, <<1, 0, 3, 0, 0, 0>>), PM_CAP_OFFSET)
add_msi_capability(m) ==
  linked(write_bytes(m, MSI_CAP_OFFSET, <<5, m.head, \H80, 0>>), MSI_CAP_OFFSET)
add_msix_capability(m, table_size, table_offset, pba_offset) ==
  linked(write_bytes(m, MSIX_CAP_OFFSET,
           <<\H11, m.head, table_size - 1, 0>> \o table_offset \o pba_offset), MSIX_CAP_OFFSET)
add_pci_express_capability(m, port_type) ==
  linked(write_bytes(m, PCIE_CAP_OFFSET, <<\H10, m.head, 2 + 16 * port_type, 0>>), PCIE_CAP_OFFSET)

create_xhci_controller ==
  add_pci_express_capability(
    add_msix_capability(
      add_msi_capability(
        add_power_management_capability(
          set_bar(set_class(new(\H12, \H15), \H0C, 3, \H30, 2), <<0, 0, \H10, \HFE>>))),
      1, <<0, \H20, 0, 0>>, <<0, \H30, 0, 0>>), 0)
create_isa_bridge ==
  add_power_management_capability(
    write_bytes(set_class(new(\H86, \H18), 6, 1, 0, 0),
                PIRQ_ROUTE_CONFIG_BASE, <<\H80, \H80, \H80, \H80>>))

\* Only the controller has a BAR: 64 KiB.
bar_masks == [xhci |-> <<0, 0, \HFF, \HFF>>, isa |-> <<0, 0, 0, 0>>]
Created == [xhci |-> Space(create_xhci_controller), isa |-> Space(create_isa_bridge)]

byte_is_read_only(o) == o \in (0 .. 3) \cup (8 .. 11)

\* The list ends at a pointer below 0x40.  The code follows at most 48 links, MAX_LINKS here:
\* a function of this model has four capabilities.
MAX_LINKS == 6
Follow(m, p) == IF p < \H40 THEN 0 ELSE Value(read_u8(m, p + 1))
capability_headers(m) ==
  LET chain[k \in 0 .. MAX_LINKS] == IF k = 0 THEN Value(m[CAPABILITY_PTR]) ELSE Follow(m, chain[k - 1])
  IN IF 4 \notin m[STATUS] THEN {} ELSE {chain[k] : k \in 0 .. MAX_LINKS} \ (0 .. \H3F)
capability_header_byte_is_read_only(headers, o) == \E c \in headers : o \in {c, c + 1}

MSI_CTRL_RW == {0, 4, 5, 6}
COMMAND_WRITABLE == [lo |-> {0, 1, 2, 6}, hi |-> {0, 2}]
STATUS_W1C == [lo |-> {}, hi |-> {0, 3, 4, 5, 6, 7}]

\* The bits of a byte that a guest's write may change.
writable(m, headers, o) ==
  CASE byte_is_read_only(o) \/ capability_header_byte_is_read_only(headers, o) -> {}
    [] o \in {STATUS, STATUS + 1} -> {}
    [] o = COMMAND -> COMMAND_WRITABLE.lo
    [] o = COMMAND + 1 -> COMMAND_WRITABLE.hi
    [] o \in MSIX_CAP_OFFSET .. MSIX_CAP_OFFSET + 11 /\ m[MSIX_CAP_OFFSET] = Bits(\H11) ->
         IF o = MSIX_CAP_OFFSET + 3 THEN 3 .. 7 ELSE {}
    [] o \in {MSI_CAP_OFFSET + 2, MSI_CAP_OFFSET + 3} /\ m[MSI_CAP_OFFSET] = Bits(5) ->
         IF o = MSI_CAP_OFFSET + 2 THEN MSI_CTRL_RW ELSE {}
    [] o \in {PM_CAP_OFFSET + 2, PM_CAP_OFFSET + 3} /\ m[PM_CAP_OFFSET] = Bits(1) -> {}
    [] o \in {PCIE_CAP_OFFSET + 2, PCIE_CAP_OFFSET + 3} /\ m[PCIE_CAP_OFFSET] = Bits(\H10) -> {}
    [] OTHER -> 0 .. 7

\* The error bits of the status register are cleared where the guest writes a one.
cleared(o, b) ==
  CASE o = STATUS -> b \cap STATUS_W1C.lo [] o = STATUS + 1 -> b \cap STATUS_W1C.hi [] OTHER -> {}

merged(old, b, w) == (b \cap w) \cup (old \ w)
stored(m, headers, span, b) ==
  [o \in Offsets |-> IF o \in span THEN merged(m[o], b, writable(m, headers, o)) \ cleared(o, b) ELSE m[o]]
guest_write(m, mask, off, width, b) ==
  IF off = BAR0 /\ width = 4
  THEN [o \in Offsets |-> IF o \in BAR0 .. BAR0 + 3
                          THEN merged(m[o], b, Bits(mask[o - BAR0 + 1])) ELSE m[o]]
  ELSE stored(m, capability_headers(m), off .. off + width - 1, b)

-----------------------------------------------------------------------------
\* The root complex behind the two ways in: the memory window, and the address and data
\* ports with the reset register between them.
ecam_read(c, bdf, reg, width) ==
  IF bdf \in DOMAIN c.fn THEN [k \in 1 .. width |-> read_u8(c.fn[bdf], reg + k - 1)]
  ELSE [k \in 1 .. width |-> 0 .. 7]
ecam_write(c, bdf, reg, width, b) ==
  IF bdf \in DOMAIN c.fn
  THEN [c EXCEPT !.fn[bdf] = guest_write(@, bar_masks[bdf], reg, width, b)]
  ELSE c

\* A quadword through the window is two dwords.
mmio_write(c, bdf, reg, width, b) ==
  IF width = 8 THEN ecam_write(ecam_write(c, bdf, reg, 4, b), bdf, reg + 4, 4, b)
  ELSE ecam_write(c, bdf, reg, width, b)

\* The data port reaches the register of the selected dword that the port's low bits name.
target_offset(c, k) == c.addr.reg + k
pio_read(c, k, width) ==
  IF c.addr.enable THEN ecam_read(c, c.addr.bdf, target_offset(c, k), width)
  ELSE [j \in 1 .. width |-> 0 .. 7]
pio_write(c, k, width, b) ==
  IF c.addr.enable THEN ecam_write(c, c.addr.bdf, target_offset(c, k), width, b) ELSE c

write_address(c, a) == [c EXCEPT !.addr = a]
\* A byte at 0xCF9: bit 2 asks for a reset, bits 1 and 3 are kept.
reset_write(c, b) ==
  [c EXCEPT !.reset = @ \/ 2 \in b, !.rcr = b \cap {1, 3}]
take_reset(c) == [c EXCEPT !.reset = FALSE]

\* `routes` remembers what the guest last stored in the bridge's interrupt routing bytes.
Routed(c, bdf, reg, width, b) ==
  IF bdf = "isa"
  THEN [c EXCEPT !.routes = [o \in DOMAIN @ |-> IF o \in reg .. reg + width - 1 THEN b ELSE @[o]]]
  ELSE c

CfgInit ==
  cfg = [fn |-> Created, addr |-> [enable |-> FALSE, bdf |-> "xhci", reg |-> 0],
         rcr |-> {}, reset |-> FALSE, asked |-> FALSE,
         routes |-> [o \in PIRQ_ROUTE_CONFIG_BASE .. PIRQ_ROUTE_CONFIG_BASE + 3 |-> Bits(\H80)]]

ThroughWindow ==
  \E w \in CfgWrites :
    cfg' = Routed(mmio_write(cfg, w.bdf, w.reg, w.width, w.byte), w.bdf, w.reg, w.width, w.byte)
ThroughPorts ==
  \E w \in CfgWrites, k \in 0 .. 3 :
    /\ w.width <= 4 /\ cfg.addr.enable /\ w.bdf = cfg.addr.bdf /\ w.reg = cfg.addr.reg + k
    /\ cfg' = Routed(pio_write(cfg, k, w.width, w.byte), w.bdf, w.reg, w.width, w.byte)
SelectDword == \E a \in Selects : cfg' = write_address(cfg, a)
WriteReset == \E b \in {{}, {1}, {1, 2}} :
  cfg' = [reset_write(cfg, b) EXCEPT !.asked = @ \/ 2 \in b]
RunLoopTakesReset == cfg' = [take_reset(cfg) EXCEPT !.asked = FALSE]

CfgNext == ThroughWindow \/ ThroughPorts \/ SelectDword \/ WriteReset \/ RunLoopTakesReset

\* A guest's writes, of any width and through either way in, never change what describes
\* the function: its identity and class, the list of capabilities and their headers, the
\* size and place of the MSI-X table, the read-only descriptors and the BAR's size bits;
\* hardwired command bits stay clear; the interrupt routing bytes hold what was last
\* written to them; and a reset asked for at 0xCF9 stays asked for until the run loop takes
\* it (guest_write and PciResetControl, pcie.rs).
DescriptionKept ==
  /\ \A d \in DOMAIN cfg.fn : LET m == cfg.fn[d] c == Created[d] IN
       /\ \A o \in 0 .. 3 \cup 8 .. 11 : m[o] = c[o]
       /\ capability_headers(m) = capability_headers(c) /\ 4 \in m[STATUS]
       /\ \A h \in capability_headers(c) : m[h] = c[h] /\ m[h + 1] = c[h + 1]
       /\ m[COMMAND] \cap {3, 4, 5, 7} = {} /\ m[COMMAND + 1] \subseteq {0, 2}
       /\ \A k \in 1 .. 4 : (m[BAR0 + k - 1] \ Bits(bar_masks[d][k]))
                              = (c[BAR0 + k - 1] \ Bits(bar_masks[d][k]))
  /\ LET m == cfg.fn.xhci c == Created.xhci IN
       /\ \A o \in {MSIX_CAP_OFFSET + 2} \cup MSIX_CAP_OFFSET + 4 .. MSIX_CAP_OFFSET + 11 : m[o] = c[o]
       /\ m[MSIX_CAP_OFFSET + 3] \cap 0 .. 2 = {}
       /\ m[MSI_CAP_OFFSET + 2] \ MSI_CTRL_RW = {7}
       /\ \A o \in {PM_CAP_OFFSET + 2, PCIE_CAP_OFFSET + 2} : m[o] = c[o] /\ m[o + 1] = c[o + 1]
  /\ \A o \in DOMAIN cfg.routes : cfg.fn.isa[o] = cfg.routes[o]
  /\ cfg.reset <=> cfg.asked

-----------------------------------------------------------------------------
(***************************************************************************)
(* The USB function's interrupt: an MSI-X table of one vector with its     *)
(* pending bit, plain MSI, or the INTx pin.  The line, the messages sent   *)
(* and the edge the adapter last saw; `owed` says that a rising edge seen  *)
(* in MSI-X mode has not had its message yet.                              *)
(***************************************************************************)
Modes == {"intx", "msi", "msix", "msix_masked"}

signal(t, globally_masked) ==
  IF globally_masked \/ t.masked THEN [t EXCEPT !.pending = TRUE]
  ELSE [t EXCEPT !.pending = FALSE, !.sent = @ + 1]
take_pending(t, globally_masked) ==
  IF ~globally_masked /\ t.pending /\ ~t.masked
  THEN [t EXCEPT !.pending = FALSE, !.sent = @ + 1] ELSE t
write_table(t, masked) == [t EXCEPT !.masked = masked]

intx_level(t) == t.ip /\ t.ie
Rising(t) == intx_level(t) /\ ~t.last
Seen(t) == [t EXCEPT !.last = intx_level(t)]
Edge(t, u) == [u EXCEPT !.edges = @ + IF Rising(t) THEN 1 ELSE 0]

dispatch_msix(t, globally_masked) ==
  LET low == [t EXCEPT !.line = FALSE]
      raised == IF Rising(t) THEN signal(low, globally_masked) ELSE low
      done == take_pending(Seen(raised), globally_masked)
  IN Edge(t, [done EXCEPT !.owed = (@ \/ Rising(t)) /\ done.sent = t.sent])
dispatch_msi(t) ==
  Edge(t, Seen([t EXCEPT !.line = FALSE, !.sent = @ + IF Rising(t) THEN 1 ELSE 0]))
dispatch_interrupt(t) ==
  CASE t.mode = "msix" -> dispatch_msix(t, FALSE)
    [] t.mode = "msix_masked" -> dispatch_msix(t, TRUE)
    [] t.mode = "msi" -> dispatch_msi(t)
    [] t.mode = "intx" -> [Seen(t) EXCEPT !.line = intx_level(t)]

IntrInit ==
  intr = [mode |-> "intx", masked |-> TRUE, pending |-> FALSE, ip |-> FALSE, ie |-> FALSE,
          last |-> FALSE, line |-> FALSE, sent |-> 0, edges |-> 0, owed |-> FALSE, fresh |-> TRUE]

\* A register write does its work and then drives the interrupt.
Written(t) == [dispatch_interrupt(t) EXCEPT !.fresh = TRUE]
RegisterWrite ==
  \/ intr' = Written([intr EXCEPT !.ip = TRUE])               \* a doorbell posts an event
  \/ intr' = Written([intr EXCEPT !.ip = FALSE])              \* the guest clears IP
  \/ \E e \in BOOLEAN : intr' = Written([intr EXCEPT !.ie = e])
  \/ \E b \in BOOLEAN : intr' = Written(write_table(intr, b))
\* A configuration write changes the mode and drives nothing.
ConfigWrite == \E q \in Modes : intr' = [intr EXCEPT !.mode = q, !.fresh = FALSE]

IntrNext ==
  /\ intr.edges < 3
  /\ RegisterWrite \/ ConfigWrite

\* No interrupt is lost and none is made up: a rising edge the adapter saw has been sent or
\* is pending, a burst while masked counts once; once a register write has been handled in
\* MSI-X mode the pin is low and nothing deliverable is held back, and in INTx mode the pin
\* follows the interrupter (dispatch_interrupt, usb/controller.rs).
InterruptNotLost ==
  /\ intr.sent <= intr.edges
  /\ intr.owed => intr.pending
  /\ intr.fresh /\ intr.mode = "msix" => ~(intr.pending /\ ~intr.masked)
  /\ intr.fresh => (intr.line <=> intr.mode = "intx" /\ intx_level(intr))

\* One register write sends one message at the most.
OneMessageAtATime == intr'.sent <= intr.sent + 1

-----------------------------------------------------------------------------
(***************************************************************************)
(* The port and memory buses: `dev` maps the base of each registered range *)
(* to its end.  Nothing is ever removed.                                   *)
(***************************************************************************)
register(d, base, end) ==
  LET below == {b \in DOMAIN d : b <= base}
      above == {b \in DOMAIN d : b >= base}
  IN IF end <= base \/ (below # {} /\ d[Max(below)] > base) \/ (above # {} /\ Min(above) < end)
     THEN d
     ELSE [b \in DOMAIN d \cup {base} |-> IF b = base THEN end ELSE d[b]]

\* The base of the device an access reaches, or MaxAddr + 1 for none.
lookup(d, a) ==
  LET below == {b \in DOMAIN d : b <= a}
  IN IF below # {} /\ a < d[Max(below)] THEN Max(below) ELSE MaxAddr + 1
is_mapped(d, a) == lookup(d, a) <= MaxAddr

BusInit == bus = [b \in {} |-> 0]
BusNext == \E r \in Ranges : bus' = register(bus, r[1], r[2])

\* Every address belongs to at most one registered device, and an access reaches exactly
\* the device whose range holds the address (register and lookup_mut, bus.rs).
OneDevicePerAddress ==
  \A a \in 0 .. MaxAddr :
    LET owners == {b \in DOMAIN bus : b <= a /\ a < bus[b]}
    IN /\ Cardinality(owners) <= 1
       /\ is_mapped(bus, a) <=> owners # {}
       /\ \A b \in owners : lookup(bus, a) = b

\* A registration never moves or shrinks a device that is already there.
BusOnlyGrows == \A b \in DOMAIN bus : b \in DOMAIN bus' /\ bus'[b] = bus[b]

-----------------------------------------------------------------------------
(***************************************************************************)
(* Sizing a BAR of a physical function, one configuration access at a      *)
(* time.  The device keeps the address bits above its size, and decodes    *)
(* memory while the command bit is set; the four low bits are flags.       *)
(***************************************************************************)
All(w) == 2^w - 1

\* What the device stores of a written value: the bits below its size stay zero.
Kept(size, lo, hi) ==
  LET v == (hi * 2^LowBits + lo) IN (v \div size) * size
BarInit ==
  \E is_64 \in BOOLEAN, k \in 4 .. LowBits + HighBits - 1, n \in 1 .. 3, decode \in BOOLEAN :
    /\ ~is_64 => k < LowBits
    /\ n * 2^k < 2^(IF is_64 THEN LowBits + HighBits ELSE LowBits)
    /\ bar = [pc |-> "command", is_64 |-> is_64, size |-> 2^k, base |-> n * 2^k, mem |-> decode,
              was |-> decode, addr |-> n * 2^k, command |-> FALSE, orig_lo |-> 0, orig_hi |-> 0,
              probe_lo |-> 0, probe_hi |-> 0, result |-> 0]

Lo(a) == a % 2^LowBits
Hi(a) == a \div 2^LowBits
write_lo(b, v) == [b EXCEPT !.addr = Kept(b.size, v - (v % 16), Hi(b.addr))]
write_hi(b, v) == [b EXCEPT !.addr = Kept(b.size, Lo(b.addr), v)]

bar_mem_size(probe) == IF probe = 0 THEN 0 ELSE All(LowBits) - probe + 1
bar_mem_size_64(lo, hi) ==
  LET masked == hi * 2^LowBits + lo
  IN IF masked = 0 THEN 0 ELSE All(LowBits + HighBits) - masked + 1

size_memory_bar_on(b) ==
  CASE b.pc = "command" -> [b EXCEPT !.command = b.mem, !.pc = "decode_off"]
    [] b.pc = "decode_off" -> [b EXCEPT !.mem = FALSE, !.pc = "orig_lo"]
    [] b.pc = "decode_on" -> [b EXCEPT !.mem = b.command, !.pc = "done"]
size_memory_bar_decode_off(b) ==
  CASE b.pc = "orig_lo" -> [b EXCEPT !.orig_lo = Lo(b.addr), !.pc = "ones_lo"]
    [] b.pc = "ones_lo" -> [write_lo(b, All(LowBits)) EXCEPT !.pc = "probe_lo"]
    [] b.pc = "probe_lo" -> [b EXCEPT !.probe_lo = Lo(b.addr),
                                      !.pc = IF b.is_64 THEN "orig_hi" ELSE "restore_lo"]
    [] b.pc = "orig_hi" -> [b EXCEPT !.orig_hi = Hi(b.addr), !.pc = "ones_hi"]
    [] b.pc = "ones_hi" -> [write_hi(b, All(HighBits)) EXCEPT !.pc = "probe_hi"]
    [] b.pc = "probe_hi" -> [b EXCEPT !.probe_hi = Hi(b.addr), !.pc = "restore_lo"]
    [] b.pc = "restore_lo" -> [write_lo(b, b.orig_lo) EXCEPT
                                 !.pc = IF b.is_64 THEN "restore_hi" ELSE "size"]
    [] b.pc = "restore_hi" -> [write_hi(b, b.orig_hi) EXCEPT !.pc = "size"]
    [] b.pc = "size" -> [b EXCEPT !.pc = "decode_on",
                           !.result = IF b.is_64 THEN bar_mem_size_64(b.probe_lo, b.probe_hi)
                                      ELSE bar_mem_size(b.probe_lo)]
BarNext ==
  \/ /\ bar.pc \in {"command", "decode_off", "decode_on"}
     /\ bar' = size_memory_bar_on(bar)
  \/ /\ bar.pc \notin {"command", "decode_off", "decode_on", "done"}
     /\ bar' = size_memory_bar_decode_off(bar)

\* The function never decodes memory at a probe value, and when the sizing is done the BAR
\* and the command are as they were and the size is the device's (pci.rs 612).
ProbedSafely ==
  /\ bar.mem => bar.addr = bar.base
  /\ bar.pc = "done" => bar.addr = bar.base /\ bar.mem = bar.was /\ bar.result = bar.size

-----------------------------------------------------------------------------
(***************************************************************************)
(* The walk of the physical hierarchy: buses are queued once, as bridges   *)
(* to them are met.  A function is [multi, bridge, secondary, class].      *)
(***************************************************************************)
\* The functions of a bus in the order they are probed: function 0 must answer, and the
\* others are looked at only when it says that there are several.
bus_functions(t, b) ==
  SetToSortSeq({f \in DOMAIN t : /\ f[1] = b /\ <<b, f[2], 0>> \in DOMAIN t
                                 /\ f[3] = 0 \/ t[<<b, f[2], 0>>].multi},
               LAMBDA f, g : f[2] < g[2] \/ (f[2] = g[2] /\ f[3] < g[3]))

\* One function visited: a bridge queues the bus behind it unless it was queued before.
visit(w, f) ==
  LET r == w.topo[f]
      new_bus == r.bridge /\ r.secondary # 0 /\ r.secondary \notin w.seen
  IN [w EXCEPT !.visited = Append(@, f),
               !.seen = IF new_bus THEN @ \cup {r.secondary} ELSE @,
               !.pending = IF new_bus THEN Append(@, r.secondary) ELSE @]
walk_functions(w) ==
  FoldLeft(visit, [w EXCEPT !.pending = Tail(@)], bus_functions(w.topo, Head(w.pending)))

OfClass(t, s, classes) == SelectSeq(s, LAMBDA f : t[f].class \in classes)
Prefix(s, n) == SubSeq(s, 1, IF Len(s) < n THEN Len(s) ELSE n)

scan_bus0(t) == Len(bus_functions(t, 0))
first_network_function(t) == Prefix(OfClass(t, bus_functions(t, 0), {"network"}), 1)
find_xhci_controllers(t, room) == Prefix(OfClass(t, bus_functions(t, 0), {"xhci"}), room)
scan_bus0_mmio(t) ==
  [examined |-> Len(bus_functions(t, 0)), functions |-> Prefix(bus_functions(t, 0), MAX_FOUND)]
scan_ecam(t, end_bus) ==
  [functions |-> MapThenSumSet(LAMBDA b : Len(bus_functions(t, b)), 0 .. end_bus),
   buses_in_use |-> Cardinality({b \in 0 .. end_bus : bus_functions(t, b) # <<>>})]
find_storage_controllers(w) == Prefix(OfClass(w.topo, w.visited, {"nvme", "ahci"}), MAX_FOUND)

WalkInit == \E t \in Topologies : walk = [topo |-> t, seen |-> {0}, pending |-> <<0>>, visited |-> <<>>]
WalkNext == walk.pending # <<>> /\ walk' = walk_functions(walk)

Behind(t, b) == {t[f].secondary : f \in {g \in ToSet(bus_functions(t, b)) : t[g].bridge}} \ {0}
Reachable(t) ==
  LET reach[k \in 0 .. MAX_BUS + 1] ==
        IF k = 0 THEN {0} ELSE reach[k - 1] \cup UNION {Behind(t, b) : b \in reach[k - 1]}
  IN reach[MAX_BUS + 1]

\* However the bridges are wired, cycles and two bridges to one bus included, the walk
\* visits each function of each reachable bus once and ends; the storage controllers found
\* are the first of them, and the other scans agree with the walk on what they look at
\* (walk_functions, pci.rs 468).
WalkExact ==
  LET t == walk.topo v == walk.visited IN
  /\ IsInjective(v) /\ IsInjective(walk.pending)
  /\ walk.pending = <<>> =>
       /\ ToSet(v) = UNION {ToSet(bus_functions(t, b)) : b \in Reachable(t)}
       /\ scan_ecam(t, MAX_BUS).functions >= Len(v)
       /\ scan_bus0(t) = Len(SelectSeq(v, LAMBDA f : f[1] = 0))
       /\ \A f \in ToSet(find_xhci_controllers(t, 1)) \cup ToSet(first_network_function(t)) : f \in ToSet(v)
       /\ Len(find_storage_controllers(walk)) < MAX_FOUND =>
            {f \in ToSet(v) : t[f].class \in {"nvme", "ahci"}} = ToSet(find_storage_controllers(walk))
       /\ scan_bus0_mmio(t).examined >= Len(scan_bus0_mmio(t).functions)

-----------------------------------------------------------------------------
(***************************************************************************)
(* SR-IOV virtual functions.  The host kernel (external) makes the         *)
(* functions appear some time after their number is written, binds its own *)
(* driver to them, refuses to open an IOMMU group twice and to change a    *)
(* number that is not zero, and completes the write of zero only when no   *)
(* function is held open.                                                  *)
(***************************************************************************)
NoGuest == "none"
VfInit ==
  vf = [num |-> 0, present |-> {}, driver |-> [v \in Vfs |-> "none"],
        over |-> [v \in Vfs |-> "none"], table |-> [v \in Vfs |-> NoGuest],
        pc |-> "idle", tries |-> 0, known |-> {}]

\* External: a function appears, unbound or bound to the kernel's own driver.
KernelAddsVf ==
  \E v \in 1 .. vf.num, d \in {"none", "host"} :
    /\ v \notin vf.present
    /\ vf' = [vf EXCEPT !.present = @ \cup {v}, !.driver[v] = d]

vfs_of(s) == s.present
\* The number is written, then the functions are awaited for a bounded number of polls.
enable_vfs(s, count) == [s EXCEPT !.num = count, !.pc = "await", !.tries = Retries]
poll_enable(s) ==
  IF s.tries > 0 /\ Cardinality(vfs_of(s)) # s.num THEN [s EXCEPT !.tries = @ - 1]
  ELSE [s EXCEPT !.pc = "idle",
                 !.known = IF s.tries > 0 THEN vfs_of(s) ELSE @]
disable_vfs(s) ==
  [s EXCEPT !.num = 0, !.present = {}, !.driver = [v \in Vfs |-> "none"],
            !.over = [v \in Vfs |-> "none"]]

\* Unbind, override, bind: each write may be refused, and what was done stays done.
bind_driver_writes(s, v, fault) ==
  LET unbound == [s EXCEPT !.driver[v] = "none"]
      over == [unbound EXCEPT !.over[v] = "vfio"]
  IN CASE v \notin s.present \/ s.driver[v] = "vfio" -> s
       [] s.driver[v] # "none" /\ fault = "unbind" -> s
       [] fault = "override" -> unbound
       [] fault = "bind" -> over
       [] OTHER -> [over EXCEPT !.driver[v] = "vfio"]
bind_driver(s, v, fault) ==
  LET bound == bind_driver_writes(s, v, fault)
  IN [state |-> bound, ok |-> v \in bound.present /\ bound.driver[v] = "vfio"]

\* The group opens if nobody holds it and is viable if no other member has a host driver.
GroupHeld(s, g) == \E v \in Vfs : s.table[v] # NoGuest /\ Group[v] = g
Viable(s, g) == \A v \in s.present : Group[v] = g => s.driver[v] # "host"

assign_vf_to_guest(s, guest, v, fault) ==
  LET bound == bind_driver(s, v, fault)
  IN CASE s.table[v] # NoGuest -> s
       [] ~bound.ok -> bound.state
       [] fault = "group" \/ GroupHeld(s, Group[v]) \/ ~Viable(bound.state, Group[v]) -> bound.state
       [] OTHER -> [bound.state EXCEPT !.table[v] = guest]
unassign(s, v) == [s EXCEPT !.table[v] = NoGuest]
first_free_vf(s, list) == IF \E v \in list : s.table[v] = NoGuest
                          THEN {Min({v \in list : s.table[v] = NoGuest})} ELSE {}

Faults == {"no", "unbind", "override", "bind", "group"}
VfNext ==
  \/ KernelAddsVf
  \/ vf.pc = "await" /\ vf' = poll_enable(vf)
  \/ /\ vf.pc = "idle"
     /\ \/ vf.num = 0 /\ \E count \in 1 .. Cardinality(Vfs) : vf' = enable_vfs(vf, count)
        \/ (\A v \in Vfs : vf.table[v] = NoGuest) /\ vf' = disable_vfs(vf)
        \/ \E g \in Guests, fault \in Faults : \E v \in first_free_vf(vf, vf.known) :
             vf' = assign_vf_to_guest(vf, g, v, fault)
        \/ \E g \in Guests, v \in vf.known, fault \in Faults : vf' = assign_vf_to_guest(vf, g, v, fault)
        \/ \E v \in Vfs : vf.table[v] # NoGuest /\ vf' = unassign(vf, v)

\* A guest holds a virtual function only while it exists and is bound to vfio-pci, and no
\* two guests' functions share an IOMMU group; an assignment that fails half-way, and a
\* list of functions from before they were taken away, give nobody anything
\* (assign_vf_to_guest, sriov.rs 558).
VfHeldOnce ==
  /\ \A v \in Vfs : vf.table[v] # NoGuest => v \in vf.present /\ vf.driver[v] = "vfio"
  /\ \A v, w \in Vfs : v # w /\ vf.table[v] # NoGuest /\ vf.table[w] # NoGuest => Group[v] # Group[w]
\* An assignment never passes straight from one guest to another.
VfReleasedFirst ==
  \A v \in Vfs : vf.table[v] # NoGuest => vf'.table[v] \in {vf.table[v], NoGuest}
==============================================================================
