----------------------------- MODULE VmBackends -----------------------------
(* Guests on the two hardware backends: KVM, and the boot kernel on AMD SVM. *)
EXTENDS Integers, SequencesExt, FiniteSetsExt

(***************************************************************************)
(* A guest on the KVM backend (enlil-core: kvm_backend.rs, orchestrator.rs,*)
(* uefi_firmware.rs, device_bus.rs; enlil-devices: bus.rs): its memory     *)
(* slots and the DMA view of them, the snapshot of a vCPU, the mode a vCPU *)
(* is prepared in, the placement of what it boots, and the assembly of the *)
(* devices on its buses.                                                   *)
(***************************************************************************)
CONSTANTS
  HOST_PAGE,  \* bytes of a host page
  GpaTop,     \* bound: guest-physical and host addresses are below it
  MaxSlots,   \* bound: regions mapped
  MSRS,       \* the context MSRs
  MaxPrep,    \* bound: times a vCPU is prepared
  Boots       \* what is booted: the parameters of one boot, a record

VARIABLES slots, ctx, cpu, boot, build

None == <<>>
Bytes(from, len) == from .. from + len - 1
-----------------------------------------------------------------------------
(* Memory regions.                                                         *)

validate_region(gpa, host, size) == size # 0 /\ gpa % HOST_PAGE = 0 /\ host % HOST_PAGE = 0 /\ size % HOST_PAGE = 0
MemSlot(slot, gpa, size, host) == [slot |-> slot, gpa |-> gpa, size |-> size, host |-> host]
\* KVM refuses a region over another one.
Accepts(list, gpa, size) == \A i \in DOMAIN list : Bytes(list[i].gpa, list[i].size) \cap Bytes(gpa, size) = {}
Mapped(s, gpa, host, size) ==
  [s EXCEPT !.list = Append(@, MemSlot(s.next, gpa, size, host)), !.next = @ + 1, !.result = "Ok"]
map_memory(s, gpa, host, size) ==
  IF validate_region(gpa, host, size) /\ Accepts(s.list, gpa, size) THEN Mapped(s, gpa, host, size)
  ELSE [s EXCEPT !.result = "Err"]
map_memory_readonly(s, gpa, host, size) ==
  IF validate_region(gpa, host, size) /\ Accepts(s.list, gpa, size)
  THEN [Mapped(s, gpa, host, size) EXCEPT !.readonly = @ \cup {s.next}]
  ELSE [s EXCEPT !.result = "Err"]
\* The slot an access falls in whole, and the host address of its first byte.
host_ptr(list, addr, len) ==
  LET hit == {i \in DOMAIN list : addr >= list[i].gpa /\ (addr - list[i].gpa) + len <= list[i].size} IN
  IF hit = {} THEN None ELSE LET i == Min(hit) IN <<list[i].host + (addr - list[i].gpa)>>
DmaRead(list, ram, addr, len) ==
  LET p == host_ptr(list, addr, len) IN IF p = None THEN None ELSE <<[i \in 1 .. len |-> ram[p[1] + i - 1]]>>
DmaWrite(list, ram, addr, data) ==
  LET p == host_ptr(list, addr, Len(data)) IN
  IF p = None THEN ram ELSE [a \in DOMAIN ram |-> IF a \in Bytes(p[1], Len(data)) THEN data[a - p[1] + 1] ELSE ram[a]]
\* The guest's own access: KVM translates byte by byte.
GuestByte(list, a) == {list[i].host + (a - list[i].gpa) : i \in {j \in DOMAIN list : a \in Bytes(list[j].gpa, list[j].size)}}

\* Host memory starts as bytes all different; -1 is what a device writes.
SlotInit == slots = [list |-> <<>>, next |-> 0, readonly |-> {}, result |-> "none", ram |-> [a \in 0 .. GpaTop - 1 |-> a], dma |-> None]
SlotNext ==
  /\ slots.dma = None
  /\ \/ /\ Len(slots.list) < MaxSlots
        /\ \E gpa \in 0 .. GpaTop - 1, size \in 0 .. 2 * HOST_PAGE, host \in {0, 1, HOST_PAGE, 2 * HOST_PAGE} :
             /\ gpa + size <= GpaTop /\ host + size <= GpaTop
             /\ \A i \in DOMAIN slots.list : Bytes(slots.list[i].host, slots.list[i].size) \cap Bytes(host, size) = {}
             /\ \/ slots' = map_memory(slots, gpa, host, size)
                \/ slots' = map_memory_readonly(slots, gpa, host, size)
     \/ \E a \in 0 .. GpaTop - 1, len \in 1 .. 3 :
          \/ slots' = [slots EXCEPT !.ram = DmaWrite(slots.list, @, a, [i \in 1 .. len |-> -1]), !.dma = <<"write", a, len>>]
          \/ slots' = [slots EXCEPT !.dma = <<"read", a, len, DmaRead(slots.list, slots.ram, a, len)>>]

\* A device sees the bytes the guest sees: what it writes lands where the guest reads it, whole
\* or not at all, and what it reads is what the guest has there; slots are numbered apart and
\* each starts on a page of its own.
SlotsExact ==
  /\ \A i, j \in DOMAIN slots.list : i # j => slots.list[i].slot # slots.list[j].slot
  /\ \A a \in 0 .. GpaTop - 1 : Cardinality(GuestByte(slots.list, a)) <= 1
  /\ \A i \in DOMAIN slots.list : slots.list[i].gpa % HOST_PAGE = 0 /\ slots.list[i].size % HOST_PAGE = 0
  /\ slots.dma # None =>
       LET at(i) == GuestByte(slots.list, slots.dma[2] + i - 1)
           len == slots.dma[3]
           wrote == {h \in DOMAIN slots.ram : slots.ram[h] = -1} IN
       IF slots.dma[1] = "write" THEN wrote = {} \/ (wrote = UNION {at(i) : i \in 1 .. len} /\ \A i \in 1 .. len : at(i) # {})
       ELSE slots.dma[4] = None \/ \A i \in 1 .. len : at(i) = {slots.dma[4][1][i]}

-----------------------------------------------------------------------------
(* The snapshot of a vCPU, taken and applied one call after the other.     *)

PARTS == <<"sregs", "regs", "xsave">>
KvmVcpuState(regs, msrs) == [regs |-> regs, msrs |-> msrs]
\* MSRs are read one by one; one the processor does not have is left out.
save_vcpu_state(v, readable) == KvmVcpuState([p \in Range(PARTS) |-> v.regs[p]], [m \in readable |-> v.msrs[m]])
\* k calls succeed: the parts in order, then the MSRs as one call that may take only some.
restore_vcpu_state(v, s, k, taken) ==
  [regs |-> [p \in Range(PARTS) |-> IF \E i \in 1 .. k : PARTS[i] = p THEN s.regs[p] ELSE v.regs[p]],
   msrs |-> [m \in MSRS |-> IF k = Len(PARTS) /\ m \in taken THEN s.msrs[m] ELSE v.msrs[m]],
   ok |-> k = Len(PARTS) /\ taken = DOMAIN s.msrs]
Fresh(t) == [regs |-> [p \in Range(PARTS) |-> t], msrs |-> [m \in MSRS |-> t]]
CtxInit == ctx = [v |-> Fresh(0), snap |-> None, result |-> "none", had |-> {}, from |-> Fresh(0), t |-> 0]
CtxNext ==
  \/ ctx.t < 3 /\ ctx' = [ctx EXCEPT !.v = Fresh(ctx.t + 1), !.t = @ + 1, !.result = "none"]    \* the guest runs on
  \/ \E readable \in SUBSET MSRS :
       ctx.snap = None /\ ctx' = [ctx EXCEPT !.snap = <<save_vcpu_state(ctx.v, readable)>>, !.had = readable, !.from = ctx.v, !.result = "none"]
  \/ /\ ctx.snap # None
     /\ \E k \in 0 .. Len(PARTS), taken \in SUBSET DOMAIN ctx.snap[1].msrs :
          LET r == restore_vcpu_state(ctx.v, ctx.snap[1], k, taken) IN
          ctx' = [ctx EXCEPT !.v = [regs |-> r.regs, msrs |-> r.msrs], !.result = IF r.ok THEN "Ok" ELSE "Err", !.snap = None]
\* A restore that reports success has put back every part of the vCPU as it was saved, and
\* every MSR the processor let it read.
ContextExact ==
  ctx.result = "Ok" =>
    /\ ctx.v.regs = ctx.from.regs
    /\ \A m \in ctx.had : ctx.v.msrs[m] = ctx.from.msrs[m]

-----------------------------------------------------------------------------
(* The mode a vCPU is prepared in.                                         *)

PowerOn == [pe |-> FALSE, pg |-> FALSE, pae |-> FALSE, lme |-> FALSE, lma |-> FALSE, cs |-> "real", base |-> "reset", ip |-> "reset", si |-> 0]
\* What KVM demands of special registers.
KvmAccepts(s) == IF s.lme /\ s.pg THEN s.pae /\ s.lma ELSE ~s.lma /\ s.cs # "long"
SetRegs(old, new) == IF KvmAccepts(new) THEN [s |-> new, ok |-> TRUE] ELSE [s |-> old, ok |-> FALSE]
prepare_real_mode_vcpu(s) == SetRegs(s, [s EXCEPT !.base = "zero", !.ip = "entry"])
prepare_protected_mode_vcpu(s) ==
  SetRegs(s, [s EXCEPT !.cs = "flat", !.base = "zero", !.pe = TRUE, !.pg = FALSE, !.ip = "entry"])
prepare_long_mode_vcpu(s) ==
  SetRegs(s, [s EXCEPT !.cs = "long", !.base = "zero", !.pae = TRUE, !.lme = TRUE, !.lma = TRUE, !.pe = TRUE, !.pg = TRUE, !.ip = "entry"])
prepare_linux_boot_vcpu(s) ==
  LET r == prepare_protected_mode_vcpu(s) IN IF r.ok THEN [r EXCEPT !.s.si = 1] ELSE r
prepare_linux_boot_vcpu_64(s) ==
  LET r == prepare_long_mode_vcpu(s) IN IF r.ok THEN [r EXCEPT !.s.si = 1] ELSE r
Mode(s) == CASE s.lma /\ s.cs = "long" -> "long" [] s.pe /\ ~s.pg /\ s.cs = "flat" -> "protected"
             [] ~s.pe /\ s.cs = "real" -> "real" [] OTHER -> "other"
CpuInit == cpu = [s |-> PowerOn, asked |-> "none", ok |-> TRUE, was |-> "real", n |-> 0]
Prepared(asked, r) == cpu' = [cpu EXCEPT !.s = r.s, !.ok = r.ok, !.asked = asked, !.was = Mode(cpu.s), !.n = @ + 1]
CpuNext ==
  /\ cpu.n < MaxPrep
  /\ \/ Prepared("real", prepare_real_mode_vcpu(cpu.s))
     \/ Prepared("protected", prepare_protected_mode_vcpu(cpu.s))
     \/ Prepared("long", prepare_long_mode_vcpu(cpu.s))
     \/ Prepared("protected", prepare_linux_boot_vcpu(cpu.s))
     \/ Prepared("long", prepare_linux_boot_vcpu_64(cpu.s))
     \* the guest itself leaves long mode, or turns it on
     \/ Mode(cpu.s) = "long" /\ cpu' = [cpu EXCEPT !.s = [@ EXCEPT !.pg = FALSE, !.lma = FALSE, !.lme = FALSE, !.cs = "flat"], !.asked = "none", !.n = @ + 1]
\* A vCPU reported ready is in the mode it was prepared for, at its entry, whatever it ran
\* before; only the real-mode preparation relies on a vCPU that is in real mode already.
\* A vCPU as KVM creates it is never refused, and neither is long mode in any state.
ModesExact ==
  /\ cpu.n = 1 \/ cpu.asked = "long" => cpu.ok
  /\ KvmAccepts(cpu.s)
  /\ cpu.ok /\ cpu.asked # "none" =>
       /\ cpu.s.ip = "entry" /\ cpu.s.base = "zero"
       /\ cpu.asked # "real" \/ cpu.was = "real" => Mode(cpu.s) = cpu.asked

-----------------------------------------------------------------------------
(* What a guest boots and where it is put.  Addresses are scaled; the      *)
(* pieces keep their order in memory.                                      *)

TABLES == 2          \* three page tables, one cell each
BOOT_PARAMS == 6
CMDLINE == 7
LOW_RAM_END == 10
LOAD == 12
RAM_PAGE == 2
FLASH_TOP == 32
MIN_FLASH == 2
MAX_FLASH == 16
RESET_VECTOR == 31

RoundUp(n) == ((n + RAM_PAGE - 1) \div RAM_PAGE) * RAM_PAGE
Fails == [ok |-> FALSE, pieces |-> <<>>, entry |-> 0, ram |-> 0]
Piece(name, from, len) == [name |-> name, from |-> from, len |-> len]
\* Writes are checked against RAM one by one; the first that does not fit ends the boot.
Fits(ram, p) == p.from >= 0 /\ p.from + p.len <= ram
Written(ram, pieces, entry) ==
  IF \A i \in DOMAIN pieces : Fits(ram, pieces[i]) THEN [ok |-> TRUE, pieces |-> pieces, entry |-> entry, ram |-> ram] ELSE Fails
assemble(b) ==
  IF b.entry < b.load_base \/ (b.entry - b.load_base) + b.image > b.bytes \/ b.bytes = 0 THEN Fails
  ELSE Written(RoundUp(b.bytes), <<Piece("image", b.entry - b.load_base, b.image)>>, b.entry - b.load_base)
identity_tables == <<Piece("pml4", TABLES, 1), Piece("pdpt", TABLES + 1, 1), Piece("pd", TABLES + 2, 1)>>
prepare_long_mode(b) ==
  IF b.load_base # 0 \/ b.entry + b.image > TABLES \/ ~assemble(b).ok THEN Fails
  ELSE Written(assemble(b).ram, assemble(b).pieces \o identity_tables, b.entry)
load_bzimage(b, ram) ==
  LET initrd == ((ram - b.initrd) \div RAM_PAGE) * RAM_PAGE
      rd == IF b.initrd = 0 THEN <<>> ELSE <<Piece("initrd", initrd, b.initrd)>> IN
  IF b.load_base # 0 \/ ~b.header \/ ram < LOAD \/ (b.initrd # 0 /\ (ram < b.initrd \/ initrd < LOAD + b.kernel)) THEN Fails
  ELSE Written(ram, rd \o <<Piece("params", BOOT_PARAMS, 1), Piece("cmdline", CMDLINE, b.cmdline + 1), Piece("kernel", LOAD, b.kernel)>>, LOAD)
e820(ram) == <<<<0, LOW_RAM_END, "usable">>, <<LOW_RAM_END, LOAD, "reserved">>, <<LOAD, ram, "usable">>>>
boot_kernel_64(b, r) ==
  IF ~r.ok \/ b.load_base # 0 THEN Fails ELSE Written(r.ram, r.pieces \o identity_tables, r.entry + 1)
run_first_guest(b) == IF ~assemble(b).ok THEN Fails ELSE load_bzimage(b, assemble(b).ram)

for_images(code, vars) ==
  IF \E n \in {code, vars} : n < MIN_FLASH \/ n > MAX_FLASH \/ n % RAM_PAGE # 0 THEN None
  ELSE LET code_gpa == FLASH_TOP - code IN
       IF vars > code_gpa \/ ~(code_gpa <= RESET_VECTOR /\ RESET_VECTOR < FLASH_TOP) THEN None
       ELSE <<[code_gpa |-> code_gpa, code |-> code, vars_gpa |-> code_gpa - vars, vars |-> vars]>>
check_image(len, signed) == len >= MIN_FLASH /\ len <= MAX_FLASH /\ len % RAM_PAGE = 0 /\ signed
UefiFlashImage(b) == IF check_image(b.code, b.signed) /\ check_image(b.vars, b.signed) THEN for_images(b.code, b.vars) ELSE None
check_ram_no_overlap(l, base, ram) == ram # 0 /\ base + ram <= l.vars_gpa
prepare_uefi_boot(b) ==
  LET l == UefiFlashImage(b) IN
  IF l = None THEN Fails
  ELSE IF ~check_ram_no_overlap(l[1], b.load_base, b.bytes) THEN Fails
  ELSE [ok |-> TRUE, entry |-> RESET_VECTOR, ram |-> RoundUp(b.bytes),
        pieces |-> <<Piece("vars", l[1].vars_gpa, l[1].vars), Piece("code", l[1].code_gpa, l[1].code)>>]
read_flash_bytes(b, gpa, len) ==
  LET l == UefiFlashImage(b)[1] IN
  CASE gpa >= l.code_gpa /\ gpa + len <= l.code_gpa + l.code -> <<"code", gpa - l.code_gpa>>
    [] gpa >= l.vars_gpa /\ gpa + len <= l.vars_gpa + l.vars -> <<"vars", gpa - l.vars_gpa>>
    [] OTHER -> None
ram_range(base, ram, gpa, len) == IF gpa < base \/ (gpa - base) + len > ram THEN None ELSE <<gpa - base, len>>

BootInit == boot \in {[b |-> b, done |-> FALSE, r |-> Fails] : b \in Boots}
BootNext ==
  /\ ~boot.done
  /\ boot' = [boot EXCEPT !.done = TRUE, !.r =
       CASE boot.b.kind = "image" -> assemble(boot.b)
         [] boot.b.kind = "long" -> prepare_long_mode(boot.b)
         [] boot.b.kind = "linux" -> run_first_guest(boot.b)
         [] boot.b.kind = "linux64" -> boot_kernel_64(boot.b, run_first_guest(boot.b))
         [] OTHER -> prepare_uefi_boot(boot.b)]

\* Everything a boot placed is still whole when the guest starts, and the guest starts in it.
\* The command line is the one piece whose length nothing checks.  The firmware's image lies
\* above RAM with the reset vector in it.
ShortLine(b) == CMDLINE + b.cmdline + 1 <= LOAD
BootExact ==
  boot.done /\ boot.r.ok =>
    LET p == boot.r.pieces IN
    /\ boot.b.kind \in {"linux", "linux64"} => \A e \in Range(e820(boot.r.ram)) : e[1] <= e[2] /\ e[2] <= boot.r.ram
    /\ boot.b.kind \notin {"linux", "linux64"} \/ ShortLine(boot.b) =>
         \A i, j \in DOMAIN p : i < j => Bytes(p[i].from, p[i].len) \cap Bytes(p[j].from, p[j].len) = {}
    /\ boot.b.kind = "uefi" =>
         /\ \E i \in DOMAIN p : p[i].name = "code" /\ boot.r.entry \in Bytes(p[i].from, p[i].len)
         /\ \A i \in DOMAIN p : Bytes(p[i].from, p[i].len) \cap Bytes(boot.b.load_base, boot.r.ram) = {}
         /\ \A gpa \in 0 .. FLASH_TOP - 1 : read_flash_bytes(boot.b, gpa, 1) # None =>
              \E i \in DOMAIN p : read_flash_bytes(boot.b, gpa, 1) = <<p[i].name, gpa - p[i].from>>
    /\ boot.b.kind # "uefi" => \A i \in DOMAIN p : ram_range(boot.b.load_base, boot.r.ram, boot.b.load_base + p[i].from, p[i].len) # None

-----------------------------------------------------------------------------
(* The devices of a machine, registered one by one on the port and the     *)
(* register bus.  Registers are counted in pages of 4 KiB.                 *)

Dev(name, base, count) == [name |-> name, base |-> base, end |-> base + count]
\* The neighbours at or below and at or above the new range decide.
mmio_register(bus, d) ==
  LET below == {e \in bus : e.base <= d.base}
      above == {e \in bus : e.base >= d.base} IN
  IF d.end <= d.base THEN "EmptyRange"
  ELSE IF below # {} /\ (CHOOSE e \in below : \A f \in below : f.base <= e.base).end > d.base THEN "Overlap"
  ELSE IF above # {} /\ (CHOOSE e \in above : \A f \in above : f.base >= e.base).base < d.end THEN "Overlap"
  ELSE "Ok"
mmio_lookup(bus, a) ==
  LET below == {e \in bus : e.base <= a} IN
  IF below = {} THEN None
  ELSE LET e == CHOOSE e \in below : \A f \in below : f.base <= e.base IN IF a < e.end THEN <<e.name, a - e.base>> ELSE None

add_serial == <<<<"pio", Dev("com1", 1016, 8)>>>>
add_pit == <<<<"pio", Dev("pit", 64, 4)>>>>
add_pic == <<<<"pio", Dev("pic1", 32, 2)>>, <<"pio", Dev("pic2", 160, 2)>>, <<"pio", Dev("elcr", 1232, 2)>>>>
add_ioapic == <<<<"mmio", Dev("ioapic", 1043456, 1)>>>>
add_lapic_mmio == <<<<"mmio", Dev("lapic", 1043968, 1)>>>>
add_pcie == <<<<"pio", Dev("cam", 3320, 8)>>, <<"mmio", Dev("ecam", 720896, 65536)>>>>
add_system_control == <<<<"pio", Dev("port61", 97, 1)>>, <<"pio", Dev("port92", 146, 1)>>>>
add_rtc == <<<<"pio", Dev("rtc", 112, 2)>>>>
add_ps2 == <<<<"pio", Dev("ps2data", 96, 1)>>, <<"pio", Dev("ps2cmd", 100, 1)>>>>
add_hpet == <<<<"mmio", Dev("hpet", 1043712, 1)>>>>
add_acpi == <<<<"pio", Dev("pmtimer", 1544, 4)>>, <<"pio", Dev("pm1", 1536, 6)>>, <<"pio", Dev("smi", 178, 1)>>, <<"pio", Dev("gpe0", 1568, 16)>>>>
add_dma_controllers == <<<<"pio", Dev("dma1", 0, 16)>>, <<"pio", Dev("dma2", 192, 32)>>, <<"pio", Dev("dmapage", 128, 16)>>>>
add_smbus == <<<<"pio", Dev("smbus", 45312, 32)>>>>
add_xhci == <<<<"mmio", Dev("xhci", 1042688, 16)>>>>
add_tpm == <<<<"mmio", Dev("tpm", 1043776, 5)>>>>
add_fw_cfg == <<<<"pio", Dev("fwcfg", 1296, 2)>>>>
standard_pc == add_serial \o add_pit \o add_pcie
standard_pc_with_interrupts == add_serial \o add_pit \o add_ioapic \o add_lapic_mmio \o add_pcie
standard_pc_with_pic == add_serial \o add_pit \o add_pic \o add_pcie
standard_pc_with_dual_irq == add_serial \o add_pit \o add_pic \o add_ioapic \o add_lapic_mmio \o add_pcie
standard_pc_complete_seeded ==
  add_serial \o add_pit \o add_system_control \o add_rtc \o add_ps2 \o add_pic \o add_ioapic \o add_lapic_mmio
    \o add_hpet \o add_acpi \o add_dma_controllers \o add_pcie \o add_smbus \o add_xhci \o add_tpm
Machines == <<standard_pc, standard_pc_with_interrupts, standard_pc_with_pic, standard_pc_with_dual_irq, standard_pc_complete_seeded>>

BuildInit == build \in {[todo |-> Machines[m] \o add_fw_cfg, pio |-> {}, mmio |-> {}, failed |-> None, extra |-> 0] : m \in DOMAIN Machines}
Register(d) ==
  LET bus == IF d[1] = "pio" THEN build.pio ELSE build.mmio
      ok == mmio_register(bus, d[2]) = "Ok" IN
  [build EXCEPT !.pio = IF ok /\ d[1] = "pio" THEN @ \cup {d[2]} ELSE @,
                !.mmio = IF ok /\ d[1] = "mmio" THEN @ \cup {d[2]} ELSE @,
                !.failed = IF ok THEN @ ELSE <<d[2].name>>]
\* Once assembled, a machine may be given further devices; one that collides is refused.
BuildNext ==
  /\ build.failed = None
  /\ \/ build.todo # <<>> /\ build' = [Register(Head(build.todo)) EXCEPT !.todo = Tail(@)]
     \/ /\ build.todo = <<>> /\ build.extra < 2
        /\ \E base \in {94, 98, 99, 101, 142, 1295, 1299, 1542, 1548}, count \in 0 .. 6 :
             build' = [Register(<<"pio", Dev("extra", base, count)>>) EXCEPT !.extra = @ + 1]

\* No standard device stands in another's way, a device that is refused changes nothing, and
\* every port and register leads to the one device that claims it, at the right offset.
BuildExact ==
  /\ build.failed # None => build.failed = <<"extra">>
  /\ \A bus \in {build.pio, build.mmio} : \A d, e \in bus : d # e => d.end <= e.base \/ e.end <= d.base
  /\ \A bus \in {build.pio, build.mmio} : \A d \in bus :
       /\ mmio_lookup(bus, d.base) = <<d.name, 0>> /\ mmio_lookup(bus, d.end - 1) = <<d.name, d.end - 1 - d.base>>
       /\ (\A e \in bus : e.base # d.end) => mmio_lookup(bus, d.end) = None

-----------------------------------------------------------------------------
(* The demonstration guests the boot kernel runs on AMD SVM, one after the   *)
(* other: how each VMCB is programmed, the three #VMEXIT dispatch loops that *)
(* drive it, and what the kernel then expects of the run.  The processor     *)
(* that executes the guest between VMRUN and #VMEXIT is external: it is      *)
(* modelled by the architectural rules the loops rely on.                    *)
(* An instruction is <<operation, argument>>; AL holds a named byte.         *)
CONSTANTS
  SpinIters,    \* iterations of the bounded guest spins (GUEST_LM_SPIN_ITERS)
  MaxVmruns,    \* MAX_VMRUNS
  MaxIoOuts     \* MAX_IO_OUTS

VARIABLE vm

MOV(v) == <<"mov", v>>
OUT(p) == <<"out", p>>
HLT    == <<"hlt", "">>
IRET   == <<"iret", "">>
STI    == <<"sti", "">>
Spin   == <<"dec", "">>       \* DEC ECX; JNZ: one iteration per step

NoGate == [v \in {} |-> <<>>]
Gate(v, code) == [x \in {v} |-> code]

-----------------------------------------------------------------------------
(* The VMCBs.  guest(main, gates) is a VMCB as the two minimal programmers   *)
(* leave it, with every port intercepted; EXCEPT adds what each guest needs. *)
program_minimal_hlt_guest(main, gates) ==
  [main |-> main, gates |-> gates, icept |-> {}, inj |-> "none", err |-> "",
   virq |-> FALSE, masking |-> FALSE, ro |-> FALSE, timer |-> FALSE,
   loop |-> "boot", dirty |-> FALSE, cell |-> "zero"]

program_long_mode_hlt_guest(main, gates) == program_minimal_hlt_guest(main, gates)

write_guest_program ==
  << <<"cpuid", "leaf0">>, OUT("io"), <<"cpuid", "leaf1">>, OUT("hv"),
     <<"rdmsr", "stealth">>, OUT("msr"), MOV("value"), <<"wrmsr", "other">>,
     <<"rdmsr", "other">>, OUT("msr_w"), <<"far", "">>, OUT("npf"),
     MOV("sum"), OUT("compute"), MOV("number"), <<"vmmcall", "">>, OUT("vmmcall"),
     <<"ext", "gs">>, OUT("gs"), HLT >>
program_boot_vmcb == program_minimal_hlt_guest(write_guest_program, NoGate)

program_event_inj_vmcb ==
  [program_minimal_hlt_guest(<<HLT>>, Gate("event", <<MOV("event"), OUT("event"), HLT>>))
     EXCEPT !.inj = "event"]

program_long_mode_vmcb == program_long_mode_hlt_guest(<<MOV("lm"), OUT("lm"), HLT>>, NoGate)

program_ldtr_tr_vmcb ==
  program_long_mode_hlt_guest(<< <<"ext", "tr">>, OUT("tr"), <<"ext", "ldtr">>, OUT("ldtr"),
                                 MOV("lm"), OUT("lm"), HLT >>, NoGate)

write_event_resume_program ==
  Gate("event", <<MOV("work"), <<"store", "">>, MOV("resume"), IRET>>)
program_event_inj_resume_vmcb ==
  [program_minimal_hlt_guest(<<OUT("resume"), HLT>>, write_event_resume_program)
     EXCEPT !.inj = "event"]

write_long_mode_event_program == Gate("event", <<MOV("lm_event"), IRET>>)
program_long_mode_event_inj_vmcb ==
  [program_long_mode_hlt_guest(<<OUT("lm_event"), HLT>>, write_long_mode_event_program)
     EXCEPT !.inj = "event"]

\* A virtual interrupt already pending in INT_CONTROL, V_INTR_MASKING set.
arm_pending_vintr(vmcb) == [vmcb EXCEPT !.virq = TRUE, !.masking = TRUE]
set_intr_intercept(vmcb) == [vmcb EXCEPT !.icept = @ \cup {"intr"}]
build_long_mode_vintr_guest(main, handler) ==
  program_long_mode_hlt_guest(main, Gate("event", handler))

program_long_mode_vintr_vmcb ==
  arm_pending_vintr(build_long_mode_vintr_guest(
    <<MOV("before"), OUT("before"), STI, <<"nop", "">>, MOV("resume"), OUT("resume"), HLT>>,
    <<MOV("handler"), OUT("handler"), IRET>>))

program_long_mode_preempt_vmcb ==
  arm_pending_vintr(build_long_mode_vintr_guest(
    <<STI, <<"self", "">> >>, <<MOV("preempt"), OUT("preempt"), HLT>>))

program_ud_exception_vmcb ==
  [program_minimal_hlt_guest(<< <<"fault", "ud">>, HLT >>,
                             Gate("ud", <<MOV("ud"), OUT("ud"), HLT>>))
     EXCEPT !.icept = {"ud"}]

program_irq_resume_vmcb ==
  [program_minimal_hlt_guest(<<MOV("resume"), OUT("resume"), HLT>>,
                             Gate("event", <<MOV("handler"), OUT("handler"), IRET>>))
     EXCEPT !.inj = "event"]

program_wp_npf_vmcb ==
  [program_minimal_hlt_guest(<<MOV("value"), <<"store", "">>, <<"load", "">>, OUT("wp"),
                               MOV("value2"), <<"store", "">>, <<"load", "">>, OUT("wp2"),
                               HLT>>, NoGate)
     EXCEPT !.ro = TRUE, !.dirty = TRUE]

\* STI and the count-down every timer guest spins in, then HLT.
bounded_spin_program == <<STI, <<"ecx", "">>, Spin, HLT>>
program_timer_preempt_vmcb ==
  [set_intr_intercept(program_long_mode_hlt_guest(bounded_spin_program, Gate("event", <<>>)))
     EXCEPT !.timer = TRUE]

program_timer_tick_vmcb ==
  [set_intr_intercept(build_long_mode_vintr_guest(bounded_spin_program,
                        <<MOV("preempt"), OUT("preempt"), HLT>>))
     EXCEPT !.timer = TRUE, !.loop = "tick"]

program_periodic_tick_vmcb ==
  [set_intr_intercept(build_long_mode_vintr_guest(bounded_spin_program,
                        <<MOV("tick"), OUT("tick"), IRET>>))
     EXCEPT !.timer = TRUE, !.loop = "periodic"]

program_rdtsc_emulate_vmcb ==
  [program_minimal_hlt_guest(<< <<"rdtsc", "">>, OUT("rdtsc"), HLT >>, NoGate)
     EXCEPT !.icept = {"rdtsc"}]

write_exception_errcode_handler(port) == << <<"code", "">>, OUT(port), <<"skip", "">>, IRET >>
program_long_mode_exception_errcode_vmcb ==
  [program_long_mode_hlt_guest(<< <<"fault", "pf">>, <<"fault", "gp">>, HLT >>,
                               [v \in {"pf", "gp"} |-> write_exception_errcode_handler(v)])
     EXCEPT !.icept = {"pf", "gp"}]

\* The order in which bring_up_virtualization runs them.
bring_up_virtualization ==
  <<"boot", "event_inj", "long_mode", "ldtr_tr", "event_resume", "lm_event", "vintr",
    "preempt", "ud", "irq_resume", "wp", "timer_preempt", "timer_tick", "periodic",
    "rdtsc", "errcode">>
Vmcb(name) ==
  CASE name = "boot"          -> program_boot_vmcb
    [] name = "event_inj"     -> program_event_inj_vmcb
    [] name = "long_mode"     -> program_long_mode_vmcb
    [] name = "ldtr_tr"       -> program_ldtr_tr_vmcb
    [] name = "event_resume"  -> program_event_inj_resume_vmcb
    [] name = "lm_event"      -> program_long_mode_event_inj_vmcb
    [] name = "vintr"         -> program_long_mode_vintr_vmcb
    [] name = "preempt"       -> program_long_mode_preempt_vmcb
    [] name = "ud"            -> program_ud_exception_vmcb
    [] name = "irq_resume"    -> program_irq_resume_vmcb
    [] name = "wp"            -> program_wp_npf_vmcb
    [] name = "timer_preempt" -> program_timer_preempt_vmcb
    [] name = "timer_tick"    -> program_timer_tick_vmcb
    [] name = "periodic"      -> program_periodic_tick_vmcb
    [] name = "rdtsc"         -> program_rdtsc_emulate_vmcb
    [] name = "errcode"       -> program_long_mode_exception_errcode_vmcb

-----------------------------------------------------------------------------
(* The state: the VMCB being run, the guest's registers, the outcome the     *)
(* loop collects, and the processor around them (which extended state is     *)
(* loaded, the local APIC timer).                                            *)
GuestRunOutcome ==
  [stop |-> "running", vmruns |-> 0, final_exit |-> "none", outs |-> <<>>, ticks |-> 0,
   leaf0 |-> FALSE, npf |-> 0, wp_faults |-> 0, vmmcalls |-> 0, exceptions |-> 0, rdtscs |-> 0]

Started(s, i) ==
  LET v == Vmcb(bring_up_virtualization[i])
  IN  [s EXCEPT !.n = i, !.phase = "enter", !.v = v, !.out = GuestRunOutcome,
                !.g = [seg |-> "main", ip |-> 1, al |-> "zero", if |-> FALSE, shadow |-> FALSE,
                       stack |-> <<>>, code |-> "", ecx |-> 0, cell |-> v.cell],
                !.msrs = NoGate, !.mapped = FALSE, !.logged = FALSE, !.entered = 0,
                !.exit = <<"none", "">>, !.armed = @ \/ v.timer]

Blank == [n |-> 0, phase |-> "enter", v |-> Vmcb("boot"), out |-> GuestRunOutcome,
          g |-> <<>>, msrs |-> NoGate, mapped |-> FALSE, logged |-> FALSE, entered |-> 0,
          exit |-> <<"none", "">>, ext |-> "host", armed |-> FALSE, irr |-> FALSE,
          stolen |-> FALSE]

Init == vm = Started(Blank, 1)

-----------------------------------------------------------------------------
(* The processor (external).                                                 *)
Exits(s, code, arg) == [s EXCEPT !.phase = "exit", !.exit = <<code, arg>>, !.ext = "host"]

\* Vector through the guest's table; without a gate the guest shuts down.
Takes(s, vec, err) ==
  IF vec \notin DOMAIN s.v.gates THEN Exits(s, "shutdown", "")
  ELSE [s EXCEPT !.g.stack = <<[seg |-> s.g.seg, ip |-> s.g.ip, if |-> s.g.if]>> \o @,
                 !.g.seg = vec, !.g.ip = 1, !.g.if = FALSE, !.g.shadow = FALSE,
                 !.g.code = err, !.entered = @ + 1]

Insn(s) == LET code == IF s.g.seg = "main" THEN s.v.main ELSE s.v.gates[s.g.seg]
           IN  code[s.g.ip]

Advanced(s) == [s EXCEPT !.g.ip = @ + 1, !.g.shadow = FALSE]

Loaded(s, v) == [Advanced(s) EXCEPT !.g.al = v]

\* One instruction; the set of outcomes (an intercept on RDTSC may not fire
\* when this hypervisor itself runs nested).
Executed(s) ==
  LET op == Insn(s)[1]
      arg == Insn(s)[2]
      top == Head(s.g.stack)
  IN  CASE op = "mov" -> {Loaded(s, arg)}
        [] op = "nop" -> {Advanced(s)}
        [] op = "sti" -> {[Advanced(s) EXCEPT !.g.if = TRUE, !.g.shadow = ~s.g.if]}
        [] op = "self" -> {[s EXCEPT !.g.shadow = FALSE]}
        [] op = "ecx" -> {[Advanced(s) EXCEPT !.g.ecx = SpinIters]}
        [] op = "dec" -> {[IF s.g.ecx > 1 THEN s ELSE Advanced(s)
                             EXCEPT !.g.ecx = s.g.ecx - 1, !.g.shadow = FALSE]}
        [] op = "ext" -> {Loaded(s, IF s.ext = "guest" THEN arg ELSE "host")}
        [] op = "code" -> {Loaded(s, s.g.code)}
        [] op = "skip" -> {[Advanced(s) EXCEPT !.g.stack[1].ip = @ + 1]}
        [] op = "iret" -> {[s EXCEPT !.g.seg = top.seg, !.g.ip = top.ip, !.g.if = top.if,
                                     !.g.stack = Tail(@), !.g.shadow = FALSE]}
        [] op = "store" -> {IF s.v.ro THEN Exits(s, "npf", "write")
                            ELSE [Advanced(s) EXCEPT !.g.cell = s.g.al]}
        [] op = "load" -> {Loaded(s, s.g.cell)}
        [] op = "far" -> {IF s.mapped THEN Loaded(s, "npf") ELSE Exits(s, "npf", "absent")}
        [] op = "fault" -> {IF arg \in s.v.icept THEN Exits(s, "exception", arg)
                            ELSE Takes(s, arg, arg)}
        [] op = "rdtsc" -> {Exits(s, "rdtsc", ""), Loaded(s, "tsc")}
        [] OTHER -> {Exits(s, op, arg)}     \* HLT, OUT, CPUID, RDMSR, WRMSR, VMMCALL

\* VMRUN: VMSAVE host, VMLOAD guest, then the event injection.
vmrun(s) ==
  LET r == [s EXCEPT !.phase = "guest", !.ext = "guest"]
  IN  IF s.v.inj = "none" THEN r ELSE Takes(r, s.v.inj, s.v.err)

\* Physical interrupts are gated by the guest's IF, or by the host's (clear
\* while these loops run) under V_INTR_MASKING.
PhysicalOpen(s) == s.irr /\ ~s.v.masking /\ s.g.if /\ ~s.g.shadow

GuestStep(s) ==
  IF PhysicalOpen(s)
  THEN {IF "intr" \in s.v.icept THEN Exits(s, "intr", "")
        ELSE Exits([s EXCEPT !.stolen = TRUE, !.irr = FALSE], "shutdown", "")}
  ELSE IF s.v.virq /\ s.g.if /\ ~s.g.shadow
  THEN {Takes([s EXCEPT !.v.virq = FALSE], "event", "")}
  ELSE Executed(s)

-----------------------------------------------------------------------------
(* The exit handlers.                                                        *)
record_io_out(out, port, data) ==
  IF Len(out.outs) < MaxIoOuts THEN [out EXCEPT !.outs = Append(@, <<port, data>>)] ELSE out

io_out_to(out, port) ==
  LET hits == {i \in DOMAIN out.outs : out.outs[i][1] = port}
  IN  IF hits = {} THEN "none" ELSE out.outs[CHOOSE i \in hits : \A j \in hits : i >= j][2]

Resumed(s) == [s EXCEPT !.g.ip = @ + 1, !.g.shadow = FALSE]
Stopped(s, why) == [s EXCEPT !.out.stop = why]

emulate_cpuid(s, leaf) ==
  [Resumed(s) EXCEPT !.g.al = leaf, !.out.leaf0 = @ \/ leaf = "leaf0"]

\* The shadow answers before the fixed table; a number neither knows leaves
\* the registers alone.
emulate_rdmsr(s, msr) ==
  [Resumed(s) EXCEPT !.g.al = IF msr \in DOMAIN s.msrs THEN s.msrs[msr]
                              ELSE IF msr = "stealth" THEN "sentinel" ELSE @]
emulate_wrmsr(s, msr) ==
  [Resumed(s) EXCEPT !.msrs = [m \in DOMAIN s.msrs \cup {msr} |->
                                 IF m = msr THEN s.g.al ELSE s.msrs[m]]]

emulate_vmmcall(s) ==
  [Resumed(s) EXCEPT !.out.vmmcalls = @ + 1,
                     !.g.al = IF @ = "number" THEN "result" ELSE @]

exception_has_error_code(vec) == vec \in {"pf", "gp"}

\* A write to a present page is logged and granted, anything else is mapped;
\* neither moves RIP, so the guest retries its access.
npf(s, kind) ==
  IF kind = "write"
  THEN [s EXCEPT !.logged = @ \/ s.v.dirty, !.v.ro = FALSE, !.out.wp_faults = @ + 1]
  ELSE [s EXCEPT !.mapped = TRUE, !.out.npf = @ + 1]

reinject(s, vec) ==
  [s EXCEPT !.out.exceptions = @ + 1, !.v.inj = vec,
            !.v.err = IF exception_has_error_code(vec) THEN vec ELSE ""]

step_guest(t) ==
  LET code == t.exit[1]
      arg == t.exit[2]
      s == [t EXCEPT !.out.final_exit = code]
  IN  CASE code = "hlt" -> Stopped(s, "halted")
        [] code = "shutdown" -> Stopped(s, "shutdown")
        [] code = "intr" -> Stopped(s, "unhandled")
        [] code = "cpuid" -> emulate_cpuid(s, arg)
        [] code = "out" -> [Resumed(s) EXCEPT !.out = record_io_out(@, arg, s.g.al)]
        [] code = "rdmsr" -> emulate_rdmsr(s, arg)
        [] code = "wrmsr" -> emulate_wrmsr(s, arg)
        [] code = "rdtsc" -> [Resumed(s) EXCEPT !.g.al = "tsc", !.out.rdtscs = @ + 1]
        [] code = "npf" -> npf(s, arg)
        [] code = "vmmcall" -> emulate_vmmcall(s)
        [] code = "exception" -> reinject(s, arg)

\* sti; nop; cli: the host takes and acknowledges a pending timer interrupt.
HostAcks(s) == [s EXCEPT !.irr = FALSE]

Capped(s) ==
  IF s.out.stop # "running" THEN [s EXCEPT !.phase = "done"]
  ELSE IF s.out.vmruns >= MaxVmruns THEN [Stopped(s, "cap") EXCEPT !.phase = "done"]
  ELSE [s EXCEPT !.phase = "enter"]

\* After every VMRUN: count it and clear EVENTINJ, which the processor leaves set.
AfterVmrun(s) == [s EXCEPT !.out.vmruns = @ + 1, !.v.inj = "none"]

\* The dirty log's page is protected again on an exit that logged no write.
run_boot_guest_loop(s) ==
  LET t == step_guest(AfterVmrun(s))
      re == /\ s.v.dirty /\ t.out.stop = "running"
            /\ t.out.wp_faults = s.out.wp_faults
            /\ t.logged
  IN  Capped(IF re THEN [t EXCEPT !.v.ro = TRUE] ELSE t)

run_timer_tick_guest_loop(s) ==
  LET t == AfterVmrun(s)
  IN  Capped(IF s.exit[1] = "intr"
             THEN [HostAcks(t) EXCEPT !.out.final_exit = "intr", !.v.virq = TRUE, !.v.masking = TRUE]
             ELSE step_guest(t))

run_periodic_tick_guest_loop(s) ==
  LET t == AfterVmrun(s)
  IN  Capped(IF s.exit[1] = "intr"
             THEN [HostAcks(t) EXCEPT !.out.final_exit = "intr", !.out.ticks = @ + 1,
                                      !.armed = TRUE, !.v.virq = TRUE, !.v.masking = FALSE]
             ELSE step_guest(t))

-----------------------------------------------------------------------------
(* Actions.                                                                  *)
Enter == vm.phase = "enter" /\ vm' = vmrun(vm)

Run == vm.phase = "guest" /\ \E t \in GuestStep(vm) : vm' = t

Handle ==
  /\ vm.phase = "exit"
  /\ vm' = CASE vm.v.loop = "boot" -> run_boot_guest_loop(vm)
             [] vm.v.loop = "tick" -> run_timer_tick_guest_loop(vm)
             [] vm.v.loop = "periodic" -> run_periodic_tick_guest_loop(vm)

\* The local APIC's one-shot timer expires (external).
TimerFires == vm.armed /\ vm.phase # "done" /\ vm' = [vm EXCEPT !.armed = FALSE, !.irr = TRUE]

\* The next demonstration; the timer-preemption one first lets the host
\* acknowledge the interrupt that preempted the guest.
NextGuest ==
  /\ vm.phase = "done" /\ vm.n < Len(bring_up_virtualization)
  /\ vm' = Started(IF bring_up_virtualization[vm.n] = "timer_preempt" THEN HostAcks(vm) ELSE vm,
                   vm.n + 1)

Next == Enter \/ Run \/ Handle \/ TimerFires \/ NextGuest
Spec == Init /\ [][Next]_vm

-----------------------------------------------------------------------------
(* What the kernel prints success for, demonstration by demonstration.       *)
OutIs(s, port, v) == io_out_to(s.out, port) = v
Positions(s, port, v) == {i \in DOMAIN s.out.outs : s.out.outs[i] = <<port, v>>}

report_guest_run(s) ==
  /\ s.out.stop = "halted" /\ s.out.leaf0 /\ s.out.npf > 0 /\ s.out.vmmcalls > 0
  /\ OutIs(s, "io", "leaf0") /\ OutIs(s, "hv", "leaf1") /\ OutIs(s, "msr", "sentinel")
  /\ OutIs(s, "msr_w", "value") /\ OutIs(s, "npf", "npf") /\ OutIs(s, "compute", "sum")
  /\ OutIs(s, "vmmcall", "result") /\ OutIs(s, "gs", "gs")

run_event_inj_guest(s) == OutIs(s, "event", "event")

run_event_inj_resume_guest(s) == OutIs(s, "resume", "resume") /\ s.g.cell = "work"

run_long_mode_guest(s) == OutIs(s, "lm", "lm")

run_ldtr_tr_guest(s) == OutIs(s, "tr", "tr") /\ OutIs(s, "ldtr", "ldtr")

run_long_mode_event_inj_guest(s) == OutIs(s, "lm_event", "lm_event")

run_long_mode_vintr_guest(s) ==
  \E b \in Positions(s, "before", "before"), h \in Positions(s, "handler", "handler"),
     r \in Positions(s, "resume", "resume") : b < h /\ h < r

run_long_mode_preempt_guest(s) == s.out.stop = "halted" /\ OutIs(s, "preempt", "preempt")

\* The timer may or may not expire while the guest spins.
run_timer_preempt_guest(s) == s.out.final_exit = "intr" \/ s.out.stop = "halted"

run_timer_tick_delivery_guest(s) ==
  s.out.stop = "halted" /\ (s.entered > 0 => OutIs(s, "preempt", "preempt"))

handled_ticks(s) == Cardinality(Positions(s, "tick", "tick"))
run_periodic_tick_guest(s) ==
  /\ s.out.stop \in {"halted", "cap"}
  /\ (s.out.stop = "halted" /\ s.out.ticks >= 1) => handled_ticks(s) >= 1

run_ud_exception_guest(s) == s.out.exceptions > 0 /\ OutIs(s, "ud", "ud")

run_irq_resume_guest(s) == OutIs(s, "handler", "handler") /\ OutIs(s, "resume", "resume")

run_wp_npf_guest(s) ==
  /\ s.out.wp_faults = 2 /\ s.logged
  /\ OutIs(s, "wp", "value") /\ OutIs(s, "wp2", "value2")

run_rdtsc_emulate_guest(s) == s.out.stop = "halted"

run_exception_errcode_guest(s) ==
  s.out.exceptions >= 2 /\ OutIs(s, "pf", "pf") /\ OutIs(s, "gp", "gp")

Reported(s) ==
  LET name == bring_up_virtualization[s.n]
  IN  /\ name = "boot" => report_guest_run(s)
      /\ name = "event_inj" => run_event_inj_guest(s)
      /\ name = "long_mode" => run_long_mode_guest(s)
      /\ name = "ldtr_tr" => run_ldtr_tr_guest(s)
      /\ name = "event_resume" => run_event_inj_resume_guest(s)
      /\ name = "lm_event" => run_long_mode_event_inj_guest(s)
      /\ name = "vintr" => run_long_mode_vintr_guest(s)
      /\ name = "preempt" => run_long_mode_preempt_guest(s)
      /\ name = "ud" => run_ud_exception_guest(s)
      /\ name = "irq_resume" => run_irq_resume_guest(s)
      /\ name = "wp" => run_wp_npf_guest(s)
      /\ name = "timer_preempt" => run_timer_preempt_guest(s)
      /\ name = "timer_tick" => run_timer_tick_delivery_guest(s)
      /\ name = "periodic" => run_periodic_tick_guest(s)
      /\ name = "rdtsc" => run_rdtsc_emulate_guest(s)
      /\ name = "errcode" => run_exception_errcode_guest(s)

-----------------------------------------------------------------------------
(* Properties.                                                               *)
\* Every demonstration that ends ends as kernel.rs expects: each sentinel
\* reaches its port in order, both faults carry their codes, the spinning
\* guest is preempted, no run is cut off by the iteration cap (but the
\* periodic one, whose timer may starve the guest).
DemosEndAsReported == vm.phase = "done" => Reported(vm)

\* A tick is handled at most once and every handler entry answers one injected
\* event: an injection left in the VMCB would enter the handler again.
TicksHandledOnce ==
  /\ vm.v.loop = "periodic" => /\ vm.entered + (IF vm.v.virq THEN 1 ELSE 0) <= vm.out.ticks
                               /\ handled_ticks(vm) <= vm.entered
  /\ vm.v.loop = "tick" => vm.entered <= 1
  /\ vm.v.loop = "boot" => vm.entered <= 2

\* The host's own interrupt is never vectored through a guest's table, and
\* outside VMRUN the processor always has the host's extended state.
HostKeepsItsState == /\ ~vm.stolen
                     /\ vm.phase # "guest" => vm.ext = "host"

=============================================================================
