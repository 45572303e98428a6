---------------------------- MODULE GuestMachine ----------------------------
(***************************************************************************)
(* What the boot hypervisor gives its guest to run on: the instructions,   *)
(* registers and address spaces it emulates, and the port and register     *)
(* devices beside the interrupt chips.                                     *)
(***************************************************************************)
(***************************************************************************)
(* What the boot hypervisor does for its guest's processor                 *)
(* (enlil-boot/src/linux_guest.rs and insn.rs): the instructions it        *)
(* decodes and finishes for the guest (MMIO moves, string port access,     *)
(* CPUID, RDMSR, WRMSR, HLT), and the records it keeps of them.            *)
(* Parts, each with one record for its state: `insn`, the decoder and the  *)
(* register file; `fetch`, reading the instruction through the guest's     *)
(* page tables; `str`, INS and OUTS; `cpu`, the exits of the run loop.     *)
(***************************************************************************)
EXTENDS Integers, SequencesExt, FiniteSetsExt

CONSTANTS
  Insns,      \* the moves the guest may execute: prefix, rex, op, mod, rm, reg, base
  Spaces,     \* guest page tables: what the walk finds for each page
  PAGE,       \* bytes of a page of code
  FETCH,      \* bytes the decoder asks for
  Strings,    \* the string instructions: in, rep, size, width, back, count, at
  WIDTH,      \* addresses an address size reaches, by size
  HostBits,   \* what the host's CPUID may report
  MsrValues,  \* values the guest writes to a shadowed MSR
  MaxExits    \* bound: exits of a behaviour

VARIABLES insn, fetch, str, cpu

None == <<>>
-----------------------------------------------------------------------------
\* A 64-bit value is the sequence of its bytes, the lowest first.
Byte == 0 .. 255
U64(bytes, fill) == [i \in 1 .. 8 |-> IF i <= Len(bytes) THEN bytes[i] ELSE fill]
mask_to(v, size) == [i \in 1 .. 8 |-> IF i <= size THEN v[i] ELSE 0]
\* The value a load of `size` bytes puts into a register of `dest` bytes.
extend(v, size, dest, sign) ==
  mask_to(IF sign /\ size < 8 /\ v[size] >= 128
          THEN [i \in 1 .. 8 |-> IF i <= size THEN v[i] ELSE 255] ELSE mask_to(v, size), dest)
\* A byte or a word leaves the rest of the register, a doubleword clears it.
merge_reg(old, v, dest, high8) ==
  CASE dest = 1 /\ high8 -> [old EXCEPT ![2] = v[1]]
    [] dest = 1 /\ ~high8 -> [old EXCEPT ![1] = v[1]]
    [] dest = 2 -> [old EXCEPT ![1] = v[1], ![2] = v[2]]
    [] dest = 4 -> mask_to(v, 4)
    [] OTHER -> v

\* RAX and RSP are in the VMCB, the others in the block the run shell saves.
InVmcb == {0, 4}
get_reg(f, r) == IF r \in InVmcb THEN f.vmcb[r] ELSE f.gprs[r]
set_reg(f, r, v) == IF r \in InVmcb THEN [f EXCEPT !.vmcb[r] = v] ELSE [f EXCEPT !.gprs[r] = v]

-----------------------------------------------------------------------------
(* The decoder.  An instruction is the bytes b; what parsing yields is     *)
(* None or the values and where parsing goes on.                           *)

LEGACY == {102, 103, 46, 54, 62, 38, 100, 101, 240, 242, 243}
OPSIZE == 102
After(b, n) == SubSeq(b, n + 1, Len(b))
At(b, i) == IF i < Len(b) THEN <<b[i + 1]>> ELSE None

\* Legacy prefixes in any order, then at most one REX prefix.
prefix_end(b) == CHOOSE n \in 0 .. Len(b) :
  (\A i \in 1 .. n : b[i] \in LEGACY) /\ (n = Len(b) \/ b[n + 1] \notin LEGACY)
has_rex(b, n) == n < Len(b) /\ b[n + 1] \in 64 .. 79
parse_prefixes(b) ==
  LET n == prefix_end(b) IN
  [opsize16 |-> \E i \in 1 .. n : b[i] = OPSIZE,
   rex |-> IF has_rex(b, n) THEN b[n + 1] ELSE 0,
   next |-> IF has_rex(b, n) THEN n + 1 ELSE n]
rex_w(p) == (p.rex \div 8) % 2 = 1
rex_r(p) == IF (p.rex \div 4) % 2 = 1 THEN 8 ELSE 0
operand_size(p) == IF rex_w(p) THEN 8 ELSE IF p.opsize16 THEN 2 ELSE 4

Store == [kind |-> "store", dest |-> 0, sign |-> FALSE, imm |-> 0]
Load(dest, sign) == [kind |-> "load", dest |-> dest, sign |-> sign, imm |-> 0]
Imm(n) == [kind |-> "imm", dest |-> 0, sign |-> FALSE, imm |-> n]
\* Access size and shape of a one-byte opcode, and of one behind 0F.
one_byte(op, opsize) ==
  CASE op = 136 -> <<1, Store>>
    [] op = 137 -> <<opsize, Store>>
    [] op = 138 -> <<1, Load(1, FALSE)>>
    [] op = 139 -> <<opsize, Load(opsize, FALSE)>>
    [] op = 198 -> <<1, Imm(1)>>
    [] op = 199 -> <<opsize, Imm(IF opsize = 2 THEN 2 ELSE 4)>>
    [] OTHER -> None
two_byte(op, opsize) ==
  CASE op = 182 -> <<1, Load(opsize, FALSE)>>
    [] op = 183 -> <<2, Load(opsize, FALSE)>>
    [] op = 190 -> <<1, Load(opsize, TRUE)>>
    [] op = 191 -> <<2, Load(opsize, TRUE)>>
    [] OTHER -> None
parse_opcode(b, i, opsize) ==
  LET long == At(b, i) = <<15>>
      op == IF long THEN At(b, i + 1) ELSE At(b, i)
      shape == IF op = None THEN None ELSE IF long THEN two_byte(op[1], opsize) ELSE one_byte(op[1], opsize) IN
  IF shape = None THEN None ELSE Append(shape, IF long THEN i + 2 ELSE i + 1)

\* Past the ModRM byte, a SIB byte and the displacement; the displacement itself is not read.
parse_modrm(b, i) ==
  LET m == At(b, i)
      mod == m[1] \div 64
      rm == m[1] % 8
      sib == At(b, i + 1)
      disp == CASE mod = 1 -> 1
                [] mod = 2 -> 4
                [] mod = 0 /\ (rm = 5 \/ (rm = 4 /\ sib[1] % 8 = 5)) -> 4
                [] OTHER -> 0 IN
  IF m = None \/ mod = 3 \/ (rm = 4 /\ sib = None) THEN None
  ELSE <<i + 1 + (IF rm = 4 THEN 1 ELSE 0) + disp, (m[1] \div 8) % 8>>
\* A 32-bit immediate of a 64-bit store is sign-extended.
parse_imm(b, i, n, w) ==
  IF i + n > Len(b) THEN None
  ELSE LET raw == SubSeq(b, i + 1, i + n) IN
       <<U64(raw, IF w /\ n = 4 /\ raw[4] >= 128 THEN 255 ELSE 0), i + n>>

MemAccess(len, size, kind, reg, high8, sign, dest, value) ==
  [len |-> len, size |-> size, kind |-> kind, reg |-> reg, high8 |-> high8, sign |-> sign, dest |-> dest, value |-> value]
ZERO == U64(<<>>, 0)
\* AH, CH, DH and BH exist only without a REX prefix; MOVZX and MOVSX write whole registers.
byte_regs_high(p, reg) == p.rex = 0 /\ reg \in 4 .. 7
access_of(b, p, o, m) ==
  LET reg == m[2] + rex_r(p)
      size == o[1]
      shape == o[2]
      plain == At(b, p.next) = <<138>>
      imm == parse_imm(b, m[1], shape.imm, rex_w(p)) IN
  CASE shape.kind = "store" ->
         <<MemAccess(m[1], size, "store", reg, size = 1 /\ byte_regs_high(p, reg), FALSE, 0, ZERO)>>
    [] shape.kind = "load" ->
         <<MemAccess(m[1], size, "load", reg, plain /\ byte_regs_high(p, reg), shape.sign, shape.dest, ZERO)>>
    [] OTHER ->
         IF m[2] # 0 \/ imm = None THEN None
         ELSE <<MemAccess(imm[2], size, "imm", 0, FALSE, FALSE, 0, imm[1])>>
decode_mem_access(b) ==
  LET p == parse_prefixes(b)
      o == parse_opcode(b, p.next, operand_size(p))
      m == IF o = None THEN None ELSE parse_modrm(b, o[3]) IN
  IF o = None \/ m = None THEN None ELSE access_of(b, p, o, m)

\* What the processor executed: the bytes of an instruction, and what they mean.
RexW(x) == x.rex \in 72 .. 79
RexR(x) == x.rex \in (68 .. 71) \cup (76 .. 79)
OpSize(x) == IF RexW(x) THEN 8 ELSE IF OPSIZE \in Range(x.prefix) THEN 2 ELSE 4
ImmBytes(x) ==
  CASE x.op = <<198>> -> <<200>>
    [] x.op = <<199>> -> IF OpSize(x) = 2 THEN <<201, 202>> ELSE <<1, 2, 3, 204>>
    [] OTHER -> <<>>
Displaced(x) ==
  CASE x.mod = 1 -> <<9>>
    [] x.mod = 2 \/ x.rm = 5 \/ (x.rm = 4 /\ x.base = 5) -> <<9, 9, 9, 9>>
    [] OTHER -> <<>>
Assemble(x) ==
  x.prefix \o (IF x.rex = 0 THEN <<>> ELSE <<x.rex>>) \o x.op
    \o <<x.mod * 64 + x.reg * 8 + x.rm>> \o (IF x.rm = 4 THEN <<8 + x.base>> ELSE <<>>)
    \o Displaced(x) \o ImmBytes(x)
Meaning(x) ==
  LET n == Len(Assemble(x))
      reg == x.reg + (IF RexR(x) THEN 8 ELSE 0)
      high == x.rex = 0 /\ x.reg >= 4
      small == IF x.op \in {<<15, 182>>, <<15, 190>>} THEN 1 ELSE 2 IN
  CASE x.op = <<136>> -> MemAccess(n, 1, "store", reg, high, FALSE, 0, ZERO)
    [] x.op = <<137>> -> MemAccess(n, OpSize(x), "store", reg, FALSE, FALSE, 0, ZERO)
    [] x.op = <<138>> -> MemAccess(n, 1, "load", reg, high, FALSE, 1, ZERO)
    [] x.op = <<139>> -> MemAccess(n, OpSize(x), "load", reg, FALSE, FALSE, OpSize(x), ZERO)
    [] x.op = <<198>> -> MemAccess(n, 1, "imm", 0, FALSE, FALSE, 0, U64(ImmBytes(x), 0))
    [] x.op = <<199>> -> MemAccess(n, OpSize(x), "imm", 0, FALSE, FALSE, 0,
                                   U64(ImmBytes(x), IF OpSize(x) = 8 THEN 255 ELSE 0))
    [] OTHER -> MemAccess(n, small, "load", reg, FALSE, x.op[2] >= 190, OpSize(x), ZERO)

\* Registers with a byte of their own each, and what a device answers.
Registers ==
  [vmcb |-> [r \in InVmcb |-> [i \in 1 .. 8 |-> 8 * r + i]],
   gprs |-> [r \in (0 .. 15) \ InVmcb |-> [i \in 1 .. 8 |-> 8 * r + i]]]
Answers == {[i \in 1 .. 8 |-> 240 + i], [i \in 1 .. 8 |-> IF i = 1 THEN 130 ELSE i]}

\* A load of `raw` finished for the guest, and the value a store sends to the device.
emulate_load(f, a, raw) ==
  LET target == IF a.high8 THEN a.reg - 4 ELSE a.reg IN
  set_reg(f, target, merge_reg(get_reg(f, target), extend(raw, a.size, a.dest, a.sign), a.dest, a.high8))
emulate_store(f, a) ==
  IF a.kind = "imm" THEN mask_to(a.value, a.size)
  ELSE IF a.high8 THEN mask_to(After(get_reg(f, a.reg - 4), 1) \o <<0>>, a.size)
  ELSE mask_to(get_reg(f, a.reg), a.size)

InsnInit == insn \in [x : Insns, got : {None}, regs : {Registers}, raw : Answers, out : {None}, done : {FALSE}]
\* The fetch yields all of the instruction and what follows it, or stops inside it.
Decode ==
  LET b == Assemble(insn.x) IN
  /\ ~insn.done /\ insn.got = None
  /\ \E n \in 0 .. Len(b) :
       LET got == decode_mem_access(IF n = Len(b) THEN b \o <<138, 5>> ELSE SubSeq(b, 1, n)) IN
       insn' = [insn EXCEPT !.done = got = None, !.got = got]
emulate_mmio ==
  /\ insn.got # None /\ ~insn.done
  /\ LET a == insn.got[1] IN
     insn' = [insn EXCEPT !.done = TRUE,
                          !.regs = IF a.kind = "load" THEN emulate_load(@, a, insn.raw) ELSE @,
                          !.out = IF a.kind = "load" THEN @ ELSE <<emulate_store(insn.regs, a)>>]
InsnNext == Decode \/ emulate_mmio

\* What the processor itself would leave in byte i of register r, and would store.
LoadedByte(a, raw, r, i) ==
  LET old == get_reg(Registers, r)[i] IN
  IF a.high8 THEN (IF r = a.reg - 4 /\ i = 2 THEN raw[1] ELSE old)
  ELSE IF r # a.reg THEN old
  ELSE IF i <= a.size THEN raw[i]
  ELSE IF i <= a.dest THEN (IF a.sign /\ raw[a.size] >= 128 THEN 255 ELSE 0)
  ELSE IF a.dest = 4 THEN 0 ELSE old
StoredByte(a, i) ==
  IF i > a.size THEN 0
  ELSE IF a.kind = "imm" THEN a.value[i]
  ELSE IF a.high8 THEN get_reg(Registers, a.reg - 4)[2] ELSE get_reg(Registers, a.reg)[i]
\* Whatever prefixes, registers and addressing form a move has, the decoder's answer is what
\* the processor would have executed, its length included, and a fetch cut off before what it
\* needs is refused without a side effect; the load or store then leaves every byte of every
\* register and of the device's register as the processor would (insn.rs, emulate_mmio).
InsnExact ==
  /\ insn.got # None => insn.got[1] = Meaning(insn.x)
  /\ insn.done /\ insn.got = None => insn.out = None /\ insn.regs = Registers
  /\ insn.out # None => \A i \in 1 .. 8 : insn.out[1][i] = StoredByte(Meaning(insn.x), i)
  /\ insn.done /\ insn.regs # Registers =>
       \A r \in 0 .. 15, i \in 1 .. 8 : get_reg(insn.regs, r)[i] = LoadedByte(Meaning(insn.x), insn.raw, r, i)

-----------------------------------------------------------------------------
(* Reading the instruction where the guest's page tables put it.  A table  *)
(* has two entries; s.cells[c] is None or an entry of the table in memory, *)
(* s.ram and s.flash are the physical addresses that can be read.          *)

LEVELS == 4
SpanOf(level) == PAGE * (2 ^ (LEVELS - level))
IndexAt(level, va) == (va \div SpanOf(level)) % 2
read_u64(s, c) == IF c \in DOMAIN s.cells THEN s.cells[c] ELSE None
read_u8(s, pa) == IF pa \in s.ram \cup s.flash THEN <<pa>> ELSE None
\* Down to a leaf: a large page at the second or third level, a page at the fourth.
walk[s \in Spaces, level \in 1 .. LEVELS, table \in 0 .. LEVELS, va \in Nat] ==
  LET e == read_u64(s, 2 * table + IndexAt(level, va)) IN
  IF e = None \/ ~e.present THEN None
  ELSE IF level = LEVELS \/ (level \in 2 .. 3 /\ e.ps)
       THEN <<(e.addr \div SpanOf(level)) * SpanOf(level) + (va % SpanOf(level))>>
       ELSE walk[s, level + 1, e.addr, va]
translate_gva(s, va) == walk[s, 1, s.cr3, va]

\* Byte n of the instruction; the translation is kept from one byte to the next.
fetch_byte(s, rip, n, page) ==
  IF ~s.paging THEN read_u8(s, s.cs_base + rip + n)
  ELSE IF page = None THEN None ELSE read_u8(s, page[1] + ((rip + n) % PAGE))
page_for(s, rip, n, page) ==
  IF s.paging /\ (n = 0 \/ (rip + n) % PAGE = 0)
  THEN translate_gva(s, ((rip + n) \div PAGE) * PAGE) ELSE page

FetchInit == \E s \in Spaces, rip \in 0 .. 2 * PAGE :
               fetch = [s |-> s, rip |-> rip, buf |-> <<>>, page |-> None, done |-> FALSE]
fetch_insn ==
  /\ ~fetch.done
  /\ LET n == Len(fetch.buf)
         page == page_for(fetch.s, fetch.rip, n, fetch.page)
         byte == fetch_byte(fetch.s, fetch.rip, n, page) IN
     fetch' = [fetch EXCEPT !.page = page, !.buf = @ \o byte, !.done = byte = None \/ n + 1 = FETCH]
FetchNext == fetch_insn

\* Where each byte of the guest's address space is, found for that byte alone.
ByteAt(s, va) ==
  LET pa == IF s.paging THEN translate_gva(s, va) ELSE <<s.cs_base + va>> IN
  IF pa = None THEN None ELSE read_u8(s, pa[1])
\* Every byte handed to the decoder is the one the guest's own translation of its address
\* gives, across a page boundary too, and fetching stops only at the first byte that cannot be
\* read: the translation kept from byte to byte is never used past its page (fetch_insn).
FetchExact ==
  /\ \A i \in DOMAIN fetch.buf : ByteAt(fetch.s, fetch.rip + i - 1) = <<fetch.buf[i]>>
  /\ fetch.done /\ Len(fetch.buf) < FETCH => ByteAt(fetch.s, fetch.rip + Len(fetch.buf)) = None

-----------------------------------------------------------------------------
(* INS and OUTS, finished in one exit.  x is the instruction, x.width its  *)
(* address size; registers count modulo WIDTH[64].                         *)

addr_mask(x) == WIDTH[x.width]
merged(x, old, new) == ((old \div addr_mask(x)) * addr_mask(x)) + (new % addr_mask(x))
string_count(x, rcx) == IF x.rep THEN rcx % addr_mask(x) ELSE 1
string_step(x, addr) == (IF x.back THEN addr - x.size ELSE addr + x.size) % addr_mask(x)
\* Element by element until the count is used up, memory ends or a write stops the machine.
string_loop(x, count) ==
  LET from == x.at % addr_mask(x)
      Loop[done \in 0 .. count] ==
        IF done = 0 THEN [addr |-> from, seen |-> <<>>, end |-> "go"]
        ELSE LET p == Loop[done - 1]
                 gpa == x.seg + p.addr IN
             IF p.end # "go" THEN p
             ELSE IF gpa \in x.unmapped THEN [p EXCEPT !.end = "StringIo"]
             ELSE [addr |-> string_step(x, p.addr), seen |-> Append(p.seen, gpa),
                   end |-> IF ~x.in /\ gpa = x.resets THEN "Reset" ELSE "go"] IN
  Loop[count]

StrInit == \E x \in Strings : str = [x |-> x, rcx |-> x.count, index |-> x.at, seen |-> <<>>, end |-> "no"]
emulate_string_io ==
  /\ str.end = "no"
  /\ LET x == str.x
         count == string_count(x, str.rcx)
         r == string_loop(x, count) IN
     str' = IF r.end = "StringIo" THEN [str EXCEPT !.seen = r.seen, !.end = r.end]
            ELSE [str EXCEPT !.index = merged(x, @, r.addr), !.seen = r.seen, !.end = r.end,
                             !.rcx = IF x.rep THEN merged(x, @, count - Len(r.seen)) ELSE @]
StrNext == emulate_string_io

ElementAt(x, i) == x.seg + ((x.at + (IF x.back THEN -1 ELSE 1) * i * x.size) % addr_mask(x))
\* A string instruction finished in one exit (emulate_string_io) is what the processor does
\* one element at a time: element i is i steps from the index, inside the address size, the
\* count left is what is still to be moved, also when a write stops the machine, and the
\* parts of the registers above the address size stay.
StringsExact ==
  /\ \A i \in DOMAIN str.seen : str.seen[i] = ElementAt(str.x, i - 1) /\ str.seen[i] \notin str.x.unmapped
  /\ str.end = "go" =>
       /\ Len(str.seen) = (IF str.x.rep THEN str.x.count % addr_mask(str.x) ELSE 1)
       /\ str.x.rep => str.rcx % addr_mask(str.x) = 0
  /\ str.end \in {"go", "Reset"} =>
       /\ str.index % addr_mask(str.x) = ElementAt(str.x, Len(str.seen)) - str.x.seg
       /\ str.x.rep => (str.rcx + Len(str.seen)) % addr_mask(str.x) = str.x.count % addr_mask(str.x)
  /\ str.index \div addr_mask(str.x) = str.x.at \div addr_mask(str.x)
  /\ str.rcx \div addr_mask(str.x) = str.x.count \div addr_mask(str.x)
  /\ str.end = "Reset" => Last(str.seen) = str.x.resets

-----------------------------------------------------------------------------
(* The exits of the run loop.  A CPUID answer is the set of the features   *)
(* it reports, `told` what the guest has been told so far; EFER is the set *)
(* of its bits.  `len` is the length of the instruction that exited, `skip` *)
(* how far the handler moved the guest past it.                            *)

\* Hidden from the guest whatever the processor has, by the leaf that reports them.
hidden(leaf) ==
  CASE leaf = "1" -> {"APIC", "MTRR", "MCE", "MCA", "HTT", "X2APIC", "TSC_DEADLINE", "MONITOR", "PDCM", "HYPERVISOR"}
    [] leaf = "7" -> {"TSC_ADJUST", "HLE", "RTM", "PKU", "OSPKE", "WAITPKG", "CET_SS", "CET_IBT", "SPEC_CTRL"}
    [] leaf = "D1" -> {"XSAVES", "XFD"}
    [] leaf = "80000001" -> {"SVM", "TOPOEXT", "PERFCTR_CORE", "PERFCTR_NB", "IBS", "MWAITX"}
    [] leaf = "80000008" -> {"IBPB", "IBRS", "STIBP", "SSBD", "VIRT_SSBD", "CORES"}
    [] OTHER -> {}
ZeroLeaves == {"4", "5", "6", "B", "8000000A", "8000001E", "80000021", "40000000"}
Leaves == {"1", "7", "D1", "80000001", "80000008"} \cup ZeroLeaves
\* The features of the host's that are in a leaf.
InLeaf(leaf, host) ==
  host \cap (CASE leaf = "1" -> {"APIC", "MTRR", "X2APIC", "TSC_DEADLINE", "OSXSAVE", "HYPERVISOR"}
              [] leaf = "7" -> {"SPEC_CTRL"} [] leaf = "D1" -> {"XSAVES"} [] leaf = "80000001" -> {"SVM", "RDTSCP"}
              [] leaf = "80000008" -> {"IBRS"} [] OTHER -> {})
sanitize_cpuid(leaf, bits) == IF leaf = "40000000" THEN {} ELSE IF leaf = "1" THEN bits \ {"HYPERVISOR"} ELSE bits
cpuid_policy(leaf, bits, osxsave) ==
  IF leaf \in ZeroLeaves THEN {}
  ELSE (sanitize_cpuid(leaf, bits) \ (hidden(leaf) \cup (IF leaf = "1" THEN {"OSXSAVE"} ELSE {})))
         \cup (IF leaf = "1" /\ osxsave THEN {"OSXSAVE"} ELSE {})

EFER_GUEST_WRITABLE == {"SCE", "LME", "NXE", "FFXSR"}
EferBits == <<"SCE", "LME", "LMA", "NXE", "SVME", "FFXSR", "TCE">>
BitsOf(bits) == SumSet({2 ^ i : i \in {j \in DOMAIN EferBits : EferBits[j] \in bits}})
guest_efer_view(efer) == efer \ {"SVME"}
vmcb_efer_after_write(efer, written) == (efer \cap {"LMA"}) \cup {"SVME"} \cup (written \cap EFER_GUEST_WRITABLE)

is_writable(msr) == msr \in {"APIC_BASE", "TSC_ADJUST", "PATCH_LEVEL", "TSC_AUX", "SYSCFG", "HWCR", "NB_CFG", "DE_CFG"}
MsrsOfGuest == {"TSC", "EFER", "APIC_BASE", "TSC_AUX", "MTRR", "MISC"}
\* An APIC at its address, enabled, when the machine has one.
MsrState(platform) == IF platform THEN [m \in {"APIC_BASE"} |-> 9] ELSE [m \in {} |-> 0]
msr_read(shadow, msr) ==
  CASE msr = "TSC" -> <<"Tsc", 0>>
    [] msr = "EFER" -> <<"Efer", 0>>
    [] msr \in DOMAIN shadow -> <<"Value", shadow[msr]>>
    [] msr = "APIC_BASE" -> <<"Value", 1>>
    [] is_writable(msr) -> <<"Value", 0>>
    [] OTHER -> <<"Gp", 0>>
efer_accepts(bits) == bits \subseteq EFER_GUEST_WRITABLE \cup {"LMA", "SVME"}

resume_rip_after(next_rip, rip, len) == IF next_rip # 0 THEN next_rip ELSE rip + len
CPUID_INSN_LEN == 2
MSR_INSN_LEN == 2
RIP == 4    \* where the instruction is
CpuInit ==
  \E platform, nrips \in BOOLEAN, host \in HostBits :
    cpu = [platform |-> platform, nrips |-> nrips, host |-> host, len |-> 0, skip |-> 0, inj |-> "none", stop |-> "no", efer |-> {"SVME", "LME", "LMA"},
           asked |-> {"LME"}, active |-> TRUE,
           shadow |-> MsrState(platform), wrote |-> [m \in {} |-> 0], offset |-> 0, clock |-> 0, tsc |-> <<0, 0>>,
           told |-> {}, osxsave |-> FALSE, got |-> <<"none", 0>>, n |-> 0]
Running == cpu.stop = "no" /\ cpu.inj = "none" /\ cpu.n < MaxExits
\* Past the instruction, which is longer than its opcode by the prefixes it carries; without
\* next-RIP support the code takes it to have none, and so does the model.
PrefixBytes(c) == IF c.nrips THEN 0 .. 1 ELSE {0}
Resume(c, n, opcode) ==
  [c EXCEPT !.len = opcode + n, !.n = @ + 1,
            !.skip = resume_rip_after(IF c.nrips THEN RIP + opcode + n ELSE 0, RIP, opcode) - RIP]
Begun(c) == [c EXCEPT !.n = @ + 1, !.len = 0, !.skip = 0, !.got = <<"none", 0>>]

Cpuid(leaf, n) ==
  /\ Running
  /\ LET r == cpuid_policy(leaf, InLeaf(leaf, cpu.host), cpu.osxsave)
         all == r \cup (IF cpu.platform /\ leaf = "1" THEN {"APIC"} ELSE {}) IN
     cpu' = Resume([cpu EXCEPT !.told = (@ \ {"OSXSAVE"}) \cup all, !.got = <<"none", 0>>], n, CPUID_INSN_LEN)
InjectGp(c, msr) == [c EXCEPT !.n = @ + 1, !.inj = "GP", !.len = MSR_INSN_LEN, !.skip = 0, !.got = <<msr, -1>>]
Rdmsr(msr, n) ==
  /\ Running
  /\ LET a == msr_read(cpu.shadow, msr)
         value == CASE a[1] = "Tsc" -> cpu.clock + cpu.offset
                    [] a[1] = "Efer" -> BitsOf(guest_efer_view(cpu.efer))
                    [] OTHER -> a[2] IN
     cpu' = IF a[1] = "Gp" THEN InjectGp(cpu, msr)
            ELSE Resume([cpu EXCEPT !.got = <<msr, value>>], n, MSR_INSN_LEN)
\* What the guest last wrote is kept beside the shadow, for the properties.
Wrmsr(msr, v, n) ==
  /\ Running /\ msr \notin {"TSC", "EFER"}
  /\ cpu' = IF is_writable(msr)
            THEN Resume([cpu EXCEPT !.shadow = [m \in DOMAIN @ \cup {msr} |-> IF m = msr THEN v ELSE @[m]],
                                    !.wrote = [m \in DOMAIN @ \cup {msr} |-> IF m = msr THEN v ELSE @[m]],
                                    !.got = <<"none", 0>>], n, MSR_INSN_LEN)
            ELSE InjectGp(cpu, msr)
WrmsrTsc(t, n) ==
  /\ Running
  /\ cpu' = Resume([cpu EXCEPT !.offset = t - cpu.clock, !.tsc = <<t, cpu.clock>>, !.got = <<"none", 0>>],
                   n, MSR_INSN_LEN)
WrmsrEfer(bits, n) ==
  /\ Running
  /\ cpu' = IF efer_accepts(bits)
            THEN Resume([cpu EXCEPT !.efer = vmcb_efer_after_write(@, bits), !.asked = bits \cap EFER_GUEST_WRITABLE, !.got = <<"none", 0>>], n, MSR_INSN_LEN)
            ELSE InjectGp(cpu, "EFER")
\* Instructions of a hypervisor's own are undefined in the guest.
SvmInstruction == Running /\ cpu' = [Begun(cpu) EXCEPT !.inj = "UD"]
StopExit(why) == Running /\ cpu' = [Begun(cpu) EXCEPT !.stop = why]

\* The guest: paging turns long mode on and off, OSXSAVE goes into CR4, time passes, and an
\* injected exception is taken: set_event_inj(0) after every VMRUN.
SetsLma == /\ Running /\ "LME" \in cpu.efer
           /\ cpu' = [Begun(cpu) EXCEPT !.efer = (@ \ {"LMA"}) \cup (IF cpu.active THEN {} ELSE {"LMA"}), !.active = ~@]
SetsCr4 == Running /\ cpu' = [Begun(cpu) EXCEPT !.osxsave = ~@, !.told = @ \ {"OSXSAVE"}]
Passes == Running /\ cpu' = [Begun(cpu) EXCEPT !.clock = @ + 1]
Takes == cpu.inj # "none" /\ cpu' = [Begun(cpu) EXCEPT !.inj = "none"]

CpuNext ==
  \/ \E n \in PrefixBytes(cpu) :
       \/ \E leaf \in Leaves : Cpuid(leaf, n)
       \/ \E m \in MsrsOfGuest : Rdmsr(m, n) \/ \E v \in MsrValues : Wrmsr(m, v, n)
       \/ \E t \in 0 .. 1 : WrmsrTsc(t, n)
       \/ \E b \in {{}, {"SCE", "LME"}, {"LMA", "SVME"}, {"NXE", "TCE"}} : WrmsrEfer(b, n)
  \/ SvmInstruction \/ SetsLma \/ SetsCr4 \/ Passes \/ Takes
  \/ \E s \in {"Shutdown", "Invalid", "Unhandled", "DeadHalt"} : StopExit(s)

\* The MSRs a reported feature comes with.
MsrsFor(f) ==
  CASE f = "APIC" -> {"APIC_BASE"}
    [] f \in {"MTRR", "MCE", "MCA"} -> {"MTRR"}
    [] f \in {"TSC_DEADLINE", "X2APIC", "SPEC_CTRL", "XSAVES", "PERFCTR_CORE", "IBPB", "IBRS", "PDCM"} -> {"MISC"}
    [] f = "RDTSCP" -> {"TSC_AUX"}
    [] OTHER -> {}
\* What the guest is told of its processor is what it gets: features, MSRs, EFER, the time
\* stamp, and an exit that always moves past the instruction or faults at it (cpuid_policy,
\* MsrState::read, write, and the CPUID and MSR exits of run_guest).
CpuHonest ==
  \* The VMCB can always be run; the guest is not told of SVM, whose instructions are
  \* undefined for it, nor of hypervisor leaves, which read as zero.
  /\ "SVME" \in cpu.efer /\ cpu.told \cap {"SVM", "HYPERVISOR"} = {}
  \* No exception for an MSR the guest was told it has.
  /\ \A f \in cpu.told : cpu.got \notin {<<m, -1>> : m \in MsrsFor(f)}
  /\ "OSXSAVE" \in cpu.told => cpu.osxsave
  \* A shadowed MSR reads as the guest last wrote it, the counter from where it was set.
  /\ \A m \in DOMAIN cpu.wrote : cpu.got[1] = m => cpu.got[2] = cpu.wrote[m]
  /\ cpu.got[1] = "EFER" /\ cpu.inj = "none" =>
       cpu.got[2] = BitsOf(cpu.asked \cup (IF cpu.active THEN {"LMA"} ELSE {}))
  /\ cpu.got[1] = "TSC" => cpu.got[2] = cpu.tsc[1] + (cpu.clock - cpu.tsc[2])
  \* Past the whole instruction, or at it with its exception.
  /\ cpu.skip = (IF cpu.inj = "none" THEN cpu.len ELSE 0)

-----------------------------------------------------------------------------
(***************************************************************************)
(* The port and register devices the boot hypervisor gives its guest       *)
(* beside the interrupt chips (linux_guest.rs, platform.rs, pci_dev.rs,    *)
(* vdev.rs): configuration space behind 0xCF8/0xCFC with the decoders it   *)
(* programs, the serial console, the speaker channel of the interval timer *)
(* with its gate, and what the run loop records of the guest's accesses.   *)
(***************************************************************************)
CONSTANTS
  BusOps,     \* the guest's accesses: <<"addr", target>>, <<"out", port, bytes>>, <<"in", port, size>>
  Setups,     \* what the guest did before: sequences of accesses
  MaxOps,     \* bound: accesses in a behaviour after that
  CAP,        \* characters of a console line
  MaxSent,    \* bound: bytes sent to the console
  DEPTH,      \* events a trace ring keeps
  LOG_LIMIT,  \* addresses that are logged
  MaxEvents,  \* bound: accesses traced
  RADIX,      \* values of a byte of a timer count
  MaxTicks,   \* bound: time for the speaker channel
  MaxChanges  \* bound: times it is programmed or gated

VARIABLES bus, con, rec, pit

-----------------------------------------------------------------------------
(* Configuration space.  A byte is the set of its bits.  BAR0 and BAR1     *)
(* stand for the four bytes each has; offsets no one looks at are left out *)
(* (they read as constants and take no write).                             *)

ONES == 0 .. 7
Num(byte) == SumSet({2 ^ i : i \in byte})
CONFIG_BYTES == 256
OFF_COMMAND == 4
OFF_BAR0 == 16
OFF_BAR1 == 20
OFF_CAP_PTR == 52
OFF_INT_LINE == 60
CAP_START == 64
PIRQ_ROUTE == 96
PMBA == 64
PMREGMISC == 128
CMD_MEM == 1
BAR_SIZE == 16

Offsets == {OFF_COMMAND, OFF_BAR0, OFF_BAR1, OFF_CAP_PTR, OFF_INT_LINE, CAP_START, CAP_START + 1, CAP_START + 4,
            CAP_START + 5, PIRQ_ROUTE, PIRQ_ROUTE + 1, PMREGMISC}
PciFunction == [cfg |-> [o \in Offsets |-> {}],
                wmask |-> [o \in Offsets |-> IF o = OFF_COMMAND THEN {0, 1, 2} ELSE {}],
                bar |-> 0, tail |-> 0, free |-> CAP_START]
set_bar0_mem64(f, size) ==
  [f EXCEPT !.bar = size, !.cfg[OFF_BAR0] = {2}, !.wmask[OFF_BAR0] = {i \in ONES : 2 ^ i >= size}, !.wmask[OFF_BAR1] = ONES]
set_writable(f, from, len) == [f EXCEPT !.wmask = [o \in Offsets |-> IF o \in from .. from + len - 1 THEN ONES ELSE @[o]]]
preset(f, o, byte) == [f EXCEPT !.cfg[o] = byte]
set_interrupt(f, line) == [f EXCEPT !.cfg[OFF_INT_LINE] = line, !.wmask[OFF_INT_LINE] = ONES]
Bits(n) == {i \in ONES : (n \div (2 ^ i)) % 2 = 1}
\* The body lands at the next free dword; the previous capability, or the header, points to it.
add_capability(f, id, len) ==
  [f EXCEPT !.cfg = [@ EXCEPT ![f.free] = id, ![f.free + 1] = {},
                              ![IF f.tail = 0 THEN OFF_CAP_PTR ELSE f.tail + 1] = Bits(f.free)],
            !.tail = f.free, !.free = ((f.free + len + 3) \div 4) * 4]
\* Two capabilities stand for the four of the virtio function; the other has none.
VirtioBlk == add_capability(add_capability(set_interrupt(set_bar0_mem64(PciFunction, BAR_SIZE), {1, 3}), {0, 3}, 3), {4, 0}, 2)
NvmeDevice == set_interrupt(set_bar0_mem64(PciFunction, BAR_SIZE), {0, 1, 3})
Host == set_writable(PciFunction, 80, 48)
Isa == preset(preset(set_writable(PciFunction, 64, 192), PIRQ_ROUTE, {7}), PIRQ_ROUTE + 1, {7})
Pm == set_interrupt(set_writable(preset(set_writable(PciFunction, PMBA, 4), PMBA, {0}), PMREGMISC, 1), {})
\* Function 3 of the south bridge decodes the power-management ports.
Functions(platform) ==
  IF platform THEN (<<3, 0>> :> VirtioBlk) @@ (<<4, 0>> :> NvmeDevice) @@ (<<0, 0>> :> Host) @@ (<<1, 0>> :> Isa) @@ (<<1, 3>> :> Pm)
  ELSE (<<3, 0>> :> VirtioBlk) @@ (<<4, 0>> :> NvmeDevice)

cfg_byte(f, o) == IF o >= CONFIG_BYTES THEN ONES ELSE IF o \in Offsets THEN f.cfg[o] ELSE {}
pci_read(f, o, size) == [i \in 1 .. size |-> cfg_byte(f, o + i - 1)]
pci_write(f, o, bytes) ==
  [f EXCEPT !.cfg = [x \in Offsets |->
     IF x \in o .. o + Len(bytes) - 1 THEN (@[x] \ f.wmask[x]) \cup (bytes[x - o + 1] \cap f.wmask[x]) ELSE @[x]]]
mem_enabled(f) == CMD_MEM \in f.cfg[OFF_COMMAND]
bar0(f) ==
  LET base == 256 * Num(f.cfg[OFF_BAR1]) + Num(f.cfg[OFF_BAR0] \ (0 .. 3)) IN
  IF f.bar = 0 \/ ~mem_enabled(f) \/ base = 0 THEN None ELSE <<base, f.bar>>

\* The address latch as the guest wrote it: enable bit, bus, device, function, register.
pci_target(a) == IF a.enable THEN <<a.bus, a.dev, a.fn, (a.reg \div 4) * 4>> ELSE None
pci_function(b) ==
  LET t == pci_target(b.addr) IN
  IF t = None \/ t[1] # 0 \/ <<t[2], t[3]>> \notin DOMAIN b.fns THEN None ELSE <<<<t[2], t[3]>>, t[4]>>
Inside(gpa, bar) == bar # None /\ gpa \in bar[1] .. bar[1] + bar[2] - 1
disk_bar(b, gpa) ==
  IF Inside(gpa, bar0(b.fns[<<3, 0>>])) THEN <<"virtio", gpa - bar0(b.fns[<<3, 0>>])[1]>>
  ELSE IF Inside(gpa, bar0(b.fns[<<4, 0>>])) THEN <<"nvme", gpa - bar0(b.fns[<<4, 0>>])[1]>>
  ELSE None

\* Power management: a window the guest places, its timer, status bits cleared by writing
\* ones, and the control register that turns the machine off.
PM_IO_BYTES == 64
PM_CNT == 4
PM_TMR == 8
SLP_EN == 5          \* in the high byte of PM_CNT, above the sleep type
SLP_TYP == 2 .. 4
PORT_SYSCTL_A == 146
PmOffsets == {0, 1, 4, 5, 12, 13}
pm_base(b) ==
  LET f == b.fns[<<1, 3>>]
      base == 256 * Num(f.cfg[PMBA + 1]) + Num(f.cfg[PMBA] \ (0 .. 5)) IN
  IF ~b.platform \/ 0 \notin f.cfg[PMREGMISC] \/ base = 0 THEN None ELSE <<base>>
pm_claims(b, port) == pm_base(b) # None /\ port \in pm_base(b)[1] .. pm_base(b)[1] + PM_IO_BYTES - 1
claims(b, port) == b.platform /\ (port = PORT_SYSCTL_A \/ pm_claims(b, port))
w1c(o) == o < 2 \/ o \in 12 .. 13
pm_write(pm, o, bytes) ==
  [x \in PmOffsets |-> IF x \in o .. o + Len(bytes) - 1
                       THEN (IF w1c(x) THEN pm[x] \ bytes[x - o + 1] ELSE bytes[x - o + 1]) ELSE pm[x]]
powers_off(pm, o, size) == /\ o <= PM_CNT /\ PM_CNT < o + size
                           /\ SLP_EN \in pm[PM_CNT + 1] /\ pm[PM_CNT + 1] \cap SLP_TYP = {}
io_write(b, port, bytes) ==
  IF port = PORT_SYSCTL_A THEN [b EXCEPT !.sysctl = bytes[1]]
  ELSE LET o == port - pm_base(b)[1]
           pm == pm_write(b.pm, o, bytes) IN
       [b EXCEPT !.pm = pm, !.event = IF powers_off(pm, o, Len(bytes)) THEN "PowerOff" ELSE "None"]
pm_byte(b, o) == IF o \in PmOffsets THEN b.pm[o] ELSE IF o < PM_IO_BYTES THEN {} ELSE ONES
\* Some time of the running timer, low byte first; a byte of it read alone is shifted down.
pm_timer == <<{0}, {1}, {2}, {3}>>
io_read(b, port, size) ==
  IF port = PORT_SYSCTL_A THEN [i \in 1 .. size |-> IF i = 1 THEN b.sysctl ELSE {}]
  ELSE LET o == port - pm_base(b)[1] IN
       IF o \in PM_TMR .. PM_TMR + 3 THEN [i \in 1 .. size |-> IF o + i <= PM_TMR + 4 THEN pm_timer[o + i - PM_TMR] ELSE {}]
       ELSE [i \in 1 .. size |-> pm_byte(b, o + i - 1)]
\* Memory size and the date, by index; the top bit of the index is the NMI mask.
cmos(b, index) ==
  LET i == index \ {7} IN
  IF b.platform /\ i = {0, 2, 4} THEN {7} ELSE IF i = {0, 1, 3} THEN {1} ELSE {}

CONFIG_DATA == 3324 .. 3327
DEBUG_PORT == 1026
bus_read(b, port, size) ==
  IF claims(b, port) THEN io_read(b, port, size)
  ELSE CASE port = 113 -> [i \in 1 .. size |-> IF i = 1 THEN cmos(b, b.index) ELSE {}]
         [] port = DEBUG_PORT /\ b.platform -> [i \in 1 .. size |-> IF i = 1 THEN Bits(233) ELSE {}]
         [] port \in CONFIG_DATA /\ pci_function(b) # None ->
              LET t == pci_function(b) IN pci_read(b.fns[t[1]], t[2] + port - 3324, size)
         [] OTHER -> [i \in 1 .. size |-> ONES]
bus_write(b, port, bytes) ==
  LET t == pci_function(b) IN
  IF claims(b, port) THEN io_write(b, port, bytes)
  ELSE CASE port = 112 -> [b EXCEPT !.index = bytes[1]]
         [] port = DEBUG_PORT /\ b.platform -> [b EXCEPT !.debug = Append(@, bytes[1])]
         [] port \in CONFIG_DATA /\ t # None ->
              [b EXCEPT !.fns[t[1]] = pci_write(@, t[2] + port - 3324, bytes)]
         [] port = 100 /\ bytes[1] = Bits(254) -> [b EXCEPT !.event = "Reset"]
         [] port = 3321 /\ 2 \in bytes[1] -> [b EXCEPT !.event = "Reset"]
         [] OTHER -> b

NoTarget == [enable |-> FALSE, bus |-> 0, dev |-> 0, fn |-> 0, reg |-> 0]
IoBus(p) ==
  [platform |-> p, fns |-> Functions(p), addr |-> NoTarget, pm |-> [o \in PmOffsets |-> {}], sysctl |-> {},
   index |-> {}, debug |-> <<>>, event |-> "None", got |-> None, asked |-> None, n |-> 0]
\* `asked` is the access just made.
Access(b, op) ==
  CASE op[1] = "addr" -> [b EXCEPT !.addr = op[2], !.got = None, !.asked = None]
    [] op[1] = "out" -> [bus_write(b, op[2], op[3]) EXCEPT !.got = None, !.asked = <<op[2], op[3]>>]
    [] OTHER -> [b EXCEPT !.got = bus_read(b, op[2], op[3]), !.asked = <<op[2], op[3]>>]
BusInit == \E p \in BOOLEAN, before \in Setups : bus = FoldLeft(Access, IoBus(p), before)
\* The guest is stopped once a write asks for it.
BusNext ==
  /\ bus.event = "None" /\ bus.n < MaxOps
  /\ \E op \in BusOps : bus' = [Access(bus, op) EXCEPT !.n = @ + 1]

\* The capabilities from the header on.
Chain(f, o, n) ==
  LET Walk[k \in 0 .. n] == IF k = 0 THEN <<o>> ELSE
        LET w == Walk[k - 1] IN IF Last(w) = 0 THEN w ELSE Append(w, Num(f.cfg[Last(w) + 1])) IN Walk[n]
\* Configuration space is what the guest programs and nothing else: no sequence of port
\* accesses changes what a function fixed, moves a decoder away from its BAR, or stops the
\* machine other than through the registers for it (IoBus::read, write; pci_write; io_write).
BusExact ==
  \* What the device fixed stays: identity bits, the BAR's size, the capability list.
  /\ \A x \in DOMAIN bus.fns : \A o \in Offsets :
       LET f == bus.fns[x]
           new == Functions(bus.platform)[x] IN
       f.cfg[o] \ f.wmask[o] = new.cfg[o] \ f.wmask[o] /\ f.wmask = new.wmask
  /\ Chain(bus.fns[<<3, 0>>], Num(bus.fns[<<3, 0>>].cfg[OFF_CAP_PTR]), 4) = <<CAP_START, CAP_START + 4, 0>>
  /\ bus.fns[<<4, 0>>].cfg[OFF_CAP_PTR] = {}
  \* A register decodes only where its BAR was put, aligned to its size, with memory on.
  /\ \A gpa \in {0, 15, 16, 95, 96, 111, 112, 240, 256, 352} :
       LET d == disk_bar(bus, gpa)
           f == bus.fns[IF d[1] = "virtio" THEN <<3, 0>> ELSE <<4, 0>>] IN
       d # None => /\ 1 \in f.cfg[OFF_COMMAND] /\ d[2] \in 0 .. BAR_SIZE - 1 /\ (gpa - d[2]) % BAR_SIZE = 0
                   /\ gpa - d[2] = 256 * Num(f.cfg[OFF_BAR1]) + Num(f.cfg[OFF_BAR0]) - 4
  \* The machine goes off only by the sleep bit in the place the guest gave the register, and
  \* restarts only by one of the two reset ports.
  /\ bus.event = "PowerOff" => SLP_EN \in bus.pm[5] /\ pm_claims(bus, bus.asked[1])
  /\ bus.event = "Reset" => bus.asked[1] \in {100, 3321}
  \* A function that is not there reads as ones.
  /\ bus.asked # None /\ bus.got # None /\ bus.asked[1] \in CONFIG_DATA /\ ~pm_claims(bus, bus.asked[1])
       /\ ~(bus.addr.enable /\ bus.addr.bus = 0 /\ <<bus.addr.dev, bus.addr.fn>> \in DOMAIN bus.fns) =>
       \A i \in DOMAIN bus.got : bus.got[i] = ONES

-----------------------------------------------------------------------------
(* The serial port and the console lines made of what it sends.            *)

\* ier, mcr: the interrupt enable and modem control bits; divisor latch access; rx: a byte
\* looped back; thre: transmit-empty pending.
Uart16550 == [ier |-> {}, mcr |-> {}, dlab |-> FALSE, scr |-> 0, dll |-> 0, dlm |-> 0, fifo |-> FALSE, rx |-> None, thre |-> FALSE]
LOOP == 4
OUT2 == 3
THRI == 1
irq_line(u) == THRI \in u.ier /\ u.thre /\ OUT2 \in u.mcr
\* A line is what was sent since the last one: printable bytes, dots for others.
LineBuf == <<>>
flush(c) == IF c.buf = LineBuf THEN c ELSE [c EXCEPT !.lines = Append(@, c.buf), !.buf = LineBuf]
push(c, byte) ==
  CASE byte = "CR" -> c
    [] byte = "LF" -> flush(c)
    [] OTHER -> LET d == [c EXCEPT !.buf = Append(@, IF byte = "bell" THEN "." ELSE byte)] IN
                IF Len(d.buf) = CAP THEN flush(d) ELSE d
uart_data(c, byte) ==
  IF c.u.dlab THEN [c EXCEPT !.u.dll = 1]
  ELSE IF LOOP \in c.u.mcr THEN [c EXCEPT !.u.rx = <<byte>>]
  ELSE [push(c, byte) EXCEPT !.u.thre = TRUE, !.sent = Append(@, byte)]
uart_ier(c, bits) ==
  IF c.u.dlab THEN [c EXCEPT !.u.dlm = 1]
  ELSE [c EXCEPT !.u.ier = bits, !.u.thre = @ \/ (THRI \notin c.u.ier /\ THRI \in bits)]
\* Identification and modem status as read; reading the first clears what it reports.
iir(u) == IF THRI \in u.ier /\ u.thre THEN "thre" ELSE "none"
read_iir(u) == IF iir(u) = "thre" THEN [u EXCEPT !.thre = FALSE] ELSE u
msr(u) == IF LOOP \in u.mcr THEN {CASE i = 0 -> 5 [] i = 1 -> 4 [] i = 2 -> 6 [] i = 3 -> 7 : i \in u.mcr \cap (0 .. 3)} ELSE {4, 5, 7}
read_data(u) == [u EXCEPT !.rx = None]
lsr(u) == IF u.rx = None THEN {5, 6} ELSE {0, 5, 6}

ConInit == con = [u |-> Uart16550, buf |-> LineBuf, lines |-> <<>>, sent |-> <<>>, looped |-> None, heard |-> FALSE]
ConNext ==
  \/ /\ Len(con.sent) < MaxSent
     /\ \E b \in {"a", "CR", "LF", "bell"} :
          con' = [uart_data(con, b) EXCEPT !.looped = IF ~con.u.dlab /\ LOOP \in con.u.mcr THEN <<b>> ELSE @,
                                           !.heard = IF ~con.u.dlab /\ LOOP \notin con.u.mcr THEN FALSE ELSE @]
  \/ \E bits \in {{}, {THRI}} : con' = [uart_ier(con, bits) EXCEPT !.heard = @ /\ (con.u.dlab \/ THRI \in con.u.ier \/ THRI \notin bits)]
  \/ \E bits \in {{}, {OUT2}, {LOOP, 0}} : con' = [con EXCEPT !.u.mcr = bits]
  \/ con' = [con EXCEPT !.u.dlab = ~@]
  \/ con' = [con EXCEPT !.u = read_iir(@), !.heard = @ \/ iir(con.u) = "thre"]
  \/ ~con.u.dlab /\ con' = [con EXCEPT !.u = read_data(@), !.looped = None]

\* The lines the bytes sent should make.
LinesOf(sent) ==
  LET Step(s, b) == CASE b = "CR" -> s
                      [] b = "LF" -> IF s[2] = <<>> THEN s ELSE <<Append(s[1], s[2]), <<>>>>
                      [] OTHER -> LET l == Append(s[2], IF b = "a" THEN "a" ELSE ".") IN
                                  IF Len(l) = CAP THEN <<Append(s[1], l), <<>>>> ELSE <<s[1], l>> IN
  FoldLeft(Step, <<<<>>, <<>>>>, sent)
\* The console shows what the guest sent, whatever loopback tests, divisor accesses and
\* interrupt acknowledgements come between, and a transmit interrupt is never lost
\* (Uart16550::write, read; LineBuf::push).
ConsoleExact ==
  \* Everything sent and nothing looped back reaches the console, once, in lines of CAP bytes.
  /\ <<con.lines, con.buf>> = LinesOf(con.sent)
  /\ con.u.rx = con.looped
  \* An enabled transmit interrupt is there until the guest has been told of it.
  /\ THRI \in con.u.ier /\ OUT2 \in con.u.mcr => (irq_line(con.u) \/ con.heard)
  /\ (0 \in lsr(con.u)) <=> con.looped # None
  /\ LOOP \in con.u.mcr => ((5 \in msr(con.u)) <=> (0 \in con.u.mcr))

-----------------------------------------------------------------------------
(* What is recorded of the guest's accesses: a ring of the last events, a  *)
(* log line for each new address up to a limit.                            *)

TraceRing == [events |-> [i \in 0 .. DEPTH - 1 |-> 0], next |-> 0, total |-> 0]
ring_push(r, e) == [events |-> [r.events EXCEPT ![r.next] = e], next |-> (r.next + 1) % DEPTH, total |-> r.total + 1]
recent(r) ==
  LET kept == IF r.total < DEPTH THEN r.total ELSE DEPTH
      start == (r.next + DEPTH - kept) % DEPTH IN
  [i \in 1 .. kept |-> r.events[(start + i - 1) % DEPTH]]
note(seen, gpa) == gpa \notin DOMAIN seen /\ Cardinality(DOMAIN seen) + 1 <= LOG_LIMIT
seen_after(seen, gpa) == [g \in DOMAIN seen \cup {gpa} |-> IF g \in DOMAIN seen THEN seen[g] + (IF g = gpa THEN 1 ELSE 0) ELSE 1]

RecInit == rec = [ring |-> TraceRing, seen |-> [g \in {} |-> 0], logged |-> <<>>, all |-> <<>>]
RecNext ==
  /\ Len(rec.all) < MaxEvents
  /\ \E g \in 1 .. LOG_LIMIT + 1 :
       rec' = [rec EXCEPT !.ring = ring_push(@, g), !.seen = seen_after(@, g), !.all = Append(@, g),
                          !.logged = IF note(rec.seen, g) THEN Append(@, g) ELSE @]
LastOf(s, n) == SubSeq(s, IF Len(s) > n THEN Len(s) - n + 1 ELSE 1, Len(s))
\* The ring holds the last accesses in order however often it went round, each address is
\* counted exactly, and logged once until the limit is used up (TraceRing::push, MmioBus::note).
RecordsExact ==
  /\ recent(rec.ring) = LastOf(rec.all, DEPTH)
  /\ Cardinality(Range(rec.logged)) = Len(rec.logged) /\ Len(rec.logged) <= LOG_LIMIT
  /\ Len(rec.logged) < LOG_LIMIT => Range(rec.logged) = Range(rec.all)
  /\ \A g \in DOMAIN rec.seen : rec.seen[g] = Cardinality({i \in DOMAIN rec.all : rec.all[i] = g})

-----------------------------------------------------------------------------
(* Channel 2 of the interval timer, counting while its gate is open.  A    *)
(* count is two bytes of RADIX values; a tick is two TSC cycles.           *)

ONE_ROUND == RADIX * RADIX
tsc_to_ticks(tsc) == tsc \div 2
Channel2 == [mode |-> 0, access |-> 3, reload |-> ONE_ROUND, lo |-> None, latched |-> None, hi_next |-> FALSE,
             loaded |-> FALSE, before |-> 0, since |-> None]
ch2_elapsed(c, now) == c.before + (IF c.since = None THEN 0 ELSE tsc_to_ticks(now - c.since[1]))
count2(c, now) ==
  LET e == ch2_elapsed(c, now) IN
  (IF c.mode % 4 \in {2, 3} THEN c.reload - (e % c.reload) ELSE c.reload - e) % ONE_ROUND
out2(c, now) ==
  LET e == ch2_elapsed(c, now) IN
  CASE c.mode = 0 -> c.loaded /\ e >= c.reload
    [] c.mode \in {3, 7} -> (e % c.reload) < (c.reload + 1) \div 2
    [] OTHER -> TRUE
latch_ch2(c, now) == [c EXCEPT !.latched = <<count2(c, now)>>, !.hi_next = FALSE]
Since(gate, now) == IF gate THEN <<now>> ELSE None
write_control_ch2(c, mode, access, gate, now) ==
  [c EXCEPT !.access = access, !.lo = None, !.mode = mode, !.loaded = FALSE, !.before = 0, !.since = Since(gate, now)]
write_data2(c, byte, gate, now) ==
  IF c.access = 3 /\ c.lo = None THEN [c EXCEPT !.lo = <<byte>>]
  ELSE LET n == CASE c.access = 1 -> byte [] c.access = 2 -> RADIX * byte [] OTHER -> RADIX * byte + c.lo[1] IN
       [c EXCEPT !.lo = None, !.reload = IF n = 0 THEN ONE_ROUND ELSE n, !.loaded = TRUE, !.before = 0, !.since = Since(gate, now)]
read_data2(c, now) ==
  LET value == IF c.latched # None THEN c.latched[1] ELSE count2(c, now)
      high == c.access = 2 \/ (c.access = 3 /\ c.hi_next)
      hi_next == IF c.access = 3 THEN ~c.hi_next ELSE c.hi_next IN
  [byte |-> IF high THEN value \div RADIX ELSE value % RADIX,
   c |-> [c EXCEPT !.hi_next = hi_next, !.latched = IF c.access # 3 \/ ~hi_next THEN None ELSE @]]
\* Modes 1 to 3, 5 and their mirrors count afresh when the gate opens.
GateRestarts(mode) == mode % 4 \in 1 .. 3 \/ mode = 5
write_port61(c, old, new, now) ==
  CASE new /\ ~old -> [c EXCEPT !.before = IF GateRestarts(c.mode) THEN 0 ELSE @, !.since = <<now>>]
    [] old /\ ~new -> [c EXCEPT !.before = ch2_elapsed(c, now), !.since = None]
    [] OTHER -> c

\* open: cycles the gate was open since the count began; runs: how often it opened; high:
\* the output was seen high; latch: the count latched and the bytes of it read since.
PitInit == pit = [c |-> Channel2, gate |-> FALSE, now |-> 0, open |-> 0, runs |-> 0, high |-> FALSE, latch |-> None, changes |-> 0]
Restart(p, c) == [p EXCEPT !.c = c, !.open = 0, !.runs = IF p.gate THEN 1 ELSE 0, !.high = FALSE]
PitNext ==
  \/ /\ pit.now < MaxTicks
     /\ LET open == IF pit.gate THEN pit.open + 1 ELSE pit.open IN
        pit' = [pit EXCEPT !.now = @ + 1, !.open = open, !.high = @ \/ out2(pit.c, pit.now + 1)]
  \/ /\ pit.changes < MaxChanges
     /\ \/ \E mode \in {0, 3, 4, 6}, access \in {1, 2, 3} :
             pit' = [Restart(pit, write_control_ch2(pit.c, mode, access, pit.gate, pit.now)) EXCEPT !.latch = None, !.changes = @ + 1]
        \/ \E byte \in 0 .. RADIX - 1 :
             LET c == write_data2(pit.c, byte, pit.gate, pit.now) IN
             pit' = [(IF c.lo # None THEN [pit EXCEPT !.c = c] ELSE Restart(pit, c)) EXCEPT !.changes = @ + 1]
        \/ LET c == write_port61(pit.c, pit.gate, ~pit.gate, pit.now)
               afresh == ~pit.gate /\ GateRestarts(pit.c.mode) IN
           pit' = [pit EXCEPT !.c = c, !.gate = ~@, !.changes = @ + 1, !.open = IF afresh THEN 0 ELSE @,
                              !.runs = IF pit.gate THEN @ ELSE IF afresh THEN 1 ELSE @ + 1]
  \/ pit' = [pit EXCEPT !.c = latch_ch2(@, pit.now), !.latch = <<count2(pit.c, pit.now), <<>>>>]
  \/ LET r == read_data2(pit.c, pit.now) IN
     pit' = [pit EXCEPT !.c = r.c, !.latch = IF pit.c.latched = None \/ @ = None THEN @ ELSE [@ EXCEPT ![2] = Append(@, r.byte)]]

\* The speaker channel counts the time its gate is open, through any order of programming,
\* gating, latching and reading (write_port61, write_control, write_data2, read_data2).
SpeakerExact ==
  LET e == ch2_elapsed(pit.c, pit.now) IN
  \* Every opening of the gate loses less than a tick, and no tick is invented.
  /\ 2 * e <= pit.open /\ pit.open <= 2 * e + pit.runs
  /\ pit.c.mode % 4 \in {2, 3} /\ pit.c.reload < ONE_ROUND => count2(pit.c, pit.now) \in 1 .. pit.c.reload
  \* The one-shot output stays high until it is programmed again.
  /\ pit.c.mode = 0 /\ pit.high => out2(pit.c, pit.now)
  \* A latched count is read as it was latched, however late and in however many pieces.
  /\ pit.latch # None /\ pit.c.latched = None /\ pit.latch[2] # <<>> =>
       pit.latch[2] = CASE pit.c.access = 1 -> <<pit.latch[1] % RADIX>>
                        [] pit.c.access = 2 -> <<pit.latch[1] \div RADIX>>
                        [] OTHER -> <<pit.latch[1] % RADIX, pit.latch[1] \div RADIX>>

=============================================================================
