------------------------------- MODULE Tables -------------------------------
(***************************************************************************)
(* The tables a guest is given, from the configuration to the guest that   *)
(* reads them:                                                             *)
(*                                                                         *)
(*   fw  the ACPI tables.  The library builds them at a fixed address or   *)
(*       at base 0 with a stream of loader commands (acpi/mod.rs,          *)
(*       fw_cfg_loader.rs), the kernel's firmware guest has a smaller set  *)
(*       of its own (enlil-boot/src/acpi_tables.rs).  Firmware places the  *)
(*       two files, runs the stream, and the guest finds the tables from   *)
(*       the root pointer (acpi/discover.rs, enlil-boot/src/acpi.rs) and   *)
(*       arms its waking vector in the FACS (acpi/facs.rs).                *)
(*   fc  the configuration ports the files are read through (fw_cfg.rs).   *)
(*   sm  the SMBIOS structures (smbios.rs) and the guest's walk over them. *)
(*                                                                         *)
(* A file is a sequence of bytes, an offset counts from 0.  The AML of the *)
(* DSDT and SSDT is an opaque body of a given length: module Aml has it.   *)
(* A loader command maps the offset of each field it sets to its value.    *)
(***************************************************************************)
EXTENDS Discovery

CONSTANTS
    Setups,      \* machine configurations: [vcpus, mem, ecam, logo, dsdt, ssdt, iommu]
    Bases,       \* where firmware may place the tables
    Roots,       \* where it may place the root pointer: [at, ebda]
    Harms,       \* what is wrong with a stream of commands
    Vectors,     \* waking vectors: [v, x, wide]
    FileSizes,   \* lengths of a file behind the ports
    MaxFiles,    \* files behind the ports
    MaxReads,    \* reads of one selected item
    ModuleSizes, \* MiB of one memory module
    MaxModules,  \* memory modules
    Identities   \* what the host's DMI directory holds for a field

VARIABLES
    fw,  \* [phase, kind, setup, files, mem, root, armed, harm, error, back]
    fc,  \* [files, open, sel, off, got]
    sm   \* [phase, dmi, modules, table, anchor]

-----------------------------------------------------------------------------
(* Bytes *)

RECURSIVE SumFrom(_, _, _)
SumFrom(b, lo, hi) ==
    IF lo > hi THEN 0
    ELSE IF lo = hi THEN b[lo]
    ELSE (SumFrom(b, lo, (lo + hi) \div 2) + SumFrom(b, ((lo + hi) \div 2) + 1, hi)) % 256

\* The sum of all bytes, modulo 256.
Sum(b) == SumFrom(b, 1, Len(b))

Patch(b, o, v) == SubSeq(b, 1, o) \o v \o SubSeq(b, o + Len(v) + 1, Len(b))

\* Takes the sum of bytes start .. start + n - 1 off the byte at offset o.
Settle(b, o, start, n) == Patch(b, o, <<(At(b, o) + 256 - SumFrom(b, start + 1, start + n)) % 256>>)

\* Addresses the model tells apart are below 2^31; a larger one is only large.
Huge == 2000000000

RECURSIVE Value(_)
Value(b) ==
    IF b = <<>> THEN 0
    ELSE IF Len(b) > 4 /\ (\E i \in 5..Len(b) : b[i] # 0) THEN Huge
    ELSE IF Len(b) > 4 THEN Value(SubSeq(b, 1, 4))
    ELSE IF Len(b) = 4 /\ b[4] > 118 THEN Huge
    ELSE b[1] + 256 * Value(Tail(b))

-----------------------------------------------------------------------------
(* The library's tables *)

Sig ==
    [XSDT |-> <<88, 83, 68, 84>>, RSDT |-> <<82, 83, 68, 84>>, FACP |-> <<70, 65, 67, 80>>,
     APIC |-> <<65, 80, 73, 67>>, MCFG |-> <<77, 67, 70, 71>>, HPET |-> <<72, 80, 69, 84>>,
     SSDT |-> <<83, 83, 68, 84>>, SRAT |-> <<83, 82, 65, 84>>, SLIT |-> <<83, 76, 73, 84>>,
     WAET |-> <<87, 65, 69, 84>>, WSMT |-> <<87, 83, 77, 84>>, FPDT |-> <<70, 80, 68, 84>>,
     BGRT |-> <<66, 71, 82, 84>>, TPM2 |-> <<84, 80, 77, 50>>, DSDT |-> <<68, 83, 68, 84>>,
     FACS |-> <<70, 65, 67, 83>>, FBPT |-> <<70, 66, 80, 84>>, DMAR |-> <<68, 77, 65, 82>>,
     IVRS |-> <<73, 86, 82, 83>>]

RootSignature == <<82, 83, 68, 32, 80, 84, 82, 32>>

Ami == <<65, 76, 65, 83, 75, 65>>

\* A header with its checksum byte still zero.
to_bytes(sig, len, rev) ==
    Sig[sig] \o LE(len, 4) \o <<rev, 0>> \o Ami
       \o <<65, 32, 77, 32, 73, 32, 32, 32>> \o <<19, 0, 0, 1>> \o <<65, 77, 73, 32>> \o <<19, 0, 1, 0>>

Checked(b) == Settle(b, 9, 0, Len(b))

Sdt(sig, rev, body) == Checked(to_bytes(sig, 36 + Len(body), rev) \o body)

Aml(n) == [i \in 1..n |-> (7 * i) % 256]

build_madt(n) ==
    Sdt("APIC", 3, <<0, 0, 224, 254>> \o LE(1, 4)
        \o Joined([i \in 1..n |-> LocalApicEntry(i - 1, i - 1, 1)])
        \o IoApicEntry(0, <<0, 0, 192, 254>>, 0)
        \o InterruptOverrideEntry(0, 0, 2, 0) \o InterruptOverrideEntry(0, 9, 9, 13)
        \o LocalApicNmiEntry(255, 5, 1))

build_mcfg(ecam) == Sdt("MCFG", 1, Zeros(8) \o McfgAllocation(ecam, 0, 0, 255))

\* Revision 1, three comparators, a 64-bit counter, legacy replacement.
build_hpet(base) ==
    Sdt("HPET", 1, <<1, 2 + 32 + 128, 134, 128>> \o <<0, 64, 0, 0>> \o base \o <<0>> \o LE(128, 2) \o <<0>>)

build_srat(n, size) ==
    Sdt("SRAT", 3, LE(1, 4) \o Zeros(8)
        \o Joined([i \in 1..n |-> ProcessorAffinityEntry(i - 1, Zeros(4), 1)])
        \o MemoryAffinityEntry(Zeros(4), Zeros(8), size, 1))

build_slit(distances, n) == Sdt("SLIT", 1, LE(n, 8) \o distances)

\* Both clocks are emulated; all three mitigations hold.
build_waet == Sdt("WAET", 1, LE(1 + 2, 4))
build_wsmt == Sdt("WSMT", 1, LE(1 + 2 + 4, 4))

\* The image is marked displayed only when there is one.
build_bgrt(logo) ==
    Sdt("BGRT", 1, LE(1, 2) \o <<IF logo = Zeros(8) THEN 0 ELSE 1, 0>> \o logo \o Zeros(8))

build_tpm2 ==
    Sdt("TPM2", 4, Zeros(4) \o <<64, 0, 212, 254, 0, 0, 0, 0>> \o LE(6, 4) \o Zeros(12) \o Zeros(12))

build_fpdt(fbpt) == Sdt("FPDT", 1, LE(0, 2) \o <<16, 1>> \o Zeros(4) \o LE(fbpt, 8))

\* Neither the FACS nor the FBPT has a checksum.
build_fbpt ==
    Sig.FBPT \o LE(56, 4) \o LE(2, 2) \o <<48, 2>> \o Zeros(4) \o LE(32000000, 8)
       \o LE(1200000000, 8) \o LE(1260000000, 8) \o LE(1600000000, 8) \o LE(1620000000, 8)

build_facs == Sig.FACS \o LE(64, 4) \o Zeros(24) \o <<2>> \o Zeros(31)

\* A register: in port space when it has a width, absent when it has none.
Gas(port, width) ==
    IF width = 0 THEN Zeros(12)
    ELSE <<1, width, 0, IF width <= 8 THEN 1 ELSE IF width <= 16 THEN 2 ELSE 3>> \o LE(port, 8)

build_fadt(facs, dsdt) ==
    Sdt("FACP", 6,
        LE(facs, 4) \o LE(dsdt, 4) \o <<0, 1>> \o LE(9, 2) \o LE(178, 4) \o <<160, 161, 0, 0>>
        \o LE(1536, 4) \o Zeros(4) \o LE(1540, 4) \o Zeros(8) \o LE(1544, 4) \o LE(1568, 4) \o Zeros(4)
        \o <<4, 2, 0, 4, 16, 0, 0, 0>> \o LE(101, 2) \o LE(1001, 2) \o Zeros(6) \o <<13, 0, 50>>
        \o LE(1 + 2, 2) \o <<0>> \o LE(1 + 4 + 256 + 1024, 4) \o Gas(3321, 8) \o <<6, 0, 0, 1>>
        \o LE(facs, 8) \o LE(dsdt, 8)
        \o Gas(1536, 32) \o Gas(0, 0) \o Gas(1540, 16) \o Gas(0, 0) \o Gas(0, 0) \o Gas(1544, 32)
        \o Gas(1568, 128) \o Gas(0, 0) \o Gas(0, 0) \o Gas(0, 0) \o Zeros(8))

build_rsdp(xsdt) ==
    Settle(Settle(RootSignature \o <<0>> \o Ami \o <<2>> \o Zeros(4) \o LE(36, 4) \o LE(xsdt, 8) \o Zeros(4),
                  8, 0, 20), 32, 0, 36)

-----------------------------------------------------------------------------
(* The library's set: the XSDT, the FACS at 192, the others from 256 on *)

Order == <<"FACP", "APIC", "MCFG", "HPET", "SSDT", "SRAT", "SLIT", "WAET", "WSMT", "FPDT", "BGRT",
           "TPM2", "DSDT">>

FacsOffset == 192

\* The tables that hold no address of another.
build_secondary_tables(c) ==
    [APIC |-> build_madt(c.vcpus), MCFG |-> build_mcfg(c.ecam),
     HPET |-> build_hpet(<<0, 0, 208, 254, 0, 0, 0, 0>>), SSDT |-> Sdt("SSDT", 2, Aml(c.ssdt)),
     SRAT |-> build_srat(c.vcpus, c.mem), SLIT |-> build_slit(<<10>>, 1), WAET |-> build_waet,
     WSMT |-> build_wsmt, BGRT |-> build_bgrt(c.logo), TPM2 |-> build_tpm2,
     DSDT |-> Sdt("DSDT", 2, Aml(c.dsdt))]

\* The offset of each table of Order, and last that of the FBPT.
Starts(sec) ==
    FoldLeft(LAMBDA acc, n : Append(acc, Last(acc) +
                 (CASE n = "FACP" -> 276 [] n = "FPDT" -> 52 [] OTHER -> Len(sec[n]))),
             <<256>>, Order)

build_xsdt(base, start) == Sdt("XSDT", 1, Joined([i \in 1..12 |-> LE(base + start[i], 8)]))

\* Every field that holds an address: [file, at, size, target].
build_acpi_pointers(start) ==
    LET field(at, size, target) == [file |-> "tables", at |-> at, size |-> size, target |-> target]
    IN  <<[file |-> "rsdp", at |-> 24, size |-> 8, target |-> 0]>>
          \o [i \in 1..12 |-> field(36 + 8 * (i - 1), 8, start[i])]
          \o <<field(256 + 36, 4, FacsOffset), field(256 + 40, 4, start[13]),
               field(256 + 132, 8, FacsOffset), field(256 + 140, 8, start[13]),
               field(start[10] + 44, 8, start[14])>>

Laid(base, sec, start) ==
    LET table(n) == CASE n = "FACP" -> build_fadt(base + FacsOffset, base + start[13])
                      [] n = "FPDT" -> build_fpdt(base + start[14])
                      [] OTHER -> sec[n]
        xsdt == build_xsdt(base, start)
    IN  [rsdp |-> build_rsdp(base),
         tables |-> xsdt \o Zeros(FacsOffset - Len(xsdt)) \o build_facs
                      \o Joined(Mapped(table, Order)) \o build_fbpt,
         names |-> <<"XSDT">> \o Order, offsets |-> <<0>> \o SubSeq(start, 1, 13), facs |-> FacsOffset,
         pointers |-> build_acpi_pointers(start)]

LaidOut(base, sec) == Laid(base, sec, Starts(sec))

build_acpi_tables(c, base) == LaidOut(base, build_secondary_tables(c))

-----------------------------------------------------------------------------
(* Loader commands *)

\* Where a pointer command holds its second name, its offset and its size: the
\* library's encoder and executor agree on one layout, the kernel uses another.
LibraryLayout == [src |-> 56, offset |-> 108, size |-> 112]
KernelLayout == [src |-> 60, offset |-> 116, size |-> 120]

allocate(file, align, zone) == (0 :> 1) @@ (4 :> file) @@ (60 :> align) @@ (64 :> zone)

add_pointer(w, dest, src, at, size) ==
    (0 :> 2) @@ (4 :> dest) @@ (w.src :> src) @@ (w.offset :> at) @@ (w.size :> size)

add_checksum(file, at, start, len) ==
    (0 :> 3) @@ (4 :> file) @@ (60 :> at) @@ (64 :> start) @@ (68 :> len)

\* Writes the address of a place in src into dest, whatever dest holds.
write_pointer(dest, src, at, from, size) ==
    (0 :> 4) @@ (4 :> dest) @@ (56 :> src) @@ (108 :> at) @@ (112 :> from) @@ (116 :> size)

Allocations == <<allocate("tables", 64, 1), allocate("rsdp", 16, 2)>>

RootChecksums == <<add_checksum("rsdp", 8, 0, 20), add_checksum("rsdp", 32, 0, 36)>>

\* Pointers first, then a checksum over each table as its header measures it.
build_acpi_table_loader(set) ==
    LET point(p) == add_pointer(LibraryLayout, p.file, "tables", p.at, p.size)
        check(o) == add_checksum("tables", o + 9, o, Value(Slice(set.tables, o + 4, 4)))
    IN  Allocations \o Mapped(point, set.pointers) \o Mapped(check, set.offsets) \o RootChecksums

-----------------------------------------------------------------------------
(* The kernel's set for its firmware guest: one processor, two root tables *)

header(sig, rev) ==
    Sig[sig] \o Zeros(4) \o <<rev, 0>> \o <<69, 78, 76, 73, 76, 32>> \o <<69, 78, 76, 73, 76, 86, 77, 32>>
       \o LE(1, 4) \o <<69, 78, 76, 76>> \o LE(1, 4)

finish(t) == Patch(t, 4, LE(Len(t), 4))

gas_io(width, access, port) == <<1, width, 0, access>> \o LE(port, 8)

PmBase == 45056

fadt ==
    finish(header("FACP", 5) \o Zeros(8) \o <<0, 1>> \o LE(9, 2) \o Zeros(8)
        \o LE(PmBase, 4) \o Zeros(4) \o LE(PmBase + 4, 4) \o Zeros(8) \o LE(PmBase + 8, 4) \o Zeros(8)
        \o <<4, 2, 0, 4, 0, 0, 0, 0>> \o LE(4095, 2) \o LE(4095, 2) \o Zeros(8) \o <<50>>
        \o LE(1 + 8 + 16, 2) \o <<0>> \o LE(1 + 4 + 16 + 32 + 64 + 1024, 4) \o gas_io(8, 1, 3321)
        \o <<14, 0, 0, 0>> \o Zeros(16) \o gas_io(32, 3, PmBase) \o Zeros(12) \o gas_io(16, 2, PmBase + 4)
        \o Zeros(24) \o gas_io(32, 3, PmBase + 8) \o Zeros(48))

madt ==
    finish(header("APIC", 3) \o <<0, 0, 224, 254>> \o LE(1, 4) \o <<0, 8, 0, 0, 1, 0, 0, 0>>
        \o <<1, 12, 0, 0, 0, 0, 192, 254>> \o LE(0, 4) \o <<2, 10, 0, 0>> \o LE(2, 4) \o LE(0, 2)
        \o <<2, 10, 0, 9>> \o LE(9, 4) \o LE(13, 2) \o <<4, 6, 255, 0, 0, 1>>)

sdt(sig, wide, entries) ==
    LET entry(e) == LE(e, IF wide THEN 8 ELSE 4) IN finish(header(sig, 1) \o Joined(Mapped(entry, entries)))

Aligned(n, align) == ((n + align - 1) \div align) * align

\* Appends a table at the next multiple of align; [blob, at].
push(blob, t, align) ==
    [blob |-> blob \o Zeros(Aligned(Len(blob), align) - Len(blob)) \o t, at |-> Aligned(Len(blob), align)]

\* The compiled DSDT comes with a checksum of its own, which is cleared.
CompiledDsdt(n) == Sdt("DSDT", 2, Aml(n))

Pushed(d) ==
    LET f == push(d, build_facs, 64)
        a == push(f.blob, fadt, 8)
        m == push(a.blob, madt, 8)
        r == push(m.blob, sdt("RSDT", FALSE, <<a.at, m.at>>), 8)
        x == push(r.blob, sdt("XSDT", TRUE, <<a.at, m.at>>), 8)
    IN  [blob |-> x.blob, facs |-> f.at, fadt |-> a.at, madt |-> m.at, rsdt |-> r.at, xsdt |-> x.at]

KernelSet(p, d) ==
    [rsdp |-> RootSignature \o <<0>> \o <<69, 78, 76, 73, 76, 32>> \o <<2>> \o LE(p.rsdt, 4) \o LE(36, 4)
                \o LE(p.xsdt, 8) \o Zeros(4),
     tables |-> Patch(Patch(Patch(Patch(p.blob, p.fadt + 36, LE(p.facs, 4)), p.fadt + 40, LE(0, 4)),
                  p.fadt + 132, LE(p.facs, 8)), p.fadt + 140, LE(0, 8)),
     names |-> <<"DSDT", "FACP", "APIC", "RSDT", "XSDT">>, facs |-> p.facs,
     offsets |-> <<0, p.fadt, p.madt, p.rsdt, p.xsdt>>,
     lens |-> <<Len(d), 268, Len(madt), 44, 52>>,
     pointers |-> <<[at |-> p.fadt + 36, size |-> 4], [at |-> p.fadt + 40, size |-> 4],
                    [at |-> p.fadt + 132, size |-> 8], [at |-> p.fadt + 140, size |-> 8],
                    [at |-> p.rsdt + 36, size |-> 4], [at |-> p.xsdt + 36, size |-> 8],
                    [at |-> p.rsdt + 40, size |-> 4], [at |-> p.xsdt + 44, size |-> 8]>>]

build(d) == KernelSet(Pushed(Patch(d, 9, <<0>>)), d)

\* The root pointer is filled last, after the checksums of the tables.
KernelLoader(set) ==
    LET point(p) == add_pointer(KernelLayout, "tables", "tables", p.at, p.size)
    IN  Allocations \o Mapped(point, set.pointers)
          \o [i \in 1..5 |-> add_checksum("tables", set.offsets[i] + 9, set.offsets[i], set.lens[i])]
          \o <<add_pointer(KernelLayout, "rsdp", "tables", 16, 4),
               add_pointer(KernelLayout, "rsdp", "tables", 24, 8)>> \o RootChecksums

-----------------------------------------------------------------------------
(* Running a stream over the placed files: name -> [base, data] *)

Failed(files, error) == [files |-> files, error |-> error]

Written(files, name, data) == [files |-> [files EXCEPT ![name].data = data], error |-> "none"]

\* The field is read at any size, and written only at a size a pointer has.
ApplyPointer(files, dest, src, at, size) ==
    IF src \notin DOMAIN files \/ dest \notin DOMAIN files THEN Failed(files, "UnknownFile")
    ELSE IF at + size > Len(files[dest].data) THEN Failed(files, "OutOfBounds")
    ELSE IF size \notin {1, 2, 4, 8} THEN Failed(files, "BadPointerSize")
    ELSE Written(files, dest, Patch(files[dest].data, at,
                    LE(Value(Slice(files[dest].data, at, size)) + files[src].base, size)))

ApplyWrite(files, dest, src, at, from, size) ==
    IF src \notin DOMAIN files \/ dest \notin DOMAIN files THEN Failed(files, "UnknownFile")
    ELSE IF size \notin {1, 2, 4, 8} THEN Failed(files, "BadPointerSize")
    ELSE IF at + size > Len(files[dest].data) THEN Failed(files, "OutOfBounds")
    ELSE Written(files, dest, Patch(files[dest].data, at, LE(files[src].base + from, size)))

ApplyChecksum(files, name, at, start, len) ==
    IF name \notin DOMAIN files THEN Failed(files, "UnknownFile")
    ELSE IF at >= Len(files[name].data) \/ start + len > Len(files[name].data)
         THEN Failed(files, "OutOfBounds")
    ELSE Written(files, name, Settle(files[name].data, at, start, len))

Apply(files, e, w) ==
    CASE e[0] = 1 -> IF e[4] \in DOMAIN files THEN Failed(files, "none") ELSE Failed(files, "UnknownFile")
      [] e[0] = 2 -> ApplyPointer(files, e[4], e[w.src], e[w.offset], e[w.size])
      [] e[0] = 3 -> ApplyChecksum(files, e[4], e[60], e[64], e[68])
      [] e[0] = 4 -> ApplyWrite(files, e[4], e[56], e[108], e[112], e[116])
      [] OTHER -> Failed(files, "UnknownCommand")

\* The first error stops the stream; what was patched before it stays.
RECURSIVE Run(_, _, _, _)
Run(r, stream, i, w) ==
    IF r.error # "none" \/ i > Len(stream) THEN r ELSE Run(Apply(r.files, stream[i], w), stream, i + 1, w)

\* bytes: the length of the stream, 128 for each whole command.
execute(files, stream, bytes, w) ==
    IF bytes % 128 # 0 THEN Failed(files, "TruncatedStream") ELSE Run(Failed(files, "none"), stream, 1, w)

-----------------------------------------------------------------------------
(* A guest's memory: m = [len, tb, t, rb, r, seg], zero but for the tables t *)
(* at tb, the root pointer r at rb, the segment of the extended BIOS area    *)
(* and a stale root pointer at 0xE0000, whose sum is wrong                   *)

Stale == 917504

ByteAt(m, a) ==
    IF a >= m.tb /\ a < m.tb + Len(m.t) THEN m.t[a - m.tb + 1]
    ELSE IF a >= m.rb /\ a < m.rb + Len(m.r) THEN m.r[a - m.rb + 1]
    ELSE IF a = 1038 THEN m.seg % 256
    ELSE IF a = 1039 THEN m.seg \div 256
    ELSE IF a >= Stale /\ a < Stale + 8 THEN RootSignature[a - Stale + 1]
    ELSE 0

\* The n bytes at a, or nothing when memory ends before them.
Fetch(m, a, n) ==
    IF n > m.len \/ a > m.len - n THEN <<>>
    ELSE IF a >= m.tb /\ a + n <= m.tb + Len(m.t) THEN <<SubSeq(m.t, a - m.tb + 1, a - m.tb + n)>>
    ELSE <<[i \in 1..n |-> ByteAt(m, a + i - 1)]>>

table_at(m, a) == IF Fetch(m, a, 8) = <<>> THEN <<>> ELSE Fetch(m, a, Value(Slice(Fetch(m, a, 8)[1], 4, 4)))

\* The XSDT of a revision 2 pointer that has one, otherwise the RSDT.
DescriptionAt(m, a, root) ==
    IF At(root, 15) >= 2 /\ Fetch(m, a, 32) # <<>> /\ Value(Slice(Fetch(m, a, 32)[1], 24, 8)) # 0
    THEN Value(Slice(Fetch(m, a, 32)[1], 24, 8))
    ELSE Value(Slice(root, 16, 4))

EntriesOf(desc, size) ==
    [i \in 1..((Len(desc) - 36) \div size) |-> Value(Slice(desc, 36 + (i - 1) * size, size))]

Named(m, a, sig) ==
    LET t == table_at(m, a) IN t # <<>> /\ Len(t[1]) >= 4 /\ Slice(t[1], 0, 4) = Sig[sig]

FirstNamed(m, entries, sig) == First(SelectSeq(entries, LAMBDA a : Named(m, a, sig)))

FindIn(m, desc, sig) ==
    IF desc = <<>> \/ Len(desc[1]) < 36 THEN <<>>
    ELSE FirstNamed(m, EntriesOf(desc[1], IF Slice(desc[1], 0, 4) = Sig.XSDT THEN 8 ELSE 4), sig)

find_table(m, a, sig) ==
    LET root == Fetch(m, a, 20)
    IN  IF root = <<>> \/ Slice(root[1], 0, 8) # RootSignature THEN <<>>
        ELSE FindIn(m, table_at(m, DescriptionAt(m, a, root[1])), sig)

valid_rsdp_at(m, a) ==
    /\ Fetch(m, a, 20) # <<>>
    /\ \A i \in 1..8 : ByteAt(m, a + i - 1) = RootSignature[i]
    /\ Sum(Fetch(m, a, 20)[1]) = 0
    /\ ByteAt(m, a + 15) >= 2 => Fetch(m, a, 36) # <<>> /\ Sum(Fetch(m, a, 36)[1]) = 0

scan_region_for_rsdp(m, base, len) ==
    LET at == {k \in 0..((len \div 16) - 1) : valid_rsdp_at(m, base + 16 * k)}
    IN  IF at = {} THEN <<>> ELSE <<base + 16 * Min(at)>>

\* The first KiB of the extended BIOS area, then 0xE0000 .. 0xFFFFF.
scan_rsdp(m) ==
    LET ebda == 16 * (ByteAt(m, 1038) + 256 * ByteAt(m, 1039))
        low == IF ebda = 0 THEN <<>> ELSE scan_region_for_rsdp(m, ebda, 1024)
    IN  IF low # <<>> THEN low ELSE scan_region_for_rsdp(m, 917504, 131072)

read_facs_address(f) ==
    IF Len(f) >= 140 /\ Slice(f, 132, 8) # Zeros(8) THEN <<Value(Slice(f, 132, 8))>>
    ELSE IF Len(f) >= 40 /\ Slice(f, 36, 4) # Zeros(4) THEN <<Value(Slice(f, 36, 4))>>
    ELSE <<>>

\* The bytes of the table with a signature, or nothing.
TableOf(m, a, sig) == LET t == find_table(m, a, sig) IN IF t = <<>> THEN <<>> ELSE table_at(m, t[1])

find_facs_address(m, a) ==
    LET f == TableOf(m, a, "FACP") IN IF f = <<>> THEN <<>> ELSE read_facs_address(f[1])

host_cpu_count(m, a) == Mapped(count_enabled_cpus, TableOf(m, a, "APIC"))
host_apic_ids(m, a) == Joined(Mapped(enabled_apic_ids, TableOf(m, a, "APIC")))
host_ecam_allocations(m, a) == Joined(Mapped(parse_mcfg_allocations, TableOf(m, a, "MCFG")))
host_numa_domains(m, a) == UNION Range(Mapped(numa_domains, TableOf(m, a, "SRAT")))
host_memory_affinities(m, a) == Joined(Mapped(memory_affinities, TableOf(m, a, "SRAT")))
host_cpu_affinities(m, a) == Joined(Mapped(cpu_affinities, TableOf(m, a, "SRAT")))
host_numa_distances(m, a) == Joined(Mapped(locality_distances, TableOf(m, a, "SLIT")))

host_iommu_kind(m, a) ==
    IF find_table(m, a, "DMAR") # <<>> THEN "IntelVtd"
    ELSE IF find_table(m, a, "IVRS") # <<>> THEN "AmdVi" ELSE "None"

\* Each processor with the domain of the first affinity that names it.
CpuNodes(ids, affinities) ==
    LET node(id) == [id |-> id, dom |-> First(SelectSeq(affinities, LAMBDA x : x.id = id))]
    IN  Mapped(node, ids)

\* The configuration window lies outside the memory searched: part ec walks it.
build_device_tree(m, a) ==
    [cpus |-> CpuNodes(host_apic_ids(m, a), host_cpu_affinities(m, a)),
     memory |-> host_memory_affinities(m, a), distances |-> host_numa_distances(m, a),
     iommu |-> host_iommu_kind(m, a), ecam |-> host_ecam_allocations(m, a)]

-----------------------------------------------------------------------------
(* The kernel's reader: every entry of the XSDT, the last of a kind wins *)

\* The checksum over the first 20 bytes only.
rsdp_xsdt_address(root) ==
    IF Slice(root, 0, 8) # RootSignature \/ At(root, 15) < 2 \/ SumFrom(root, 1, 20) # 0 THEN <<>>
    ELSE <<Value(Slice(root, 24, 8))>>

sdt_length(t) == Value(Slice(t, 4, 4))

xsdt_entry_count(len) == IF len < 36 THEN 0 ELSE (len - 36) \div 8

Summary(s, t) ==
    CASE Slice(t, 0, 4) = Sig.APIC ->
            [s EXCEPT !.cpus = madt_enabled_cpu_count(t), !.ids = madt_enabled_apic_ids(t),
                      !.id_count = Min({Len(madt_enabled_apic_ids(t)), Cap})]
      [] Slice(t, 0, 4) = Sig.MCFG /\ mcfg_first_allocation(t) # <<>> ->
            [s EXCEPT !.ecam = mcfg_first_allocation(t)[1].base, !.end_bus = mcfg_first_allocation(t)[1].end]
      [] Slice(t, 0, 4) = Sig.DMAR ->
            [s EXCEPT !.iommu = "IntelVtd", !.units = dmar_remapping_units(t),
                      !.scopes = Joined([i \in 1..Len(First(dmar_remapping_units(t))) |->
                                           dmar_device_scopes(t, dmar_remapping_units(t)[i])])]
      [] Slice(t, 0, 4) = Sig.IVRS ->
            [s EXCEPT !.iommu = "AmdVi", !.units = ivrs_iommu_units(t),
                      !.scopes = Joined([i \in 1..Len(First(ivrs_iommu_units(t))) |->
                                           ivrs_device_entries(t, ivrs_iommu_units(t)[i])]),
                      !.ivmds = ivrs_memory_definitions(t)]
      [] Slice(t, 0, 4) = Sig.SRAT ->
            [s EXCEPT !.domains = srat_numa_domains(t).kept, !.memory = srat_memory_ranges(t),
                      !.affinities = cpu_affinities(t)]
      [] OTHER -> s

Discovered(m, xsdt) ==
    FoldLeft(LAMBDA s, a : Summary(s, Fetch(m, a, sdt_length(Fetch(m, a, 36)[1]))[1]),
             [tables |-> xsdt_entry_count(sdt_length(xsdt)), cpus |-> 0, ids |-> <<>>, id_count |-> 0,
              ecam |-> Zeros(8), end_bus |-> 0, iommu |-> "None", domains |-> <<>>, memory |-> <<>>,
              affinities |-> <<>>, units |-> <<>>, scopes |-> <<>>, ivmds |-> <<>>],
             EntriesOf(xsdt, 8))

discover(m, a) ==
    LET x == rsdp_xsdt_address(Fetch(m, a, 36)[1])
    IN  IF x = <<>> THEN <<>> ELSE <<Discovered(m, table_at(m, x[1])[1])>>

-----------------------------------------------------------------------------
(* From the configuration to a guest that has its tables *)

\* The tables of a host, which its own firmware wrote: the kernel reads them.
HostIommu(c) ==
    CASE c.iommu = "IntelVtd" ->
            Sdt("DMAR", 1, Zeros(12) \o Drhd(1, 0, c.ecam, <<DeviceScope(1, 0, 0, 2, 0)>>) \o Drhd(0, 0, c.mem, <<>>))
      [] c.iommu = "AmdVi" ->
            Sdt("IVRS", 2, Zeros(12) \o Ivhd(16, 0, <<2, 0>>, c.ecam, <<<<2, 8, 0, 0>>>>)
                             \o Ivmd(33, 1, <<8, 0>>, <<8, 0>>, c.mem, c.ecam))
      [] OTHER -> Sdt("SSDT", 2, Aml(c.ssdt))

HostSet(c, base, io) ==
    [rsdp |-> build_rsdp(base),
     tables |-> Sdt("XSDT", 1, LE(base + 64, 8) \o LE(base + 64 + Len(io), 8))
                  \o Zeros(12) \o io \o build_madt(c.vcpus),
     names |-> <<"XSDT", CASE c.iommu = "IntelVtd" -> "DMAR" [] c.iommu = "AmdVi" -> "IVRS" [] OTHER -> "SSDT",
                 "APIC">>,
     offsets |-> <<0, 64, 64 + Len(io)>>, facs |-> 0]

FwInit == fw = [phase |-> "empty"]

\* add_acpi_from_config with the address the configuration fixes.
add_acpi_from_config(c, base) ==
    /\ fw.phase = "empty"
    /\ fw' = [phase |-> "built", kind |-> "fixed", c |-> c, base |-> base, set |-> build_acpi_tables(c, base)]

\* add_acpi_with_loader: built at 0, with a stream that moves it.
add_acpi_with_loader(c) ==
    /\ fw.phase = "empty"
    /\ fw' = [phase |-> "built", kind |-> "linked", c |-> c, base |-> 0, set |-> build_acpi_tables(c, 0)]

BuildForFirmware(c) ==
    /\ fw.phase = "empty"
    /\ fw' = [phase |-> "built", kind |-> "kernel", c |-> c, base |-> 0, set |-> build(CompiledDsdt(c.dsdt))]

HostFirmware(c, base) ==
    /\ fw.phase = "empty"
    /\ fw' = [phase |-> "built", kind |-> "host", c |-> c, base |-> base, set |-> HostSet(c, base, HostIommu(c))]

Memory(base, tables, root, rsdp) ==
    [len |-> base + Len(tables), tb |-> base, t |-> tables, rb |-> root.at, r |-> rsdp, seg |-> root.ebda]

\* Tables built for an address are copied there.
Copy(root) ==
    /\ fw.phase = "built" /\ fw.kind \in {"fixed", "host"}
    /\ fw' = [phase |-> "loaded", kind |-> fw.kind, c |-> fw.c, set |-> fw.set, back |-> <<>>, harm |-> "none",
              m |-> Memory(fw.base, fw.set.tables, root, fw.set.rsdp), armed |-> <<>>]

StreamOf(f) == IF f.kind = "linked" THEN build_acpi_table_loader(f.set) ELSE KernelLoader(f.set)

LayoutOf(f) == IF f.kind = "linked" THEN LibraryLayout ELSE KernelLayout

\* A stream with something wrong in it, or one more command.
Spoilt(stream, w, harm, len) ==
    CASE harm = "command" -> [stream EXCEPT ![4] = (0 :> 9)]
      [] harm = "offset" -> [stream EXCEPT ![5] = [@ EXCEPT ![w.offset] = len - 3]]
      [] harm = "size" -> [stream EXCEPT ![5] = [@ EXCEPT ![w.size] = 3]]
      [] harm = "span" -> [stream EXCEPT ![Len(stream)] = [@ EXCEPT ![68] = 37]]
      [] harm = "reverse" -> Append(stream, write_pointer("back", "tables", 2, FacsOffset, 4))
      [] OTHER -> stream

Placed(f, base, root, harm) ==
    ("tables" :> [base |-> base, data |-> f.set.tables])
      @@ ("back" :> [base |-> 4096, data |-> [i \in 1..8 |-> 255]])
      @@ (IF harm = "file" THEN <<>> ELSE "rsdp" :> [base |-> root.at, data |-> f.set.rsdp])

Outcome(f, root, harm, r) ==
    IF r.error # "none" THEN [phase |-> "refused", harm |-> harm, error |-> r.error]
    ELSE [phase |-> "loaded", kind |-> f.kind, c |-> f.c, set |-> f.set, harm |-> harm,
          back |-> IF harm = "reverse" THEN r.files["back"].data ELSE <<>>,
          m |-> Memory(r.files["tables"].base, r.files["tables"].data, root, r.files["rsdp"].data),
          armed |-> <<>>]

\* Firmware allocates both files and runs the stream it was given.
Link(base, root, harm) ==
    /\ fw.phase = "built" /\ fw.kind \in {"linked", "kernel"}
    /\ harm = "reverse" => fw.kind = "linked"
    /\ fw' = Outcome(fw, root, harm,
                execute(Placed(fw, base, root, harm),
                        Spoilt(StreamOf(fw), LayoutOf(fw), harm, Len(fw.set.tables)),
                        128 * Len(StreamOf(fw)) - (IF harm = "cut" THEN 4 ELSE 0), LayoutOf(fw)))

\* The guest's operating system writes its waking vector before it sleeps.
Arm(v) ==
    /\ fw.phase = "loaded" /\ fw.kind # "host" /\ fw.armed = <<>>
    /\ fw' = [fw EXCEPT !.armed = <<v>>,
                 !.m.t = LET f == fw.set.facs
                         IN  Patch(Patch(Patch(@, f + 12, v.v), f + 24, v.x), f + 36, <<IF v.wide THEN 1 ELSE 0>>)]

FwNext ==
    \/ \E c \in Setups :
          \/ \E base \in Bases : add_acpi_from_config(c, base) \/ HostFirmware(c, base)
          \/ add_acpi_with_loader(c)
          \/ BuildForFirmware(c)
    \/ \E root \in Roots : Copy(root) \/ (\E base \in Bases, harm \in Harms : Link(base, root, harm))
    \/ \E v \in Vectors : Arm(v)

from_facs(f) == [v |-> Slice(f, 12, 4), x |-> Slice(f, 24, 8), wide |-> Enabled(f, 36)]

\* Where the processor goes on after sleep: the wide vector when the guest asks
\* for it and there is one, the real-mode one, or nowhere.
resume_target(w) ==
    IF w.wide /\ w.x # Zeros(8) THEN <<"Extended", w.x>>
    ELSE IF w.v # Zeros(4) THEN <<"RealMode", w.v>> ELSE <<"None">>

\* What the stream must be refused with.
Refusal ==
    [cut |-> "TruncatedStream", command |-> "UnknownCommand", file |-> "UnknownFile",
     offset |-> "OutOfBounds", size |-> "BadPointerSize", span |-> "OutOfBounds"]

Spans(m, set) ==
    [i \in 1..Len(set.offsets) |-> <<set.offsets[i], set.offsets[i] + sdt_length(Slice(m.t, set.offsets[i], 8))>>]

\* Every table is whole, sums to zero, shares no byte with another, and is found.
TablesWhole(m, set) ==
    LET span == Spans(m, set) IN
    \A i \in DOMAIN span :
       /\ Slice(m.t, span[i][1], 4) = Sig[set.names[i]]
       /\ span[i][2] <= Len(m.t) /\ SumFrom(m.t, span[i][1] + 1, span[i][2]) = 0
       /\ \A j \in DOMAIN span : j # i => span[i][2] <= span[j][1] \/ span[j][2] <= span[i][1]
       /\ set.facs # 0 => (span[i][2] <= set.facs \/ set.facs + 64 <= span[i][1])
       /\ IF set.names[i] \in {"XSDT", "RSDT", "DSDT"} THEN TRUE
          ELSE find_table(m, m.rb, set.names[i]) = <<m.tb + span[i][1]>>

\* The fixed description names the DSDT twice and the FACS twice.
FixedRight(m, set, f) ==
    /\ Value(Slice(f, 36, 4)) = m.tb + set.facs /\ Value(Slice(f, 132, 8)) = m.tb + set.facs
    /\ set.facs % 64 = 0 /\ Slice(m.t, set.facs, 4) = Sig.FACS
    /\ Slice(f, 40, 4) = Slice(f, 140, 4) /\ Named(m, Value(Slice(f, 140, 8)), "DSDT")
    /\ find_facs_address(m, m.rb) = <<m.tb + set.facs>>

\* What a guest makes of the library's tables is the configuration.
ConfigurationRead(m, c, tree, kernel) ==
    /\ tree.cpus = [i \in 1..c.vcpus |-> [id |-> Id(i - 1), dom |-> <<[id |-> Id(i - 1), dom |-> Zeros(4)]>>]]
    /\ host_cpu_count(m, m.rb) = <<c.vcpus>> /\ host_numa_domains(m, m.rb) = {Zeros(4)}
    /\ tree.memory = <<[dom |-> Zeros(4), base |-> Zeros(8), len |-> c.mem, hot_pluggable |-> FALSE]>>
    /\ tree.distances = <<<<<<10>>>>>> /\ tree.iommu = "None"
    /\ tree.ecam = <<[base |-> c.ecam, seg |-> 0, start |-> 0, end |-> 255]>>
    /\ kernel.tables = 12 /\ kernel.cpus = c.vcpus /\ kernel.id_count = Min({c.vcpus, Cap})
    /\ kernel.ecam = c.ecam /\ kernel.end_bus = 255 /\ kernel.domains = <<Zeros(4)>>
    /\ kernel.memory = <<[dom |-> Zeros(4), base |-> Zeros(8), len |-> c.mem]>>
    /\ kernel.affinities = [i \in 1..c.vcpus |-> [id |-> Id(i - 1), dom |-> Zeros(4)]]

HostRead(c, kernel) ==
    /\ kernel.iommu = c.iommu /\ kernel.cpus = c.vcpus /\ kernel.ids = [i \in 1..c.vcpus |-> Id(i - 1)]
    /\ c.iommu = "IntelVtd" => /\ [i \in 1..Len(kernel.units) |-> kernel.units[i].base] = <<c.ecam, c.mem>>
                               /\ kernel.scopes = <<[kind |-> 1, id |-> 0, bus |-> 0, dev |-> 2, fn |-> 0]>>
    /\ c.iommu = "AmdVi" => /\ [i \in 1..Len(kernel.units) |-> kernel.units[i].base] = <<c.ecam>>
                            /\ [i \in 1..Len(kernel.scopes) |-> kernel.scopes[i].devid] = <<<<8, 0>>>>
                            /\ [i \in 1..Len(kernel.ivmds) |-> kernel.ivmds[i].start] = <<c.mem>>

\* The wide vector only for a guest that set it and its flag.
WakesWhere(armed, t) ==
    CASE armed = <<>> -> t = <<"None">>
      [] armed # <<>> /\ t[1] = "Extended" -> armed[1].wide /\ armed[1].x # Zeros(8) /\ t[2] = armed[1].x
      [] armed # <<>> /\ t[1] = "RealMode" ->
            (armed[1].wide => armed[1].x = Zeros(8)) /\ armed[1].v # Zeros(4) /\ t[2] = armed[1].v
      [] OTHER -> armed[1].v = Zeros(4) /\ (armed[1].wide => armed[1].x = Zeros(8))

\* A guest finds its tables: after the files are placed anywhere and the stream
\* has run, the root pointer is the one a scan finds though a stale one lies
\* before it, every table is whole, sums to zero, overlaps no other and is found
\* by its signature, every pointer names its target, both readers make the
\* configuration of it, the performance records are where the pointer says, the
\* waking vector read on resume is the one the guest armed and arming it breaks
\* no checksum; and a stream with a wrong command is refused for what is wrong.
TablesFound ==
    /\ fw.phase = "loaded" =>
          /\ fw.harm \notin DOMAIN Refusal
          /\ scan_rsdp(fw.m) = <<fw.m.rb>> /\ Sum(fw.m.r) = 0
          /\ TablesWhole(fw.m, fw.set)
          /\ fw.kind = "host" => HostRead(fw.c, discover(fw.m, fw.m.rb)[1])
          /\ fw.kind # "host" =>
                /\ FixedRight(fw.m, fw.set, TableOf(fw.m, fw.m.rb, "FACP")[1])
                /\ WakesWhere(fw.armed, resume_target(from_facs(Slice(fw.m.t, fw.set.facs, 64))))
          /\ fw.kind = "kernel" =>
                /\ host_apic_ids(fw.m, fw.m.rb) = <<Id(0)>>
                /\ EntriesOf(table_at(fw.m, fw.m.tb + fw.set.offsets[4])[1], 4)
                      = EntriesOf(table_at(fw.m, fw.m.tb + fw.set.offsets[5])[1], 8)
                /\ Value(Slice(fw.m.r, 16, 4)) = fw.m.tb + fw.set.offsets[4]
          /\ fw.kind \in {"fixed", "linked"} =>
                /\ ConfigurationRead(fw.m, fw.c, build_device_tree(fw.m, fw.m.rb), discover(fw.m, fw.m.rb)[1])
                /\ Fetch(fw.m, Value(Slice(TableOf(fw.m, fw.m.rb, "FPDT")[1], 44, 8)), 4) = <<Sig.FBPT>>
          /\ fw.back # <<>> => fw.back = <<255, 255>> \o LE(fw.m.tb + FacsOffset, 4) \o <<255, 255>>
    /\ fw.phase = "refused" => fw.harm \in DOMAIN Refusal /\ fw.error = Refusal[fw.harm]

-----------------------------------------------------------------------------
(* The configuration ports: files are added, then the guest selects and reads *)

FirstSelector == 32
DirSelector == 25

FcInit == fc = [files |-> <<>>, open |-> FALSE, sel |-> 0, off |-> 0, got |-> <<>>]

\* The bytes of the i-th file; names are left out, each is 56 bytes.
Content(i, n) == [k \in 1..n |-> (100 * i + k) % 256]

BE(v, n) == Reverse(LE(v, n))

build_file_directory(files) ==
    BE(Len(files), 4)
      \o Joined([i \in 1..Len(files) |-> BE(Len(files[i]), 4) \o BE(FirstSelector + i - 1, 2) \o Zeros(2)
                                           \o Zeros(56)])

\* "QEMU"; the port interface and no DMA; an unknown selector holds nothing.
get_current_data(files, sel) ==
    CASE sel = 0 -> <<81, 69, 77, 85>>
      [] sel = 1 -> LE(1, 4)
      [] sel = DirSelector -> build_file_directory(files)
      [] sel \in FirstSelector..(FirstSelector + Len(files) - 1) -> files[sel - FirstSelector + 1]
      [] OTHER -> <<>>

add_file(n) ==
    /\ ~fc.open /\ Len(fc.files) < MaxFiles
    /\ fc' = [fc EXCEPT !.files = Append(@, Content(Len(@) + 1, n))]

write_selector(v) == fc' = [fc EXCEPT !.open = TRUE, !.sel = v, !.off = 0, !.got = <<>>]

\* One byte; past the end it is zero and the position stays.
read_data(data, off) ==
    IF off < Len(data) THEN [byte |-> data[off + 1], off |-> off + 1] ELSE [byte |-> 0, off |-> off]

RECURSIVE ReadBytes(_, _, _)
ReadBytes(data, off, n) ==
    IF n = 0 THEN [bytes |-> <<>>, off |-> off]
    ELSE LET r == read_data(data, off) IN
         LET rest == ReadBytes(data, r.off, n - 1)
         IN  [bytes |-> <<r.byte>> \o rest.bytes, off |-> rest.off]

\* A read of the data port gives up to four bytes, the first one lowest.
pio_read(size) ==
    /\ Len(fc.got) < MaxReads
    /\ fc' = LET r == ReadBytes(get_current_data(fc.files, fc.sel), fc.off, Min({size, 4}))
             IN  [fc EXCEPT !.open = TRUE, !.off = r.off, !.got = @ \o r.bytes]

FcNext ==
    \/ \E n \in FileSizes : add_file(n)
    \/ \E v \in {0, 1, DirSelector, 2} \union FirstSelector..(FirstSelector + MaxFiles) : write_selector(v)
    \/ \E size \in {1, 2, 4} : pio_read(size)

\* Whatever sizes the guest reads with, what it has read since it selected an
\* item is the item from its first byte, then zeros; and the directory names
\* every file by the selector and the length under which it can be read.
PortsHonest ==
    /\ LET data == get_current_data(fc.files, fc.sel)
       IN  \A i \in 1..Len(fc.got) : fc.got[i] = IF i <= Len(data) THEN data[i] ELSE 0
    /\ LET dir == get_current_data(fc.files, DirSelector)
       IN  /\ Len(dir) = 4 + 64 * Len(fc.files)
           /\ \A i \in 1..Len(fc.files) :
                 LET o == 4 + 64 * (i - 1)
                     data == get_current_data(fc.files, 256 * At(dir, o + 4) + At(dir, o + 5))
                 IN  /\ data = fc.files[i]
                     /\ Len(data) = 256 * At(dir, o + 2) + At(dir, o + 3)

-----------------------------------------------------------------------------
(* SMBIOS: an identity read from the host, memory modules, then structures *)

Fields == <<"bios_vendor", "bios_version", "bios_date", "system_manufacturer", "system_product",
            "system_version", "system_serial", "system_sku", "system_family", "baseboard_manufacturer",
            "baseboard_product", "baseboard_serial">>

\* Two letters stand for a string: the default of a field, or the host's.
DefaultOf(i) == <<68, 64 + i>>
HostOf(i) == <<72, 64 + i>>

DefaultUuid == <<18, 52, 86, 120, 154, 188, 222, 240, 17, 34, 51, 68, 85, 102, 119, 136>>
HostUuid == [i \in 1..16 |-> 200 + i]

\* A field keeps its default when its file is missing or blank.
FieldRead(i, held) == IF held = "set" THEN HostOf(i) ELSE DefaultOf(i)

\* An identifier is taken when it is 32 hexadecimal digits, dashes aside.
parse_dmi_uuid(held) == IF held = "set" THEN HostUuid ELSE DefaultUuid

SmInit == sm = [phase |-> "empty"]

\* One file of the directory holds something, the others are missing; field 0
\* is the identifier, which may also be no number.
from_dmi_dir(i, held) ==
    /\ sm.phase = "empty" /\ (held = "wrong" => i = 0)
    /\ sm' = [phase |-> "config", modules |-> <<>>, held |-> <<i, held>>,
              s |-> [f \in 1..Len(Fields) |-> FieldRead(f, IF f = i THEN held ELSE "absent")],
              uuid |-> parse_dmi_uuid(IF i = 0 THEN held ELSE "absent")]

AddModule(size) ==
    /\ sm.phase = "config" /\ Len(sm.modules) < MaxModules
    /\ sm' = [sm EXCEPT !.modules = Append(@, size)]

append_strings(ss) == LET ended(s) == Append(s, 0) IN Joined(Mapped(ended, ss)) \o <<0>>

\* Wording the code fixes; the model only needs it not to be empty.
Wording == <<88>>

build_type0(c) ==
    <<0, 26, 0, 0, 1, 2>> \o LE(59392, 2) \o <<3, 255>> \o <<128, 10, 0, 0, 3, 0, 0, 0>>
      \o <<1, 12, 5, 29, 255, 255>> \o LE(32, 2) \o append_strings(SubSeq(c.s, 1, 3))

build_type1(c) == <<1, 27, 1, 0, 1, 2, 3, 4>> \o c.uuid \o <<6, 5, 6>> \o append_strings(SubSeq(c.s, 4, 9))

build_type2(c) ==
    <<2, 15, 2, 0, 1, 2, 3, 4, 5, 9, 6>> \o LE(3, 2) \o <<10, 0>>
      \o append_strings(<<c.s[10], c.s[11], Wording, c.s[12], Wording, Wording>>)

build_type3 ==
    <<3, 22, 3, 0, 1, 3, 2, 3, 4, 3, 3, 3, 2>> \o Zeros(4) \o <<0, 1, 0, 0, 5>>
      \o append_strings([i \in 1..5 |-> Wording])

Cores == 4
Threads == 8

build_type4 ==
    <<4, 48, 4, 0, 1, 3, 254, 2>> \o <<18, 15, 166, 0>> \o <<255, 251, 139, 23>> \o <<3, 139>>
      \o LE(100, 2) \o LE(5700, 2) \o LE(5700, 2) \o <<65, 62>> \o [i \in 1..6 |-> 255]
      \o <<4, 5, 6, Cores, Cores, Threads>> \o LE(252, 2) \o LE(264, 2)
      \o LE(Cores, 2) \o LE(Cores, 2) \o LE(Threads, 2) \o append_strings([i \in 1..6 |-> Wording])

\* A number of MiB as 64-bit bytes, and the last address below it.
Bytes(mb) == <<0, 0>> \o LE(16 * mb, 6)
LastByte(mb) == IF mb = 0 THEN Zeros(8) ELSE <<255, 255>> \o LE((16 * mb) - 1, 6)

Total(c) == FoldLeft(+, 0, c.modules)

build_type16(c) ==
    <<16, 23, 16, 0, 3, 3, 3>> \o <<0, 0, 0, 128>> \o LE(65534, 2) \o LE(Len(c.modules), 2)
      \o Bytes(Total(c)) \o Zeros(2)

\* The i-th module, from 0.  A size that does not fit the old field is all ones
\* there and stands in the extended one.
build_type17(i, size) ==
    LET body == <<17, 92>> \o LE(17 + i, 2) \o LE(16, 2) \o LE(65534, 2) \o LE(64, 2) \o LE(64, 2)
                  \o LE(IF size > 32767 THEN 32767 ELSE size, 2) \o <<9, 0, 1, 2, 34>> \o LE(128, 2)
                  \o LE(6000, 2) \o <<3, 4, 5, 6, 1>> \o LE(size, 4) \o LE(6000, 2)
                  \o LE(1100, 2) \o LE(1100, 2) \o LE(1100, 2) \o <<2>> \o LE(4, 2) \o <<0>> \o Zeros(8)
                  \o Zeros(8) \o Bytes(size) \o Zeros(16)
    IN  body \o Zeros(92 - Len(body))
          \o append_strings(<<<<68, 48 + i>>, <<66, 48 + i>>, <<71>>, <<83, 48 + i>>, Wording, <<80>>>>)

build_type19(c) ==
    <<19, 31>> \o LE(17 + Len(c.modules), 2) \o [i \in 1..8 |-> 255] \o LE(16, 2)
      \o <<Len(c.modules) % 256>> \o Zeros(8) \o LastByte(Total(c)) \o Zeros(2)

build_type32 == <<32, 20, 32, 0>> \o Zeros(16) \o Zeros(2)

build_type127 == <<127, 4, 127, 0, 0, 0>>

build_structures(c) ==
    build_type0(c) \o build_type1(c) \o build_type2(c) \o build_type3 \o build_type4 \o build_type16(c)
      \o Joined([i \in 1..Len(c.modules) |-> build_type17(i - 1, c.modules[i])])
      \o build_type19(c) \o build_type32 \o build_type127

\* "_SM3_", its checksum, and where and how long the structures are.
build_entry_point(len, address) ==
    Settle(<<95, 83, 77, 51, 95, 0, 24, 3, 4, 0, 1, 0>> \o LE(len, 4) \o LE(address, 8), 5, 0, 24)

add_smbios_from_config ==
    /\ sm.phase = "config"
    /\ sm' = LET table == build_structures(sm)
             IN  [c |-> sm, phase |-> "built", table |-> table, anchor |-> build_entry_point(Len(table), 0)]

SmNext ==
    \/ \E i \in 0..Len(Fields), held \in Identities : from_dmi_dir(i, held)
    \/ \E size \in ModuleSizes : AddModule(size)
    \/ add_smbios_from_config

\* The guest's walk: a formatted area of the length given, then strings.
RECURSIVE TextEnd(_, _)
TextEnd(b, o) == IF At(b, o) = 0 THEN o ELSE TextEnd(b, o + 1)

RECURSIVE StringsFrom(_, _)
StringsFrom(b, o) ==
    IF At(b, o) = 0 THEN [strings |-> <<>>, end |-> o + 1]
    ELSE LET rest == StringsFrom(b, TextEnd(b, o) + 1)
         IN  [strings |-> <<Slice(b, o, TextEnd(b, o) - o)>> \o rest.strings, end |-> rest.end]

StringSet(b, o) == IF At(b, o) = 0 THEN [strings |-> <<>>, end |-> o + 2] ELSE StringsFrom(b, o)

RECURSIVE WalkSmbios(_, _)
WalkSmbios(b, o) ==
    IF o >= Len(b) THEN <<>>
    ELSE LET t == StringSet(b, o + At(b, o + 1))
         IN  <<[type |-> At(b, o), handle |-> U16At(b, o + 2), area |-> Slice(b, o, At(b, o + 1)),
                strings |-> t.strings, end |-> t.end]>>
               \o (IF At(b, o) = 127 THEN <<>> ELSE WalkSmbios(b, t.end))

\* Which bytes of a structure number one of its strings.
StringFields(type) ==
    CASE type = 0 -> {4, 5, 8} [] type = 1 -> {4, 5, 6, 7, 25, 26} [] type = 2 -> {4, 5, 6, 7, 8, 10}
      [] type = 3 -> {4, 6, 7, 8, 21} [] type = 4 -> {4, 7, 16, 32, 33, 34}
      [] type = 17 -> {16, 17, 23, 24, 25, 26} [] OTHER -> {}

SizeOf(a) == IF U16At(a, 12) = 32767 THEN Value(Slice(a, 28, 4)) ELSE U16At(a, 12)

StructuresRight(w, c) ==
    LET of(t) == SelectSeq(w, LAMBDA x : x.type = t)
        text(x, o) == x.strings[At(x.area, o)]
        arrays == {x.handle : x \in Range(of(16))}
    IN  /\ [i \in 1..Len(w) |-> w[i].type]
              = <<0, 1, 2, 3, 4, 16>> \o [i \in 1..Len(c.modules) |-> 17] \o <<19, 32, 127>>
        /\ \A i, j \in 1..Len(w) : w[i].handle = w[j].handle => i = j
        /\ \A i \in 1..Len(w) : \A o \in StringFields(w[i].type) : At(w[i].area, o) \in 1..Len(w[i].strings)
        /\ <<text(w[1], 4), text(w[1], 5), text(w[1], 8), text(w[2], 4), text(w[2], 5), text(w[2], 6),
             text(w[2], 7), text(w[2], 25), text(w[2], 26), text(w[3], 4), text(w[3], 5), text(w[3], 7)>> = c.s
        /\ Slice(w[2].area, 8, 16) = c.uuid
        /\ U16At(w[3].area, 11) = of(3)[1].handle
        /\ U16At(of(16)[1].area, 13) = Len(c.modules)
        /\ \A i \in 1..Len(c.modules) :
              /\ U16At(of(17)[i].area, 4) \in arrays /\ SizeOf(of(17)[i].area) = c.modules[i]
              /\ \A j \in 1..(i - 1) : text(of(17)[i], 16) # text(of(17)[j], 16)
        /\ U16At(of(19)[1].area, 12) \in arrays
        /\ Slice(of(16)[1].area, 15, 8) = Bytes(Total(c)) /\ Slice(of(19)[1].area, 23, 8) = LastByte(Total(c))

\* The guest's walk over the SMBIOS table sees every structure once, under a
\* handle of its own, up to the last byte of the length the entry point gives;
\* every string number names a string, the identity is the host's where the
\* host has one, every handle named exists and every module has its size.
IdentityKept ==
    sm.phase = "built" =>
        /\ StructuresRight(WalkSmbios(sm.table, 0), sm.c)
        /\ Last(WalkSmbios(sm.table, 0)).end = Value(Slice(sm.anchor, 12, 4))
        /\ Sum(sm.anchor) = 0 /\ Len(sm.anchor) = At(sm.anchor, 6)
        /\ \A i \in 1..Len(Fields) :
              sm.c.s[i] = IF sm.c.held = <<i, "set">> THEN HostOf(i) ELSE DefaultOf(i)
        /\ sm.c.uuid = IF sm.c.held = <<0, "set">> THEN HostUuid ELSE DefaultUuid
=============================================================================
