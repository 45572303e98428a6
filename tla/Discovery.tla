----------------------------- MODULE Discovery -----------------------------
(***************************************************************************)
(* How the tables and the configuration space of a platform are read:      *)
(*                                                                         *)
(*   ac  the ACPI walkers.  The host's kernel (enlil-boot/src/acpi.rs) and *)
(*       the device library (enlil-devices/src/acpi) each read MADT, SRAT  *)
(*       and MCFG; the kernel also reads the two IOMMU tables DMAR and     *)
(*       IVRS, and the library SLIT.  A table is built from a list of      *)
(*       structures, then possibly cut short or given a wrong length byte. *)
(*   ec  the enhanced configuration window (pci_discovery.rs): which       *)
(*       functions exist, their base address registers, the two            *)
(*       capability chains and the virtual functions of a physical one.    *)
(*                                                                         *)
(* A table is a sequence of bytes and an offset counts from 0, as in the   *)
(* code; reading past the end of a sequence is an evaluation error, as the *)
(* index panics in the code, so every run also shows that no walk does.    *)
(* A 32- or 64-bit field is the tuple of its bytes.                        *)
(***************************************************************************)
EXTENDS Integers, Sequences, SequencesExt, FiniteSetsExt, TLC

CONSTANTS
    Kinds,        \* the tables walked
    MaxItems,     \* structures in one table
    Lengths,      \* wrong values of a length byte
    Cuts,         \* how many bytes a cut table loses
    Cap,          \* length of the arrays the kernel fills
    Windows,      \* lists of configuration windows
    Functions,    \* functions that may be present: [seg, bus, dev, fn]
    Shapes,       \* contents of a configuration space
    MaxFunctions  \* functions present at once

VARIABLES
    ac,   \* [kind, items, harm]: the table being read
    ec    \* [allocs, funcs, len]: the window being walked

-----------------------------------------------------------------------------
(* Bytes *)

\* A value below 2^31 as n little-endian bytes.
RECURSIVE LE(_, _)
LE(v, n) == IF n = 0 THEN <<>> ELSE <<v % 256>> \o LE(v \div 256, n - 1)

Zeros(n) == [i \in 1..n |-> 0]

\* The n bytes from offset o; the caller has checked that they are there.
Slice(b, o, n) == [i \in 1..n |-> b[o + i]]

At(b, o) == b[o + 1]

U16At(b, o) == b[o + 1] + 256 * b[o + 2]

\* Bit 0 of the field at offset o.
Enabled(b, o) == b[o + 1] % 2 = 1

First(s) == IF s = <<>> THEN <<>> ELSE <<s[1]>>

Mapped(f(_), s) == [i \in 1..Len(s) |-> f(s[i])]

-----------------------------------------------------------------------------
(* Building a table: a header of 36 bytes, fixed fields, then structures *)

Joined(ss) == FlattenSeq(ss)

\* The signature, checksum and identification bytes are not read by the walks.
Table(fixed, body) == Zeros(4) \o LE(36 + fixed + Len(body), 4) \o Zeros(28 + fixed) \o body

LocalApicEntry(uid, id, en) == <<0, 8, uid, id, en, 0, 0, 0>>

\* Local x2APIC structures come from firmware; the library builds none.
X2ApicEntry(id, en) == <<9, 16, 0, 0>> \o id \o <<en, 0, 0, 0>> \o Zeros(4)

IoApicEntry(id, addr, gsi) == <<1, 12, id, 0>> \o addr \o LE(gsi, 4)

InterruptOverrideEntry(bus, src, gsi, flags) ==
    <<2, 10, bus, src>> \o LE(gsi, 4) \o LE(flags, 2)

LocalApicNmiEntry(uid, flags, lint) == <<4, 6, uid>> \o LE(flags, 2) \o <<lint>>

\* dom is the tuple of the four bytes of the proximity domain.
ProcessorAffinityEntry(id, dom, en) ==
    <<0, 16, dom[1], id, en, 0, 0, 0, 0, dom[2], dom[3], dom[4]>> \o Zeros(4)

MemoryAffinityEntry(dom, base, len, flags) ==
    <<1, 40>> \o dom \o Zeros(2) \o base \o len \o Zeros(4) \o LE(flags, 4) \o Zeros(8)

X2ApicAffinity(id, dom, en) == <<2, 24, 0, 0>> \o dom \o id \o <<en, 0, 0, 0>> \o Zeros(8)

McfgAllocation(base, seg, first, last) == base \o LE(seg, 2) \o <<first, last>> \o Zeros(4)

DeviceScope(type, id, bus, dev, fn) == <<type, 8, 0, 0, id, bus, dev, fn>>

Drhd(all, seg, base, scopes) ==
    LE(0, 2) \o LE(16 + 8 * Len(scopes), 2) \o <<all, 0>> \o LE(seg, 2) \o base \o Joined(scopes)

\* A DMAR structure of another type: a reserved memory region.
Rmrr == LE(1, 2) \o LE(24, 2) \o Zeros(20)

Ivhd(type, flags, devid, base, entries) ==
    <<type, flags>> \o LE((IF type = 16 THEN 24 ELSE 40) + Len(Joined(entries)), 2)
       \o devid \o LE(64, 2) \o base \o Zeros(4)
       \o (IF type = 16 THEN Zeros(4) ELSE <<3, 0, 0, 0>> \o Zeros(16)) \o Joined(entries)

Ivmd(type, flags, devid, last, start, len) ==
    <<type, flags>> \o LE(32, 2) \o devid \o last \o Zeros(8) \o start \o len

-----------------------------------------------------------------------------
(* MADT and SRAT: structures of one type byte and one length byte *)

\* The structures from offset off, each with its offset; a length below low or
\* one that runs past the end of the table ends the walk.
RECURSIVE Structures(_, _, _)
Structures(b, off, low) ==
    IF off + 2 > Len(b) \/ At(b, off + 1) < low \/ off + At(b, off + 1) > Len(b) THEN <<>>
    ELSE <<[type |-> At(b, off), off |-> off, len |-> At(b, off + 1)]>>
            \o Structures(b, off + At(b, off + 1), low)

\* Where a processor structure holds its flags.
FlagsAt(s) == s.off + (IF s.type = 0 THEN 4 ELSE 8)

MadtId(b, s) == IF s.type = 0 THEN <<At(b, s.off + 3), 0, 0, 0>> ELSE Slice(b, s.off + 4, 4)

\* The kernel stops only at a length of zero.
madt_enabled_cpu_count(b) ==
    Len(SelectSeq(Structures(b, 44, 1),
        LAMBDA s : s.type \in {0, 9} /\ FlagsAt(s) + 4 <= Len(b) /\ Enabled(b, FlagsAt(s))))

madt_enabled_apic_ids(b) ==
    LET on(s) == s.type \in {0, 9} /\ FlagsAt(s) + 4 <= Len(b) /\ Enabled(b, FlagsAt(s))
        id(s) == MadtId(b, s)
    IN  Mapped(id, SelectSeq(Structures(b, 44, 1), on))

\* The library stops at a length of zero or one.
count_enabled_cpus(b) ==
    Len(SelectSeq(Structures(b, 44, 2),
        LAMBDA s : s.type \in {0, 9} /\ FlagsAt(s) + 4 <= Len(b) /\ Enabled(b, FlagsAt(s))))

\* ... and takes an identifier only from a structure long enough to hold one.
enabled_apic_ids(b) ==
    LET on(s) == ((s.type = 0 /\ s.len >= 8) \/ (s.type = 9 /\ s.len >= 16)) /\ Enabled(b, FlagsAt(s))
        id(s) == MadtId(b, s)
    IN  Mapped(id, SelectSeq(Structures(b, 44, 2), on))

processor_domain(b, o) == <<At(b, o + 2), At(b, o + 9), At(b, o + 10), At(b, o + 11)>>

\* Whether a structure is an enabled one of its type, and of its full length.
Affinity(b, s, type) ==
    /\ s.type = type
    /\ CASE type = 0 -> s.len >= 16 /\ Enabled(b, s.off + 4)
         [] type = 1 -> s.len >= 40 /\ Enabled(b, s.off + 28)
         [] type = 2 -> s.len >= 24 /\ Enabled(b, s.off + 12)

AffinityDomain(b, s) ==
    CASE s.type = 0 -> processor_domain(b, s.off)
      [] s.type = 1 -> Slice(b, s.off + 2, 4)
      [] s.type = 2 -> Slice(b, s.off + 4, 4)

\* Domains of processors with 8-bit identifiers and of memory, as they occur.
DomainsOf(b) ==
    LET on(s) == Affinity(b, s, 0) \/ Affinity(b, s, 1)
        dom(s) == AffinityDomain(b, s)
    IN  Mapped(dom, SelectSeq(Structures(b, 48, 2), on))

\* The library sorts and drops repetitions: a set.
numa_domains(b) == ToSet(DomainsOf(b))

\* The kernel looks a domain up only among those it had room to store, and
\* counts the others each time.
srat_numa_domains(b) ==
    FoldLeft(LAMBDA acc, d :
                IF d \in ToSet(acc.kept) THEN acc
                ELSE [kept |-> IF acc.total < Cap THEN Append(acc.kept, d) ELSE acc.kept,
                      total |-> acc.total + 1],
             [kept |-> <<>>, total |-> 0], DomainsOf(b))

MemoryOf(b, s) ==
    [dom |-> Slice(b, s.off + 2, 4), base |-> Slice(b, s.off + 8, 8), len |-> Slice(b, s.off + 16, 8)]

srat_memory_ranges(b) ==
    LET on(s) == Affinity(b, s, 1)
        mem(s) == MemoryOf(b, s)
    IN  Mapped(mem, SelectSeq(Structures(b, 48, 2), on))

memory_affinities(b) ==
    LET on(s) == Affinity(b, s, 1)
        mem(s) == MemoryOf(b, s) @@ [hot_pluggable |-> (At(b, s.off + 28) \div 2) % 2 = 1]
    IN  Mapped(mem, SelectSeq(Structures(b, 48, 2), on))

\* Both readers: the identifier and domain of each enabled processor.
cpu_affinities(b) ==
    LET on(s) == Affinity(b, s, 0) \/ Affinity(b, s, 2)
        cpu(s) == [id |-> IF s.type = 0 THEN <<At(b, s.off + 3), 0, 0, 0>> ELSE Slice(b, s.off + 8, 4),
                   dom |-> AffinityDomain(b, s)]
    IN  Mapped(cpu, SelectSeq(Structures(b, 48, 2), on))

-----------------------------------------------------------------------------
(* MCFG and SLIT *)

AllocationAt(b, o) ==
    [base |-> Slice(b, o, 8), seg |-> U16At(b, o + 8), start |-> At(b, o + 10), end |-> At(b, o + 11)]

\* Allocations of 16 bytes from offset 44; a rest shorter than that is left.
parse_mcfg_allocations(b) ==
    [i \in 1..(IF Len(b) < 44 THEN 0 ELSE (Len(b) - 44) \div 16) |-> AllocationAt(b, 44 + 16 * (i - 1))]

\* The kernel reads only the first, and not its four reserved bytes.
mcfg_first_allocation(b) == IF Len(b) < 56 THEN <<>> ELSE <<AllocationAt(b, 44)>>

\* The matrix of distances, or nothing when the table does not hold it whole.
locality_distances(b) ==
    IF Len(b) < 44 \/ (\E i \in 3..8 : At(b, 35 + i) # 0)
         \/ 44 + U16At(b, 36) * U16At(b, 36) > Len(b) THEN <<>>
    ELSE <<[from \in 1..U16At(b, 36) |->
              Slice(b, 44 + (from - 1) * U16At(b, 36), U16At(b, 36))]>>

-----------------------------------------------------------------------------
(* DMAR: structures of a 16-bit type and a 16-bit length *)

\* The end of a table: what its header says, but never past the bytes given.
TableEnd(b) == Min({U16At(b, 4), Len(b)})

RECURSIVE Remapping(_, _)
Remapping(b, off) ==
    IF off + 4 > TableEnd(b) \/ U16At(b, off + 2) < 4 \/ off + U16At(b, off + 2) > TableEnd(b) THEN <<>>
    ELSE <<[type |-> U16At(b, off), off |-> off, len |-> U16At(b, off + 2)]>>
            \o Remapping(b, off + U16At(b, off + 2))

dmar_remapping_units(b) ==
    LET unit(s) == [base |-> Slice(b, s.off + 8, 8), seg |-> U16At(b, s.off + 6),
                    covers_all |-> Enabled(b, s.off + 4), bytes |-> s.len - 16, at |-> s.off + 16]
    IN  Mapped(unit, SelectSeq(Remapping(b, 48), LAMBDA s : s.type = 0 /\ s.len >= 16))

ScopeKind(raw) == IF raw \in 1..5 THEN raw ELSE 0

RECURSIVE Scopes(_, _, _)
Scopes(b, off, end) ==
    IF off + 6 > end \/ At(b, off + 1) < 6 \/ off + At(b, off + 1) > end THEN <<>>
    ELSE <<[kind |-> ScopeKind(At(b, off)), id |-> At(b, off + 4), bus |-> At(b, off + 5),
            dev |-> IF off + 6 < Len(b) THEN At(b, off + 6) ELSE 0,
            fn |-> IF off + 7 < Len(b) THEN At(b, off + 7) ELSE 0]>>
            \o Scopes(b, off + At(b, off + 1), end)

dmar_device_scopes(b, unit) == Scopes(b, unit.at, Min({unit.at + unit.bytes, Len(b)}))

-----------------------------------------------------------------------------
(* IVRS: blocks of an 8-bit type and a 16-bit length *)

RECURSIVE Blocks(_, _)
Blocks(b, off) ==
    IF off + 4 > TableEnd(b) \/ U16At(b, off + 2) < 4 \/ off + U16At(b, off + 2) > TableEnd(b) THEN <<>>
    ELSE <<[type |-> At(b, off), off |-> off, len |-> U16At(b, off + 2)]>>
            \o Blocks(b, off + U16At(b, off + 2))

EntriesOffset(type) == IF type = 16 THEN 24 ELSE 40

ivrs_iommu_units(b) ==
    LET unit(s) == [type |-> s.type, flags |-> At(b, s.off + 1), devid |-> Slice(b, s.off + 4, 2),
                    base |-> Slice(b, s.off + 8, 8), attributes |-> Slice(b, s.off + 20, 4),
                    efr |-> IF s.type = 16 THEN Zeros(8) ELSE Slice(b, s.off + 24, 8),
                    bytes |-> s.len - EntriesOffset(s.type), at |-> s.off + EntriesOffset(s.type)]
    IN  Mapped(unit, SelectSeq(Blocks(b, 48),
                LAMBDA s : s.type \in {16, 17, 64} /\ s.len >= EntriesOffset(s.type)))

\* Only a block of exactly 32 bytes is a memory definition.
ivrs_memory_definitions(b) ==
    LET def(s) == [type |-> s.type, flags |-> At(b, s.off + 1), devid |-> Slice(b, s.off + 4, 2),
                   devid_end |-> Slice(b, s.off + 6, 2), start |-> Slice(b, s.off + 16, 8),
                   len |-> Slice(b, s.off + 24, 8)]
    IN  Mapped(def, SelectSeq(Blocks(b, 48), LAMBDA s : s.type \in 32..34 /\ s.len = 32))

\* The length a device entry's type implies, and 0 when it is not known or the
\* table ends before the byte that says it.
EntryLen(b, off) ==
    CASE At(b, off) < 64 -> 4
      [] At(b, off) \in 64..127 -> 8
      [] At(b, off) = 240 -> IF off + 21 < Len(b) THEN 22 + At(b, off + 21) ELSE 0
      [] OTHER -> 0

decode_ivhd_entry(b, o) ==
    [kind |-> At(b, o), devid |-> Slice(b, o + 1, 2), dte |-> At(b, o + 3),
     devid_b |-> IF At(b, o) \in {66, 67, 72} THEN Slice(b, o + 5, 2) ELSE Zeros(2),
     ext_dte |-> IF At(b, o) \in {70, 71} THEN Slice(b, o + 4, 4) ELSE Zeros(4),
     handle |-> IF At(b, o) = 72 THEN At(b, o + 4) ELSE 0,
     variety |-> IF At(b, o) = 72 THEN At(b, o + 7) ELSE 0,
     hid |-> IF At(b, o) = 240 THEN Slice(b, o + 4, 8) ELSE Zeros(8)]

\* Padding entries, of type 0, are passed over and not counted.
RECURSIVE Entries(_, _, _)
Entries(b, off, end) ==
    IF off >= end \/ EntryLen(b, off) = 0 \/ off + EntryLen(b, off) > end THEN <<>>
    ELSE (IF At(b, off) = 0 THEN <<>> ELSE <<decode_ivhd_entry(b, off)>>)
            \o Entries(b, off + EntryLen(b, off), end)

ivrs_device_entries(b, unit) == Entries(b, unit.at, Min({unit.at + unit.bytes, Len(b)}))

-----------------------------------------------------------------------------
(* The tables that are read *)

Id(n) == <<n, 0, 0, 0>>
Addr(n) == <<0, 0, n, 254, 1, 0, 0, 0>>

\* Structures of a MADT, with the identifiers of processors they enable.
MadtItems ==
    {[b |-> LocalApicEntry(0, 5, 1), ids |-> <<Id(5)>>],
     [b |-> LocalApicEntry(1, 6, 0), ids |-> <<>>],
     [b |-> X2ApicEntry(<<1, 1, 0, 0>>, 1), ids |-> <<<<1, 1, 0, 0>>>>],
     [b |-> X2ApicEntry(Id(9), 0), ids |-> <<>>],
     [b |-> IoApicEntry(1, <<0, 0, 192, 254>>, 0), ids |-> <<>>]}

\* Structures of an SRAT, with the processors and the memory they enable.
SratItems ==
    {[b |-> ProcessorAffinityEntry(1, Id(0), 1), cpu |-> <<[id |-> Id(1), dom |-> Id(0)]>>,
      mem |-> <<>>, doms |-> <<Id(0)>>],
     [b |-> ProcessorAffinityEntry(2, <<1, 2, 3, 4>>, 1), cpu |-> <<[id |-> Id(2), dom |-> <<1, 2, 3, 4>>]>>,
      mem |-> <<>>, doms |-> <<<<1, 2, 3, 4>>>>],
     [b |-> ProcessorAffinityEntry(3, Id(7), 0), cpu |-> <<>>, mem |-> <<>>, doms |-> <<>>],
     [b |-> MemoryAffinityEntry(Id(2), Addr(1), Addr(2), 3), cpu |-> <<>>,
      mem |-> <<[dom |-> Id(2), base |-> Addr(1), len |-> Addr(2)]>>, doms |-> <<Id(2)>>],
     [b |-> X2ApicAffinity(<<0, 1, 0, 0>>, Id(3), 1), cpu |-> <<[id |-> <<0, 1, 0, 0>>, dom |-> Id(3)]>>,
      mem |-> <<>>, doms |-> <<>>]}

McfgItems ==
    {[b |-> McfgAllocation(Addr(n), n, 16 * n, 16 * n + 15),
      alloc |-> <<[base |-> Addr(n), seg |-> n, start |-> 16 * n, end |-> 16 * n + 15]>>] : n \in 0..1}

\* Structures of a DMAR, with the unit and the device scopes they declare.
DmarItems ==
    {[b |-> Drhd(1, 0, Addr(3), <<>>), units |-> <<<<Addr(3), 0, TRUE>>>>, scopes |-> <<<<>>>>],
     [b |-> Drhd(0, 1, Addr(4), <<DeviceScope(3, 8, 240, 31, 7), DeviceScope(9, 0, 1, 2, 0)>>),
      units |-> <<<<Addr(4), 1, FALSE>>>>,
      scopes |-> <<<<[kind |-> 3, id |-> 8, bus |-> 240, dev |-> 31, fn |-> 7],
                     [kind |-> 0, id |-> 0, bus |-> 1, dev |-> 2, fn |-> 0]>>>>],
     [b |-> Drhd(0, 2, Addr(5), <<DeviceScope(1, 0, 2, 3, 1), <<1, 4, 0, 0, 7, 7, 7, 7>>>>),
      units |-> <<<<Addr(5), 2, FALSE>>>>,
      scopes |-> <<<<[kind |-> 1, id |-> 0, bus |-> 2, dev |-> 3, fn |-> 1]>>>>],
     [b |-> LE(0, 2) \o LE(8, 2) \o Zeros(4), units |-> <<>>, scopes |-> <<>>],
     [b |-> Rmrr, units |-> <<>>, scopes |-> <<>>]}

Entry(kind, devid, dte, b_, ext, handle, variety, hid) ==
    [kind |-> kind, devid |-> devid, dte |-> dte, devid_b |-> b_, ext_dte |-> ext, handle |-> handle,
     variety |-> variety, hid |-> hid]

\* Blocks of an IVRS: an early one with a single device and the I/O APIC, a
\* later one with padding, an alias, an extended entry and a named device, and
\* blocks that are too short, or of another kind.
IvrsItems ==
    {[b |-> Ivhd(16, 1, <<2, 0>>, Addr(5), <<<<2, 8, 0, 1>>, <<72, 0, 0, 215, 33, 160, 0, 1>>>>),
      units |-> <<<<16, Addr(5), Zeros(8)>>>>, defs |-> <<>>,
      entries |-> <<<<Entry(2, <<8, 0>>, 1, Zeros(2), Zeros(4), 0, 0, Zeros(8)),
                      Entry(72, <<0, 0>>, 215, <<160, 0>>, Zeros(4), 33, 1, Zeros(8))>>>>],
     [b |-> Ivhd(17, 0, <<2, 1>>, Addr(6),
                 <<<<0, 0, 0, 0>>, <<66, 16, 0, 2, 0, 24, 0, 0>>, <<70, 32, 0, 0, 1, 2, 3, 4>>,
                   <<240, 40, 0, 0>> \o Addr(7) \o Zeros(8) \o <<2, 2, 65, 66>>, <<3, 48, 0, 0>>>>),
      units |-> <<<<17, Addr(6), Zeros(8)>>>>, defs |-> <<>>,
      entries |-> <<<<Entry(66, <<16, 0>>, 2, <<24, 0>>, Zeros(4), 0, 0, Zeros(8)),
                      Entry(70, <<32, 0>>, 0, Zeros(2), <<1, 2, 3, 4>>, 0, 0, Zeros(8)),
                      Entry(240, <<40, 0>>, 0, Zeros(2), Zeros(4), 0, 0, Addr(7)),
                      Entry(3, <<48, 0>>, 0, Zeros(2), Zeros(4), 0, 0, Zeros(8))>>>>],
     [b |-> <<64, 0>> \o LE(24, 2) \o Zeros(20), units |-> <<>>, defs |-> <<>>, entries |-> <<>>],
     [b |-> Ivmd(33, 9, <<8, 0>>, <<9, 0>>, Addr(8), Addr(9)), units |-> <<>>,
      defs |-> <<[type |-> 33, flags |-> 9, devid |-> <<8, 0>>, devid_end |-> <<9, 0>>,
                  start |-> Addr(8), len |-> Addr(9)]>>, entries |-> <<>>],
     [b |-> <<32, 0>> \o LE(24, 2) \o Zeros(20), units |-> <<>>, defs |-> <<>>, entries |-> <<>>]}

SlitItems ==
    {[b |-> LE(1, 8) \o <<10>>, rows |-> <<<<10>>>>],
     [b |-> LE(2, 8) \o <<10, 21, 22, 11>>, rows |-> <<<<10, 21>>, <<22, 11>>>>]}

Items(kind) ==
    CASE kind = "madt" -> MadtItems
      [] kind = "srat" -> SratItems
      [] kind = "mcfg" -> McfgItems
      [] kind = "dmar" -> DmarItems
      [] kind = "ivrs" -> IvrsItems
      [] kind = "slit" -> SlitItems

Fixed(kind) ==
    CASE kind \in {"madt", "mcfg"} -> 8
      [] kind \in {"srat", "dmar", "ivrs"} -> 12
      [] kind = "slit" -> 0

\* Offset of item i; the last value of i is the end of the table.
StartOf(t, i) == 36 + Fixed(t.kind) + Len(Joined([j \in 1..i - 1 |-> t.items[j].b]))

Whole(t) == Table(Fixed(t.kind), Joined([j \in DOMAIN t.items |-> t.items[j].b]))

\* The bytes as they are found: a wrong length byte, or a cut table.
Found(t) ==
    CASE t.harm.what = "none" -> Whole(t)
      [] t.harm.what = "len" ->
            [Whole(t) EXCEPT ![StartOf(t, t.harm.at) + (IF t.kind \in {"madt", "srat"} THEN 2 ELSE 3)] = t.harm.val]
      [] t.harm.what = "cut" -> SubSeq(Whole(t), 1, Len(Whole(t)) - t.harm.val)

Unharmed == [what |-> "none", at |-> 0, val |-> 0]

AcpiInit == ac \in {[kind |-> k, items |-> <<>>, harm |-> Unharmed] : k \in Kinds}

AddItem ==
    /\ ac.harm = Unharmed
    /\ Len(ac.items) < (IF ac.kind = "slit" THEN 1 ELSE MaxItems)
    /\ \E i \in Items(ac.kind) : ac' = [ac EXCEPT !.items = Append(@, i)]

WrongLength ==
    /\ ac.harm = Unharmed /\ ac.kind \notin {"mcfg", "slit"}
    /\ \E i \in DOMAIN ac.items, v \in Lengths :
          ac' = [ac EXCEPT !.harm = [what |-> "len", at |-> i, val |-> v]]

CutShort ==
    /\ ac.harm = Unharmed /\ ac.items # <<>>
    /\ \E n \in Cuts : ac' = [ac EXCEPT !.harm = [what |-> "cut", at |-> 0, val |-> n]]

AcpiNext == AddItem \/ WrongLength \/ CutShort

\* Items the harm leaves readable.
Intact(t) ==
    CASE t.harm.what = "none" -> Len(t.items)
      [] t.harm.what = "len" -> t.harm.at - 1
      [] t.harm.what = "cut" ->
            Cardinality({i \in DOMAIN t.items : StartOf(t, i + 1) <= Len(Whole(t)) - t.harm.val})

\* Whether a walk must end with the last intact item: always, unless a wrong
\* length makes it go on from the middle of a structure.
Ends(t) ==
    \/ t.harm.what # "len"
    \/ t.harm.val = 0
    \/ StartOf(t, t.harm.at) + t.harm.val > Len(Whole(t))

\* What a walk found begins with what the intact items say, and is no more
\* than that when the walk must end with them.
Reads(t, got, want) ==
    IF Ends(t) THEN got = want ELSE IsPrefix(want, got)

Said(t, f(_)) == Joined([i \in 1..Intact(t) |-> f(t.items[i])])

MadtRead(t, b) ==
    /\ Reads(t, madt_enabled_apic_ids(b), Said(t, LAMBDA i : i.ids))
    /\ Reads(t, enabled_apic_ids(b), Said(t, LAMBDA i : i.ids))
    /\ madt_enabled_cpu_count(b) = Len(madt_enabled_apic_ids(b))
    /\ Ends(t) => count_enabled_cpus(b) = Len(enabled_apic_ids(b))

\* Domains are counted once each as long as the kernel can store them all.
DomainsRead(b) ==
    /\ srat_numa_domains(b).total >= Cardinality(numa_domains(b))
    /\ Cardinality(numa_domains(b)) <= Cap =>
          /\ srat_numa_domains(b).total = Cardinality(numa_domains(b))
          /\ ToSet(srat_numa_domains(b).kept) = numa_domains(b)

SratRead(t, b) ==
    /\ Reads(t, cpu_affinities(b), Said(t, LAMBDA i : i.cpu))
    /\ Reads(t, srat_memory_ranges(b), Said(t, LAMBDA i : i.mem))
    /\ Ends(t) => numa_domains(b) = ToSet(Said(t, LAMBDA i : i.doms))
    /\ Len(memory_affinities(b)) = Len(srat_memory_ranges(b))
    /\ DomainsRead(b)

DmarRead(t, b) ==
    /\ Reads(t, Mapped(LAMBDA u : <<u.base, u.seg, u.covers_all>>, dmar_remapping_units(b)),
             Said(t, LAMBDA i : i.units))
    /\ Reads(t, Mapped(LAMBDA u : dmar_device_scopes(b, u), dmar_remapping_units(b)),
             Said(t, LAMBDA i : i.scopes))

IvrsRead(t, b) ==
    /\ Reads(t, Mapped(LAMBDA u : <<u.type, u.base, u.efr>>, ivrs_iommu_units(b)),
             Said(t, LAMBDA i : i.units))
    /\ Reads(t, Mapped(LAMBDA u : ivrs_device_entries(b, u), ivrs_iommu_units(b)),
             Said(t, LAMBDA i : i.entries))
    /\ Reads(t, ivrs_memory_definitions(b), Said(t, LAMBDA i : i.defs))

McfgRead(t, b) ==
    /\ parse_mcfg_allocations(b) = Said(t, LAMBDA i : i.alloc)
    /\ parse_mcfg_allocations(b) # <<>> => mcfg_first_allocation(b) = <<parse_mcfg_allocations(b)[1]>>

SlitRead(t, b) ==
    locality_distances(b) =
        IF t.items = <<>> \/ t.harm.what = "cut" THEN <<>> ELSE <<t.items[1].rows>>

\* Every walker of acpi.rs, madt.rs, srat.rs, mcfg.rs and slit.rs reports what
\* the structures of the table say, in their order, for every mixture of kinds;
\* a structure that is cut or whose length cannot be right hides only itself
\* and what follows it, and no walk reads past the end or fails to end.
WalksRead ==
    CASE ac.kind = "madt" -> MadtRead(ac, Found(ac))
      [] ac.kind = "srat" -> SratRead(ac, Found(ac))
      [] ac.kind = "dmar" -> DmarRead(ac, Found(ac))
      [] ac.kind = "ivrs" -> IvrsRead(ac, Found(ac))
      [] ac.kind = "mcfg" -> McfgRead(ac, Found(ac))
      [] ac.kind = "slit" -> SlitRead(ac, Found(ac))

-----------------------------------------------------------------------------
(* The enhanced configuration window *)

\* m is the memory image: its length, and the configuration bytes present at
\* each function's page.  An absent function reads as all ones.
read_u8(m, a) ==
    IF a >= m.len THEN -1
    ELSE IF a - (a % 4096) \notin DOMAIN m.pages THEN 255
    ELSE IF (a % 4096) \in DOMAIN m.pages[a - (a % 4096)] THEN m.pages[a - (a % 4096)][a % 4096] ELSE 0

read_u16(m, a) ==
    IF read_u8(m, a) < 0 \/ read_u8(m, a + 1) < 0 THEN -1 ELSE read_u8(m, a) + 256 * read_u8(m, a + 1)

\* A 32-bit field: its bytes, or nothing.
read_u32(m, a) ==
    IF \E i \in 0..3 : read_u8(m, a + i) < 0 THEN <<>> ELSE [i \in 1..4 |-> read_u8(m, a + i - 1)]

Covers(w, bus) == bus \in w.start..w.end

\* Only for a bus the window covers.
function_base(w, f) == w.base + 1048576 * (f.bus - w.start) + 32768 * f.dev + 4096 * f.fn

Bdf(w, bus, dev, fn) == [seg |-> w.seg, bus |-> bus, dev |-> dev, fn |-> fn]

\* Identification of the function at f in window w, or nothing.
ReadAt(m, f, base) ==
    IF \/ read_u16(m, base) \in {-1, 0, 65535}
       \/ read_u8(m, base + 14) < 0
       \/ read_u8(m, base + 14) % 128 = 0 /\ read_u16(m, base + 46) < 0 THEN <<>>
    ELSE <<[at |-> f, vendor |-> read_u16(m, base), header |-> read_u8(m, base + 14),
            class |-> [i \in 1..3 |-> read_u8(m, base + 12 - i)],
            subsystem |-> IF read_u8(m, base + 14) % 128 = 0 THEN read_u16(m, base + 44) ELSE 0]>>

read_function(m, w, f) == IF Covers(w, f.bus) THEN ReadAt(m, f, function_base(w, f)) ELSE <<>>

Multifunction(h) == h.header >= 128

\* Function 0 decides whether the device exists and has further functions.
WalkDevice(m, w, bus, dev, zero) ==
    IF zero = <<>> THEN <<>>
    ELSE zero \o (IF Multifunction(zero[1])
                  THEN Joined([fn \in 1..7 |-> read_function(m, w, Bdf(w, bus, dev, fn))])
                  ELSE <<>>)

walk_ecam(m, w) ==
    Joined([b \in 1..(w.end - w.start + 1) |->
        Joined([d \in 1..32 |->
            WalkDevice(m, w, w.start + b - 1, d - 1, read_function(m, w, Bdf(w, w.start + b - 1, d - 1, 0)))])])

walk_ecam_allocations(m, ws) == Joined([i \in DOMAIN ws |-> walk_ecam(m, ws[i])])

Slots(h) == CASE h.header % 128 = 0 -> 6 [] h.header % 128 = 1 -> 2 [] OTHER -> 0

Masked(raw, low) == [raw EXCEPT ![1] = @ - (@ % low)]

\* The base registers from slot i on; one of 64 bits takes two slots.
RECURSIVE Bars(_, _, _, _), BarsFrom(_, _, _, _, _)
Bars(m, base, i, slots) ==
    IF i >= slots THEN <<>> ELSE BarsFrom(m, base, i, slots, read_u32(m, base + 16 + 4 * i))

BarsFrom(m, base, i, slots, raw) ==
    IF raw = <<>> THEN <<>>
    ELSE IF raw = Zeros(4) THEN <<[kind |-> "none", base |-> Zeros(8), prefetch |-> FALSE]>> \o Bars(m, base, i + 1, slots)
    ELSE IF raw[1] % 2 = 1
    THEN <<[kind |-> "io", base |-> Masked(raw, 4) \o Zeros(4), prefetch |-> FALSE]>> \o Bars(m, base, i + 1, slots)
    ELSE IF (raw[1] \div 2) % 4 # 2
    THEN <<[kind |-> "mem32", base |-> Masked(raw, 16) \o Zeros(4), prefetch |-> (raw[1] \div 8) % 2 = 1]>>
            \o Bars(m, base, i + 1, slots)
    ELSE IF read_u32(m, base + 16 + 4 * (i + 1)) = <<>> THEN <<>>
    ELSE <<[kind |-> "mem64", base |-> Masked(raw, 16) \o read_u32(m, base + 16 + 4 * (i + 1)),
            prefetch |-> (raw[1] \div 8) % 2 = 1]>> \o Bars(m, base, i + 2, slots)

read_bars(m, w, h) ==
    IF Covers(w, h.at.bus) THEN Bars(m, function_base(w, h.at), 0, Slots(h)) ELSE <<>>

IsXhci(h) == h.class = <<12, 3, 48>>

BarBase(bars) == IF bars # <<>> /\ bars[1].kind \in {"mem32", "mem64"} THEN <<bars[1].base>> ELSE <<>>

xhci_mmio_base(m, w, h) == IF IsXhci(h) THEN BarBase(read_bars(m, w, h)) ELSE <<>>

\* The first window that covers the function's bus and yields a base.
find_xhci_controllers(m, ws) ==
    Mapped(LAMBDA h : [function |-> h,
                       base |-> First(Joined([i \in DOMAIN ws |-> xhci_mmio_base(m, ws[i], h)]))],
           SelectSeq(walk_ecam_allocations(m, ws), IsXhci))

\* The chain of capabilities from ptr, stopped at a pointer seen before, at one
\* into the header, and where the image ends.
RECURSIVE Chain(_, _, _, _)
Chain(m, base, ptr, visited) ==
    IF ptr < 64 \/ ptr \in visited \/ read_u8(m, base + ptr) < 0 \/ read_u8(m, base + ptr + 1) < 0 THEN <<>>
    ELSE <<[id |-> read_u8(m, base + ptr), at |-> ptr]>>
            \o Chain(m, base, 4 * (read_u8(m, base + ptr + 1) \div 4), visited \cup {ptr})

CapabilitiesAt(m, base) ==
    IF read_u16(m, base + 6) < 0 \/ (read_u16(m, base + 6) \div 16) % 2 = 0 \/ read_u8(m, base + 52) < 0 THEN <<>>
    ELSE Chain(m, base, 4 * (read_u8(m, base + 52) \div 4), {})

capabilities(m, w, h) == IF Covers(w, h.at.bus) THEN CapabilitiesAt(m, function_base(w, h.at)) ELSE <<>>

msix_table_size(m, base, caps) ==
    IF caps = <<>> \/ read_u16(m, base + caps[1].at + 2) < 0 THEN 0
    ELSE (read_u16(m, base + caps[1].at + 2) % 2048) + 1

\* The chain of extended capabilities: a header of 32 bits holds the id, the
\* version and the offset of the next, whose two low bits are ignored.
RECURSIVE Extended(_, _, _, _, _), ExtendedNext(_, _, _, _)
Extended(m, base, off, visited, header) ==
    IF header = <<>> \/ header = Zeros(4) THEN <<>>
    ELSE IF header[1] = 255 /\ header[2] = 255 THEN <<>>
    ELSE <<[id |-> header[1] + 256 * header[2], version |-> header[3] % 16, at |-> off]>>
            \o ExtendedNext(m, base, 4 * (((header[3] \div 16) + 16 * header[4]) \div 4), visited \cup {off})

ExtendedNext(m, base, next, visited) ==
    IF next < 256 \/ next \in visited THEN <<>>
    ELSE Extended(m, base, next, visited, read_u32(m, base + next))

extended_capabilities(m, w, h) ==
    IF Covers(w, h.at.bus) THEN ExtendedNext(m, function_base(w, h.at), 256, {}) ELSE <<>>

\* The same walk over one function's configuration bytes.
extended_capabilities_in_config(cfg, len) ==
    ExtendedNext([len |-> len, pages |-> [a \in {0} |-> cfg]], 0, 256, {})

SrIovAt(m, o) ==
    [total |-> read_u16(m, o + 14), first |-> read_u16(m, o + 20), stride |-> read_u16(m, o + 22)]

sr_iov_capability(m, w, h) ==
    Mapped(LAMBDA c : SrIovAt(m, function_base(w, h.at) + c.at),
           First(SelectSeq(extended_capabilities(m, w, h), LAMBDA c : c.id = 16)))

\* Products and sums are checked at 16 bits.
vf_routing_id(cap, f, i) ==
    IF i >= cap.total \/ cap.stride * i > 65535
         \/ 256 * f.bus + 8 * f.dev + f.fn + cap.first + cap.stride * i > 65535 THEN -1
    ELSE 256 * f.bus + 8 * f.dev + f.fn + cap.first + cap.stride * i

plan_enable_vfs(cap, f, n) ==
    IF n = 0 \/ n > cap.total \/ (\E i \in 0..n - 1 : vf_routing_id(cap, f, i) < 0) THEN <<>>
    ELSE [i \in 1..n |-> vf_routing_id(cap, f, i - 1)]

\* Register values as the sets of their one bits: the two's complement, which
\* is the size of a register whose address bits read back as v.
Size(v, w) == IF v = {} THEN {} ELSE {Min(v)} \cup {j \in (Min(v) + 1)..w - 1 : j \notin v}

memory_bar_size_32(v) == Size(v \ (0..3), 32)
memory_bar_size_64(v) == Size(v \ (0..3), 64)
io_bar_size(v) == Size(v \ (0..1), 32)

\* The wanted page size of 2^(wanted + 12) bytes, or the smallest supported.
select_sr_iov_system_page_size(mask, wanted) ==
    IF mask = {} THEN {} ELSE IF wanted \in mask THEN {wanted} ELSE {Min(mask)}

-----------------------------------------------------------------------------
(* Configuration spaces, with what they mean *)

Put(off, bytes) == [o \in off..(off + Len(bytes) - 1) |-> bytes[o - off + 1]]

Identity(vendor, class, header, status) ==
    Put(0, LE(vendor, 2)) @@ Put(6, LE(status, 2)) @@ Put(9, <<class[3], class[2], class[1]>>)
       @@ Put(14, <<header>>)

\* A network card: no capability list, a 64-bit register, an I/O register.
Card ==
    [cfg |-> Identity(4660, <<2, 0, 0>>, 0, 0) @@ Put(52, <<64>>)
               @@ Put(16, <<12, 0, 0, 224, 1, 0, 0, 0>>) @@ Put(24, <<1, 192, 0, 0>>),
     present |-> TRUE, multi |-> FALSE, xhci |-> FALSE,
     bars |-> <<<<"mem64", <<0, 0, 0, 224, 1, 0, 0, 0>>, TRUE>>, <<"io", <<0, 192, 0, 0, 0, 0, 0, 0>>, FALSE>>,
                <<"none", Zeros(8), FALSE>>, <<"none", Zeros(8), FALSE>>, <<"none", Zeros(8), FALSE>>>>,
     caps |-> <<>>, msix |-> 0, ext |-> <<>>, vfs |-> <<>>]

\* A USB controller of several functions whose two capability chains loop.
Controller ==
    [cfg |-> Identity(4661, <<12, 3, 48>>, 128, 16) @@ Put(52, <<67>>)
               @@ Put(16, <<4, 0, 16, 254, 2, 0, 0, 0>>) @@ Put(24, Zeros(12) \o <<4, 0, 32, 254>>)
               @@ Put(64, <<1, 80>>) @@ Put(80, <<17, 66, 7, 128>>)
               @@ Put(256, <<16, 0, 1, 20>>) @@ Put(320, <<13, 0, 1, 16>>)
               @@ Put(256 + 14, LE(3, 2)) @@ Put(256 + 20, LE(16, 2)) @@ Put(256 + 22, LE(2, 2)),
     present |-> TRUE, multi |-> TRUE, xhci |-> TRUE,
     bars |-> <<<<"mem64", <<0, 0, 16, 254, 2, 0, 0, 0>>, FALSE>>, <<"none", Zeros(8), FALSE>>,
                <<"none", Zeros(8), FALSE>>, <<"none", Zeros(8), FALSE>>,
                <<"mem64", <<0, 0, 32, 254, 0, 0, 0, 0>>, FALSE>>>>,
     caps |-> <<<<1, 64>>, <<17, 80>>>>, msix |-> 8, ext |-> <<<<16, 256>>, <<13, 320>>>>,
     vfs |-> <<[total |-> 3, first |-> 16, stride |-> 2]>>]

\* A single-function controller; its chain ends in the header, its extended
\* space reads as all ones.
Plain ==
    [cfg |-> Identity(4662, <<12, 3, 48>>, 0, 16) @@ Put(52, <<64>>) @@ Put(64, <<5, 16>>)
               @@ Put(16, <<8, 0, 48, 254>>) @@ Put(256, <<255, 255, 255, 255>>),
     present |-> TRUE, multi |-> FALSE, xhci |-> TRUE,
     bars |-> <<<<"mem32", <<0, 0, 48, 254, 0, 0, 0, 0>>, TRUE>>>> \o [i \in 1..5 |-> <<"none", Zeros(8), FALSE>>],
     caps |-> <<<<5, 64>>>>, msix |-> 0, ext |-> <<>>, vfs |-> <<>>]

\* A bridge: two registers; the bus numbers at 24 are not a third.
Bridge ==
    [cfg |-> Identity(4663, <<6, 4, 0>>, 129, 0) @@ Put(24, <<0, 1, 1, 0>>),
     present |-> TRUE, multi |-> TRUE, xhci |-> FALSE,
     bars |-> <<<<"none", Zeros(8), FALSE>>, <<"none", Zeros(8), FALSE>>>>,
     caps |-> <<>>, msix |-> 0, ext |-> <<>>, vfs |-> <<>>]

\* A page of zeros answers, but names no vendor.
Blank == [Card EXCEPT !.cfg = Put(0, Zeros(64)), !.present = FALSE]

ShapeOf(name) ==
    CASE name = "card" -> Card [] name = "controller" -> Controller [] name = "plain" -> Plain
      [] name = "bridge" -> Bridge [] name = "blank" -> Blank

Window(ws, f) == CHOOSE i \in DOMAIN ws : ws[i].seg = f.seg /\ Covers(ws[i], f.bus)

Reachable(ws, f) == \E i \in DOMAIN ws : ws[i].seg = f.seg /\ Covers(ws[i], f.bus)

PageOf(e, f) == function_base(e.allocs[Window(e.allocs, f)], f)

Image(e) ==
    [len |-> e.len,
     pages |-> [a \in {PageOf(e, f) : f \in DOMAIN e.funcs} |->
                  ShapeOf(e.funcs[CHOOSE f \in DOMAIN e.funcs : PageOf(e, f) = a]).cfg]]

EcamInit ==
    ec \in {[allocs |-> w.allocs, len |-> w.len, funcs |-> [f \in {} |-> "blank"]] : w \in Windows}

\* A function of some shape answers.
Plug ==
    /\ Cardinality(DOMAIN ec.funcs) < MaxFunctions
    /\ \E f \in Functions \ DOMAIN ec.funcs, s \in Shapes :
          /\ Reachable(ec.allocs, f)
          /\ ec' = [ec EXCEPT !.funcs = @ @@ (f :> s)]

EcamNext == Plug

\* Which functions the enumeration rules make visible.
Answers(e, f) == f \in DOMAIN e.funcs /\ ShapeOf(e.funcs[f]).present /\ PageOf(e, f) < e.len

Visible(e) ==
    {f \in DOMAIN e.funcs :
        /\ Answers(e, f)
        /\ f.fn # 0 =>
              /\ Answers(e, [f EXCEPT !.fn = 0])
              /\ ShapeOf(e.funcs[[f EXCEPT !.fn = 0]]).multi}

Rank(e, f) == <<Window(e.allocs, f), 4096 * f.bus + 32 * f.dev + f.fn>>

Before(a, b) == a[1] < b[1] \/ (a[1] = b[1] /\ a[2] < b[2])

\* What discovery reports of one function is what its configuration space means.
FunctionRead(m, w, h, s) ==
    /\ Mapped(LAMBDA b : <<b.kind, b.base, b.prefetch>>, read_bars(m, w, h)) = s.bars
    /\ Mapped(LAMBDA c : <<c.id, c.at>>, capabilities(m, w, h)) = s.caps
    /\ msix_table_size(m, function_base(w, h.at),
                       SelectSeq(capabilities(m, w, h), LAMBDA c : c.id = 17)) = s.msix
    /\ Mapped(LAMBDA c : <<c.id, c.at>>, extended_capabilities(m, w, h)) = s.ext
    /\ extended_capabilities_in_config(s.cfg, 4096) = extended_capabilities(m, w, h)
    /\ sr_iov_capability(m, w, h) = s.vfs

\* A plan names as many distinct routing identifiers as were asked for, none
\* of them the physical function's own, or there is no plan.
PlanSound(cap, f) ==
    \A n \in 0..cap.total + 1 :
        LET plan == plan_enable_vfs(cap, f, n)
        IN  /\ plan = <<>> <=>
                  \/ n = 0 \/ n > cap.total
                  \/ 256 * f.bus + 8 * f.dev + f.fn + cap.first + cap.stride * (n - 1) > 65535
            /\ plan # <<>> => Len(plan) = n /\ Cardinality(ToSet(plan)) = n
                               /\ 256 * f.bus + 8 * f.dev + f.fn \notin ToSet(plan)

Walked(e, m, hs) ==
    /\ {hs[i].at : i \in DOMAIN hs} = Visible(e)
    /\ \A i, j \in DOMAIN hs : i < j => Before(Rank(e, hs[i].at), Rank(e, hs[j].at))
    /\ \A i \in DOMAIN hs :
          /\ FunctionRead(m, e.allocs[Window(e.allocs, hs[i].at)], hs[i], ShapeOf(e.funcs[hs[i].at]))
          /\ \A k \in DOMAIN ShapeOf(e.funcs[hs[i].at]).vfs : PlanSound(ShapeOf(e.funcs[hs[i].at]).vfs[k], hs[i].at)

\* Each controller is paired with the base in its own first register.
ControllersRead(e, cs) ==
    /\ {cs[i].function.at : i \in DOMAIN cs} = {f \in Visible(e) : ShapeOf(e.funcs[f]).xhci}
    /\ \A i \in DOMAIN cs : cs[i].base = <<ShapeOf(e.funcs[cs[i].function.at]).bars[1][2]>>

\* Sizing by writing all ones finds the size of every register, a page size is
\* only ever one that is supported, and routing identifiers stay in 16 bits.
SizesRead ==
    /\ \A k \in 4..31 : memory_bar_size_32((k..31) \cup {3}) = {k}
    /\ \A k \in 4..63 : memory_bar_size_64((k..63) \cup {2, 3}) = {k}
    /\ \A k \in 2..31 : io_bar_size((k..31) \cup {0}) = {k}
    /\ \A mask \in SUBSET (0..3), k \in 0..4 :
          /\ select_sr_iov_system_page_size(mask, k) \subseteq mask
          /\ mask # {} => Cardinality(select_sr_iov_system_page_size(mask, k)) = 1
    /\ \A first \in {1, 240, 255}, stride \in {1, 2, 8} :
          PlanSound([total |-> 3, first |-> first, stride |-> stride],
                    [seg |-> 0, bus |-> 255, dev |-> 0, fn |-> 0])

\* The walk of pci_discovery.rs reports every function PCI enumeration makes
\* visible, once and in bus order, and nothing else; registers, capability
\* chains that loop or leave the space, and virtual functions are decoded as
\* the function's configuration space means them.
EcamRead == Walked(ec, Image(ec), walk_ecam_allocations(Image(ec), ec.allocs))
            /\ ControllersRead(ec, find_xhci_controllers(Image(ec), ec.allocs))
            /\ (DOMAIN ec.funcs = {} => SizesRead)

=============================================================================
