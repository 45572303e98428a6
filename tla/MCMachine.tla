------------------------------ MODULE MCMachine ------------------------------
(***************************************************************************)
(* The memory managers (guest RAM, the host's allocators and address       *)
(* space, page tables, dirty tracking), the structures virtualization      *)
(* hardware reads, the USB stack (hot plug and routing, the controller's   *)
(* slots, endpoints and rings, the host's driver), the boot hypervisor's   *)
(* own guests, a guest on the KVM backend and the bookkeeping about all    *)
(* guests, and the tables platform and guests are described by, side by    *)
(* side.  They share no state, so in each behaviour one of them, `part`,   *)
(* moves and `st` is its state.                                            *)
(***************************************************************************)
EXTENDS Integers, TLC

VARIABLES part, st

Layout(s, a) == [size |-> s, align |-> a]

\* Buddy bases aligned to the largest block, to some block and to none; slabs of three
\* small blocks and of one; one- and two-page large blocks. An address space of eight pages,
\* the last two in a firmware huge page, with room for four tables.
Alloc == INSTANCE HostMemory WITH
  Guests <- {"a", "b", "c"}, Sizes <- {1, 2}, Reserved <- 1, Total <- 6, mm <- st,
  MAX_ORDER <- 2, Bases <- {0, 8, 2, 1}, Size <- 7, bd <- st,
  Pages <- 3, PAGE <- 8, CLASS_MIN <- 2, CLASS_MAX <- 4, HeadSize <- 2, LargeHeadSize <- 2,
  Layouts <- {Layout(1, 1), Layout(4, 1), Layout(5, 1), Layout(2, 8)}, heap <- st,
  VaLimit <- 8, Spans3 <- <<16, 8, 2>>, Pool <- 4, Frames <- 0 .. 1, Huge <- {6, 7},
  Foreign <- 9, AsPages <- {1, 2}, MaxRegions <- 2, hs <- st,
  E <- 2, Tables <- 7, Spas <- {2, 5}, Lens <- {1, 3, 4}, Starts <- {0, 1, 4}, MaxOps <- 3, pt <- st,
  SecondGpas <- {0, 1}, Hpas <- {0, 1}, Large <- 2, SecondLens <- {2}, ept <- st

\* Two rules over two kinds of device.
Rules == INSTANCE UsbRouting WITH
  Paths <- {"p"}, Kinds <- {"usb2", "usb3"}, Guests <- {"a"}, NoHub <- "c", HubPorts <- 1,
  ADDRESS_LIMIT <- 2, Priorities <- {1, 2}, MaxRules <- 2, MaxMoves <- 0, MaxEvents <- 2, u <- st

\* Two slots and two ports; three commands round a Link TRB, two queued events, an event ring
\* of 2 + 1 TRBs; for the host's driver two TRBs round a Link TRB and an event ring of three.
Slots == INSTANCE Xhci WITH
  SLOTS <- 2, PORTS <- 2, DCIS <- {}, TDS <- {}, hc <- st,
  N <- 4, Queue <- 3, Segments <- <<2, 1>>, BURST <- 2, x <- st,
  HN <- 4, HE <- 3, POLLS <- 2, MaxTrbs <- 4, Changes <- 1, host <- st

\* One slot with an endpoint.
Endpoints == INSTANCE Xhci WITH
  SLOTS <- 1, PORTS <- 1, DCIS <- {2},
  TDS <- {"in", "out", "datain", "dataout", "status", "normal"}, hc <- st,
  N <- 0, Queue <- 0, Segments <- <<>>, BURST <- 0, x <- st,
  HN <- 0, HE <- 0, POLLS <- 0, MaxTrbs <- 0, Changes <- 0, host <- st

\* What is staged: Linux images that fit and that do not, firmware of several sizes.
Image(r, q, a, n, k, m, i) ==
  [kind |-> "linux", relocatable |-> r, pref |-> q, alignment |-> a, init_size |-> n, kernel |-> k,
   initrd_max |-> m, initrd |-> i]
Firmware(c, v) == [kind |-> "firmware", code |-> c, vars |-> v]
NVMe(s, starts) == [serial |-> s, starts |-> starts]
Assigned(s) == [serial |-> s, option |-> 1]
EmptyStore == [vars |-> <<>>, clean |-> TRUE, room |-> 2]
\* Stores of up to two variables, no live one twice, with room for one or two more.
Variables ==
  {[name |-> 98, data |-> d, live |-> l] : d \in {<<0>>, <<0, 1>>}, l \in BOOLEAN}
    \cup {[name |-> n, data |-> <<d>>, live |-> l] : n \in {0, 1, 99}, d \in {1, 2}, l \in BOOLEAN}
VariableStores ==
  {[vars |-> v, clean |-> c, room |-> r] : c \in BOOLEAN, r \in 3 .. 4,
     v \in {w \in UNION {[1 .. n -> Variables] : n \in 0 .. 2} :
              \A i, j \in DOMAIN w : i < j /\ w[i].live /\ w[j].live => w[i].name # w[j].name}}
Place == INSTANCE GuestFirmware WITH
  Payloads <- {Image(r, q, a, n, k, m, i) : r \in BOOLEAN, q \in {32, 34}, a \in {2, 16, 40}, n \in {0, 9},
                 k \in {3, 12}, m \in {50, 80}, i \in {0, 5, 13}}
                \cup {Firmware(c, v) : c \in {2, 4, 16}, v \in {0, 2, 3, 16, 18}},
  Ram <- 60, Windows <- {59, 60}, Controllers <- <<>>, Assignments <- {Assigned(0)}, Stores <- {EmptyStore},
  Ops <- {}, Screen <- [width |-> 1, height |-> 1], MaxGot <- 0, fw <- st
\* Two disks with one serial, the first of which fails to start.
Seeded == INSTANCE GuestFirmware WITH
  Payloads <- {Firmware(4, 2)}, Ram <- 60, Windows <- {60},
  Controllers <- <<NVMe(1, "yes"), NVMe(2, "half"), NVMe(2, "yes"), NVMe(3, "no")>>,
  Assignments <- {Assigned(s) : s \in 0 .. 3}, Stores <- VariableStores,
  Ops <- {}, Screen <- [width |-> 1, height |-> 1], MaxGot <- 0, fw <- st
Flash == INSTANCE GuestFirmware WITH
  Payloads <- {Firmware(4, 2)}, Ram <- 60, Windows <- {60}, Controllers <- <<>>, Assignments <- {Assigned(1)},
  Stores <- {EmptyStore},
  Ops <- {<<"store", o, v>> : o \in {0, 3}, v \in {"ff", "x70", "x90", "x10", "x20", "x50", "xd0", "x00"}}
           \cup {<<"load">>, <<"store code">>, <<"undecodable">>},
  Screen <- [width |-> 1, height |-> 1], MaxGot <- 0, fw <- st
\* Displays inside and just outside RAM, with rows longer than their stride, and half of one.
FwCfg == INSTANCE GuestFirmware WITH
  Payloads <- {Firmware(4, 2)}, Ram <- 60, Windows <- {60}, Controllers <- <<>>, Assignments <- {Assigned(1)},
  Stores <- {EmptyStore},
  Ops <- {<<"select", s>> : s \in 1 .. 3} \cup {<<"in", 1>>, <<"in", 2>>, <<"tick">>}
           \cup {<<"dma", [select |-> s, op |-> o, ok |-> k, bytes |-> b]>> :
                    s \in {0, 2}, o \in {"read", "write", "skip"}, k \in BOOLEAN,
                    b \in {<<57, 2, 2, 2>>, <<58, 2, 2, 1>>, <<50, 2>>, <<1, 1, 1, 1, 1>>}},
  Screen <- [width |-> 2, height |-> 3], MaxGot <- 4, fw <- st

\* What the firmware hands over: low memory, then regions of every kind; the map buffer is in
\* memory of the loader or the boot services.
Described(b, s, t) == [base |-> b, size |-> s, type |-> t]
Handed ==
  {h \in {[map |-> <<Described(0, 3, lo), Described(4, 6, a), Described(10, 10, b), Described(20, 4, c),
                    Described(24, z, "conventional")>>,
           buffer |-> [base |-> q, size |-> 1], screen |-> [base |-> 56, size |-> 2], os |-> o] :
             lo \in {"conventional", "boot"}, a \in {"conventional", "loader"}, b \in {"conventional", "boot", "acpi"},
             c \in {"conventional", "loader", "acpi"}, z \in {3, 8, 20}, q \in {6, 12, 22}, o \in BOOLEAN} :
     \E i \in DOMAIN h.map : /\ h.map[i].type \in {"loader", "boot"}
                            /\ h.buffer.base \in h.map[i].base .. h.map[i].base + h.map[i].size - 1}
Disk(k, b, x, e) == [kind |-> k, bar |-> b, broken |-> x, emulated |-> e]
DiskSets ==
  {<<>>, <<Disk("ahci", "mapped", FALSE, FALSE)>>, <<Disk("ahci", "mapped", FALSE, FALSE), Disk("nvme", "mapped", FALSE, FALSE)>>,
   <<Disk("nvme", "mapped", FALSE, TRUE), Disk("nvme", "mapped", FALSE, FALSE)>>,
   <<Disk("nvme", "none", FALSE, TRUE)>>, <<Disk("nvme", "mapped", TRUE, TRUE), Disk("ahci", "mapped", FALSE, FALSE)>>}
Board(x, d, h, c, t, e, n, k, s, v, f) ==
  [x2apic |-> x, deadline |-> d, hz |-> h, cpus |-> c, tables |-> t, ecam |-> e, nic |-> n, disks |-> k, service |-> s,
   svm |-> v, screen |-> f]
Boards ==
  {Board(x, d, h, c, TRUE, "low", "low", <<>>, TRUE, v, TRUE) : x, d, h, c, v \in BOOLEAN}
    \cup {Board(TRUE, FALSE, TRUE, TRUE, t, e, n, <<>>, s, v, f) :
             t, v, f, s \in BOOLEAN, e, n \in {"none", "low", "high"}}
    \cup {Board(TRUE, FALSE, FALSE, TRUE, TRUE, "none", "none", k, TRUE, TRUE, TRUE) : k \in DiskSets}
Registers == {[base |-> b, size |-> s] : b \in {0, 3, 6}, s \in {0, 2, 3}}
ServiceVms ==
  {[ram |-> r, size |-> z, devices |-> d, extra |-> x] :
     r \in {4, 6, 12}, z \in {0, 4}, d \in UNION {[1 .. k -> Registers] : k \in 0 .. 2},
     x \in UNION {[1 .. k -> Registers] : k \in 0 .. 1}}
\* Usable memory below and above a reserved page; DMA memory ends in between.
Region(b, s, k) == [base |-> b, size |-> s, kind |-> k]
Boot == INSTANCE HostBoot WITH
  Maps <- {<<Region(1, 3, "Usable"), Region(4, 1, "Reserved"), Region(5, 4, "Usable")>>},
  Sizes <- {1, 2}, Aligns <- {1, 2}, MapDma <- 4, MapTop <- 9, MaxRegions <- 6, pm <- st,
  Handoffs <- Handed, Top <- 60, Machines <- Boards, Ids <- <<1, 2, 3, 4>>, Bsp <- 1, MaxPolls <- 2,
  Functions <- 1 .. 2, Specs <- ServiceVms, hb <- st

\* ACPI tables and configuration windows as a platform has them; then the tables a guest is
\* given: machines of one and three processors, memory and windows above and below 4 GiB, the
\* root pointer in the last place scanned or in the extended BIOS area.
Window(b, s, lo, hi) == [base |-> b, seg |-> s, start |-> lo, end |-> hi]
ConfigWindows ==
  {[len |-> n, allocs |-> <<Window(1048576, 0, 0, 1)>>] : n \in {2097152, 4194304}}
    \cup {[len |-> 4194304, allocs |-> <<Window(2097152, 1, 1, 1), Window(1048576, 0, 0, 0)>>]}
ConfigFunctions ==
  {[seg |-> s, bus |-> b, dev |-> d, fn |-> f] : s \in {0}, b \in {0}, d \in {0, 31}, f \in {0, 7}}
    \cup {[seg |-> 0, bus |-> 1, dev |-> 0, fn |-> 0], [seg |-> 1, bus |-> 1, dev |-> 2, fn |-> 0]}
Low(b) == <<0, 0, 0, b, 0, 0, 0, 0>>
High(b) == <<0, 0, 0, 0, b, 0, 0, 0>>
MachineSetups ==
  {[vcpus |-> 1, mem |-> Low(64), ecam |-> Low(176), logo |-> Low(0), dsdt |-> 7, ssdt |-> 3, iommu |-> "AmdVi"],
   [vcpus |-> 3, mem |-> High(2), ecam |-> Low(224), logo |-> High(1), dsdt |-> 300, ssdt |-> 40, iommu |-> "IntelVtd"]}
RootPlaces == {[at |-> 1048544, ebda |-> 40896], [at |-> 654352, ebda |-> 40896]}
WakingVectors ==
  {[v |-> v, x |-> x, wide |-> w] : v \in {<<0, 0, 0, 0>>, <<0, 128, 0, 0>>}, x \in {Low(0), High(1)}, w \in {TRUE}}
    \cup {[v |-> <<0, 128, 0, 0>>, x |-> High(1), wide |-> FALSE]}
Given == INSTANCE Tables WITH
  Kinds <- {"madt", "srat", "mcfg", "dmar", "ivrs", "slit"}, MaxItems <- 3, Lengths <- {0, 1, 3, 8, 200},
  Cuts <- {1, 5, 17}, Cap <- 2, Windows <- ConfigWindows, Functions <- ConfigFunctions,
  Shapes <- {"card", "controller", "plain", "bridge", "blank"}, MaxFunctions <- 2, ac <- st, ec <- st,
  Setups <- MachineSetups, Bases <- {2097152, 1879048192}, Roots <- RootPlaces,
  Harms <- {"none", "cut", "command", "file", "offset", "size", "span", "reverse"}, Vectors <- WakingVectors,
  FileSizes <- {0, 3, 300}, MaxFiles <- 2, MaxReads <- 9, ModuleSizes <- {8192, 32767, 32768}, MaxModules <- 2,
  Identities <- {"absent", "blank", "set", "wrong"}, fw <- st, fc <- st, sm <- st

\* Three vCPUs, the last not the VM's; ports and MSRs at the ends of their maps; maps of up to
\* four tables' worth of pages at every width.
Virt == INSTANCE Virtualization WITH
  Vcpus <- 0 .. 2, Hosts <- {0, 1}, GuestIds <- 0 .. 2, Vectors <- {1}, acc <- st, MaxWrites <- 2, vmcb <- st,
  Ports <- {7, 8, 15}, IOPM_SIZE <- 3, Msrs <- {2, 3, 9, 20}, MsrRange <- 4, Bases <- <<0, 8, 16>>, MSRPM_SIZE <- 4,
  maps <- st, ex <- st, E <- 2, MapSizes <- {0, 1, 2, 3, 4, 5, 7, 8, 9}, Widths <- 0 .. 2, Buffers <- {1, 3, 7, 9, 15},
  sl <- st

\* Moves of every shape with and without prefixes, REX bits, SIB byte and displacement; guest
\* page tables with large pages and a page that is not there; strings that wrap at each
\* address size.
Moves ==
  {x \in {[prefix |-> p, rex |-> r, op |-> o, mod |-> m, rm |-> rm, reg |-> g, base |-> b] :
            p \in {<<>>, <<102>>, <<102, 46>>}, r \in {0, 68, 72, 76}, m \in 0 .. 1, rm \in {4, 5}, g \in {0, 5}, b \in {0, 5},
            o \in {<<136>>, <<137>>, <<138>>, <<139>>, <<198>>, <<199>>, <<15, 182>>, <<15, 183>>, <<15, 190>>, <<15, 191>>}} :
     (x.rm = 5 => x.base = 0) /\ (x.op[1] \in {198, 199} => x.reg = 0)}
Entry(p, l, a) == [present |-> p, ps |-> l, addr |-> a]
PagesOfGuest ==
  {(0 :> Entry(TRUE, FALSE, 1)) @@ (1 :> Entry(FALSE, FALSE, 0)) @@ (2 :> Entry(TRUE, FALSE, 2))
     @@ (3 :> Entry(TRUE, TRUE, 0)) @@ (4 :> Entry(TRUE, FALSE, 3)) @@ (5 :> Entry(TRUE, TRUE, 8))
     @@ (6 :> Entry(TRUE, FALSE, a)) @@ (7 :> b) :
   a \in {4, 8}, b \in {Entry(TRUE, FALSE, 0), Entry(FALSE, FALSE, 0), Entry(TRUE, FALSE, 12)}}
\* A guest that did nothing yet, one that placed the power-management ports, one that placed
\* both disks; a ring of three events and two log lines; counts of two binary digits.
Target(d, f, r) == <<"addr", [enable |-> TRUE, bus |-> 0, dev |-> d, fn |-> f, reg |-> r]>>
Out(p, v) == <<"out", p, v>>
PortAccesses ==
  {Target(3, 0, 4), Target(3, 0, 16), Target(3, 0, 64), Target(4, 0, 18), Target(1, 3, 64), Target(1, 3, 128), Target(2, 0, 0),
   <<"addr", [enable |-> FALSE, bus |-> 0, dev |-> 3, fn |-> 0, reg |-> 4]>>,
   <<"addr", [enable |-> TRUE, bus |-> 1, dev |-> 3, fn |-> 0, reg |-> 4]>>}
    \cup {Out(p, v) : p \in {3324, 3325}, v \in {<<{1}>>, <<0 .. 7, 0 .. 7>>}}
    \cup {Out(p, v) : p \in {100, 146, 112, 3321, 1026}, v \in {<<{2, 5}>>, <<1 .. 7>>}}
    \cup {Out(p, v) : p \in {64, 68, 69}, v \in {<<{5}>>, <<{}, {5}>>, <<{0}, {5, 3}>>}}
    \cup {<<"in", p, s>> : p \in {3324, 3327, 146, 113, 1026}, s \in {2}} \cup {<<"in", p, s>> : p \in {64, 68, 73}, s \in {1, 4}}
Cpu == INSTANCE GuestMachine WITH
  Insns <- Moves, insn <- st,
  Spaces <- {[cr3 |-> 0, cells |-> t, paging |-> p, cs_base |-> c, ram |-> 0 .. 11, flash |-> 14 .. 15] :
               t \in PagesOfGuest, p \in BOOLEAN, c \in {0, 3, 6}},
  PAGE <- 4, FETCH <- 6, fetch <- st,
  Strings <- {[in |-> i, rep |-> r, size |-> s, width |-> w, back |-> b, count |-> c, at |-> a, seg |-> g, unmapped |-> u,
               resets |-> z] :
                i, r, b \in BOOLEAN, s \in {1, 2}, w \in {16, 32, 64}, c \in {0, 1, 3, 5, 9}, a \in {0, 2, 3, 7, 15},
                g \in {0, 16}, u \in {{}, {19, 1}}, z \in {-1, 18}},
  WIDTH <- (16 :> 4) @@ (32 :> 8) @@ (64 :> 16), str <- st,
  HostBits <- {{}, {"APIC", "MTRR", "X2APIC", "SVM", "RDTSCP", "OSXSAVE", "HYPERVISOR", "SPEC_CTRL", "IBRS", "XSAVES",
                    "TSC_DEADLINE"}},
  MsrValues <- {2}, MaxExits <- 3, cpu <- st,
  BusOps <- PortAccesses, MaxOps <- 2, bus <- st,
  Setups <- {<<>>, <<Target(1, 3, 64), Out(3324, <<{0, 6}, {}>>), Target(1, 3, 128), Out(3324, <<{0}>>)>>,
             <<Target(3, 0, 16), Out(3324, <<{0, 5, 6}>>), Target(3, 0, 20), Out(3324, <<{0}>>), Target(4, 0, 16),
               Out(3324, <<{5, 6}>>), Target(4, 0, 4), Out(3324, <<{1}>>), Target(3, 0, 4)>>},
  CAP <- 2, MaxSent <- 2, con <- st, DEPTH <- 3, LOG_LIMIT <- 2, MaxEvents <- 7, rec <- st,
  RADIX <- 2, MaxTicks <- 5, MaxChanges <- 3, pit <- st

\* Two regions of eight bytes of guest addresses; boots with RAM around every size that
\* matters, images and firmware that fit and that do not.
FirstBoot == [kind |-> "image", bytes |-> 20, load_base |-> 0, entry |-> 0, image |-> 1, header |-> TRUE, kernel |-> 1,
              cmdline |-> 0, initrd |-> 0, code |-> 2, vars |-> 2, signed |-> TRUE]
Vms == INSTANCE VmBackends WITH
  SpinIters <- 2, MaxVmruns <- 32, MaxIoOuts <- 8, vm <- st,
  HOST_PAGE <- 2, GpaTop <- 8, MaxSlots <- 2, slots <- st, MSRS <- {"m1", "m2"}, ctx <- st, MaxPrep <- 3, cpu <- st,
  Boots <- {[FirstBoot EXCEPT !.kind = k, !.bytes = n, !.load_base = l, !.entry = e, !.image = i] :
              k \in {"image", "long"}, n \in {0, 3, 4, 5, 8}, l \in {0, 2}, e \in 0 .. 4, i \in 0 .. 3}
             \cup {[FirstBoot EXCEPT !.kind = k, !.bytes = n, !.kernel = z, !.cmdline = c, !.initrd = d, !.header = h] :
                     k \in {"linux", "linux64"}, n \in {3, 11, 12, 13, 15, 20}, z \in {1, 3, 4}, c \in {0, 3, 4, 5},
                     d \in {0, 1, 2, 4}, h \in BOOLEAN}
             \cup {[FirstBoot EXCEPT !.kind = "uefi", !.bytes = n, !.load_base = l, !.code = c, !.vars = v, !.signed = s] :
                     n \in {0, 4, 12, 13, 20, 28}, l \in {0, 2}, c \in {1, 2, 4, 16, 18}, v \in {2, 3, 4, 16}, s \in BOOLEAN},
  boot <- st, build <- st

\* Two guests of up to two CPUs in a host of four pages; core lists with gaps, repetitions and
\* cores beyond the CPU set; one sampler; two disks.
Fleet == INSTANCE GuestFleet WITH
  Configs <- {[name |-> n, size |-> s, cpus |-> c] : n \in {"a", "b"}, s \in 0 .. 2, c \in {<<>>, <<0>>, <<0, 1>>}},
  HOST_MEM <- 4, MaxVmOps <- 3, fleet <- st,
  Plans <- {[policy |-> p, requested |-> r, available |-> a] :
              p \in {"Dedicated", "TimeSlice", "Auto"},
              r \in {<<>>, <<0>>, <<0, 1>>, <<0, 1, 2>>, <<3, 1, 2, 0>>, <<1, 1>>},
              a \in {<<>>, <<0>>, <<1, 2>>, <<0, 1, 2>>, <<3, 0>>}}, plan <- st,
  Cores <- {0, 1, 3, 5, 9}, CPU_SET <- 8, Online <- 0 .. 3, thread <- st,
  Modes <- {"Null", "Buffer", "Shared", "Stdout", "File"}, MaxBytes <- 5, out <- st,
  Samplers <- {"s"}, MaxWork <- 4, met <- st, Disks <- {"p", "q"}, MaxMoves <- 5, host <- st

Init ==
  \/ part = "guest" /\ Alloc!GuestInit
  \/ part = "buddy" /\ Alloc!BuddyInit
  \/ part = "map" /\ Boot!MapInit
  \/ part = "host" /\ Alloc!AsInit
  \/ part = "tables" /\ Alloc!Init
  \/ part = "second" /\ Alloc!EptInit
  \/ part = "heap" /\ Alloc!HeapInit
  \/ part = "rules" /\ Rules!UsbInit
  \/ part = "slots" /\ Slots!Init
  \/ part = "endpoints" /\ Endpoints!Init
  \/ part = "rings" /\ Slots!RingInit
  \/ part = "xhost" /\ Slots!HostInit
  \/ part = "svm" /\ Vms!Init
  \/ part = "place" /\ Place!Init
  \/ part = "seed" /\ Seeded!Init
  \/ part = "flash" /\ Flash!Init
  \/ part = "fwcfg" /\ FwCfg!Init
  \/ part = "memory" /\ Boot!MemInit
  \/ part = "chain" /\ Boot!ChainInit
  \/ part = "smp" /\ Boot!SmpInit
  \/ part = "iommu" /\ Boot!IommuInit
  \/ part = "service" /\ Boot!AssembleInit
  \/ part = "walks" /\ Given!AcpiInit
  \/ part = "windows" /\ Given!EcamInit
  \/ part = "given" /\ Given!FwInit
  \/ part = "ports" /\ Given!FcInit
  \/ part = "identity" /\ Given!SmInit
  \/ part = "posted" /\ Virt!AccInit
  \/ part = "vmcb" /\ Virt!VmcbInit
  \/ part = "permissions" /\ Virt!MapsInit
  \/ part = "exits" /\ Virt!ExitInit
  \/ part = "stage" /\ Virt!SlInit
  \/ part = "moves" /\ Cpu!InsnInit
  \/ part = "fetch" /\ Cpu!FetchInit
  \/ part = "strings" /\ Cpu!StrInit
  \/ part = "vcpu" /\ Cpu!CpuInit
  \/ part = "bus" /\ Cpu!BusInit
  \/ part = "console" /\ Cpu!ConInit
  \/ part = "records" /\ Cpu!RecInit
  \/ part = "speaker" /\ Cpu!PitInit
  \/ part = "regions" /\ Vms!SlotInit
  \/ part = "context" /\ Vms!CtxInit
  \/ part = "modes" /\ Vms!CpuInit
  \/ part = "boot" /\ Vms!BootInit
  \/ part = "build" /\ Vms!BuildInit
  \/ part = "fleet" /\ Fleet!FleetInit
  \/ part = "plan" /\ Fleet!PlanInit
  \/ part = "thread" /\ Fleet!ThreadInit
  \/ part = "output" /\ Fleet!OutInit
  \/ part = "metrics" /\ Fleet!MetInit
  \/ part = "rates" /\ Fleet!HostInit

Next ==
  /\ UNCHANGED part
  /\ \/ part = "guest" /\ Alloc!GuestNext
     \/ part = "buddy" /\ Alloc!BuddyNext
     \/ part = "map" /\ Boot!MapNext
     \/ part = "host" /\ Alloc!AsNext
     \/ part = "tables" /\ Alloc!Next
     \/ part = "second" /\ Alloc!EptNext
     \/ part = "heap" /\ Alloc!HeapNext
     \/ part = "rules" /\ Rules!UsbNext
     \/ part = "slots" /\ Slots!Next
     \/ part = "endpoints" /\ Endpoints!Next
     \/ part = "rings" /\ Slots!RingNext
     \/ part = "xhost" /\ Slots!HostNext
     \/ part = "svm" /\ Vms!Next
     \/ part = "place" /\ Place!Next
     \/ part = "seed" /\ Seeded!Next
     \/ part = "flash" /\ Flash!Next
     \/ part = "fwcfg" /\ FwCfg!Next
     \/ part = "memory" /\ Boot!MemNext
     \/ part = "chain" /\ Boot!ChainNext
     \/ part = "smp" /\ Boot!SmpNext
     \/ part = "iommu" /\ Boot!IommuNext
     \/ part = "service" /\ Boot!AssembleNext
     \/ part = "walks" /\ Given!AcpiNext
     \/ part = "windows" /\ Given!EcamNext
     \/ part = "given" /\ Given!FwNext
     \/ part = "ports" /\ Given!FcNext
     \/ part = "identity" /\ Given!SmNext
     \/ part = "posted" /\ Virt!AccNext
     \/ part = "vmcb" /\ Virt!VmcbNext
     \/ part = "permissions" /\ Virt!MapsNext
     \/ part = "exits" /\ Virt!ExitNext
     \/ part = "stage" /\ Virt!SlNext
     \/ part = "moves" /\ Cpu!InsnNext
     \/ part = "fetch" /\ Cpu!FetchNext
     \/ part = "strings" /\ Cpu!StrNext
     \/ part = "vcpu" /\ Cpu!CpuNext
     \/ part = "bus" /\ Cpu!BusNext
     \/ part = "console" /\ Cpu!ConNext
     \/ part = "records" /\ Cpu!RecNext
     \/ part = "speaker" /\ Cpu!PitNext
     \/ part = "regions" /\ Vms!SlotNext
     \/ part = "context" /\ Vms!CtxNext
     \/ part = "modes" /\ Vms!CpuNext
     \/ part = "boot" /\ Vms!BootNext
     \/ part = "build" /\ Vms!BuildNext
     \/ part = "fleet" /\ Fleet!FleetNext
     \/ part = "plan" /\ Fleet!PlanNext
     \/ part = "thread" /\ Fleet!ThreadNext
     \/ part = "output" /\ Fleet!OutNext
     \/ part = "metrics" /\ Fleet!MetNext
     \/ part = "rates" /\ Fleet!HostNext

Spec == Init /\ [][Next]_<<part, st>>

-----------------------------------------------------------------------------
\* Memory has one owner: guest RAM, buddy blocks, spans of the boot memory map, heap
\* blocks and page frames are never handed out twice, never overlap, and what is given
\* back becomes available again (merged, relinked or returned as each allocator does); the
\* kernel's own memory, what the firmware still holds, and the RAM, register windows and
\* devices it gives its guests are apart; and every guest in the list has the memory and
\* the console registered under its name.
OwnedOnce ==
  /\ part = "guest" => Alloc!PagesOwnedOnce
  /\ part = "buddy" => Alloc!BlocksTile /\ Alloc!EagerlyMerged
  /\ part = "map" => Boot!HandedOutOnce /\ Boot!ReservedExact
  /\ part = "host" => Alloc!FramesConserved
  /\ part = "heap" => Alloc!BlocksApart /\ Alloc!ListsExact
  /\ part = "memory" => Boot!BootMemoryOwnedOnce
  /\ part = "service" => Boot!WindowsExact
  /\ part = "fleet" => Fleet!FleetExact

\* Page tables say what was asked: walks find exactly the mapped frames and permissions
\* after splits, re-protections, unmappings and mappings that failed half-way; tables are
\* never shared; a mapper never remaps; the second-level books agree; a device's transfers
\* go through its one domain from the moment translation is on; an IOMMU's second stage and
\* KVM's memory slots translate what was mapped, with its permissions.
TablesExact ==
  /\ part = "host" => Alloc!TableMatchesRegions
  /\ part = "tables" => Alloc!WalkMatches /\ Alloc!TablesOnce /\ Alloc!MapperNeverRemaps
  /\ part = "second" => Alloc!BooksAgree
  /\ part = "iommu" => Boot!DmaTranslated
  /\ part = "stage" => Virt!SecondStageExact
  /\ part = "regions" => Vms!SlotsExact

\* USB transfers run once and in order, from one place: a device goes to the guest the
\* best rule names, its model is on its port or in one slot, and a disabled slot keeps
\* nothing; commands and events go round their rings without loss, repetition or
\* overwriting, in the device model and in the host's own driver, which takes no other
\* command's answer and frees no memory the controller may use; a control request reaches
\* the device once; and an endpoint is walked on the ring its context names and is never
\* published as Running while halted.
TransfersInOrder ==
  /\ part = "rules" => Rules!BestRuleWins /\ Rules!PlacementsMatchPorts
  /\ part = "slots" => Slots!ModelsOneHome /\ Slots!DisabledSlotsClean
  /\ part = "rings" => Slots!CommandsInOrder /\ Slots!EventsInOrder
  /\ part = "xhost" => Slots!HostTrbsInOrder /\ Slots!HostAnswersOwn /\ Slots!HostPortsKnown /\ Slots!HostMemoryHeld
  /\ part = "endpoints" => /\ Endpoints!ModelsOneHome /\ Endpoints!DisabledSlotsClean
                           /\ Endpoints!CursorFollowsContext /\ Endpoints!RunningIsLive
                           /\ Endpoints!ControlOnce

\* A guest the boot hypervisor runs itself ends as the kernel reports it, takes every
\* injected event and timer tick once, and leaves the host with its own state. What it
\* boots from is placed apart, its boot entry comes first and nothing else in the variable
\* store changes, its flash always reads as the chip stands, and fw_cfg serves its items
\* in order. The kernel beneath it came up as it reports, with every processor counted once.
\* The tables a guest is given are found and read as they were configured, wherever firmware
\* puts them; and a table cut short or with a wrong length is read only up to the damage.
\* An instruction or string finished in the guest's place leaves what the processor would
\* have; ports, configuration space and speaker answer what was written; a posted interrupt
\* is noticed by a vCPU that runs; exits are decoded alike on both vendors; a boot places
\* its pieces apart or is refused; consoles, samples and core plans are exact.
GuestsServed ==
  /\ part = "svm" => Vms!DemosEndAsReported /\ Vms!TicksHandledOnce /\ Vms!HostKeepsItsState
  /\ part = "place" => Place!FirmwareServed
  /\ part = "seed" => Seeded!FirmwareServed
  /\ part = "flash" => Flash!FirmwareServed
  /\ part = "fwcfg" => FwCfg!FirmwareServed
  /\ part = "chain" => Boot!ChainHonest
  /\ part = "smp" => Boot!ApsCountedOnce
  /\ part = "walks" => Given!WalksRead
  /\ part = "windows" => Given!EcamRead
  /\ part = "given" => Given!TablesFound
  /\ part = "ports" => Given!PortsHonest
  /\ part = "identity" => Given!IdentityKept
  /\ part = "posted" => Virt!PostsNoticed
  /\ part = "vmcb" => Virt!VmcbReadsBack
  /\ part = "permissions" => Virt!MapsExact
  /\ part = "exits" => Virt!ExitsAgree
  /\ part = "moves" => Cpu!InsnExact
  /\ part = "fetch" => Cpu!FetchExact
  /\ part = "strings" => Cpu!StringsExact
  /\ part = "vcpu" => Cpu!CpuHonest
  /\ part = "bus" => Cpu!BusExact
  /\ part = "console" => Cpu!ConsoleExact
  /\ part = "records" => Cpu!RecordsExact
  /\ part = "speaker" => Cpu!SpeakerExact
  /\ part = "context" => Vms!ContextExact
  /\ part = "modes" => Vms!ModesExact
  /\ part = "boot" => Vms!BootExact
  /\ part = "build" => Vms!BuildExact
  /\ part = "plan" => Fleet!PlanExact
  /\ part = "thread" => Fleet!PinnedFirst
  /\ part = "output" => Fleet!OutputExact
  /\ part = "metrics" => Fleet!SamplesExact
  /\ part = "rates" => Fleet!RatesExact

=============================================================================
