--------------------------- MODULE Virtualization ---------------------------
(* The processor's virtualization structures: posted interrupts, the VMCB with its
   permission maps and exits, and the IOMMU's second-stage tables. *)
EXTENDS Integers, SequencesExt, FiniteSetsExt

-----------------------------------------------------------------------------
(***************************************************************************)
(* Interrupt acceleration: InterruptAccel (interrupt/accel.rs) over the    *)
(* posted-interrupt descriptors of apicv.rs and the backing pages and ID   *)
(* tables of avic.rs.  A backend posts and then sends what the answer asks *)
(* for; another thread places a vCPU, marks it running, enters, leaves and *)
(* marks it stopped.  The processor's part (Enter, Arrives) is external.   *)
(***************************************************************************)
CONSTANTS
  Vcpus,    \* 0 .. n - 1, with the last one a number the VM does not have
  Hosts,    \* physical processors
  GuestIds, \* guest APIC IDs
  Vectors

VARIABLE acc

Present == 0 .. Cardinality(Vcpus) - 2
Outside == -1

\* AccelMode::select.
select(apicv, avic) == IF apicv THEN "Apicv" ELSE IF avic THEN "Avic" ELSE "Software"

NoEntry == [valid |-> FALSE, running |-> FALSE, host |-> 0]

\* pir stands for the descriptor's request bitmap or the backing page's IRR. host, where
\* the scheduler last put a vCPU, is its caller's; at, the processor a vCPU executes on, and sent, the notifications under way, belong to the
\* processor; left, that a vCPU entered with its ON bit set, is history.
AccInit ==
  \E a, b \in BOOLEAN :
    acc = [mode |-> select(a, b), running |-> [v \in Present |-> FALSE], guest_ids |-> [v \in Present |-> v],
           pir |-> [v \in Present |-> {}], on |-> [v \in Present |-> FALSE], ndst |-> [v \in Present |-> 0],
           apic_id |-> [v \in Present |-> IF select(a, b) = "Avic" THEN v ELSE 0],
           physical |-> [g \in GuestIds |-> NoEntry],
           host |-> [v \in Present |-> 0],
           at |-> [v \in Present |-> Outside], sent |-> {}, left |-> [v \in Present |-> FALSE]]

\* assign_vcpu makes a new entry.
assign_vcpu(d, g, h) == [d EXCEPT !.physical[g] = [valid |-> TRUE, running |-> FALSE, host |-> h]]

\* Mutant: a vCPU that moves is still notified on the processor it left.
place_vcpu_old_ndst(d, v, g, h) ==
  CASE v \notin Present -> d
    [] d.mode = "Software" -> [d EXCEPT !.guest_ids[v] = g]
    [] d.mode = "Apicv" -> [d EXCEPT !.guest_ids[v] = g, !.apic_id[v] = g]
    [] d.mode = "Avic" -> assign_vcpu([d EXCEPT !.guest_ids[v] = g, !.apic_id[v] = g], g, h)

place_vcpu(d, v, g, h) ==
  CASE v \notin Present -> d
    [] d.mode = "Software" -> [d EXCEPT !.guest_ids[v] = g]
    [] d.mode = "Apicv" -> [d EXCEPT !.guest_ids[v] = g, !.ndst[v] = h, !.apic_id[v] = g]
    [] d.mode = "Avic" -> assign_vcpu([d EXCEPT !.guest_ids[v] = g, !.apic_id[v] = g], g, h)

\* AvicTables::set_running leaves an invalid entry alone.
table_set_running(d, g, r) ==
  IF d.physical[g].valid THEN [d EXCEPT !.physical[g].running = r] ELSE d

set_running(d, v, r) ==
  IF v \notin Present THEN d
  ELSE LET e == [d EXCEPT !.running[v] = r]
       IN IF d.mode = "Avic" THEN table_set_running(e, d.guest_ids[v], r) ELSE e

\* PostedInterruptDescriptor::post.
post_descriptor(d, v, vec) ==
  LET e == [d EXCEPT !.pir[v] = @ \cup {vec}]
  IN IF d.on[v] THEN e
     ELSE [e EXCEPT !.on[v] = TRUE, !.sent = @ \cup {d.ndst[v]}]

\* AvicVcpu::post: the doorbell goes to the processor the table names.
post_avic(d, v, vec) ==
  LET e == [d EXCEPT !.pir[v] = @ \cup {vec}]
      p == d.physical[d.apic_id[v]]
  IN IF p.valid /\ p.running THEN [e EXCEPT !.sent = @ \cup {p.host}] ELSE e

post(d, v, vec) ==
  CASE d.mode = "Software" \/ v \notin Present -> d   \* left to the emulated APIC
    [] d.mode = "Apicv" /\ v \in Present ->
         IF d.running[v] THEN post_descriptor(d, v, vec) ELSE [d EXCEPT !.pir[v] = @ \cup {vec}]
    [] d.mode = "Avic" /\ v \in Present ->
         post_avic(table_set_running(d, d.guest_ids[v], d.running[v]), v, vec)

\* External: VM entry picks up what is posted; ON stays as it is.
Enter(d, v, h) == [d EXCEPT !.at[v] = h, !.pir[v] = {}, !.left[v] = d.on[v]]
\* External: a notification is acted on by the vCPU that executes there, and is an
\* interrupt like any other to a processor outside the guest.
Arrives(d, h) ==
  LET there == {v \in Present : d.at[v] = h}
  IN [d EXCEPT !.sent = @ \ {h},
               !.on = [v \in Present |-> @[v] /\ v \notin there],
               !.left = [v \in Present |-> @[v] /\ v \notin there],
               !.pir = [v \in Present |-> IF v \in there THEN {} ELSE @[v]]]

\* The schedulers place a vCPU that is not running, with a guest ID no other one has.
AccNext ==
  \/ \E v \in Vcpus, h \in Hosts, g \in GuestIds :
       /\ v \in Present => ~acc.running[v] /\ \A w \in Present \ {v} : acc.guest_ids[w] # g
       /\ LET d == place_vcpu(acc, v, g, h)
          IN acc' = IF v \in Present THEN [d EXCEPT !.host[v] = h] ELSE d
  \/ \E v \in Vcpus, vec \in Vectors : acc' = post(acc, v, vec)
  \/ \E v \in Vcpus :
       /\ v \in Present => /\ acc.at[v] = Outside
                           /\ acc.mode = "Avic" => acc.physical[acc.guest_ids[v]].valid
       /\ \E r \in BOOLEAN : acc' = set_running(acc, v, r)
  \/ \E v \in Present :
       /\ acc.running[v] /\ acc.at[v] = Outside
       /\ \A w \in Present : acc.at[w] # acc.host[v]
       /\ acc' = Enter(acc, v, acc.host[v])
  \/ \E v \in Present : acc.at[v] # Outside /\ acc' = [acc EXCEPT !.at[v] = Outside]
  \/ \E h \in acc.sent : acc' = Arrives(acc, h)

\* A vector posted to an executing vCPU never waits unnoticed: while one is pending there,
\* a notification is on its way to the very processor it executes on, whatever placements,
\* entries and exits came before; only a vCPU that entered with a notification still
\* recorded as outstanding may have to wait for its next entry. The ID table says a vCPU
\* runs only while it is marked running, and its page carries the guest ID it was given.
PostsNoticed ==
  \A v \in Present :
    /\ acc.at[v] # Outside /\ acc.pir[v] # {} => acc.at[v] \in acc.sent \/ acc.left[v]
    /\ acc.mode = "Avic" => /\ acc.apic_id[v] = acc.guest_ids[v]
                            /\ acc.physical[acc.guest_ids[v]].running => acc.running[v]
    /\ acc.mode = "Software" => acc.pir[v] = {} /\ acc.sent = {}

-----------------------------------------------------------------------------
(***************************************************************************)
(* The VMCB (svm.rs): fields at fixed offsets of one page, written one by  *)
(* one while a guest is prepared and run.  A field is modelled by the      *)
(* bytes it covers; of a page only the first and last bytes of the fields  *)
(* are kept, which is where an overlap would show.                         *)
(***************************************************************************)
CONSTANT MaxWrites

VARIABLE vmcb

\* The control area and the state-save area: offset and length in bytes.
control ==
  [INTERCEPT_EXCEPTIONS |-> <<8, 4>>, INTERCEPT_MISC1 |-> <<12, 4>>, INTERCEPT_MISC2 |-> <<16, 4>>,
   IOPM_BASE_PA |-> <<64, 8>>, MSRPM_BASE_PA |-> <<72, 8>>, TSC_OFFSET |-> <<80, 8>>, GUEST_ASID |-> <<88, 4>>,
   TLB_CONTROL |-> <<92, 1>>, INT_CONTROL |-> <<96, 8>>, NESTED_CTL |-> <<144, 8>>, EVENT_INJ |-> <<168, 8>>,
   NESTED_CR3 |-> <<176, 8>>, AVIC_BACKING_PAGE_PTR |-> <<240, 8>>, AVIC_LOGICAL_ID_TABLE_PTR |-> <<248, 8>>,
   AVIC_PHYSICAL_ID_TABLE_PTR |-> <<256, 8>>]
save ==
  [LDTR |-> 1136, TR |-> 1168, EFER |-> <<1232, 8>>, RFLAGS |-> <<1392, 8>>, RIP |-> <<1400, 8>>, RSP |-> <<1496, 8>>,
   RAX |-> <<1528, 8>>, CR2 |-> <<1600, 8>>]

\* A write of a field: a value replaced, or flags added to those it holds.
Put(f, v) == [field |-> f, add |-> FALSE, v |-> {v}]
Or(f, v) == [field |-> f, add |-> TRUE, v |-> {v}]

\* What both kinds of guest are programmed with, before the segments.
program_minimal_hlt_guest ==
  <<Put(control.INTERCEPT_MISC1, "HLT SHUTDOWN CPUID"), Put(control.INTERCEPT_MISC2, "VMRUN"),
    Put(control.GUEST_ASID, "asid"), Put(control.TLB_CONTROL, "FLUSH_ALL"), Put(control.NESTED_CTL, "NP_ENABLE"),
    Put(control.NESTED_CR3, "root"), Put(save.EFER, "SVME"), Put(save.RFLAGS, "one"), Put(save.RIP, "entry"),
    Put(save.RSP, "stack")>>
enable_io_intercept == <<Or(control.INTERCEPT_MISC1, "IOIO_PROT"), Put(control.IOPM_BASE_PA, "iopm")>>
enable_msr_intercept == <<Or(control.INTERCEPT_MISC1, "MSR_PROT"), Put(control.MSRPM_BASE_PA, "msrpm")>>
set_intr_intercept == <<Or(control.INTERCEPT_MISC1, "INTR")>>
set_rdtsc_intercept == <<Or(control.INTERCEPT_MISC1, "RDTSC")>>
intercept_vmmcall == <<Or(control.INTERCEPT_MISC2, "VMMCALL")>>
\* Vectors above 31 are ignored.
set_exception_intercept(v) == IF v < 32 THEN <<Or(control.INTERCEPT_EXCEPTIONS, ToString(v))>> ELSE <<>>
request_tlb_flush == <<Put(control.TLB_CONTROL, "FLUSH_ALL")>>
set_tsc_offset == <<Put(control.TSC_OFFSET, "offset")>>
set_event_inj == <<Put(control.EVENT_INJ, "event")>>
set_int_control == <<Put(control.INT_CONTROL, "vintr")>>
write_save_u64(f) == <<Put(f, "value")>>
write_segment(at) ==
  <<Put(<<at, 2>>, "selector"), Put(<<at + 2, 2>>, "attrib"), Put(<<at + 4, 4>>, "limit"), Put(<<at + 8, 8>>, "base")>>
program_guest_ldtr_tr == write_segment(save.LDTR) \o write_segment(save.TR)
\* arm_avic: nothing is written unless the three pages are aligned.
arm_avic(aligned) ==
  IF ~aligned THEN <<>>
  ELSE <<Put(control.AVIC_BACKING_PAGE_PTR, "backing"), Put(control.AVIC_LOGICAL_ID_TABLE_PTR, "logical"),
         Put(control.AVIC_PHYSICAL_ID_TABLE_PTR, "physical"), Or(control.INT_CONTROL, "AVIC_ENABLE")>>
Writes ==
  {program_minimal_hlt_guest, enable_io_intercept, enable_msr_intercept, set_intr_intercept, set_rdtsc_intercept,
   intercept_vmmcall, request_tlb_flush, set_tsc_offset, set_event_inj, set_int_control, program_guest_ldtr_tr}
    \cup {set_exception_intercept(v) : v \in {6, 31, 32}} \cup {arm_avic(a) : a \in BOOLEAN}
    \cup {write_save_u64(f) : f \in {save.RIP, save.RSP, save.RAX, save.CR2, save.RFLAGS, save.EFER}}

Fields == UNION {{w[i].field : i \in DOMAIN w} : w \in Writes}
Covers(f) == f[1] .. f[1] + f[2] - 1
Points == UNION {{f[1], f[1] + f[2] - 1} : f \in Fields}

\* get_u32, put_u32 and their like: a field reads as zero, as it was last written, or as
\* bytes of two writes.
get(page, f) ==
  LET first == page[f[1]]
  IN IF page[f[1] + f[2] - 1] = first /\ first.field \in {f, <<0, 0>>} THEN first.v ELSE {"torn"}
put(page, f, v) == [x \in Points |-> IF x \in Covers(f) THEN [field |-> f, v |-> v] ELSE page[x]]
Do(page, w) == put(page, w.field, IF w.add THEN get(page, w.field) \cup w.v ELSE w.v)

\* held, what every field was given, is history.
VmcbInit ==
  vmcb = [page |-> [x \in Points |-> [field |-> <<0, 0>>, v |-> {}]], held |-> [f \in Fields |-> {}], n |-> 0]

VmcbNext ==
  /\ vmcb.n < MaxWrites
  /\ \E ws \in Writes :
       vmcb' = FoldLeft(LAMBDA d, w : [page |-> Do(d.page, w), n |-> d.n,
                              held |-> [d.held EXCEPT ![w.field] = IF w.add THEN @ \cup w.v ELSE w.v]],
                            [vmcb EXCEPT !.n = @ + 1], ws)

\* Every field of the control block reads back as what was put into it, flag by flag and
\* in any order of the calls: no write reaches into a neighbour, and an intercept once armed
\* stays armed while others are added.
VmcbReadsBack == \A f \in Fields : get(vmcb.page, f) = vmcb.held[f]

-----------------------------------------------------------------------------
(***************************************************************************)
(* The permission maps (svm.rs, region.rs): one bit per port, two bits per *)
(* MSR in three ranges of MsrRange MSRs, whose bits take RangeBytes bytes     *)
(* each.  A bit is <<byte, bit of the byte>>.                              *)
(***************************************************************************)
CONSTANTS
  Ports, IOPM_SIZE,     \* ports and the bytes of their map
  Msrs, MsrRange, Bases,   \* MSR numbers; the size of a range and where the three begin
  MSRPM_SIZE

VARIABLE maps

RangeBytes == (2 * MsrRange) \div 8

iopm_bit(port) == <<port \div 8, port % 8>>
\* A port outside the map is left alone, and never intercepted.
set_iopm_intercept(m, port) == IF iopm_bit(port)[1] < IOPM_SIZE THEN m \cup {iopm_bit(port)} ELSE m
iopm_intercepts(m, port) == iopm_bit(port) \in m
intercept_all == {<<b, i>> : b \in 0 .. IOPM_SIZE - 1, i \in 0 .. 7}

\* The read bit of an MSR, or none.
msrpm_read_bit(msr) ==
  {(r - 1) * RangeBytes * 8 + (msr - Bases[r]) * 2 : r \in {q \in 1 .. 3 : msr \in Bases[q] .. Bases[q] + MsrRange - 1}}
set_msr_intercept(m, msr, read, write) ==
  m \cup UNION {{<<b \div 8, b % 8>> : x \in {y \in {1} : read}} \cup {<<b \div 8, (b + 1) % 8>> : x \in {y \in {1} : write}} :
                  b \in {c \in msrpm_read_bit(msr) : c \div 8 < MSRPM_SIZE}}
msr_read_intercepted(m, msr) == \E b \in msrpm_read_bit(msr) : <<b \div 8, b % 8>> \in m

\* asked, reads and writes are what was requested.
MapsInit == maps = [io |-> {}, msr |-> {}, asked |-> {}, reads |-> {}, writes |-> {}]
MapsNext ==
  \/ \E p \in Ports : maps' = [maps EXCEPT !.io = set_iopm_intercept(@, p), !.asked = @ \cup {p}]
  \/ maps' = [maps EXCEPT !.io = intercept_all, !.asked = Ports]
  \/ \E m \in Msrs, r, w \in BOOLEAN :
       maps' = [maps EXCEPT !.msr = set_msr_intercept(@, m, r, w), !.reads = IF r THEN @ \cup {m} ELSE @,
                            !.writes = IF w THEN @ \cup {m} ELSE @]

InRange(m) == msrpm_read_bit(m) # {}
\* Exactly what was asked for is intercepted: no port's or MSR's bit is another's, a write
\* bit is never read as a read bit, and the bits of all the MSRs lie inside the map.
MapsExact ==
  /\ \A p \in Ports : iopm_intercepts(maps.io, p) <=> p \in maps.asked
  /\ \A m \in Msrs : msr_read_intercepted(maps.msr, m) <=> m \in maps.reads /\ InRange(m)
  /\ Cardinality(maps.msr) = Cardinality({m \in maps.reads : InRange(m)}) + Cardinality({m \in maps.writes : InRange(m)})
  /\ \A x \in maps.msr : x[1] < MSRPM_SIZE

-----------------------------------------------------------------------------
(***************************************************************************)
(* What an exit says (svm.rs, vmx.rs) and which controls a guest gets      *)
(* (vmx.rs, apicv.rs).  A raw value is the set of its bits, beside its     *)
(* port; the bits the processors set (SvmIo, VmxIo, SvmFault, VmxFault)    *)
(* are external.                                                           *)
(***************************************************************************)
VARIABLE ex

Instructions == [in : BOOLEAN, string : BOOLEAN, rep : BOOLEAN, size : {1, 2, 4}, port : {0, 96}, rax : {<<1, 2, 3, 4>>}]
Bits(b, cond) == {x \in {b} : cond}
SvmIo(i) == Bits(0, i.in) \cup Bits(2, i.string) \cup Bits(3, i.rep) \cup
            {CASE i.size = 1 -> 4 [] i.size = 2 -> 5 [] i.size = 4 -> 6}
VmxIo(i) == Bits(3, i.in) \cup Bits(4, i.string) \cup Bits(5, i.rep) \cup
            (CASE i.size = 1 -> {} [] i.size = 2 -> {0} [] i.size = 4 -> {0, 1})

\* IoioExitInfo and IoExitQualification.
ioio_size(raw) == IF 4 \in raw THEN 1 ELSE IF 5 \in raw THEN 2 ELSE 4
qualification_size(raw) == CASE raw \cap 0 .. 2 = {} -> 1 [] raw \cap 0 .. 2 = {0} -> 2 [] OTHER -> 4
\* A register's bytes, lowest first; string instructions are not decoded.
Masked(rax, size) == SubSeq(rax, 1, size)
ioio_to_vmexit(raw, port, rax) ==
  IF 2 \in raw THEN <<"none">>
  ELSE IF 0 \in raw THEN <<"IoIn", port, ioio_size(raw)>>
  ELSE <<"IoOut", port, ioio_size(raw), Masked(rax, ioio_size(raw))>>
io_exit_to_vmexit(raw, port, rax) ==
  IF 4 \in raw THEN <<"none">>
  ELSE IF 3 \in raw THEN <<"IoIn", port, qualification_size(raw)>>
  ELSE <<"IoOut", port, qualification_size(raw), Masked(rax, qualification_size(raw))>>

\* A nested-page fault: what was tried, what the page allows, whether a walk found it.
Faults == [write : BOOLEAN, fetch : BOOLEAN, allows : SUBSET {"r", "w", "x"}]
SvmFault(f) == Bits(0, f.allows # {}) \cup Bits(1, f.write) \cup Bits(4, f.fetch)
VmxFault(f) == Bits(0, ~f.write /\ ~f.fetch) \cup Bits(1, f.write) \cup Bits(2, f.fetch) \cup Bits(3, "r" \in f.allows)
               \cup Bits(4, "w" \in f.allows) \cup Bits(5, "x" \in f.allows)
NptFaultInfo(raw) == [present |-> 0 \in raw, write |-> 1 \in raw, fetch |-> 4 \in raw]
EptViolationQualification(raw) ==
  [present |-> raw \cap 3 .. 5 # {}, write |-> 1 \in raw, fetch |-> 2 \in raw]

\* Exit codes, of which -1 is VMEXIT_INVALID.
exit_code == [INTR |-> 96, CPUID |-> 114, RDTSC |-> 110, HLT |-> 120, IOIO |-> 123, MSR |-> 124, SHUTDOWN |-> 127,
              VMMCALL |-> 129, NPF |-> 1024, INVALID |-> -1]
classify_run_loop_exit(code) ==
  CASE code = exit_code.INVALID -> "Invalid"
    [] code \in 64 .. 95 -> "Exception"
    [] code = exit_code.HLT -> "Halted"
    [] code = exit_code.SHUTDOWN -> "ShutDown"
    [] code = exit_code.CPUID -> "Cpuid"
    [] code = exit_code.IOIO -> "Io"
    [] code = exit_code.MSR -> "Msr"
    [] code = exit_code.RDTSC -> "Rdtsc"
    [] code = exit_code.NPF -> "Npf"
    [] code = exit_code.VMMCALL -> "Vmmcall"
    [] code = exit_code.INTR -> "Intr"
    [] OTHER -> "Unhandled"
simple_svm_exit_to_vmexit(code) ==
  IF code = exit_code.HLT THEN "Halted" ELSE IF code = exit_code.SHUTDOWN THEN "ShutDown" ELSE "none"
\* VMX exit reasons 12 and 2, unless the entry failed.
simple_exit_to_vmexit(reason, failed) ==
  IF failed THEN "none" ELSE IF reason = 12 THEN "Halted" ELSE IF reason = 2 THEN "ShutDown" ELSE "none"

\* VmxControlCaps: bits that must be one and bits that may be.
adjust(caps, desired) == (desired \cup caps.required) \cap caps.allowed
secondary_bits(x2apic) ==
  {"APIC_REGISTER_VIRTUALIZATION", "VIRTUAL_INTERRUPT_DELIVERY",
   IF x2apic THEN "VIRTUALIZE_X2APIC_MODE" ELSE "VIRTUALIZE_APIC_ACCESSES"}
\* ApicvCaps::apicv is satisfied by either of its two bits.
may_be_one(caps, bits) == bits \cap caps.allowed # {}
check_against(posted, x2apic, pin, proc) ==
  /\ posted => may_be_one(pin, {"PROCESS_POSTED_INTERRUPTS"})
  /\ may_be_one(proc, {"APIC_REGISTER_VIRTUALIZATION", "VIRTUAL_INTERRUPT_DELIVERY"})
  /\ may_be_one(proc, {IF x2apic THEN "VIRTUALIZE_X2APIC_MODE" ELSE "VIRTUALIZE_APIC_ACCESSES"})

ProcBits == {"APIC_REGISTER_VIRTUALIZATION", "VIRTUAL_INTERRUPT_DELIVERY", "VIRTUALIZE_X2APIC_MODE",
             "VIRTUALIZE_APIC_ACCESSES"}
Capabilities(bits) == {c \in [required : SUBSET bits, allowed : SUBSET bits] : c.required \subseteq c.allowed}

ExitInit == ex = <<"start">>
ExitNext ==
  /\ ex = <<"start">>
  /\ \/ \E i \in Instructions :
          ex' = <<"io", i, ioio_to_vmexit(SvmIo(i), i.port, i.rax), io_exit_to_vmexit(VmxIo(i), i.port, i.rax)>>
     \/ \E f \in Faults : ex' = <<"fault", f, NptFaultInfo(SvmFault(f)), EptViolationQualification(VmxFault(f))>>
     \/ \E c \in {-1, 2, 17, 63, 64, 95, 96, 97, 110, 114, 120, 123, 124, 127, 128, 129, 1024} :
          ex' = <<"code", c, classify_run_loop_exit(c), simple_svm_exit_to_vmexit(c)>>
     \/ \E r \in {2, 12, 30}, f \in BOOLEAN : ex' = <<"reason", r, f, simple_exit_to_vmexit(r, f)>>
     \/ \E proc \in Capabilities(ProcBits), pin \in Capabilities({"PROCESS_POSTED_INTERRUPTS"}), p, x \in BOOLEAN :
          ex' = <<"controls", check_against(p, x, pin, proc), secondary_bits(x), adjust(proc, secondary_bits(x)), proc,
                  p /\ "PROCESS_POSTED_INTERRUPTS" \notin adjust(pin, {"PROCESS_POSTED_INTERRUPTS"})>>

\* The two vendors' exits are decoded to the same event, the instruction the guest ran or
\* the access that faulted; a failed entry is never taken for a halt; every control that
\* must be one is, none that may not be is, and a configuration that was checked first loses
\* nothing to that, except one of the two APIC bits of which the check asks for either.
ExitsAgree ==
  CASE ex[1] = "io" -> /\ ex[3] = ex[4]
                       /\ ex[3] = IF ex[2].string THEN <<"none">>
                                  ELSE IF ex[2].in THEN <<"IoIn", ex[2].port, ex[2].size>>
                                  ELSE <<"IoOut", ex[2].port, ex[2].size, SubSeq(ex[2].rax, 1, ex[2].size)>>
    [] ex[1] = "fault" -> /\ ex[3] = ex[4]
                          /\ ex[3] = [present |-> ex[2].allows # {}, write |-> ex[2].write, fetch |-> ex[2].fetch]
    [] ex[1] = "code" -> ex[4] = IF ex[3] \in {"Halted", "ShutDown"} THEN ex[3] ELSE "none"
    [] ex[1] = "reason" -> ex[3] => ex[4] = "none"
    [] ex[1] = "controls" ->
         /\ ex[5].required \subseteq ex[4] /\ ex[4] \subseteq ex[5].allowed
         /\ ex[2] => /\ ~ex[6]
                     /\ Cardinality(ex[3] \ ex[4]) <= 1
                     /\ ex[3] \ ex[4] \subseteq {"APIC_REGISTER_VIRTUALIZATION", "VIRTUAL_INTERRUPT_DELIVERY"}
    [] OTHER -> TRUE

-----------------------------------------------------------------------------
(***************************************************************************)
(* Second-stage tables of the IOMMU (vtd.rs): an identity map of the first *)
(* bytes of memory, built at once into a zeroed buffer.  Memory is counted *)
(* in 4 KiB pages and a table has E entries, so a large leaf is E pages;   *)
(* an entry is the table or the frame it names, or Nothing.                *)
(***************************************************************************)
CONSTANTS
  E,         \* entries of a table
  MapSizes,  \* pages to map
  Widths,    \* bits CAP.SAGAW may have
  Buffers    \* tables the buffer has room for

VARIABLE sl

Nothing == [kind |-> "none", to |-> 0]
div_ceil(a, b) == (a + b - 1) \div b

\* CAP.SAGAW bits, widest first, as the levels they stand for.
choose_address_width(sagaw) == IF sagaw = {} THEN 0 ELSE Max(sagaw) + 2

table_levels(levels, large) == IF large THEN levels - 1 ELSE levels
leaf_size(large) == IF large THEN E ELSE 1
\* Tables per level, root first; no root of one table means the map is too large.
table_counts(n, levels, large) ==
  LET depth == table_levels(levels, large)
      count[k \in 1 .. depth] == IF k = depth THEN div_ceil(div_ceil(n, leaf_size(large)), E) ELSE div_ceil(count[k + 1], E)
  IN IF n = 0 \/ levels \notin 2 .. 6 THEN <<>>
     ELSE IF count[1] # 1 THEN <<>> ELSE [k \in 1 .. depth |-> count[k]]
Sum(counts, k) == FoldLeft(+, 0, SubSeq(counts, 1, k))
second_stage_table_count(n, levels, large) == Sum(table_counts(n, levels, large), Len(table_counts(n, levels, large)))

\* Table t of level k, counting both from 0 and from 1, is page page_base + t of the buffer.
build_second_stage_identity(room, n, levels, large) ==
  LET counts == table_counts(n, levels, large)
      depth == Len(counts)
      base == [k \in 1 .. depth |-> Sum(counts, k - 1)]
      nleaf == div_ceil(n, leaf_size(large))
      Level(page) == CHOOSE k \in 1 .. depth : page \in base[k] .. base[k] + counts[k] - 1
      Entry(k, child) ==
        IF k = depth THEN IF child < nleaf THEN [kind |-> "leaf", to |-> child * leaf_size(large)] ELSE Nothing
        ELSE IF child < counts[k + 1] THEN [kind |-> "table", to |-> base[k + 1] + child] ELSE Nothing
  IN IF counts = <<>> \/ room < Sum(counts, depth) THEN <<>>
     ELSE [p \in 1 .. room |-> [e \in 0 .. E - 1 |->
             IF p > Sum(counts, depth) THEN Nothing
             ELSE Entry(Level(p - 1), (p - 1 - base[Level(p - 1)]) * E + e)]]

SlInit == sl = <<"start">>
SlNext ==
  /\ sl = <<"start">>
  /\ \E n \in MapSizes, sagaw \in SUBSET Widths, large \in BOOLEAN, room \in Buffers :
       LET levels == choose_address_width(sagaw)
       IN sl' = <<"built", n, levels, large, room, build_second_stage_identity(room, n, levels, large), sagaw>>

\* What the IOMMU finds (external): from the root, one digit of the address per level, the
\* highest first; 'large' leaves end the walk a level early.
Digit(page, k) == (page \div E^(k - 1)) % E
RECURSIVE Walk(_, _, _, _)
Walk(t, table, k, page) ==
  LET e == t[table + 1][Digit(page, k)]
  IN CASE e.kind = "none" -> -1
       [] e.kind = "table" -> IF k = 1 THEN -1 ELSE Walk(t, e.to, k - 1, page)
       [] e.kind = "leaf" -> e.to + (page % E^(k - 1))

\* The built tables map every page asked for to itself and nothing a whole leaf beyond, no
\* table is entered from two places or lies outside the buffer, and a buffer is refused
\* only if the tables do not fit or the map is beyond the widest address width there is.
SecondStageExact ==
  sl[1] = "built" =>
    LET n == sl[2]
        levels == sl[3]
        size == leaf_size(sl[4])
        t == sl[6]
        reach == E^levels
        mapped == div_ceil(n, size) * size
        links == {x \in (DOMAIN t) \X (0 .. E - 1) : t[x[1]][x[2]].kind = "table"}
    IN IF t = <<>> THEN n = 0 \/ sl[7] = {} \/ n > reach \/ sl[5] < second_stage_table_count(n, levels, sl[4])
       ELSE /\ \A w \in sl[7] : w + 2 <= levels
            /\ \A p \in 0 .. reach - 1 : Walk(t, 0, levels, p) = IF p < mapped THEN p ELSE -1
            /\ \A x, y \in links : x # y => t[x[1]][x[2]].to # t[y[1]][y[2]].to
            /\ \A x \in links : t[x[1]][x[2]].to + 1 \in DOMAIN t

=============================================================================
